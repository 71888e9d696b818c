------------------------- MODULE StatsServerProofs -------------------------
(***************************************************************************)
(* Proofs about StatsServer, for any number of connections, nodes and      *)
(* hellos.                                                                 *)
(***************************************************************************)
EXTENDS StatsServer, SequenceTheorems, TLAPS

\* What a returning Join still has deferred after running a deferred call.
LEMMA Undeferring ==
    ASSUME NEW S, NEW s \in Seq(S), s # <<>>
    PROVE  /\ SubSeq(s, 1, Len(s) - 1) \in Seq(S)
           /\ Len(SubSeq(s, 1, Len(s) - 1)) = Len(s) - 1
           /\ \A i \in 1..(Len(s) - 1) : SubSeq(s, 1, Len(s) - 1)[i] = s[i]
           /\ Len(s) \in Nat \ {0} /\ s[Len(s)] \in S
<1>1. Len(s) \in Nat \ {0}
  BY EmptySeq
<1>2. \A i \in 1..Len(s) : s[i] \in S
  BY ElementOfSeq
<1> DEFINE n == Len(s) - 1
<1>3. n \in Nat /\ \A i \in 1..n : s[i] \in S
  BY <1>1, <1>2
<1> HIDE DEF n
<1>4. /\ SubSeq(s, 1, n) \in Seq(S)
      /\ Len(SubSeq(s, 1, n)) = IF 1 <= n THEN n - 1 + 1 ELSE 0
      /\ \A i \in 1..(n - 1 + 1) : SubSeq(s, 1, n)[i] = s[1 + i - 1]
  BY <1>3, SubSeqProperties
<1>5. /\ Len(SubSeq(s, 1, n)) = n
      /\ \A i \in 1..n : SubSeq(s, 1, n)[i] = s[i]
  BY <1>3, <1>4
<1> QED
  BY <1>1, <1>2, <1>4, <1>5 DEF n

(***************************************************************************)
(* Every listed node has an owner                                          *)
(***************************************************************************)
StatsInv == StatsTypeOK /\ NoLeakedNodes

LEMMA StatsInit == Init => StatsInv
  BY StatsAssumption DEF Init, StatsInv, StatsTypeOK, NoLeakedNodes, Listed

\* A received payload is a payload, and names a node the connection speaks for
\* if the one before it did.
LEMMA Received ==
    ASSUME StatsTypeOK, NEW c \in Conns, Receive(c)
    PROVE  /\ payload' \in [Conns -> Payloads \cup {None}]
           /\ conn[c] = "open"
           /\ HasPayload(c) => payload'[c] \in Payloads
           /\ payload'[c] = payload[c] \/ payload'[c].id \in Uses[c]
           /\ \A d \in Conns \ {c} : payload'[d] = payload[d]
  BY DEF StatsTypeOK, Receive, HasPayload

LEMMA StatsNext == StatsInv /\ [Next]_vars => StatsInv'
<1> SUFFICES ASSUME StatsInv, [Next]_vars PROVE StatsInv'
  OBVIOUS
<1> USE StatsAssumption DEF StatsInv
<1>1. ASSUME NEW c \in Conns, Connect(c) PROVE StatsInv'
  BY <1>1 DEF Connect, StatsTypeOK, NoLeakedNodes, Listed, Owes
<1>2. ASSUME NEW c \in Conns, Hello(c) PROVE StatsInv'
  <2> DEFINE id == payload'[c].id
             new == NewNode(Content(payload'[c], "hello"))
  <2>1. /\ payload' \in [Conns -> Payloads \cup {None}]
        /\ payload'[c] \in Payloads
        /\ conn[c] = "open"
    BY <1>2, Received DEF Hello
  <2>2. id \in Ids /\ new \in Node
    BY <2>1 DEF Payloads, NewNode, Node, Content
  <2>3. /\ nodes' = [nodes EXCEPT ![id] = new]
        /\ deferred' = [deferred EXCEPT ![c] = Append(@, id)]
        /\ conn' = conn
    BY <1>2 DEF Hello, CollectAuth, DeferDisconnect
  <2> HIDE DEF id, new
  <2>4. /\ Append(deferred[c], id) \in Seq(Ids)
        /\ Len(Append(deferred[c], id)) = Len(deferred[c]) + 1
        /\ \A i \in 1..Len(deferred[c]) :
              Append(deferred[c], id)[i] = deferred[c][i]
        /\ Append(deferred[c], id)[Len(deferred[c]) + 1] = id
        /\ Len(deferred[c]) \in Nat
    BY <2>2, AppendProperties, LenProperties DEF StatsTypeOK
  <2>5. StatsTypeOK'
    BY <2>1, <2>2, <2>3, <2>4 DEF StatsTypeOK
  <2>6. NoLeakedNodes'
    <3> SUFFICES ASSUME NEW n \in Listed' PROVE \E d \in Conns : Owes(d, n)'
      BY DEF NoLeakedNodes
    <3>1. CASE n = id
      BY <2>3, <2>4, <3>1 DEF Owes, StatsTypeOK
    <3>2. CASE n # id
      <4>1. n \in Listed
        BY <2>2, <2>3, <3>2 DEF Listed, StatsTypeOK
      <4>2. PICK d \in Conns : Owes(d, n)
        BY <4>1 DEF NoLeakedNodes
      <4>3. CASE d = c
        BY <2>3, <2>4, <4>2, <4>3 DEF Owes, StatsTypeOK
      <4>4. CASE d # c
        BY <2>3, <4>2, <4>4 DEF Owes, StatsTypeOK
      <4> QED
        BY <4>3, <4>4
    <3> QED
      BY <3>1, <3>2
  <2> QED
    BY <2>5, <2>6
<1>3. ASSUME NEW c \in Conns, Ping(c) PROVE StatsInv'
  BY <1>3, Received DEF Ping, StatsTypeOK, NoLeakedNodes, Listed, Owes
<1>4. ASSUME NEW c \in Conns, NEW topic \in Topics, Report(c, topic)
      PROVE  StatsInv'
  BY <1>4, Received
  DEF Report, CollectReport, StatsTypeOK, NoLeakedNodes, Listed, Owes
<1>5. ASSUME NEW c \in Conns, Unauthorized(c) PROVE StatsInv'
  BY <1>5, Received DEF Unauthorized, StatsTypeOK, NoLeakedNodes, Listed, Owes
<1>6. ASSUME NEW c \in Conns, Fails(c) PROVE StatsInv'
  BY <1>6 DEF Fails, StatsTypeOK, NoLeakedNodes, Listed, Owes
<1>7. ASSUME NEW c \in Conns, RunDeferred(c) PROVE StatsInv'
  <2> DEFINE last == deferred[c][Len(deferred[c])]
             rest == SubSeq(deferred[c], 1, Len(deferred[c]) - 1)
  <2>1. /\ nodes' = [nodes EXCEPT ![last] = None]
        /\ deferred' = [deferred EXCEPT ![c] = rest]
        /\ UNCHANGED <<conn, payload>>
        /\ conn[c] = "returning"
    BY <1>7 DEF RunDeferred, CollectDisconnect
  <2>2. /\ rest \in Seq(Ids)
        /\ Len(rest) = Len(deferred[c]) - 1
        /\ \A i \in 1..(Len(deferred[c]) - 1) : rest[i] = deferred[c][i]
        /\ Len(deferred[c]) \in Nat \ {0}
        /\ last \in Ids
    BY <1>7, Undeferring DEF RunDeferred, StatsTypeOK
  <2>3. last = deferred[c][Len(deferred[c])]
    OBVIOUS
  <2> HIDE DEF last, rest
  <2>4. StatsTypeOK'
    BY <2>1, <2>2 DEF StatsTypeOK
  <2>5. NoLeakedNodes'
    <3> SUFFICES ASSUME NEW n \in Listed' PROVE \E d \in Conns : Owes(d, n)'
      BY DEF NoLeakedNodes
    <3>1. n \in Listed /\ n # last
      BY <2>1, <2>2 DEF Listed, StatsTypeOK
    <3>2. PICK d \in Conns : Owes(d, n)
      BY <3>1 DEF NoLeakedNodes
    <3>3. CASE d = c
      <4>1. PICK i \in 1..Len(deferred[c]) : deferred[c][i] = n
        BY <3>2, <3>3 DEF Owes
      <4>2. i \in 1..(Len(deferred[c]) - 1)
        BY <2>2, <2>3, <3>1, <4>1
      <4>3. deferred'[c] = rest /\ i \in 1..Len(rest) /\ rest[i] = n
        BY <2>1, <2>2, <4>1, <4>2 DEF StatsTypeOK
      <4> QED
        BY <4>3 DEF Owes
    <3>4. CASE d # c
      BY <2>1, <3>2, <3>4 DEF Owes, StatsTypeOK
    <3> QED
      BY <3>3, <3>4
  <2> QED
    BY <2>4, <2>5
<1>8. ASSUME NEW c \in Conns, Close(c) PROVE StatsInv'
  BY <1>8 DEF Close, StatsTypeOK, NoLeakedNodes, Listed, Owes
<1>9. CASE UNCHANGED vars
  BY <1>9 DEF vars, StatsTypeOK, NoLeakedNodes, Listed, Owes
<1> QED
  BY <1>1, <1>2, <1>3, <1>4, <1>5, <1>6, <1>7, <1>8, <1>9 DEF Next, Returning

\* Every variable of collector and Join keeps its type; in particular a connection
\* that is closed has run all its deferred reports.
THEOREM StatsTypeCorrect == Spec => []StatsTypeOK
<1>1. StatsInv => StatsTypeOK
  BY DEF StatsInv
<1> QED
  BY StatsInit, StatsNext, <1>1, PTL DEF Spec

\* No entry of collector.nodes outlives the connections that listed it: Join
\* defers a DisconnectReport for every hello it accepts.
THEOREM NothingLeaks == Spec => []NoLeakedNodes
<1>1. StatsInv => NoLeakedNodes
  BY DEF StatsInv
<1> QED
  BY StatsInit, StatsNext, <1>1, PTL DEF Spec

(***************************************************************************)
(* A node with one connection is not disturbed by the others               *)
(***************************************************************************)
\* A connection only holds and only owes what it speaks for.
Speaks ==
    \A c \in Conns :
        /\ payload[c] # None => payload[c].id \in Uses[c]
        /\ \A i \in 1..Len(deferred[c]) : deferred[c][i] \in Uses[c]

LiveInv == StatsInv /\ Speaks /\ SoleNodesListed

LEMMA LiveInit == Init => LiveInv
  BY StatsInit, StatsAssumption
  DEF Init, LiveInv, Speaks, SoleNodesListed, LiveFor, Owes

LEMMA LiveNext == LiveInv /\ [Next]_vars => LiveInv'
<1> SUFFICES ASSUME LiveInv, [Next]_vars PROVE Speaks' /\ SoleNodesListed'
  BY StatsNext DEF LiveInv
<1> USE StatsAssumption
<1>1. StatsTypeOK /\ StatsTypeOK'
  BY StatsNext DEF LiveInv, StatsInv
<1> USE <1>1
<1>2. ASSUME NEW c \in Conns, Receive(c), UNCHANGED <<nodes, deferred>>,
             \A d \in Conns : conn'[d] = "open" => conn[d] = "open"
      PROVE  Speaks' /\ SoleNodesListed'
  <2>1. Speaks'
    BY <1>2, Received DEF LiveInv, Speaks
  <2> QED
    BY <1>2, <2>1 DEF LiveInv, SoleNodesListed, LiveFor, Owes, Listed
<1>3. ASSUME NEW c \in Conns, Connect(c) PROVE Speaks' /\ SoleNodesListed'
  <2>1. deferred[c] = <<>> /\ Len(deferred[c]) = 0
    BY <1>3, EmptySeq DEF Connect, StatsTypeOK
  <2>2. \A d \in Conns \ {c} : conn'[d] = conn[d]
    BY <1>3 DEF Connect, StatsTypeOK
  <2> QED
    BY <1>3, <2>1, <2>2
    DEF Connect, LiveInv, Speaks, SoleNodesListed, LiveFor, Owes, Listed
<1>4. ASSUME NEW c \in Conns, Hello(c) PROVE Speaks' /\ SoleNodesListed'
  <2> DEFINE id == payload'[c].id
             new == NewNode(Content(payload'[c], "hello"))
  <2>1. /\ payload'[c] \in Payloads
        /\ payload'[c] = payload[c] \/ id \in Uses[c]
        /\ \A d \in Conns \ {c} : payload'[d] = payload[d]
        /\ payload'[c] # None
    BY <1>4, Received DEF Hello, HasPayload
  <2>2. id \in Ids /\ id \in Uses[c] /\ new # None
    <3>1. id \in Ids /\ new \in Node
      BY <2>1 DEF Payloads, NewNode, Node, Content
    <3> QED
      BY <2>1, <3>1, NoneAssumption DEF LiveInv, Speaks
  <2>3. /\ nodes' = [nodes EXCEPT ![id] = new]
        /\ deferred' = [deferred EXCEPT ![c] = Append(@, id)]
        /\ conn' = conn
    BY <1>4 DEF Hello, CollectAuth, DeferDisconnect
  <2> HIDE DEF id, new
  <2>4. /\ Len(Append(deferred[c], id)) = Len(deferred[c]) + 1
        /\ \A i \in 1..Len(deferred[c]) :
              Append(deferred[c], id)[i] = deferred[c][i]
        /\ Append(deferred[c], id)[Len(deferred[c]) + 1] = id
        /\ Len(deferred[c]) \in Nat
    BY <2>2, AppendProperties, LenProperties DEF StatsTypeOK
  <2>5. /\ \A d \in Conns \ {c} : deferred'[d] = deferred[d]
        /\ \A i \in 1..Len(deferred'[c]) :
              deferred'[c][i] = id \/ (i \in 1..Len(deferred[c])
                                      /\ deferred'[c][i] = deferred[c][i])
    BY <2>3, <2>4 DEF StatsTypeOK
  <2>6. /\ id \in Listed'
        /\ \A n \in Listed : n \in Listed'
    BY <2>2, <2>3 DEF Listed, StatsTypeOK
  <2>7. payload'[c].id = id
    BY DEF id
  <2>8. Speaks'
    BY <2>1, <2>2, <2>5, <2>7 DEF LiveInv, Speaks
  <2>9. ASSUME NEW d \in Conns, NEW n \in Ids, LiveFor(d, n)', Alone(d, n)
        PROVE n \in Listed'
    <3>1. CASE n = id
      BY <2>6, <3>1
    <3>2. CASE n # id
      <4>1. LiveFor(d, n)
        BY <2>3, <2>5, <2>9, <3>2 DEF LiveFor, Owes
      <4> QED
        BY <2>6, <2>9, <4>1 DEF LiveInv, SoleNodesListed
    <3> QED
      BY <3>1, <3>2
  <2> QED
    BY <2>8, <2>9 DEF SoleNodesListed
<1>5. ASSUME NEW c \in Conns, Fails(c) PROVE Speaks' /\ SoleNodesListed'
  <2>1. \A d \in Conns : conn'[d] = "open" => conn[d] = "open"
    BY <1>5 DEF Fails, StatsTypeOK
  <2> QED
    BY <1>5, <2>1
    DEF Fails, LiveInv, Speaks, SoleNodesListed, LiveFor, Owes, Listed
<1>6. ASSUME NEW c \in Conns, RunDeferred(c) PROVE Speaks' /\ SoleNodesListed'
  <2> DEFINE last == deferred[c][Len(deferred[c])]
             rest == SubSeq(deferred[c], 1, Len(deferred[c]) - 1)
  <2>1. /\ nodes' = [nodes EXCEPT ![last] = None]
        /\ deferred' = [deferred EXCEPT ![c] = rest]
        /\ UNCHANGED <<conn, payload>>
        /\ conn[c] = "returning"
    BY <1>6 DEF RunDeferred, CollectDisconnect
  <2>2. /\ Len(rest) = Len(deferred[c]) - 1
        /\ \A i \in 1..(Len(deferred[c]) - 1) : rest[i] = deferred[c][i]
        /\ Len(deferred[c]) \in Nat \ {0}
    BY <1>6, Undeferring DEF RunDeferred, StatsTypeOK
  <2>3. last \in Uses[c]
    BY <2>2 DEF LiveInv, Speaks
  <2> HIDE DEF last, rest
  <2>4. /\ deferred'[c] = rest
        /\ \A d \in Conns \ {c} : deferred'[d] = deferred[d]
    BY <2>1 DEF StatsTypeOK
  <2>5. Speaks'
    BY <2>1, <2>2, <2>4 DEF LiveInv, Speaks
  <2>6. ASSUME NEW d \in Conns, NEW n \in Ids, LiveFor(d, n)', Alone(d, n)
        PROVE n \in Listed'
    <3>1. d # c /\ LiveFor(d, n)
      BY <2>1, <2>4, <2>6 DEF LiveFor, Owes
    <3>2. n \in Listed /\ n \in Uses[d]
      BY <2>6, <3>1 DEF LiveInv, SoleNodesListed, Speaks, LiveFor, Owes
    <3>3. n # last
      BY <2>3, <2>6, <3>1 DEF Alone
    <3> QED
      BY <2>1, <3>2, <3>3 DEF Listed, StatsTypeOK
  <2> QED
    BY <2>5, <2>6 DEF SoleNodesListed
<1>7. ASSUME NEW c \in Conns, Close(c) PROVE Speaks' /\ SoleNodesListed'
  <2>1. /\ \A d \in Conns : conn'[d] = "open" => conn[d] = "open"
        /\ payload'[c] = None
        /\ \A d \in Conns \ {c} : payload'[d] = payload[d]
    BY <1>7 DEF Close, StatsTypeOK
  <2> QED
    BY <1>7, <2>1
    DEF Close, LiveInv, Speaks, SoleNodesListed, LiveFor, Owes, Listed
<1>8. CASE UNCHANGED vars
  BY <1>8 DEF vars, LiveInv, Speaks, SoleNodesListed, LiveFor, Owes, Listed
<1>9. ASSUME NEW c \in Conns,
             \/ Ping(c) \/ Unauthorized(c)
             \/ \E topic \in Topics : Report(c, topic)
      PROVE  Speaks' /\ SoleNodesListed'
  <2>1. /\ Receive(c)
        /\ UNCHANGED <<nodes, deferred>>
        /\ conn' = conn \/ conn' = [conn EXCEPT ![c] = "returning"]
    BY <1>9 DEF Ping, Unauthorized, Report, CollectReport
  <2>2. \A d \in Conns : conn'[d] = "open" => conn[d] = "open"
    BY <2>1 DEF StatsTypeOK
  <2> QED
    BY <1>2, <2>1, <2>2
<1> QED
  BY <1>3, <1>4, <1>5, <1>6, <1>7, <1>8, <1>9 DEF Next, Returning

\* A node that only one connection speaks for stays listed until that connection
\* fails, whatever the other connections do: Collect never answers one of its
\* reports with ErrNodeNotAuthorized.
THEOREM SoleStayListed == Spec => []SoleNodesListed
<1>1. LiveInv => SoleNodesListed
  BY DEF LiveInv
<1> QED
  BY LiveInit, LiveNext, <1>1, PTL DEF Spec
=============================================================================
