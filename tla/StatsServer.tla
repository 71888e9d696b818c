----------------------------- MODULE StatsServer -----------------------------
(***************************************************************************)
(* The ethstats server (package statistics/stats).  Every node keeps a     *)
(* websocket open, served by its own goroutine running Join; what the      *)
(* nodes say of themselves is collected in one map, under one mutex.  A    *)
(* node that says hello is listed, and the goroutine defers the report     *)
(* that takes it off the list when the connection ends.                    *)
(*                                                                         *)
(* A call of Collect is atomic (it holds col.mu throughout).  Between two  *)
(* calls the goroutine only touches its own variables, so that a message   *)
(* is one step, and each deferred call at the end of Join is another.      *)
(***************************************************************************)
EXTENDS Naturals, Sequences

CONSTANTS
    Conns,      \* the connections
    Ids,        \* the node IDs
    Uses,       \* the IDs that a connection's messages name
    Values,     \* what a report says
    None,       \* no value, no node, no payload
    MaxHellos   \* how many hellos one connection sends (bounds its defers)

ASSUME StatsAssumption ==
    /\ Uses \in [Conns -> SUBSET Ids]
    /\ None \notin Values
    /\ MaxHellos \in Nat

VARIABLES
    nodes,      \* collector.nodes
    conn,       \* where each connection is: "closed", "open" or "returning"
    payload,    \* EmitMessage.Payload, which the messages of a Join share
    deferred    \* the disconnect reports a Join has deferred, oldest first

vars == <<nodes, conn, payload, deferred>>

\* The topics that Collect files a value under.
Topics == {"latency", "block", "pending", "stats"}

\* A payload: the ID it names, the kind of message it was sent with, and what
\* it says.  Read as a report of another kind it yields the ID and no value.
Payloads ==
    [id : Ids, kind : Topics \cup {"hello", "node-ping"}, value : Values]

Content(p, topic) == IF p.kind = topic THEN p.value ELSE None

Node == [info : Values \cup {None}, stats : [Topics -> Values \cup {None}]]

ASSUME NoneAssumption == None \notin Node

NewNode(info) == [info |-> info, stats |-> [topic \in Topics |-> None]]

\* List returns these, Get succeeds for these.
Listed == {id \in Ids : nodes[id] # None}

(***************************************************************************)
(* collector.Collect                                                       *)
(***************************************************************************)
\* An AuthReport lists the node.  Start sets no auth function, so that every
\* AuthReport is accepted.
CollectAuth(id, info) == nodes' = [nodes EXCEPT ![id] = NewNode(info)]

\* A report about a listed node is accepted.  It changes a copy of the map's
\* element, and the copy is not put back.
CollectReport(id, topic, value) ==
    /\ id \in Listed
    /\ UNCHANGED nodes

CollectNoDisconnect(id) == UNCHANGED nodes

CollectDisconnectAll(id) == nodes' = [n \in Ids |-> None]

\* A DisconnectReport takes the node off the list, if it is on it.
CollectDisconnect(id) == nodes' = [nodes EXCEPT ![id] = None]

(***************************************************************************)
(* Server.Join                                                             *)
(***************************************************************************)
Init ==
    /\ nodes = [id \in Ids |-> None]
    /\ conn = [c \in Conns |-> "closed"]
    /\ payload = [c \in Conns |-> None]
    /\ deferred = [c \in Conns |-> <<>>]

\* WebsocketHandler upgrades the connection and starts Join.
Connect(c) ==
    /\ conn[c] = "closed"
    /\ conn' = [conn EXCEPT ![c] = "open"]
    /\ UNCHANGED <<nodes, payload, deferred>>

\* Join reads a message and decodes it into the EmitMessage it reuses: one
\* without a payload leaves the payload of the previous message in place.
Receive(c) ==
    /\ conn[c] = "open"
    /\ \E p \in {payload[c]} \cup {q \in Payloads : q.id \in Uses[c]} :
          payload' = [payload EXCEPT ![c] = p]

\* An empty payload does not unmarshal into a report.
HasPayload(c) == payload'[c] # None

DeferNothing(c, id) == UNCHANGED deferred

DeferDisconnect(c, id) == deferred' = [deferred EXCEPT ![c] = Append(@, id)]

Hello(c) ==
    /\ Receive(c)
    /\ HasPayload(c)
    /\ Len(deferred[c]) < MaxHellos
    /\ CollectAuth(payload'[c].id, Content(payload'[c], "hello"))
    /\ DeferDisconnect(c, payload'[c].id)
    /\ UNCHANGED conn

\* A node-ping is answered, and a message on an unknown topic is skipped,
\* without a look at the collector.
Ping(c) ==
    /\ Receive(c)
    /\ UNCHANGED <<nodes, conn, deferred>>

Report(c, topic) ==
    /\ Receive(c)
    /\ HasPayload(c)
    /\ CollectReport(payload'[c].id, topic, Content(payload'[c], topic))
    /\ UNCHANGED <<conn, deferred>>

\* A report about a node that is not listed: ErrNodeNotAuthorized ends Join.
Unauthorized(c) ==
    /\ Receive(c)
    /\ HasPayload(c)
    /\ payload'[c].id \notin Listed
    /\ conn' = [conn EXCEPT ![c] = "returning"]
    /\ UNCHANGED <<nodes, deferred>>

\* Join returns another error: the frame or the message cannot be read, the
\* payload is missing or malformed, the answer cannot be sent.
Fails(c) ==
    /\ conn[c] = "open"
    /\ conn' = [conn EXCEPT ![c] = "returning"]
    /\ UNCHANGED <<nodes, payload, deferred>>

\* The deferred calls of a returning Join run, the last one first.
RunDeferred(c) ==
    /\ conn[c] = "returning"
    /\ deferred[c] # <<>>
    /\ CollectDisconnect(deferred[c][Len(deferred[c])])
    /\ deferred' = [deferred EXCEPT ![c] = SubSeq(@, 1, Len(@) - 1)]
    /\ UNCHANGED <<conn, payload>>

CloseEarly(c) ==
    /\ conn[c] = "returning"
    /\ conn' = [conn EXCEPT ![c] = "closed"]
    /\ payload' = [payload EXCEPT ![c] = None]
    /\ UNCHANGED <<nodes, deferred>>

Close(c) ==
    /\ conn[c] = "returning"
    /\ deferred[c] = <<>>
    /\ conn' = [conn EXCEPT ![c] = "closed"]
    /\ payload' = [payload EXCEPT ![c] = None]
    /\ UNCHANGED <<nodes, deferred>>

Returning(c) == RunDeferred(c) \/ Close(c)

Next ==
    \E c \in Conns :
        \/ Connect(c) \/ Hello(c) \/ Ping(c)
        \/ \E topic \in Topics : Report(c, topic)
        \/ Unauthorized(c) \/ Fails(c) \/ Returning(c)

Spec == Init /\ [][Next]_vars

\* A goroutine whose Join returns runs its deferred calls.
FairSpec == Spec /\ \A c \in Conns : WF_vars(Returning(c))

(***************************************************************************)
(* Properties                                                              *)
(***************************************************************************)
\* No connection but c speaks for id.
Alone(c, id) == \A d \in Conns \ {c} : id \notin Uses[d]

\* Connection c still has to take id off the list.
Owes(c, id) == \E i \in 1..Len(deferred[c]) : deferred[c][i] = id

\* Every variable holds a value of its kind, and a connection that is closed
\* has run all the calls Join deferred.
StatsTypeOK ==
    /\ nodes \in [Ids -> Node \cup {None}]
    /\ conn \in [Conns -> {"closed", "open", "returning"}]
    /\ payload \in [Conns -> Payloads \cup {None}]
    /\ deferred \in [Conns -> Seq(Ids)]
    /\ \A c \in Conns : conn[c] = "closed" => deferred[c] = <<>>

\* No entry of collector.nodes outlives the connections that listed it: some
\* connection has yet to collect the DisconnectReport for it.
NoLeakedNodes == \A id \in Listed : \E c \in Conns : Owes(c, id)

\* A connection is live for id: it said hello for id and has not failed.
LiveFor(c, id) == conn[c] = "open" /\ Owes(c, id)

\* A node whose connections are all gone is taken off the list in the end,
\* unless it says hello again.
GoneNodesLeave ==
    \A id \in Ids :
        (id \in Listed /\ \A c \in Conns : ~LiveFor(c, id))
        ~> (id \notin Listed \/ \E c \in Conns : LiveFor(c, id))

\* A node that only one connection speaks for is listed as long as that
\* connection is live, whatever the others do: its reports are not refused with
\* ErrNodeNotAuthorized.
SoleNodesListed ==
    \A id \in Ids : \A c \in Conns :
        LiveFor(c, id) /\ Alone(c, id) => id \in Listed

\* The same of every node, one that has connected again included:
\* "ErrNodeNotAuthorized is returned when a report is received for a node that
\* has not been authorized yet".
LiveNodesListed ==
    \A id \in Ids : (\E c \in Conns : LiveFor(c, id)) => id \in Listed
=============================================================================
