-------------------------- MODULE ApiContextProofs --------------------------
(***************************************************************************)
(* Theorems about ApiContext, for any number of requests and any limits.   *)
(***************************************************************************)
EXTENDS ApiContext, FiniteSetTheorems, TLAPS

(***************************************************************************)
(* The calls of a handler                                                  *)
(***************************************************************************)
\* The calls that use the context's handle, or can end the request without RESULT.
Users == {"query", "lastBlock", "dayReward", "days", "content"}

\* No two of the calls left open the handle.
OpensOnce(s) ==
    \A i, j \in 1..Len(s) : s[i] = "mysql" /\ s[j] = "mysql" => i = j

\* The handle is opened before any of them.
OpensFirst(s) ==
    \A i \in 1..Len(s) : s[i] \in Users => \E j \in 1..(i - 1) : s[j] = "mysql"

NeverOpens(s) == \A i \in 1..Len(s) : s[i] # "mysql"

\* RESULT comes last.
EndsWithResult(s) == s # <<>> => s[Len(s)] = "result"

\* The calls a request has left fit the handle it has.
Fits(r) ==
    /\ OpensOnce(todo[r])
    /\ EndsWithResult(todo[r])
    /\ IF mysql[r] THEN NeverOpens(todo[r]) ELSE OpensFirst(todo[r])
    /\ mysql[r] => InProgress(r)

ApiInv ==
    /\ ApiTypeOK
    /\ HandlesAccounted
    /\ RedisErrorsBounded
    /\ \A r \in Requests : Fits(r)

\* What a handler's calls are like.
WellFormed(s) ==
    /\ s \in Seq(Calls)
    /\ s # <<>>
    /\ OpensOnce(s)
    /\ OpensFirst(s)
    /\ EndsWithResult(s)

\* Every handler opens its handle once, before it first uses it.
LEMMA HandlersFit == \A handler \in Handlers : WellFormed(handler)
<1>1. WellFormed(Block_number)
  BY DEF Block_number, WellFormed, OpensOnce, OpensFirst, EndsWithResult, Calls,
         Users
<1>2. WellFormed(Get_block_by_height)
  BY DEF Get_block_by_height, WellFormed, OpensOnce, OpensFirst, EndsWithResult, Calls,
         Users
<1>3. WellFormed(Get_Blocks)
  BY DEF Get_Blocks, WellFormed, OpensOnce, OpensFirst, EndsWithResult, Calls,
         Users
<1>4. WellFormed(Get_by_hash)
  BY DEF Get_by_hash, WellFormed, OpensOnce, OpensFirst, EndsWithResult, Calls,
         Users
<1>5. WellFormed(Get_transaction_by_hash)
  BY DEF Get_transaction_by_hash, WellFormed, OpensOnce, OpensFirst, EndsWithResult, Calls,
         Users
<1>6. WellFormed(Get_by_addr_and_type)
  BY DEF Get_by_addr_and_type, WellFormed, OpensOnce, OpensFirst, EndsWithResult, Calls,
         Users
<1>7. WellFormed(Get_addr_pending)
  BY DEF Get_addr_pending, WellFormed, OpensOnce, OpensFirst, EndsWithResult, Calls,
         Users
<1>8. WellFormed(Get_hash_pending)
  BY DEF Get_hash_pending, WellFormed, OpensOnce, OpensFirst, EndsWithResult, Calls,
         Users
<1>9. WellFormed(Get_addr_mining_rewards)
  BY DEF Get_addr_mining_rewards, WellFormed, OpensOnce, OpensFirst, EndsWithResult, Calls,
         Users
<1>10. WellFormed(Get_mined_block_by_addr_and_date)
  BY DEF Get_mined_block_by_addr_and_date, WellFormed, OpensOnce, OpensFirst, EndsWithResult, Calls,
         Users
<1>11. WellFormed(Get_exchange_rate)
  BY DEF Get_exchange_rate, WellFormed, OpensOnce, OpensFirst, EndsWithResult, Calls,
         Users
<1>12. WellFormed(Get_balance)
  BY DEF Get_balance, WellFormed, OpensOnce, OpensFirst, EndsWithResult, Calls,
         Users
<1>13. WellFormed(Get_summary)
  BY DEF Get_summary, WellFormed, OpensOnce, OpensFirst, EndsWithResult, Calls,
         Users
<1> QED
  BY <1>1, <1>2, <1>3, <1>4, <1>5, <1>6, <1>7,
     <1>8, <1>9, <1>10, <1>11, <1>12, <1>13 DEF Handlers
(***************************************************************************)
(* The requests that hold a handle                                         *)
(***************************************************************************)
LEMMA HoldersFinite ==
    /\ IsFiniteSet(Holders)
    /\ Cardinality(Holders) \in Nat
    /\ Cardinality(Holders) <= Cardinality(Requests)
    /\ Cardinality(Requests) \in Nat
<1>1. Holders \subseteq Requests
  BY DEF Holders
<1> QED
  BY <1>1, ApiAssumption, FS_Subset, FS_CardinalityType

\* A request opens its handle.
LEMMA HolderJoins ==
    ASSUME NEW r \in Requests,
           mysql \in [Requests -> BOOLEAN],
           ~mysql[r],
           mysql' = [mysql EXCEPT ![r] = TRUE]
    PROVE  Cardinality(Holders') = Cardinality(Holders) + 1
<1>1. Holders' = Holders \cup {r}
  BY DEF Holders
<1>2. r \notin Holders
  BY DEF Holders
<1> QED
  BY <1>1, <1>2, HoldersFinite, FS_AddElement

\* A request lets go of its handle, if it has one.
LEMMA HolderLeaves ==
    ASSUME NEW r \in Requests,
           mysql \in [Requests -> BOOLEAN],
           mysql' = [mysql EXCEPT ![r] = FALSE]
    PROVE  Cardinality(Holders') = Cardinality(Holders) - Closes(r)
<1>1. Holders' = Holders \ {r}
  BY DEF Holders
<1>2. CASE mysql[r]
  <2>1. r \in Holders
    BY <1>2 DEF Holders
  <2>2. Cardinality(Holders') = Cardinality(Holders) - 1
    BY <1>1, <2>1, HoldersFinite, FS_RemoveElement
  <2> QED
    BY <1>2, <2>2 DEF Closes
<1>3. CASE ~mysql[r]
  <2>1. Holders' = Holders
    BY <1>1, <1>3 DEF Holders
  <2> QED
    BY <1>3, <2>1, HoldersFinite DEF Closes
<1> QED
  BY <1>2, <1>3

(***************************************************************************)
(* What the steps do to the calls left                                     *)
(***************************************************************************)
\* What is left after the first call.
LEMMA TailFacts ==
    ASSUME NEW s \in Seq(Calls), s # <<>>, Head(s) # "result",
           EndsWithResult(s), OpensOnce(s)
    PROVE  /\ Tail(s) \in Seq(Calls)
           /\ Tail(s) # <<>>
           /\ Len(s) \in Nat /\ Len(Tail(s)) = Len(s) - 1
           /\ \A i \in 1..Len(Tail(s)) : Tail(s)[i] = s[i + 1]
           /\ 1 \in 1..Len(s) /\ Head(s) = s[1]
           /\ EndsWithResult(Tail(s))
           /\ OpensOnce(Tail(s))
<1>1. /\ Tail(s) \in Seq(Calls)
      /\ Len(s) \in Nat /\ Len(s) > 0
      /\ Len(Tail(s)) = Len(s) - 1
      /\ \A i \in 1..Len(Tail(s)) : Tail(s)[i] = s[i + 1]
      /\ Head(s) = s[1]
  OBVIOUS
<1>2. Len(s) > 1
  BY <1>1 DEF EndsWithResult
<1>3. Len(Tail(s)) # 0 /\ Len(Tail(s)) \in 1..Len(Tail(s))
  BY <1>1, <1>2
<1>4. Tail(s)[Len(Tail(s))] = s[Len(s)]
  BY <1>1, <1>3
<1>5. Tail(s) # <<>>
  <2>1. Len(<<>>) = 0
    OBVIOUS
  <2> QED
    BY <1>3, <2>1, Zenon
<1>6. EndsWithResult(Tail(s))
  BY <1>4, <1>5 DEF EndsWithResult
<1>7. OpensOnce(Tail(s))
  BY <1>1 DEF OpensOnce
<1> QED
  BY <1>1, <1>5, <1>6, <1>7

\* The next call returns.
LEMMA ProceedFits ==
    ASSUME ApiInv, NEW r \in Requests, InProgress(r), Proceed(r),
           Head(todo[r]) \notin {"mysql", "result"}, mysql' = mysql
    PROVE  /\ todo' \in [Requests -> Seq(Calls)]
           /\ \A q \in Requests : Fits(q)'
<1> DEFINE s == todo[r]
<1>1. s \in Seq(Calls) /\ s # <<>> /\ Fits(r)
  BY DEF ApiInv, ApiTypeOK, InProgress
<1>2. EndsWithResult(s) /\ OpensOnce(s)
  BY <1>1 DEF Fits
<1> HIDE DEF s
<1>3. /\ Tail(s) \in Seq(Calls)
      /\ Tail(s) # <<>>
      /\ Len(s) \in Nat /\ Len(Tail(s)) = Len(s) - 1
      /\ \A i \in 1..Len(Tail(s)) : Tail(s)[i] = s[i + 1]
      /\ 1 \in 1..Len(s) /\ Head(s) = s[1]
      /\ EndsWithResult(Tail(s))
      /\ OpensOnce(Tail(s))
  BY <1>1, <1>2, TailFacts DEF s
<1>4. IF mysql[r] THEN NeverOpens(Tail(s)) ELSE OpensFirst(Tail(s))
  <2>1. CASE mysql[r]
    BY <1>1, <1>3, <2>1 DEF Fits, NeverOpens, s
  <2>2. CASE ~mysql[r]
    <3> SUFFICES ASSUME NEW i \in 1..Len(Tail(s)), Tail(s)[i] \in Users
                 PROVE  \E j \in 1..(i - 1) : Tail(s)[j] = "mysql"
      BY <2>2 DEF OpensFirst
    <3>1. i + 1 \in 1..Len(s) /\ s[i + 1] \in Users
      BY <1>3
    <3>2. PICK j \in 1..i : s[j] = "mysql"
      BY <1>1, <1>3, <2>2, <3>1 DEF Fits, OpensFirst, s
    <3>3. j # 1
      BY <1>3, <3>2 DEF s
    <3>4. j - 1 \in 1..(i - 1) /\ Tail(s)[j - 1] = "mysql"
      BY <1>3, <3>2, <3>3
    <3> QED
      BY <3>4
  <2> QED
    BY <2>1, <2>2
<1>5. todo' = [todo EXCEPT ![r] = Tail(s)]
  BY DEF Proceed, s
<1>6. todo' \in [Requests -> Seq(Calls)] /\ todo'[r] = Tail(s)
  BY <1>3, <1>5 DEF ApiInv, ApiTypeOK
<1>7. ASSUME NEW q \in Requests
      PROVE  Fits(q)'
  <2>1. CASE q = r
    BY <1>3, <1>4, <1>6, <2>1 DEF Fits, InProgress
  <2>2. CASE q # r
    BY <1>5, <2>2 DEF ApiInv, ApiTypeOK, Fits, InProgress
  <2> QED
    BY <2>1, <2>2
<1> QED
  BY <1>6, <1>7

\* A request ends.
LEMMA EndsFits ==
    ASSUME ApiInv, NEW r \in Requests, Ends(r)
    PROVE  /\ todo' \in [Requests -> Seq(Calls)]
           /\ mysql' \in [Requests -> BOOLEAN]
           /\ days' \in [Requests -> 0..(MaxDays + 1)]
           /\ \A q \in Requests : Fits(q)'
           /\ Cardinality(Holders') = Cardinality(Holders) - Closes(r)
           /\ Closes(r) \in {0, 1}
<1>1. /\ todo' \in [Requests -> Seq(Calls)]
      /\ mysql' \in [Requests -> BOOLEAN]
      /\ days' \in [Requests -> 0..(MaxDays + 1)]
  BY ApiAssumption DEF ApiInv, ApiTypeOK, Ends
<1>2. ASSUME NEW q \in Requests
      PROVE  Fits(q)'
  <2>1. CASE q = r
    <3>1. todo'[q] = <<>> /\ ~mysql'[q]
      BY <2>1 DEF ApiInv, ApiTypeOK, Ends
    <3> QED
      BY <3>1 DEF Fits, OpensOnce, OpensFirst, EndsWithResult
  <2>2. CASE q # r
    BY <2>2 DEF ApiInv, ApiTypeOK, Ends, Fits, InProgress
  <2> QED
    BY <2>1, <2>2
<1>3. Cardinality(Holders') = Cardinality(Holders) - Closes(r)
  BY HolderLeaves DEF ApiInv, ApiTypeOK, Ends
<1> QED
  BY <1>1, <1>2, <1>3 DEF Closes

\* A new request.
LEMMA NewFits ==
    ASSUME ApiInv, NEW r \in Requests, New(r)
    PROVE  ApiInv'
<1>1. PICK handler \in Handlers : todo' = [todo EXCEPT ![r] = handler]
  BY DEF New
<1>2. WellFormed(handler)
  BY HandlersFit
<1>3. todo' \in [Requests -> Seq(Calls)] /\ todo'[r] = handler
  BY <1>1, <1>2 DEF ApiInv, ApiTypeOK, WellFormed
<1>4. ~mysql[r] /\ mysql' = mysql
  BY DEF ApiInv, Fits, New
<1>5. ASSUME NEW q \in Requests
      PROVE  Fits(q)'
  <2>1. CASE q = r
    BY <1>2, <1>3, <1>4, <2>1 DEF Fits, WellFormed
  <2>2. CASE q # r
    BY <1>1, <1>4, <2>2 DEF ApiInv, ApiTypeOK, Fits, InProgress
  <2> QED
    BY <2>1, <2>2
<1>6. ApiTypeOK' /\ HandlesAccounted' /\ RedisErrorsBounded'
  BY <1>3 DEF ApiInv, ApiTypeOK, HandlesAccounted, Holders, RedisErrorsBounded, New
<1> QED
  BY <1>5, <1>6 DEF ApiInv

\* The request is answered, and its handle closed.
LEMMA AnswersKeeps ==
    ASSUME ApiInv, NEW r \in Requests, Answers(r), UNCHANGED bypasses,
           \/ UNCHANGED <<active, redisErrors>>
           \/ /\ ~Exhausted
              /\ active' = active + 1
              /\ redisErrors' = redisErrors + 1
    PROVE  ApiInv'
<1>1. Ends(r) /\ connections' = connections - Closes(r)
  BY DEF Answers
<1>2. /\ Cardinality(Holders') = Cardinality(Holders) - Closes(r)
      /\ Closes(r) \in {0, 1}
  BY <1>1, EndsFits
<1>3. HandlesAccounted'
  BY <1>1, <1>2, HoldersFinite DEF ApiInv, ApiTypeOK, HandlesAccounted
<1>4. Cardinality(Holders') \in Nat
  <2>1. Holders' \subseteq Requests
    BY DEF Holders
  <2> QED
    BY <2>1, ApiAssumption, FS_Subset, FS_CardinalityType
<1>5. connections' \in 0..MaxConnections
  <2>1. connections' \in Nat
    BY <1>3, <1>4 DEF ApiInv, ApiTypeOK, HandlesAccounted
  <2> QED
    BY <1>1, <1>2, <2>1, ApiAssumption DEF ApiInv, ApiTypeOK
<1>6. /\ active' \in 0..MaxActive
      /\ redisErrors' \in Nat
      /\ redisErrors' <= active'
  BY ApiAssumption DEF ApiInv, ApiTypeOK, RedisErrorsBounded, Exhausted
<1>7. /\ todo' \in [Requests -> Seq(Calls)]
      /\ mysql' \in [Requests -> BOOLEAN]
      /\ days' \in [Requests -> 0..(MaxDays + 1)]
      /\ \A q \in Requests : Fits(q)'
  BY <1>1, EndsFits
<1>8. bypasses' \in Nat
  BY DEF ApiInv, ApiTypeOK
<1> QED
  BY <1>3, <1>5, <1>6, <1>7, <1>8, ApiAssumption
     DEF ApiInv, ApiTypeOK, RedisErrorsBounded

\* A call that uses the handle finds it open.
LEMMA HandleOpen ==
    ASSUME ApiInv, NEW r \in Requests, InProgress(r), Head(todo[r]) \in Users
    PROVE  mysql[r] /\ Opens(r) = 0 /\ Closes(r) = 1
<1>1. todo[r] \in Seq(Calls) /\ todo[r] # <<>> /\ Fits(r)
  BY DEF ApiInv, ApiTypeOK, InProgress
<1>2. Head(todo[r]) = todo[r][1] /\ 1 \in 1..Len(todo[r])
  BY <1>1
<1>3. mysql[r]
  BY <1>1, <1>2 DEF Fits, OpensFirst
<1> QED
  BY <1>3 DEF Opens, Closes

\* The request ends without RESULT, and its handle stays open.
LEMMA BypassesKeeps ==
    ASSUME ApiInv, NEW r \in Requests, InProgress(r), Head(todo[r]) \in Users,
           Bypasses(r)
    PROVE  ApiInv'
<1>1. /\ todo' \in [Requests -> Seq(Calls)]
      /\ mysql' \in [Requests -> BOOLEAN]
      /\ days' \in [Requests -> 0..(MaxDays + 1)]
      /\ \A q \in Requests : Fits(q)'
      /\ Cardinality(Holders') = Cardinality(Holders) - Closes(r)
  BY EndsFits DEF Bypasses
<1>2. Closes(r) = 1
  BY HandleOpen
<1>3. HandlesAccounted'
  BY <1>1, <1>2, HoldersFinite DEF Bypasses, ApiInv, ApiTypeOK, HandlesAccounted
<1> QED
  BY <1>1, <1>3 DEF Bypasses, ApiInv, ApiTypeOK, RedisErrorsBounded

\* The handle is opened.
LEMMA MysqlKeeps ==
    ASSUME ApiInv, NEW r \in Requests, Mysql(r)
    PROVE  ApiInv'
<1> DEFINE s == todo[r]
<1>1. s \in Seq(Calls) /\ s # <<>> /\ Fits(r) /\ Head(s) = "mysql"
  BY DEF ApiInv, ApiTypeOK, Mysql, Calling, InProgress
<1>2. EndsWithResult(s) /\ OpensOnce(s)
  BY <1>1 DEF Fits
<1> HIDE DEF s
<1>3. /\ Tail(s) \in Seq(Calls)
      /\ Tail(s) # <<>>
      /\ Len(s) \in Nat /\ Len(Tail(s)) = Len(s) - 1
      /\ \A i \in 1..Len(Tail(s)) : Tail(s)[i] = s[i + 1]
      /\ 1 \in 1..Len(s) /\ s[1] = "mysql"
      /\ EndsWithResult(Tail(s))
      /\ OpensOnce(Tail(s))
  BY <1>1, <1>2, TailFacts
<1>4. ~mysql[r]
  BY <1>1, <1>3 DEF Fits, NeverOpens, s
<1>5. NeverOpens(Tail(s))
  BY <1>2, <1>3 DEF OpensOnce, NeverOpens
<1>6. /\ todo' = [todo EXCEPT ![r] = Tail(s)]
      /\ mysql' = [mysql EXCEPT ![r] = TRUE]
      /\ connections' = connections + 1
      /\ connections < MaxConnections
      /\ UNCHANGED <<days, active, redisErrors, bypasses>>
  BY <1>4 DEF Mysql, Proceed, Opens, s
<1>7. /\ todo' \in [Requests -> Seq(Calls)] /\ todo'[r] = Tail(s)
      /\ mysql' \in [Requests -> BOOLEAN] /\ mysql'[r]
  BY <1>3, <1>6 DEF ApiInv, ApiTypeOK
<1>8. ASSUME NEW q \in Requests
      PROVE  Fits(q)'
  <2>1. CASE q = r
    BY <1>3, <1>5, <1>7, <2>1 DEF Fits, InProgress
  <2>2. CASE q # r
    BY <1>6, <2>2 DEF ApiInv, ApiTypeOK, Fits, InProgress
  <2> QED
    BY <2>1, <2>2
<1>9. HandlesAccounted'
  <2>1. Cardinality(Holders') = Cardinality(Holders) + 1
    BY <1>4, <1>6, HolderJoins DEF ApiInv, ApiTypeOK
  <2> QED
    BY <1>6, <2>1, HoldersFinite DEF ApiInv, ApiTypeOK, HandlesAccounted
<1>10. connections' \in 0..MaxConnections
  BY <1>6, ApiAssumption DEF ApiInv, ApiTypeOK
<1> QED
  BY <1>6, <1>7, <1>8, <1>9, <1>10 DEF ApiInv, ApiTypeOK, RedisErrorsBounded

(***************************************************************************)
(* The inductive invariant                                                 *)
(***************************************************************************)
LEMMA ApiInitInv == ApiInit => ApiInv
<1> SUFFICES ASSUME ApiInit PROVE ApiInv
  OBVIOUS
<1>1. Holders = {}
  BY DEF ApiInit, Holders
<1>2. Cardinality(Holders) = 0
  BY <1>1, FS_EmptySet
<1> QED
  BY <1>2, ApiAssumption
     DEF ApiInit, ApiInv, ApiTypeOK, HandlesAccounted, RedisErrorsBounded, Fits,
         OpensOnce, OpensFirst, EndsWithResult

\* What is left to show of a step that only goes on to the next call.
LEMMA ProceedKeeps ==
    ASSUME ApiInv,
           todo' \in [Requests -> Seq(Calls)],
           \A q \in Requests : Fits(q)',
           days' \in [Requests -> 0..(MaxDays + 1)],
           active' \in active..MaxActive,
           UNCHANGED <<mysql, connections, redisErrors, bypasses>>
    PROVE  ApiInv'
BY ApiAssumption
   DEF ApiInv, ApiTypeOK, HandlesAccounted, Holders, RedisErrorsBounded

\* Every step of the requests keeps the invariant.
LEMMA RequestKeeps ==
    ASSUME ApiInv, NEW r \in Requests, RequestStep(r)
    PROVE  ApiInv'
<1> USE DEF Calling
<1>1. CASE Result(r) \/ MysqlRefuses(r) \/ CallFails(r) \/ BoundsPanics(r)
  BY <1>1, AnswersKeeps DEF Result, MysqlRefuses, CallFails, BoundsPanics
<1>2. CASE RedisDown(r)
  BY <1>2, AnswersKeeps DEF RedisDown
<1>3. CASE Mysql(r)
  BY <1>3, MysqlKeeps
<1>4. CASE Redis(r)
  <2>1. active' \in active..MaxActive
    BY <1>4, ApiAssumption DEF Redis, Exhausted, ApiInv, ApiTypeOK
  <2>2. /\ todo' \in [Requests -> Seq(Calls)]
        /\ \A q \in Requests : Fits(q)'
    BY <1>4, ProceedFits DEF Redis
  <2>3. days' \in [Requests -> 0..(MaxDays + 1)]
    BY <1>4 DEF Redis, ApiInv, ApiTypeOK
  <2> QED
    BY <1>4, <2>1, <2>2, <2>3, ProceedKeeps DEF Redis
<1>5. CASE CallReturns(r)
  <2>1. /\ todo' \in [Requests -> Seq(Calls)]
        /\ \A q \in Requests : Fits(q)'
    BY <1>5, ProceedFits DEF CallReturns
  <2>2. connections' = connections
    <3>1. Head(todo[r]) \in Queries => Opens(r) = 0
      BY <1>5, HandleOpen DEF CallReturns, Queries, Users
    <3> QED
      BY <1>5, <3>1 DEF CallReturns, ApiInv, ApiTypeOK
  <2>3. /\ days' \in [Requests -> 0..(MaxDays + 1)]
        /\ active' \in active..MaxActive
    BY <1>5, ApiAssumption DEF CallReturns, ApiInv, ApiTypeOK
  <2> QED
    BY <1>5, <2>1, <2>2, <2>3, ProceedKeeps DEF CallReturns
<1>6. CASE ReturnErr(r) \/ NilPanics(r)
  <2>1. InProgress(r) /\ Head(todo[r]) \in Users /\ Bypasses(r)
    BY <1>6 DEF ReturnErr, NilPanics, Users
  <2> QED
    BY <2>1, BypassesKeeps
<1>7. CASE Dates(r) \/ DaysDone(r)
  <2>1. /\ todo' \in [Requests -> Seq(Calls)]
        /\ \A q \in Requests : Fits(q)'
    BY <1>7, ProceedFits DEF Dates, DaysDone
  <2>2. /\ days' \in [Requests -> 0..(MaxDays + 1)]
        /\ active' \in active..MaxActive
    <3>1. CASE Dates(r)
      <4>1. PICK n \in 0..(MaxDays + 1) : days' = [days EXCEPT ![r] = n]
        BY <3>1 DEF Dates, DateRange
      <4> QED
        BY <3>1, <4>1, ApiAssumption DEF Dates, ApiInv, ApiTypeOK
    <3>2. CASE DaysDone(r)
      BY <3>2, ApiAssumption DEF DaysDone, ApiInv, ApiTypeOK
    <3> QED
      BY <1>7, <3>1, <3>2
  <2> QED
    BY <1>7, <2>1, <2>2, ProceedKeeps DEF Dates, DaysDone
<1>8. CASE QueryDay(r)
  <2>1. connections' = connections
    <3>1. Opens(r) = 0
      BY <1>8, HandleOpen DEF QueryDay, Users
    <3> QED
      BY <1>8, <3>1 DEF QueryDay, ApiInv, ApiTypeOK
  <2>2. /\ days' \in [Requests -> 0..(MaxDays + 1)]
        /\ active' \in active..MaxActive
    BY <1>8, ApiAssumption DEF QueryDay, ApiInv, ApiTypeOK
  <2>3. /\ todo' \in [Requests -> Seq(Calls)]
        /\ \A q \in Requests : Fits(q)'
    BY <1>8 DEF QueryDay, ApiInv, ApiTypeOK, Fits, InProgress
  <2> QED
    BY <1>8, <2>1, <2>2, <2>3, ProceedKeeps DEF QueryDay
<1>9. CASE MergeFills(r)
  <2>1. todo' \in [Requests -> Seq(Calls)] /\ todo'[r] = <<"result">>
    BY <1>9 DEF MergeFills, ApiInv, ApiTypeOK, Calls
  <2>2. ASSUME NEW q \in Requests
        PROVE  Fits(q)'
    <3>1. CASE q = r
      BY <1>9, <2>1, <3>1
         DEF MergeFills, Fits, OpensOnce, OpensFirst, NeverOpens, EndsWithResult,
             InProgress, Users
    <3>2. CASE q # r
      BY <1>9, <3>2 DEF MergeFills, ApiInv, ApiTypeOK, Fits, InProgress
    <3> QED
      BY <3>1, <3>2
  <2>3. /\ days' \in [Requests -> 0..(MaxDays + 1)]
        /\ active' \in active..MaxActive
    BY <1>9, ApiAssumption DEF MergeFills, ApiInv, ApiTypeOK
  <2> QED
    BY <1>9, <2>1, <2>2, <2>3, ProceedKeeps DEF MergeFills
<1> QED
  BY <1>1, <1>2, <1>3, <1>4, <1>5, <1>6, <1>7, <1>8, <1>9 DEF RequestStep

LEMMA ApiNextInv == ApiInv /\ [ApiNext]_apiVars => ApiInv'
<1> SUFFICES ASSUME ApiInv, [ApiNext]_apiVars PROVE ApiInv'
  OBVIOUS
<1>1. CASE UNCHANGED apiVars
  BY <1>1 DEF apiVars, ApiInv, ApiTypeOK, HandlesAccounted, Holders,
              RedisErrorsBounded, Fits, InProgress
<1>2. CASE Restart
  <2>1. Holders' = {}
    BY <1>2 DEF Restart, Holders
  <2>2. Cardinality(Holders') = 0
    BY <2>1, FS_EmptySet
  <2> QED
    BY <1>2, <2>2, ApiAssumption
       DEF Restart, ApiInv, ApiTypeOK, HandlesAccounted, RedisErrorsBounded, Fits,
           OpensOnce, OpensFirst, EndsWithResult
<1>3. ASSUME NEW r \in Requests, New(r)
      PROVE  ApiInv'
  BY <1>3, NewFits
<1>4. ASSUME NEW r \in Requests, RequestStep(r)
      PROVE  ApiInv'
  BY <1>4, RequestKeeps
<1> QED
  BY <1>1, <1>2, <1>3, <1>4 DEF ApiNext

LEMMA ApiInvariant == ApiSpec => []ApiInv
BY ApiInitInv, ApiNextInv, PTL DEF ApiSpec

(***************************************************************************)
(* Theorems                                                                *)
(***************************************************************************)
\* The variables keep their types and the servers' limits are kept, for any
\* number of requests.
THEOREM ApiTypeCorrect == ApiSpec => []ApiTypeOK
<1>1. ApiInv => ApiTypeOK
  BY DEF ApiInv
<1> QED
  BY <1>1, ApiInvariant, PTL

\* The only connections of the MySQL server that outlive their request are those of
\* the requests that ended without RESULT: in one of the two pending handlers' bare
\* returns or in one of get_summary's nil dereferences.
THEOREM AllHandlesAccounted == ApiSpec => []HandlesAccounted
<1>1. ApiInv => HandlesAccounted
  BY DEF ApiInv
<1> QED
  BY <1>1, ApiInvariant, PTL

\* A Redis server that is down fails at most MaxActive requests.
THEOREM RedisBounded == ApiSpec => []RedisErrorsBounded
<1>1. ApiInv => RedisErrorsBounded
  BY DEF ApiInv
<1> QED
  BY <1>1, ApiInvariant, PTL

\* As long as such requests hold too few connections, Mysql() is never refused.
THEOREM NeverRefused == ApiSpec => RefusedOnlyForLeaks
<1> DEFINE Step == \A r \in Requests :
        MysqlRefuses(r) => bypasses + Cardinality(Requests) > MaxConnections
<1>1. ApiInv => Step
  <2> SUFFICES ASSUME ApiInv, NEW r \in Requests, MysqlRefuses(r)
               PROVE  bypasses + Cardinality(Requests) > MaxConnections
    OBVIOUS
  <2>1. todo[r] \in Seq(Calls) /\ todo[r] # <<>> /\ Fits(r) /\ Head(todo[r]) = "mysql"
    BY DEF ApiInv, ApiTypeOK, MysqlRefuses, Calling, InProgress
  <2>2. 1 \in 1..Len(todo[r]) /\ todo[r][1] = "mysql"
    BY <2>1
  <2>3. ~mysql[r]
    BY <2>1, <2>2 DEF Fits, NeverOpens
  <2>4. Holders \subseteq Requests \ {r}
    BY <2>3 DEF Holders
  <2>5. IsFiniteSet(Requests \ {r}) /\ Cardinality(Requests \ {r}) = Cardinality(Requests) - 1
    BY ApiAssumption, FS_RemoveElement
  <2>6. Cardinality(Holders) <= Cardinality(Requests) - 1
    BY <2>4, <2>5, FS_Subset
  <2>7. MaxConnections = Cardinality(Holders) + bypasses
    BY DEF ApiInv, HandlesAccounted, MysqlRefuses
  <2> QED
    BY <2>6, <2>7, HoldersFinite DEF ApiInv, ApiTypeOK
<1> QED
  BY <1>1, ApiInvariant, PTL DEF RefusedOnlyForLeaks
=============================================================================
