----------------------------- MODULE ApiContext -----------------------------
(***************************************************************************)
(* The request context (package apicontext) and the calls that every       *)
(* handler of package api makes on it.  Each request has a context of its  *)
(* own, which opens a database handle, and so a connection of the MySQL    *)
(* server, and takes a connection from the process-wide Redis pool.  The   *)
(* handle is closed by RESULT.  Some exits bypass RESULT: two errors that  *)
(* are returned as they are, and get_summary's nil dereferences.  A Redis  *)
(* connection is never given back, and never used.                         *)
(*                                                                         *)
(* A handler is the sequence of its calls that can fail, block or change   *)
(* something that outlives it.  What it computes and answers is left out.  *)
(***************************************************************************)
EXTENDS Integers, Sequences, FiniteSets

CONSTANTS
    Requests,           \* the requests that can be in progress at a time
    MaxConnections,     \* the MySQL server's limit, less what others hold
    MaxActive,          \* the limit of the Redis pool
    MaxDays             \* the longest range of dates, in days

ASSUME ApiAssumption ==
    /\ IsFiniteSet(Requests)
    /\ MaxConnections \in Nat
    /\ MaxActive \in Nat
    /\ MaxDays \in Nat

VARIABLES
    todo,               \* the calls a request has left, none if it has ended
    mysql,              \* TRUE iff the request's c.mysql is not nil
    days,               \* the days that a loop over days has left
    connections,        \* open connections of the MySQL server
    active,             \* the Redis pool's count of its connections
    redisErrors,        \* how many requests an unreachable Redis has failed
    bypasses            \* how many requests have ended without RESULT

apiVars == <<todo, mysql, days, connections, active, redisErrors, bypasses>>

(***************************************************************************)
(* The handlers                                                            *)
(***************************************************************************)
Block_number == <<"redis", "mysql", "rpc", "result">>

Get_block_by_height == <<"redis", "mysql", "bind", "rpc", "rpc", "result">>

\* The other listings make the same calls: a count, then a page.
Get_Blocks == <<"mysql", "bind", "query", "query", "result">>

Get_by_hash == <<"mysql", "bind", "rpc", "rpc", "query", "result">>

Get_transaction_by_hash ==
    <<"redis", "mysql", "bind", "rpc", "rpc", "rpc", "result">>

Get_by_addr_and_type ==
    <<"mysql", "bind", "rpc", "merge", "query", "query", "result">>

Get_addr_pending == <<"redis", "mysql", "bind", "content", "result">>

Get_hash_pending == <<"redis", "mysql", "bind", "content", "result">>

Get_addr_mining_rewards ==
    <<"redis", "mysql", "bind", "dates", "days", "query", "query", "result">>

Get_mined_block_by_addr_and_date ==
    <<"redis", "mysql", "bind", "dates", "days", "result">>

Get_exchange_rate == <<"mysql", "result">>

Get_balance == <<"redis", "mysql", "bind", "rpc", "query", "query", "result">>

Get_summary ==
    <<"mysql", "lastBlock", "query", "dayReward", "tryRpc", "tryRpc", "result">>

Handlers ==
    {Block_number, Get_block_by_height, Get_Blocks, Get_by_hash,
     Get_transaction_by_hash, Get_by_addr_and_type, Get_addr_pending,
     Get_hash_pending, Get_addr_mining_rewards,
     Get_mined_block_by_addr_and_date, Get_exchange_rate, Get_balance,
     Get_summary}

Calls == {"redis", "mysql", "bind", "dates", "days", "query", "rpc", "tryRpc",
          "content", "merge", "lastBlock", "dayReward", "result"}

InProgress(r) == todo[r] # <<>>

Calling(r, call) == InProgress(r) /\ Head(todo[r]) = call

Proceed(r) == todo' = [todo EXCEPT ![r] = Tail(@)]

(***************************************************************************)
(* The context                                                             *)
(***************************************************************************)
ApiInit ==
    /\ todo = [r \in Requests |-> <<>>]
    /\ mysql = [r \in Requests |-> FALSE]
    /\ days = [r \in Requests |-> 0]
    /\ connections = 0
    /\ active = 0
    /\ redisErrors = 0
    /\ bypasses = 0

\* A request arrives and gets a new context.
New(r) ==
    /\ ~InProgress(r)
    /\ \E handler \in Handlers : todo' = [todo EXCEPT ![r] = handler]
    /\ UNCHANGED <<mysql, days, connections, active, redisErrors, bypasses>>

OpensAgain(r) == 1

\* Mysql() opens a handle only if the context has none; the handle's first
\* connection is made there and then, and all its queries use it.
Opens(r) == IF mysql[r] THEN 0 ELSE 1

ClosesNothing(r) == 0

\* RESULT's deferred function closes the handle.
Closes(r) == IF mysql[r] THEN 1 ELSE 0

\* The context is gone, and with it its reference to the handle.
Ends(r) ==
    /\ todo' = [todo EXCEPT ![r] = <<>>]
    /\ mysql' = [mysql EXCEPT ![r] = FALSE]
    /\ days' = [days EXCEPT ![r] = 0]

\* RESULT, RESULT_ERROR and RESULT_PARAMETER_ERROR.  PANIC_RECOVER comes here with
\* a panic of type string, and with one whose type is of another kind than String.
Answers(r) ==
    /\ Ends(r)
    /\ connections' = connections - Closes(r)

\* The request ends and RESULT is not called: nobody closes the handle.
Bypasses(r) ==
    /\ Ends(r)
    /\ bypasses' = bypasses + 1
    /\ UNCHANGED <<connections, active, redisErrors>>

Result(r) ==
    /\ Calling(r, "result")
    /\ Answers(r)
    /\ UNCHANGED <<active, redisErrors, bypasses>>

Unlimited == FALSE

Exhausted == active >= MaxActive

PoolWaits == ~Exhausted

\* The pool does not wait at its limit: Get returns a connection whose methods all
\* return an error, and Redis() does not look at it.
PoolAnswers == TRUE

Redis(r) ==
    /\ Calling(r, "redis")
    /\ PoolAnswers
    /\ active' = IF Exhausted THEN active ELSE active + 1
    /\ Proceed(r)
    /\ UNCHANGED <<mysql, days, connections, redisErrors, bypasses>>

\* Dial panics inside pool.Get, which has counted the connection by then.
RedisDown(r) ==
    /\ Calling(r, "redis")
    /\ ~Exhausted
    /\ active' = active + 1
    /\ redisErrors' = redisErrors + 1
    /\ Answers(r)
    /\ UNCHANGED bypasses

Mysql(r) ==
    /\ Calling(r, "mysql")
    /\ connections < MaxConnections
    /\ connections' = connections + Opens(r)
    /\ mysql' = [mysql EXCEPT ![r] = TRUE]
    /\ Proceed(r)
    /\ UNCHANGED <<days, active, redisErrors, bypasses>>

\* The server is at its limit.
MysqlRefuses(r) ==
    /\ Calling(r, "mysql")
    /\ connections = MaxConnections
    /\ Answers(r)
    /\ UNCHANGED <<active, redisErrors, bypasses>>

\* A call that fails and is answered by RESULT_ERROR or RESULT_PARAMETER_ERROR, or
\* panics with a string: the input is refused, the server is unreachable, the node
\* does not have what was asked for.
CallFails(r) ==
    /\ InProgress(r)
    /\ \/ Head(todo[r]) \in {"mysql", "bind", "dates", "query", "rpc", "merge"}
       \/ Head(todo[r]) = "days" /\ days[r] > 0
    /\ Answers(r)
    /\ UNCHANGED <<active, redisErrors, bypasses>>

Queries == {"query", "dayReward"}

\* The calls that leave nothing behind and go on to the next.  Each query asks for
\* c.Mysql() again.  get_summary ignores the errors of its RPCs, and counts the
\* reward as 0 if its query fails.
CallReturns(r) ==
    /\ InProgress(r)
    /\ Head(todo[r]) \notin {"redis", "mysql", "dates", "days", "result"}
    /\ Proceed(r)
    /\ connections' = connections + IF Head(todo[r]) \in Queries THEN Opens(r)
                                    ELSE 0
    /\ UNCHANGED <<mysql, days, active, redisErrors, bypasses>>

\* The two pending handlers return the error of Txpool.Content as it is.
ReturnErr(r) ==
    /\ Calling(r, "content")
    /\ Bypasses(r)

(***************************************************************************)
(* What single handlers do                                                 *)
(***************************************************************************)
UncheckedRange == 0..(MaxDays + 2)

\* How many days a range has that passes the check: the last one is included, and
\* a range may end before it starts.
DateRange == 0..(MaxDays + 1)

Dates(r) ==
    /\ Calling(r, "dates")
    /\ \E n \in DateRange : days' = [days EXCEPT ![r] = n]
    /\ Proceed(r)
    /\ UNCHANGED <<mysql, connections, active, redisErrors, bypasses>>

\* FindMinedBlockByAddrAndTime for one day.
QueryDay(r) ==
    /\ Calling(r, "days")
    /\ days[r] > 0
    /\ days' = [days EXCEPT ![r] = @ - 1]
    /\ connections' = connections + Opens(r)
    /\ UNCHANGED <<todo, mysql, active, redisErrors, bypasses>>

DaysDone(r) ==
    /\ Calling(r, "days")
    /\ days[r] = 0
    /\ Proceed(r)
    /\ UNCHANGED <<mysql, days, connections, active, redisErrors, bypasses>>

\* The pending transactions fill the page: GetTransactionsByAddrAndType is called
\* with no room left and returns at once.
MergeFills(r) ==
    /\ Calling(r, "merge")
    /\ todo' = [todo EXCEPT ![r] = <<"result">>]
    /\ UNCHANGED <<mysql, days, connections, active, redisErrors, bypasses>>

\* A nil dereference: GLastBlock is nil, or the F_reward of a stored block, which
\* WriteBlock leaves empty, is no number and its nil is added.  Such a panic has
\* type runtime.errorString, of kind String: PANIC_RECOVER takes it for a string,
\* and its err.(string) panics before RESULT_ERROR is called.
NilPanics(r) ==
    /\ InProgress(r)
    /\ Head(todo[r]) \in {"lastBlock", "dayReward"}
    /\ Bypasses(r)

\* A bounds error: a slice of the pending list with a bad bound, an input that
\* CalcTransactionType cannot cut, an answer of the node too short for web3 to cut.
\* runtime.boundsError is a struct: PANIC_RECOVER answers, and panics once more for
\* the HTTP server, which drops the client.
BoundsPanics(r) ==
    /\ InProgress(r)
    /\ Head(todo[r]) \in {"merge", "rpc", "tryRpc", "content"}
    /\ Answers(r)
    /\ UNCHANGED <<active, redisErrors, bypasses>>

\* The process dies, as when the synchroniser panics, and is started again.
Restart ==
    /\ todo' = [r \in Requests |-> <<>>]
    /\ mysql' = [r \in Requests |-> FALSE]
    /\ days' = [r \in Requests |-> 0]
    /\ connections' = 0
    /\ active' = 0
    /\ redisErrors' = 0
    /\ bypasses' = 0

RequestStep(r) ==
    \/ Result(r) \/ Redis(r) \/ RedisDown(r) \/ Mysql(r) \/ MysqlRefuses(r)
    \/ CallFails(r) \/ CallReturns(r) \/ ReturnErr(r)
    \/ Dates(r) \/ QueryDay(r) \/ DaysDone(r) \/ MergeFills(r)
    \/ NilPanics(r) \/ BoundsPanics(r)

ApiNext ==
    \/ \E r \in Requests : New(r) \/ RequestStep(r)
    \/ Restart

ApiSpec == ApiInit /\ [][ApiNext]_apiVars

\* The next call is over only when a peer says so: the MySQL server (the DSN has no
\* timeout), the node (its HTTP client is made with RPCTimeOut, which scan.conf does
\* not set: 0, none), or the client while its request is read or its answer written
\* (e.Start sets no timeouts).  Dialling Redis ends when the kernel gives up, and
\* nothing is read from it.
AwaitsPeer(r) ==
    /\ InProgress(r)
    /\ \/ Head(todo[r]) \in Queries \cup {"mysql", "rpc", "tryRpc", "content",
                                         "bind", "result"}
       \/ Head(todo[r]) = "days" /\ days[r] > 0

\* A handler has a goroutine of its own, and goes on whenever that is up to it.  No
\* peer need ever answer, and no client need ever ask.
ApiFairSpec ==
    ApiSpec /\ \A r \in Requests : WF_apiVars(RequestStep(r) /\ ~AwaitsPeer(r))

(***************************************************************************)
(* Properties                                                              *)
(***************************************************************************)
Holders == {r \in Requests : mysql[r]}

\* Every variable holds a value of its kind; neither server is asked for more
\* than its limit, and no loop over days (get_addr_mining_rewards.go) is longer
\* than the range that is let through.
ApiTypeOK ==
    /\ todo \in [Requests -> Seq(Calls)]
    /\ mysql \in [Requests -> BOOLEAN]
    /\ days \in [Requests -> 0..(MaxDays + 1)]
    /\ connections \in 0..MaxConnections
    /\ active \in 0..MaxActive
    /\ redisErrors \in Nat
    /\ bypasses \in Nat

\* The MySQL server's open connections are those of the requests in progress, and
\* one for each request that ended without RESULT: an error returned as it is
\* (get_addr_pending.go:47, get_hash_pending.go:61) or a nil dereference
\* (get_summary.go:47 and :114, lost at apicontext.go:156).  Whatever else fails or
\* panics, no other exit leaves a connection behind, and none is closed twice.
HandlesAccounted == connections = Cardinality(Holders) + bypasses

\* Mysql() is refused only if requests that ended without RESULT hold what is
\* missing (apicontext.go:75-80): as long as they are fewer, there is a connection for
\* every request, however many have come and gone and in which other way.
RefusedOnlyForLeaks ==
    [][\A r \in Requests :
          MysqlRefuses(r)
          => bypasses + Cardinality(Requests) > MaxConnections]_apiVars

\* A Redis server that is down fails at most as many requests as the pool has
\* connections (apicontext.go: newPool), however long it stays down: each leaves
\* one counted, and a pool at its limit does not dial any more.
RedisErrorsBounded == redisErrors <= active /\ active <= MaxActive

\* A request that does not end waits for one peer for ever: never for another
\* request, and never for a connection of the Redis pool (apicontext.go:92), of
\* which none is ever given back.
HeldOnlyByPeers ==
    \A r \in Requests : []<>(~InProgress(r)) \/ <>[]AwaitsPeer(r)
=============================================================================
