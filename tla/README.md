# A TLA+ model of the scan service (cypherium/wallet-server)

The repository is the back end of a blockchain explorer and wallet for the
Cypherium chain. One process copies the chain of a node into MySQL, answers HTTP
requests from these tables and from the node, and collects statistics of nodes
over websockets. This directory models the parts of it that have state,
checks the models with TLC on small instances and proves the main invariants
with TLAPS for all instances. Paths below are relative to the repository's
`src/`.

## 1. Inventory

| Component | Source | State | Operations | Status |
|---|---|---|---|---|
| Block synchroniser | `sync/sync.go`, `syncblock.go`, `connect.go` | `block_now`, `GLastBlock`, locals of the loop | `StartSyncLastBlock`, `SyncOneBlock`, `DropBlok`, `WriteBlock`, `WriteTransactions` | modelled (`BlockSync`, promised in `ChainMirror`) |
| Tables | `model/t_block.go`, `t_transaction.go`, `create_table.go` | rows of `t_block`, `t_transaction` | find, create, update status, pages, counts | partly (`BlockSync`, `Listings`; counts and lookups only as calls, `ApiContext`) |
| Node | JSON-RPC through go-web3 | the canonical chain | grows, is reorganised, goes down | modelled as external (`BlockSync`) |
| Listings | `api/block_query/get_blocks.go`, `api/mining/get_mined_blocks.go`, `api/transaction/get_*.go` | none between two requests | six paged handlers | modelled (`Listings`) |
| Request context | `apicontext/apicontext.go` | MySQL, Redis and web3 handle of a request, Redis pool | `New`, `Mysql`, `Redis`, `BindInput`, `RESULT`, `PANIC_RECOVER` | modelled (`ApiContext`) |
| Lookups and statistics | the other handlers of `api/` | the reward cache of `get_summary` | eleven handlers | partly: their calls, errors and exits (`ApiContext`) |
| Statistics server | `statistics/stats/*`, `statistics/model/*` | the collector's map; per connection the message buffer and the deferred calls | `Join`, `Collect`, `Get`, `List` | modelled (`StatsServer`) |
| Exchange rates, miner rewards | `sync/ratesync.go`, `sync/checkreward.go`, `model/t_rate.go`, `t_miner_reward.go` | tables and Redis keys | none that runs: their goroutines are commented out in `main` | not modelled |
| Start-up, configuration, utilities | `main.go`, `config`, `util`, `const` | none | | start and restart are in `BlockSync` and `ApiContext` |

How they interact. The synchroniser is the only writer of the tables and takes
what it writes from the node, one RPC at a time. The handlers read the tables,
each request through a database handle of its own, and some ask the node too.
`get_summary` also reads the synchroniser's variable `GLastBlock`. The statistics
server shares nothing with the others.

What is hard. The node reorganises while the synchroniser is between two RPCs,
or between two writes. A block and its transactions are written, and dropped, in
several database transactions, and the process can die between any two. Errors
are answered in four ways (retry, ignore, end the goroutine, exit). Clients
read pages while rows move. Every handler has a dozen exits; most close the
request's database handle, but two error returns and the nil dereferences of
`get_summary` do not, and none gives back the Redis connection. No call to the
node, the database or a client has a timeout. Two connections of one node share an
entry of the collector. `PROJECT.json` lists these hazards at their lines, with the
properties that would notice them going wrong.

What makes each part correct:

- synchroniser: the tables end up equal to the node's chain; what they say on
  the way is a prefix of some chain, complete below its top; a restart resumes
  at a point below which nothing is missing; no error stops it for good;
- listings: a page is consistent in itself and is the part asked for; reading all
  pages misses nothing that was there all the time;
- request context: whatever way a request ends, nothing of it stays behind, and it
  is held up by no other request;
- statistics: a node is listed as long as it is connected, and no longer.

## 2. Modules

| Module | Contents |
|---|---|
| `BlockSync` | synchroniser, tables, node and failures; its properties |
| `ChainMirror` | what the synchroniser promises: the abstract specification it implements |
| `MCBlockSync` | block trees and transactions for TLC |
| `BlockSyncProofs` | theorems about `BlockSync` |
| `MirrorProofs` | `BlockSync` implements `ChainMirror`; rows stay on their parents |
| `GhostProofs` | what drops and writes leave of the transactions as long as nothing fails |
| `Listings` | `BlockSync` composed with a client of the listing handlers |
| `MCListings` | its instances |
| `ListingsProofs` | theorems about `Listings` |
| `ApiContext` | request contexts, the Redis pool, and the calls of every handler |
| `MCApiContext` | its instance |
| `ApiContextProofs` | theorems about `ApiContext` |
| `StatsServer` | collector and connections |
| `MCStatsServer` | its instances |
| `StatsServerProofs` | theorems about `StatsServer` |

Operators named like `DroppableOffByOne` or `CloseEarly`, defined just before the
definition they resemble, are wrong variants of it. No specification uses them:
put in its place, each makes TLC report a property violated, which shows that
the property depends on the code it is about (`PROJECT.json`, "mutants").

### BlockSync

One step is one RPC or one database call, because between two of them the chain
may change or the process may die. `pc` says which call comes next:

| `pc` | code |
|---|---|
| `boot` | `GetMaxBlocNumber` and `SetBlockNow(max_block - 1)` (`Boot`) |
| `poll` | `GetBlockNumber`; the branch on the answer (`Poll`, `PollIdle`) |
| `drop`, `dropFind`, `dropTxs` | `DropBlok`: the block's update, the search for its transactions, their updates |
| `block`, `parent`, `receipts` | `SyncOneBlock`'s RPCs (`FetchBlock`, `FetchParent`, `FetchReceipt`, `FetchMisses`), then the check of the parent (`CheckParent`, `CheckParentFails`) |
| `write`, `writeTxs` | `WriteBlock`, `WriteTransactions` |

`DropBlok` is called from two places. The loop condition `blockNumber > block_now`
tells which: it holds throughout a call of `SyncOneBlock` and does not in the
rollback branch. So neither the return address nor the argument is a variable.

A block is its hash, with height, parent and transactions as constant functions;
the constants are a tree of all blocks that any fork ever has. The tables are
functions from hashes to rows, as their unique keys make them; a row keeps its
status and, for a transaction, `F_block`. `FindBlockByHeight` has no order, so
with several rows any of them is returned.

The node is modelled by what its RPCs may answer: a chain of the tree that grows
or is replaced by a longer one (`ChainAdvance`) and, if `Rollback`, by one that
is not longer (`ChainRollback`). Each RPC answers from the chain of its moment.

Failures are counted by `faults`, of the kinds in `Faults`: an RPC error
(`RpcFails`); a query that fails, which panics, ends the goroutine and starts
another that goes on with `block_now` as it is (`FindPanics`); an insert or update
that fails and is returned (`WriteFails`) or ignored (`ResetSkipped`); an update
that is lost in its Commit, whose error nobody looks at, and is reported as done
(`CommitLost`); and the death of the process (`Crash`), after which `load.sh`
starts it again. An error of `GetBlockNumber` only repeats the call and is
stuttering.

`Short` are the transactions whose input `CalcTransactionType` cannot cut: it
slices the last 64 characters of a call of the mortgage contract without looking at
the length. That panics with a bounds error, which `PanicRecover` lets through, and
the process dies (`CalcPanics`), each time it comes to that block. So the chain can be
mirrored only as far as the first such block (`Readable`). A row that exists is made
NORMAL before its type is asked for, and is not affected.

### ChainMirror

The abstract specification has two variables, the NORMAL blocks and the NORMAL
transactions, and four actions: a block is put on top of a gapless stack whose blocks
are all complete, the top block is taken off, a transaction of the top block
appears, a transaction that no NORMAL block holds disappears. `MirrorImplemented` in
`BlockSync` says that `BlockSync` implements it, with `NormalBlocks` for `rows` and
`NormalTransactions` for `txs`; the node, the program counter, failures and
`block_now` are hidden. This is what the readers of the tables may rely on. It
does not say that a block is the child of the one below: that can be wrong, in one
way only (`LinksKept`, `torn_parent`).

### Listings

`Listings` extends `BlockSync` with a client that chooses a handler, its arguments
and a page size, and asks for pages 1, 2, 3... until one is empty. Every request
is a query (for `get_by_addr_and_type` an RPC for the pending transactions, the
cut of the pending list, and a query); `Write` is any step of `BlockSync` in
between. `Pages` is what `Order(...).Offset(...).Limit(...)` may return: rows in
descending order of their key, ties in any order, a different one for each query.

A page is the set of its rows. The count beside it comes from a query of its own
and decides nothing. Two facts of the code show in the model: `WriteBlock` never
sets `F_miner` (the line is commented out), so that `get_mined_block_by_addr` finds
nothing for any address but the empty one; and a transaction's timestamp is that
of the block it was first written with. `seen` and `kept` are history variables:
the rows the client has read, and those it should have read by the end.

### ApiContext

Every request has a context of its own. `Mysql()` opens a database handle the first
time it is called, and with it a connection of the MySQL server; `RESULT`, through
which `RESULT_ERROR` and `RESULT_PARAMETER_ERROR` go too, closes it (`Answers`).
`Redis()` takes a connection from a pool that all requests share.

A handler is a sequence of calls (`Block_number`, `Get_by_hash`, ...), the ones that can
fail, block, or change something that outlives it, in the code's order; `todo` is
what a request has left of them. `CallFails` is every error exit and every panic
with a string. `ReturnErr` is the two returns that bypass `RESULT`
(`get_addr_pending.go:47`, `get_hash_pending.go:61`). `days` counts the loop of the two
handlers that ask for one day at a time. `redisErrors` and `bypasses`, the number of
requests that ended without `RESULT`, are history variables. The five simple listings make
the same calls and are one script, `Get_Blocks`. The date-grouping handler has no
route and is left out.

`PANIC_RECOVER` (`apicontext.go:144-163`) tells panics apart by the kind of their
value, and a runtime error can be of either kind:

- A nil dereference panics with a `runtime.errorString`, whose kind is String. The
  String case evaluates `err.(string)`, which panics because the type is not
  `string`, before `RESULT_ERROR` is called: no answer, and the handle stays open
  (`NilPanics`). There are two, both in `get_summary`: `GLastBlock` is nil (`:47`),
  and a reward that is no number is added (`:114`).
- A bounds error is a struct, and takes the default case: it is answered, the handle
  is closed, and the panic goes on to the HTTP server, which drops the client
  (`BoundsPanics`). This is so from Go 1.13 on, which the models assume, here and in
  `CalcPanics`; `build.sh` does not fix a version. Before, bounds errors were
  `errorString`s as well, and would be one more way past `RESULT`.

External, and modelled from their use here: gorm opens one connection per handle
when it is opened, which the request's queries, one at a time, share; the server
refuses connections above its limit; redigo's pool, with `Wait` unset, counts a
connection before it dials, does not dial at its limit, and then returns a
connection that only returns errors. A connection that nobody closes stays open: the
server's idle timeout (hours) is not modelled.

What the model shows on the way: no handler ever uses or closes the Redis connection
it takes. So a Redis server that is down fails eight handlers, although `README.md:14`
says that Redis need not be configured, but only until 12000 requests have failed;
then the pool is full and they work. And `get_summary` fails from the first stored
block on: `WriteBlock` leaves `F_reward` empty (`sync.go:356`), `SetString` returns nil
and adding it panics. The client gets no answer, and each call leaves a MySQL connection
open, so that after as many calls as the server has connections every handler is refused
one, until the process is started again or the server's idle timeout passes. Its cache
would live for 120 nanoseconds (`cache.updatetime.Add(120)`).

### StatsServer

`nodes` is the collector's map. `Collect` holds the mutex throughout, and between
two calls a `Join` touches nothing but its own variables, so a message is one step:
`Hello`, `Ping`, `Report`, `Unauthorized`. `Fails` is any error that ends the loop;
then `RunDeferred` runs the deferred reports, last first, one step each, and `Close`
ends the connection. `payload` is the `EmitMessage` that all messages of a
connection are decoded into: one without a payload is handled with the payload of
the message before it. `Uses` says which nodes a connection speaks for.
A report changes a copy of the map's element that is not stored
(`collector.go:64-74`), so that an accepted report changes nothing
(`CollectReport`).

## 3. Runs

The tree of `MCBlockSync` has a genesis block `g`, a block `a1`, and above it the
forks `a`, up to height 5, and `b`, up to height 4; fork `d` differs at height 1. The
node can go from `b2` to `a3`, to `b4` and to `a5`, each time to a longer chain: a
block is dropped, replaced, comes back, and is dropped again. Each run takes the part
of the tree it needs.

| Run | Shows |
|---|---|
| `sync_faults` | With three failures of any reported kind anywhere, and a transaction that kills the process: at most one NORMAL row per height (`AtMostOneNormal`), everything below the top row complete (`PrefixComplete`), rows dropped top first (`DropsTopFirst`), together and more: the tables are the stack of `ChainMirror` (`MirrorImplemented`); before the first failure no transaction of an abandoned block stays NORMAL (`GhostFree`); the block that `get_summary` shows is at most two above the tables, and their top when the loop is at rest (`SummaryNearTables`); a block is put on a row that is not its parent only if block and parent were read from two forks (`LinksKept`); the loop always comes back to polling (`ReturnsToPoll`), and without such a read the tables become the final chain, as far as it can be read, and stay so (`Convergence`). |
| `sync_rollback` | When the head also goes down or sideways, a transaction changes its height and updates are lost in their Commit, a height has at most one NORMAL row and one more for each failure (`RowsPerFailure`). |
| `api` | Two requests at a time of any handlers: the MySQL connections are those of requests in progress and of those that ended without `RESULT`, by a bare return or a nil dereference (`HandlesAccounted`), and only the latter make the server refuse one (`RefusedOnlyForLeaks`); a Redis server that is down fails no more requests than the pool has connections (`RedisErrorsBounded`); a request that does not end waits for its client, the node or MySQL, never for the pool or another request (`HeldOnlyByPeers`). |
| `listings` | Every listing, read page by page during a reorganisation and one crash: `PagesContiguous`, `PagesOfOneBlock`, `NothingMissed`, `FittingPendingPaged`. |
| `stats` | Two connections, one node of one and one node of both: `NoLeakedNodes`, `SoleNodesListed`, `GoneNodesLeave`. |

These runs are expected to find a violation; each is a disagreement between the
code and what a comment or document says of it (quoted in `PROJECT.json`):

| Run | Violated | What happens |
|---|---|---|
| `ghost_crash` | `NoGhosts` | The process dies after `DropBlok` made the block FORK and before it reset its transactions. The next `DropBlok` finds no NORMAL block and returns: the transactions stay NORMAL. |
| `moved_height` | `Convergence` | A reorganisation moves a transaction to another height. Its old row is made NORMAL again with the old `F_block`. Nothing fails. |
| `low_restart` | `ReturnsToPoll` | A restart while block 1 is the top row. `DropBlok` drops nothing at height 1, so its transactions are inserted again, refused by the unique key, and retried for ever. |
| `rollback_rows` | `NoneAboveHead` | The head goes down by one. `block_now` is decremented first and the new height dropped: the row above stays NORMAL. |
| `torn_parent` | `LinkedInTheEnd` | The node goes from `b2` to `a3`, `b4` and `a5`. Block `a3` is read from one fork and its "parent" `b2` from the other; the check compares the row with this answer, not with the block's `ParentHash`, and passes. Block 4 then finds `a3` below it, where it should be, and `b2` stays NORMAL for ever. Nothing fails. |
| `stats_reconnect` | `LiveNodesListed` | A node connects again before its old connection has ended; the old one's deferred report unlists it, and its next report is refused. |
| `pending_pages` | `PageIsRange` | More pending transactions than fit on a page: all are shown on each page they overlap, the stored part is cut short, or the slice has a negative bound and the request panics. |

Bounds and why they are enough.

- Trees have at most nine blocks and height 5, with up to three transactions
  (four in `listings`). The synchroniser looks at one height and the one below, so heights
  0 and 1 (special in `DropBlok`), the fork's first block and two above it are all
  cases its conditions tell apart. Height 5 is there because a wrong row needs a right
  one above it, and one more fork to come from (`torn_parent`).
- `MaxFaults = 3` in `sync_faults`: a failure, another one during the recovery from
  it, and one more; 2 in `sync_rollback`, whose node is much freer, enough for three
  NORMAL rows at a height. `listings` has one crash, the failure that leaves half a block behind longest.
- Pages of 1 and 2 rows, and up to 2 pending transactions (3 in `pending_pages`): pages before, across
  and after the end of the pending list, and more pending ones than a page holds.
  `PageSizes` also has 0, which the handlers refuse.
- Two requests, `MaxConnections = 3` and `MaxActive = 3`: both can be in any call while
  earlier ones have left something behind, and both limits are reached. `MaxDays = 2`:
  loops of 0 to 3 days, the longest being the one that is a day longer than the range.
- `MaxHellos = 2`, two connections, two nodes: a connection that lists two nodes or
  one twice, next to one that shares a node with it.

The theorems have no bounds.

Fairness. `FairSpec` of `BlockSync` has weak fairness of the synchroniser's steps:
it is an endless loop whose sleeps are bounded. A step that makes a call ends only if
the node or the database answers it, with a result or an error, and `ReturnsToPoll`
and `Convergence` are to be read under this assumption. Nothing in the code enforces
it: `conf/scan.conf` sets no `RPCTimeOut`, `config.go` gives no default, and an
`http.Client` with timeout 0 waits for ever; nor does the DSN set one. What is
answered, and which calls fail, is left open; that the chain stops changing follows
from the finite tree. Which transaction is next is left open, and no property needs
more.
`ApiFairSpec` assumes nothing of the node, the database or the client, for the same
reason: a request has weak fairness only of the steps that no peer has to answer
(`AwaitsPeer`), because its handler runs in a goroutine of its own. So the node may
hold a request, and its MySQL connection, for ever. Dialling Redis counts as a step of
the request: the kernel's connect timeout ends it. That no call waits for another
request is in the actions' guards, not assumed. Nothing makes a client ask.
`FairSpec` of `StatsServer` has weak fairness of a returning `Join` only, because Go
runs deferred calls. Nothing makes a client send or a connection end.
Safety runs have no fairness. Deadlock is checked in every run.

## 4. Proofs

`BlockSyncProofs`, for every tree of blocks, every distribution of transactions,
any number of failures:

- `TypeCorrect` (`Spec => []TypeOK`) with no condition, and `OneNormalRow`
  (`Spec => []AtMostOneNormal`) if no update is lost in its Commit (`CommitsHold`);
  nothing is assumed of node or forks. `AtMostOneNormal` is not inductive: that
  `WriteBlock` adds no second row depends on what `DropBlok` did several steps
  earlier. `SafeInv` adds that the steps of `SyncOneBlock` run only while
  `Syncing` (`InSync`), that the block in hand is the one of that height
  (`Fetched`), and that from the drop to the write the height has no NORMAL row
  (`Dropped`).
- `RowsBounded` (`Spec => []RowsPerFailure`), with lost commits too. `RowsInv` adds that
  between drop and write the height has at most `faults` rows (`RowsLeft`): a drop
  takes one of them away, or a failure is counted.
- `ResumeIsSafe` (`Spec => []PrefixComplete`) and `TopFirst` (`Spec => DropsTopFirst`),
  if `CommitsHold`, the head never goes down (`~Rollback`), all forks have one genesis
  block (`OneGenesis`) and a transaction has one height in all forks
  (`TxHeightFixed`). `PrefixInv` adds to `SafeInv` that the head stays above all rows
  (`HeadAbove`), that no row is above the height in work (`RowsBelow`), that
  everything up to `block_now` is complete (`Committed`), that a transaction's row has
  its block's height (`TxRows`), and what the loops have done so far (`Locals`). The
  steps are proved in three groups: those that leave the tables alone, those that
  move `block_now`, and those that write.
- `SummaryIsNear` (`Spec => []SummaryNearTables`), under the same conditions.
  `SummaryInv` adds to `PrefixInv` that `GLastBlock` is at most two above `block_now`,
  where everything is complete, and that it is the head's row when the loop is at
  rest: resuming one below the top row is also what makes the loop fetch a block
  again after each restart.

`MirrorProofs`: `MirrorRefined` (`Spec => MirrorImplemented`), under these conditions and
if all forks share the blocks 0 and 1, which `DropBlok` never drops (`OneRoot`). Each
step of `BlockSync` is a step of `ChainMirror` or leaves its variables alone.
`MirrorInv` adds to `PrefixInv` that transactions are reset only from height 2 on.
`RowsStayLinked` (`Spec => LinksKept`), under the conditions of `ResumeIsSafe`: a drop
takes no parent away because it takes the top row, and `ParentStored` carries what
the check saw to the write.

`GhostProofs`: `NoGhostsLeft` (`Spec => []GhostFree`), if `TxHeightFixed`; the head may
go down. At a poll `GhostFree` says nothing of what came before, so `GhostInv` follows
each NORMAL transaction through the loops: a NORMAL block holds it, or `DropBlok` has
dropped a block at its height and has yet to come to it (`Tracked`). That `DropBlok`
does come to it needs `F_block` to be the height of its block (`TxRows`), which
is where `TxHeightFixed` comes in, and what both loops have left (`Loops`).
`OneBlockInv` adds that the transactions being reset are those of one block
(`DroppedTogether`), and with `RowsInv` that the NORMAL ones of a height always are
(`HeightIsOneBlock`).

`ListingsProofs`, for any rows, requests and page sizes:

- `ListTypeCorrect` (`ListSpec => []ListTypeOK`) and `PendingArePaged`
  (`ListSpec => []FittingPendingPaged`), with no condition. `WindowInv` adds that the
  query in progress is the cut of its page's range (`Windows`).
- `PagesAreContiguous` (`ListSpec => []PagesContiguous`), under the conditions of
  `MirrorRefined`. `PageIsInterval` is about `Pages` alone: a page of a set with one row for
  each of its keys, and no gap between them, has no gap. That `t_block` is such a set at
  every moment is `MirrorInv`; the answer stays as it was while the tables move on.
- `PagesAreOfOneBlock` (`ListSpec => []PagesOfOneBlock`), if `OneRoot` and
  `TxHeightFixed`, from `OneBlockInv`.
- `NoRowMissed` (`ListSpec => []NothingMissed`), with no condition. The rank of a row is the
  number of rows with a higher key. `MissInv` says that a row with a key of its own has
  been seen, or that its rank is not below the number of rows on the pages so far
  (`SeenOrAhead`). Rows that are added can only make ranks grow (`RanksGrow`), a page
  holds every such row whose rank falls on it (`PageHoldsRow`), and an empty page is
  behind all rows (`EmptyPageIsLast`). Cardinalities make it necessary that the
  tables are finite (`FiniteTables`), which they are because each step adds one row.

`ApiContextProofs`, for any number of requests and any limits: `ApiTypeCorrect`,
`AllHandlesAccounted`, `RedisBounded` and `NeverRefused`, from `ApiInv`. The count of
connections is not inductive by itself: that `Mysql()` adds one for a request that had
none, and later calls add none, depends on the script. `Fits` says that the calls a
request has left open the handle at most once, and before they use it or can end past
`RESULT`, so that each such end leaves exactly one connection (`BypassesKeeps`);
`HandlersFit` shows it of each handler's script.

`StatsServerProofs`, for any number of connections, nodes and hellos:

- `StatsTypeCorrect` (`Spec => []StatsTypeOK`) and `NothingLeaks`
  (`Spec => []NoLeakedNodes`) from `StatsInv`: the types, and a closed
  connection has nothing deferred.
- `SoleStayListed` (`Spec => []SoleNodesListed`) from `LiveInv`, which adds that a
  connection's payload and deferred reports name only nodes it speaks for
  (`Speaks`); this is what the reused `EmitMessage` could have broken.

The proofs rest on the modules' assumptions about their constants, which say what
kind of value each is, that `NoBlock` and `None` are not values of the other kinds, and
that a block's parent is a block one below it (`ParentAssumption`).

Only model-checked: liveness (`ReturnsToPoll`, `Convergence`, `HeldOnlyByPeers`,
`GoneNodesLeave`), which this prover does not do under fairness. All other properties
of the passing runs are theorems.

## 5. What is not modelled

- Fees, rewards, addresses and times: copied and never read back by the
  synchroniser. The type `CalcTransactionType` finds is a constant of `Listings`.
- What the lookup handlers answer: they put together answers of the node, and of the
  tables, and keep nothing. `get_transaction_by_hash` asks the node three times while
  its chain may move, and shows a transaction that was pending at the first call with
  the time of block 0; see the hazards. The counts that go with pages.
- Exchange rates and miner rewards: the goroutines are commented out in `main` and
  the functions that write have no other caller. `get_exchange_rate` answers constants.
- Configuration, logging, random strings, static files, routes.

## 6. Plan

1. `BlockSync`, its runs and theorems. Done.
2. `StatsServer`, its runs and theorems. Done.
3. `Listings`: readers composed with `BlockSync`. Done, with its theorems.
4. `ChainMirror` and the refinement; updates lost in their Commit; inputs that cannot be
   cut; `get_summary`'s view of `GLastBlock`. Done, with their theorems.
5. `ApiContext`: request contexts, the pool and all handlers' calls. Done, with its
   theorems.
6. `GhostFree` and `LinksKept`. Done, with their theorems.
7. Theorems with fewer conditions: `ResumeIsSafe` when the head goes down, for the heights
   below the lowest head so far; how many rows `torn_parent` can leave. Open.
