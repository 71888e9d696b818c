------------------------------ MODULE BlockSync ------------------------------
(***************************************************************************)
(* The block synchroniser (package sync, with the tables of package model) *)
(* One goroutine copies the canonical chain of a Cypherium node, read over *)
(* JSON-RPC one call at a time, into the tables t_block and t_transaction. *)
(* The chain moves while the goroutine works, every RPC and every database *)
(* call can fail, and the process can die between any two of them: load.sh *)
(* starts it again and it resumes from what the tables say.                *)
(*                                                                         *)
(* A block or a transaction is identified by its hash.  A row keeps what   *)
(* the synchroniser decides on: the status of a block (its height is that  *)
(* of its hash), and the status and F_block of a transaction.  Fees, times *)
(* and addresses are copied and never read back by the synchroniser.       *)
(***************************************************************************)
EXTENDS Integers, FiniteSets

CONSTANTS
    Blocks,         \* the hashes of every block any fork ever holds
    Number,         \* the height of a block
    ParentHash,     \* the hash of its parent
    TxHashes,       \* the hashes of transactions
    Transactions,   \* the transactions of a block
    Short,          \* the ones whose input CalcTransactionType cannot cut
    NoBlock,        \* no block: nil, and the parent of a genesis block
    Rollback,       \* TRUE iff the node's head may also go down or sideways
    Faults,         \* the kinds of failure that may happen
    MaxFaults       \* how many of them happen in a behaviour

ASSUME BlocksAssumption ==
    /\ NoBlock \notin Blocks
    /\ Number \in [Blocks -> Nat]
    /\ ParentHash \in [Blocks -> Blocks \cup {NoBlock}]
    /\ Transactions \in [Blocks -> SUBSET TxHashes]
    /\ Short \subseteq TxHashes

\* The parent of a block is a block one below it.
ASSUME ParentAssumption ==
    \A b \in Blocks : Number[b] > 0 => /\ ParentHash[b] \in Blocks
                                       /\ Number[ParentHash[b]] = Number[b] - 1

ASSUME FaultsAssumption ==
    /\ Rollback \in BOOLEAN
    /\ Faults \subseteq {"rpc", "db", "commit", "crash"}
    /\ MaxFaults \in Nat

VARIABLES
    chain,              \* the node's canonical chain, a set of blocks
    t_block,            \* the row of each block hash: its F_status
    t_transaction,      \* the row of each transaction hash
    block_now,          \* height of the last synchronised block
    blockNumber,        \* the head read by the current iteration
    GLastBlock,         \* the block fetched last (SyncOneBlock's chain_block)
    chain_parent_block, \* SyncOneBlock's parent, as the node reported it
    todo,               \* what the current loop over transactions has left
    pc,                 \* the next step of the goroutine
    faults              \* failures so far

vars == <<chain, t_block, t_transaction, block_now, blockNumber, GLastBlock,
          chain_parent_block, todo, pc, faults>>

db == <<t_block, t_transaction>>

(***************************************************************************)
(* The tables.  "absent" stands for "no row with this hash".  ILLEGAL is a *)
(* status no code writes.                                                  *)
(***************************************************************************)
Status == {"absent", "NORMAL", "FORK"}

TransactionRow == [F_status : Status, F_block : Nat \cup {-1}]

NoTransaction == [F_status |-> "absent", F_block |-> -1]

NormalBlocks == {b \in Blocks : t_block[b] = "NORMAL"}

NormalTransactions == {t \in TxHashes : t_transaction[t].F_status = "NORMAL"}

\* FindBlockByHeight: the query has no order, so with several NORMAL rows at a
\* height First may return any of them.
FindBlockByHeight(height) == {b \in NormalBlocks : Number[b] = height}

FindTrasactionByHeightOffByOne(height) ==
    {t \in TxHashes : /\ t_transaction[t].F_status = "NORMAL"
                      /\ t_transaction[t].F_block = height - 1}

FindTrasactionByHeight(height) ==
    {t \in TxHashes : /\ t_transaction[t].F_status = "NORMAL"
                      /\ t_transaction[t].F_block = height}

\* GetMaxBlocNumber: the highest NORMAL row, 0 when there is none.
IsMaxBlocNumber(n) ==
    \/ /\ \E b \in NormalBlocks : Number[b] = n
       /\ \A b \in NormalBlocks : Number[b] <= n
    \/ n = 0 /\ NormalBlocks = {}

(***************************************************************************)
(* The node: what its RPC answers come from.                               *)
(***************************************************************************)
IsChain(S) ==
    /\ S # {}
    /\ \A b \in S : IF Number[b] = 0 THEN ParentHash[b] = NoBlock
                                     ELSE ParentHash[b] \in S
    /\ \A b, c \in S : b # c => /\ Number[b] # Number[c]
                                /\ Transactions[b] \cap Transactions[c] = {}

Chains == {S \in SUBSET Blocks : IsChain(S)}

IsHead(S, n) ==
    /\ \E b \in S : Number[b] = n
    /\ \A b \in S : Number[b] <= n

Longer(S, T) == \E b \in S : \A c \in T : Number[c] < Number[b]

\* GetBlockByNumber(height): nothing when the chain does not reach height.
GetBlockByNumber(height) == {b \in chain : Number[b] = height}

\* GetTransactionReceipt(t): the node has one iff t is on the chain.
HasReceipt(t) == \E b \in chain : t \in Transactions[b]

\* The chain grows: by new blocks on top, or by a reorganisation to a longer
\* fork.
ChainAdvance ==
    /\ chain' \in Chains
    /\ Longer(chain', chain)
    /\ UNCHANGED <<db, block_now, blockNumber, GLastBlock, chain_parent_block,
                   todo, pc, faults>>

\* The chain is replaced by one that is not longer: the node was reset, or
\* preferred a fork by something other than its height.
ChainRollback ==
    /\ Rollback
    /\ chain' \in Chains \ {chain}
    /\ ~Longer(chain', chain)
    /\ UNCHANGED <<db, block_now, blockNumber, GLastBlock, chain_parent_block,
                   todo, pc, faults>>

(***************************************************************************)
(* Control flow shared by the steps.  SyncOneBlock is called with height   *)
(* block_now + 1 while blockNumber > block_now, DropBlok with block_now    *)
(* when the head is below: so the loop condition tells the two calls apart *)
(***************************************************************************)
Syncing == blockNumber > block_now

Height == IF Syncing THEN block_now + 1 ELSE block_now

\* The outer loop starts over: a new iteration, or a new goroutine.
NextPoll ==
    /\ pc' = "poll"
    /\ blockNumber' = -1
    /\ todo' = {}
    /\ chain_parent_block' = NoBlock

\* The inner loop calls SyncOneBlock: again after an error, or for the next
\* height.
NextSync ==
    /\ pc' = "drop"
    /\ todo' = {}
    /\ chain_parent_block' = NoBlock
    /\ UNCHANGED blockNumber

\* DropBlok returns: SyncOneBlock goes on, the rollback branch polls again.
DropReturns ==
    \/ /\ Syncing
       /\ pc' = "block"
       /\ UNCHANGED <<blockNumber, chain_parent_block>>
       /\ todo' = {}
    \/ ~Syncing /\ NextPoll

Init ==
    /\ chain \in Chains
    /\ t_block = [b \in Blocks |-> "absent"]
    /\ t_transaction = [t \in TxHashes |-> NoTransaction]
    /\ block_now = -1
    /\ blockNumber = -1
    /\ GLastBlock = NoBlock
    /\ chain_parent_block = NoBlock
    /\ todo = {}
    /\ pc = "boot"
    /\ faults = 0

(***************************************************************************)
(* StartSyncLastBlock                                                      *)
(***************************************************************************)
ResumeAtTop(max_block) == max_block

ResumePoint(max_block) == max_block - 1

\* The process starts: resume one below the highest NORMAL row, so that the
\* top block, possibly half written, is synchronised again.
Boot ==
    /\ pc = "boot"
    /\ \E max_block \in {Number[b] : b \in Blocks} \cup {0} :
          /\ IsMaxBlocNumber(max_block)
          /\ block_now' = ResumePoint(max_block)
    /\ pc' = "poll"
    /\ UNCHANGED <<chain, db, blockNumber, GLastBlock, chain_parent_block,
                   todo, faults>>

\* GetBlockNumber answers with a head above or below block_now.
Poll ==
    /\ pc = "poll"
    /\ \E n \in {Number[b] : b \in chain} :
          /\ IsHead(chain, n)
          /\ n # block_now
          /\ block_now' = IF n < block_now THEN block_now - 1 ELSE block_now
          /\ blockNumber' = n
    /\ pc' = "drop"
    /\ UNCHANGED <<chain, db, GLastBlock, chain_parent_block, todo, faults>>

\* The head is block_now: sleep and ask again.
PollIdle ==
    /\ pc = "poll"
    /\ IsHead(chain, block_now)
    /\ UNCHANGED vars

(***************************************************************************)
(* DropBlok(Height)                                                        *)
(***************************************************************************)
DroppableOffByOne(height) == height > 2

\* The blocks at heights 0 and 1 are never dropped.
Droppable(height) == height > 1

\* Nothing to drop.
DropSkips ==
    /\ pc = "drop"
    /\ ~Droppable(Height) \/ FindBlockByHeight(Height) = {}
    /\ DropReturns
    /\ UNCHANGED <<chain, db, block_now, GLastBlock, faults>>

DropBlock ==
    /\ pc = "drop"
    /\ Droppable(Height)
    /\ \E b \in FindBlockByHeight(Height) :
          t_block' = [t_block EXCEPT ![b] = "FORK"]
    /\ pc' = "dropFind"
    /\ UNCHANGED <<chain, t_transaction, block_now, blockNumber, GLastBlock,
                   chain_parent_block, todo, faults>>

DropFind ==
    /\ pc = "dropFind"
    /\ todo' = FindTrasactionByHeight(Height)
    /\ pc' = "dropTxs"
    /\ UNCHANGED <<chain, db, block_now, blockNumber, GLastBlock,
                   chain_parent_block, faults>>

DropTransaction ==
    /\ pc = "dropTxs"
    /\ \E t \in todo :
          /\ t_transaction' = [t_transaction EXCEPT ![t].F_status = "FORK"]
          /\ todo' = todo \ {t}
    /\ UNCHANGED <<chain, t_block, block_now, blockNumber, GLastBlock,
                   chain_parent_block, pc, faults>>

DropDone ==
    /\ pc = "dropTxs"
    /\ todo = {}
    /\ DropReturns
    /\ UNCHANGED <<chain, db, block_now, GLastBlock, faults>>

(***************************************************************************)
(* SyncOneBlock(Height)                                                    *)
(***************************************************************************)
FetchBlock ==
    /\ pc = "block"
    /\ \E b \in GetBlockByNumber(Height) :
          /\ GLastBlock' = b
          /\ todo' = Transactions[b]
    /\ pc' = IF Height > 0 THEN "parent" ELSE "receipts"
    /\ UNCHANGED <<chain, db, block_now, blockNumber, chain_parent_block,
                   faults>>

FetchParent ==
    /\ pc = "parent"
    /\ chain_parent_block' \in GetBlockByNumber(Height - 1)
    /\ pc' = "receipts"
    /\ UNCHANGED <<chain, db, block_now, blockNumber, GLastBlock, todo, faults>>

FetchReceipt ==
    /\ pc = "receipts"
    /\ \E t \in todo : HasReceipt(t) /\ todo' = todo \ {t}
    /\ UNCHANGED <<chain, db, block_now, blockNumber, GLastBlock,
                   chain_parent_block, pc, faults>>

\* The chain moved and no longer holds what is asked for: an empty response,
\* returned as an error.
FetchMisses ==
    /\ \/ pc = "block" /\ GetBlockByNumber(Height) = {}
       \/ pc = "parent" /\ GetBlockByNumber(Height - 1) = {}
       \/ pc = "receipts" /\ \E t \in todo : ~HasReceipt(t)
    /\ NextSync
    /\ UNCHANGED <<chain, db, block_now, GLastBlock, faults>>

ParentUnchecked(databases_block_parent) == TRUE

\* "check parent block": the parent the node reported is the NORMAL row below.
ParentMatches(databases_block_parent) ==
    Height > 0 => chain_parent_block = databases_block_parent

ParentMissingAtAnyHeight == FindBlockByHeight(Height - 1) = {}

ParentMissing == Height # 0 /\ FindBlockByHeight(Height - 1) = {}

CheckParent ==
    /\ pc = "receipts"
    /\ todo = {}
    /\ \/ Height = 0
       \/ \E p \in FindBlockByHeight(Height - 1) : ParentMatches(p)
    /\ pc' = "write"
    /\ UNCHANGED <<chain, db, block_now, blockNumber, GLastBlock,
                   chain_parent_block, todo, faults>>

TwoBelow == block_now - 2

OneBelow == block_now - 1

\* The row below is missing, or is another block: go back one height.
CheckParentFails ==
    /\ pc = "receipts"
    /\ todo = {}
    /\ \/ ParentMissing
       \/ \E p \in FindBlockByHeight(Height - 1) : ~ParentMatches(p)
    /\ block_now' = OneBelow
    /\ NextSync
    /\ UNCHANGED <<chain, db, GLastBlock, faults>>

\* A new row, or the FORK row of the same hash made NORMAL again.
WriteBlock ==
    /\ pc = "write"
    /\ t_block' = [t_block EXCEPT ![GLastBlock] = "NORMAL"]
    /\ todo' = Transactions[GLastBlock]
    /\ pc' = "writeTxs"
    /\ UNCHANGED <<chain, t_transaction, block_now, blockNumber, GLastBlock,
                   chain_parent_block, faults>>

\* CalcTransactionType cuts the last 64 characters of the input of a call of the
\* mortgage contract without looking at its length.  A row that exists is made
\* NORMAL before that.
CutFails(t) == t \in Short /\ t_transaction[t].F_status = "absent"

\* A FORK row is made NORMAL and keeps the rest of its columns.
WrittenRow(t) ==
    IF t_transaction[t].F_status = "absent"
    THEN [F_status |-> "NORMAL", F_block |-> Number[GLastBlock]]
    ELSE [t_transaction[t] EXCEPT !.F_status = "NORMAL"]

WriteTransaction ==
    /\ pc = "writeTxs"
    /\ \E t \in todo :
          /\ t_transaction[t].F_status # "NORMAL"
          /\ ~CutFails(t)
          /\ t_transaction' = [t_transaction EXCEPT ![t] = WrittenRow(t)]
          /\ todo' = todo \ {t}
    /\ UNCHANGED <<chain, t_block, block_now, blockNumber, GLastBlock,
                   chain_parent_block, pc, faults>>

\* The process dies: its memory is lost, the tables stay, load.sh starts it again.
Dies ==
    /\ pc' = "boot"
    /\ block_now' = -1
    /\ blockNumber' = -1
    /\ GLastBlock' = NoBlock
    /\ chain_parent_block' = NoBlock
    /\ todo' = {}
    /\ UNCHANGED <<chain, db>>

\* The cut panics with a bounds error, which is a struct and not of kind String:
\* PanicRecover panics again, and with no one left to recover it the process dies.
CalcPanics ==
    /\ pc = "writeTxs"
    /\ \E t \in todo : CutFails(t)
    /\ Dies
    /\ UNCHANGED faults

\* A row that is NORMAL already is inserted again: the unique key on F_tx_hash
\* refuses it.
DuplicateTransaction ==
    /\ pc = "writeTxs"
    /\ \E t \in todo : t_transaction[t].F_status = "NORMAL"
    /\ NextSync
    /\ UNCHANGED <<chain, db, block_now, GLastBlock, faults>>

SyncOneBlockDone ==
    /\ pc = "writeTxs"
    /\ todo = {}
    /\ block_now' = block_now + 1
    /\ IF blockNumber > block_now' THEN NextSync ELSE NextPoll
    /\ UNCHANGED <<chain, db, GLastBlock, faults>>

(***************************************************************************)
(* Failures                                                                *)
(***************************************************************************)
Fault(kind) ==
    /\ kind \in Faults
    /\ faults < MaxFaults
    /\ faults' = faults + 1

\* An RPC of SyncOneBlock fails or times out.
RpcFails ==
    /\ Fault("rpc")
    /\ pc \in {"block", "parent"} \/ (pc = "receipts" /\ todo # {})
    /\ NextSync
    /\ UNCHANGED <<chain, db, block_now, GLastBlock>>

\* A query fails: the Find functions panic with a string, PanicRecover ends the
\* goroutine and StartSyncLastBlock starts another, with block_now as it is.
FindPanics ==
    /\ Fault("db")
    /\ \/ pc = "drop" /\ Droppable(Height)
       \/ pc \in {"dropFind", "write"}
       \/ pc = "receipts" /\ todo = {}
       \/ pc = "writeTxs" /\ todo # {}
    /\ NextPoll
    /\ UNCHANGED <<chain, db, block_now, GLastBlock>>

\* An INSERT or UPDATE fails and its error is returned; the rollback branch
\* ignores the one of DropBlok.
WriteFails ==
    /\ Fault("db")
    /\ \/ pc = "drop" /\ Droppable(Height) /\ FindBlockByHeight(Height) # {}
       \/ pc = "write" /\ t_block[GLastBlock] # "NORMAL"
       \/ pc = "writeTxs" /\ todo # {}
    /\ IF Syncing THEN NextSync ELSE NextPoll
    /\ UNCHANGED <<chain, db, block_now, GLastBlock>>

\* DropBlok ignores the error of UpdateTransactionStatus.
ResetSkipped ==
    /\ Fault("db")
    /\ pc = "dropTxs"
    /\ \E t \in todo : todo' = todo \ {t}
    /\ UNCHANGED <<chain, db, block_now, blockNumber, GLastBlock,
                   chain_parent_block, pc>>

\* An update is lost in its Commit, whose error is not looked at: the status is
\* reported as written and is not.
CommitLost ==
    /\ Fault("commit")
    /\ \/ /\ pc = "drop" /\ Droppable(Height) /\ FindBlockByHeight(Height) # {}
          /\ pc' = "dropFind"
          /\ UNCHANGED todo
       \/ /\ pc = "write" /\ t_block[GLastBlock] = "FORK"
          /\ pc' = "writeTxs"
          /\ todo' = Transactions[GLastBlock]
       \/ /\ pc \in {"dropTxs", "writeTxs"}
          /\ \E t \in todo :
                /\ pc = "writeTxs" => t_transaction[t].F_status = "FORK"
                /\ todo' = todo \ {t}
          /\ UNCHANGED pc
    /\ UNCHANGED <<chain, db, block_now, blockNumber, GLastBlock,
                   chain_parent_block>>

Crash ==
    /\ Fault("crash")
    /\ pc # "boot"
    /\ Dies

SyncStep ==
    \/ Boot \/ Poll \/ PollIdle
    \/ DropSkips \/ DropBlock \/ DropFind \/ DropTransaction \/ DropDone
    \/ FetchBlock \/ FetchParent \/ FetchReceipt \/ FetchMisses
    \/ CheckParent \/ CheckParentFails
    \/ WriteBlock \/ WriteTransaction \/ CalcPanics \/ DuplicateTransaction
    \/ SyncOneBlockDone

Failure ==
    \/ RpcFails \/ FindPanics \/ WriteFails \/ ResetSkipped \/ CommitLost \/ Crash

Next == ChainAdvance \/ ChainRollback \/ SyncStep \/ Failure

Spec == Init /\ [][Next]_vars

\* The goroutine is an endless loop with bounded sleeps: it takes its next step if
\* the node and the database answer, with a result or an error.  That they do is an
\* assumption: no timeout is configured for either.  What they answer, and which
\* calls fail, is left open.
FairSpec == Spec /\ WF_vars(SyncStep)

(***************************************************************************)
(* Conditions on the constants under which some of the properties hold     *)
(***************************************************************************)
\* No update is lost in its Commit.
CommitsHold == "commit" \notin Faults

\* All forks have one genesis block.
OneGenesis == \A b, c \in Blocks : Number[b] = 0 /\ Number[c] = 0 => b = c

\* All forks have the blocks in common that DropBlok never drops.
OneRoot == \A b, c \in Blocks : Number[b] = Number[c] /\ Number[b] < 2 => b = c

\* A transaction that several forks hold is at the same height in all of them.
TxHeightFixed ==
    \A b, c \in Blocks :
        Transactions[b] \cap Transactions[c] # {} => Number[b] = Number[c]

(***************************************************************************)
(* Properties                                                              *)
(***************************************************************************)
\* Every variable holds a value of its kind.  block_now (connect.go) never goes
\* below -1, however often SyncOneBlock steps back.
TypeOK ==
    /\ chain \in Chains
    /\ t_block \in [Blocks -> Status]
    /\ t_transaction \in [TxHashes -> TransactionRow]
    /\ block_now \in Nat \cup {-1}
    /\ blockNumber \in Nat \cup {-1}
    /\ GLastBlock \in Blocks \cup {NoBlock}
    /\ chain_parent_block \in Blocks \cup {NoBlock}
    /\ todo \in SUBSET TxHashes
    /\ pc \in {"boot", "poll", "drop", "dropFind", "dropTxs", "block", "parent",
               "receipts", "write", "writeTxs"}
    /\ faults \in 0..MaxFaults

\* From height 2 on, no two rows of t_block at one height are ever NORMAL, so
\* that FindBlockByHeight has one answer: DropBlok always runs before
\* WriteBlock, and nothing that fails in between can separate the two.
AtMostOneNormal ==
    \A b, c \in NormalBlocks : Number[b] = Number[c] /\ Number[b] >= 2 => b = c

\* With updates lost in their Commit there may be more, but no more than failures:
\* from height 2 on, each adds at most one NORMAL row to a height, however often
\* the synchroniser drops one of several rows and writes another.
RowsPerFailure ==
    \A b \in NormalBlocks :
        Number[b] >= 2 => Cardinality(FindBlockByHeight(Number[b])) <= 1 + faults

\* Height h has a NORMAL block, whose transactions are all NORMAL at height h.
Complete(h) ==
    \E b \in NormalBlocks :
        /\ Number[b] = h
        /\ \A t \in Transactions[b] :
              t_transaction[t] = [F_status |-> "NORMAL", F_block |-> h]

\* Below a NORMAL row every height is complete.  Only the top row may be half
\* written: this is what makes GetMaxBlocNumber - 1 a safe point for
\* StartSyncLastBlock to resume from.
PrefixComplete ==
    \A b \in NormalBlocks : \A h \in 0..(Number[b] - 1) : Complete(h)

\* The block a step takes out of the NORMAL state is the highest NORMAL one.
DropsTheTop ==
    \A b, c \in NormalBlocks :
        t_block'[b] # "NORMAL" => Number[c] <= Number[b]

\* Rows leave the NORMAL state from the top down: DropBlok never makes a block
\* FORK while a higher one is still NORMAL.
DropsTopFirst == [][DropsTheTop]_vars

\* When the loop polls and the NORMAL blocks are the node's chain, no
\* transaction is still NORMAL that the chain does not hold: DropBlok ("find
\* transaction, reset") has reset every transaction of the blocks it dropped.
NoGhosts ==
    pc = "poll" /\ NormalBlocks = chain
    => \A t \in TxHashes : t_transaction[t].F_status = "NORMAL" => HasReceipt(t)

\* As long as nothing fails, however the chain is reorganised while DropBlok and
\* SyncOneBlock work, no such transaction is left.
GhostFree == faults = 0 => NoGhosts

\* The block number that get_summary answers is that of GLastBlock, which it reads
\* between any two steps of SyncOneBlock (get_summary.go:46).  It is never more than
\* two above the highest stored block, and when the loop has reached the head it is
\* that block's: a restart, which forgets GLastBlock, always fetches one again.
SummaryNearTables ==
    /\ \A b \in {GLastBlock} \ {NoBlock} :
          Number[b] < 2 \/ \E c \in NormalBlocks : Number[b] - Number[c] <= 2
    /\ pc = "poll" /\ IsHead(chain, block_now)
       => /\ GLastBlock \in NormalBlocks
          /\ Number[GLastBlock] = block_now

\* The blocks of the chain up to the first that CalcTransactionType dies of.
Readable ==
    {b \in chain : \A c \in chain :
                      Number[c] <= Number[b] => Transactions[c] \cap Short = {}}

\* The tables are the chain: the NORMAL blocks are blocks of the chain, all that
\* can be read among them, and the transactions of these are NORMAL at their
\* height.
Mirrors ==
    /\ NormalBlocks \subseteq chain
    /\ Readable \subseteq NormalBlocks
    /\ \A b \in Readable : Complete(Number[b])

Mirror == INSTANCE ChainMirror WITH rows <- NormalBlocks, txs <- NormalTransactions

\* The tables are the stack of blocks that ChainMirror describes, through crashes,
\* errors and reorganisations: readers never see a gap below the top, and nothing
\* but the top block is ever incomplete or taken back.
MirrorImplemented == Mirror!MirrorSpec

\* The synchroniser always comes back to asking for the head: no block keeps the
\* inner loop of StartSyncLastBlock busy for ever.
ReturnsToPoll == []<>(pc = "poll")

\* Every NORMAL block stands on its own parent.
ParentLinked ==
    \A b \in NormalBlocks : Number[b] > 0 => ParentHash[b] \in NormalBlocks

\* No reorganisation came between SyncOneBlock's reads of the block it is about
\* to write and of that block's parent.
ReadsAgree ==
    pc = "write" /\ Number[GLastBlock] > 0
    => chain_parent_block = ParentHash[GLastBlock]

\* Only one thing puts a block on a row that is not its parent: a write after
\* SyncOneBlock read block and parent from two forks.  No drop, failure or
\* restart does, and no other reorganisation.
LinksKept == [][ReadsAgree /\ ParentLinked => ParentLinked']_vars

\* Once the node stops changing its chain the synchroniser reaches it, and
\* stays there (StartSyncLastBlock's loop), whatever reorganisations came
\* between its other steps.  It gets as far as the first block that makes it
\* die, and what is below stays right however often it does.
Convergence == []ReadsAgree => <>[]Mirrors

(***************************************************************************)
(* What comments and documents say, and the code does not do               *)
(***************************************************************************)
\* With the head at block_now the loop is at rest, and no droppable row above
\* the head is NORMAL: the rollback branch ("so sync from parent") has dropped
\* what the node no longer has.
NoneAboveHead ==
    pc = "poll" /\ IsHead(chain, block_now)
    => \A b \in NormalBlocks : Number[b] >= 2 => Number[b] <= block_now

\* "check parent block" in SyncOneBlock: in the end, once the node stops changing
\* its chain, the rows are a chain too.
LinkedInTheEnd == <>[]ParentLinked
=============================================================================
