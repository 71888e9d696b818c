---------------------------- MODULE MirrorProofs ----------------------------
(***************************************************************************)
(* BlockSync implements ChainMirror, for every tree of blocks whose forks  *)
(* share the blocks that DropBlok never drops, and any number of failures. *)
(* The step simulation rests on PrefixInv of BlockSyncProofs, and so does   *)
(* what keeps a block of t_block on the row of its own parent.             *)
(***************************************************************************)
EXTENDS BlockSyncProofs

\* DropBlok works on its transactions only at a height it may drop.
DropsHigh == pc \in {"dropFind", "dropTxs"} => Height >= 2

MirrorInv == PrefixInv /\ DropsHigh

LEMMA MirrorInvInit == Init => MirrorInv
  BY PrefixInit DEF Init, MirrorInv, DropsHigh

LEMMA DropsHighNext ==
    ASSUME TypeInv, DropsHigh, [Next]_vars
    PROVE  DropsHigh'
<1> USE DEF DropsHigh, Height, Syncing
<1>1. CASE DropBlock
  BY <1>1, BlocksAssumption DEF DropBlock, Droppable, TypeInv, TypeOK
<1>2. CASE DropFind
  BY <1>2 DEF DropFind
<1>3. CASE CommitLost
  BY <1>3 DEF CommitLost, Droppable, TypeInv, TypeOK
<1>4. CASE UNCHANGED <<pc, block_now, blockNumber>>
  BY <1>4
<1>5. CASE pc' \notin {"dropFind", "dropTxs"}
  BY <1>5
<1> QED
  BY <1>1, <1>2, <1>3, <1>4, <1>5
  DEF Next, SyncStep, Failure, vars, ChainAdvance, ChainRollback, Boot, Poll,
      PollIdle, DropSkips, DropReturns, DropTransaction, DropDone, FetchBlock,
      FetchParent, FetchReceipt, FetchMisses, CheckParent, CheckParentFails,
      WriteBlock, WriteTransaction, CalcPanics, DuplicateTransaction,
      SyncOneBlockDone, RpcFails, FindPanics, WriteFails, ResetSkipped, Crash,
      Dies, NextPoll, NextSync

LEMMA MirrorInvNext ==
    ASSUME CommitsHold, ~Rollback, OneRoot, TxHeightFixed
    PROVE  MirrorInv /\ [Next]_vars => MirrorInv'
<1>1. OneGenesis
  BY BlocksAssumption DEF OneRoot, OneGenesis
<1> QED
  BY <1>1, PrefixNext, DropsHighNext DEF MirrorInv, PrefixInv, SafeInv

\* At the heights in question a NORMAL block has no second one beside it.
LEMMA OneRowPerHeight ==
    ASSUME OneRoot, PrefixInv, NEW b \in NormalBlocks, NEW c \in NormalBlocks,
           Number[b] = Number[c]
    PROVE  b = c
<1>1. b \in Blocks /\ c \in Blocks /\ Number[b] \in Nat
  BY BlocksAssumption DEF NormalBlocks
<1>2. CASE Number[b] < 2
  BY <1>1, <1>2 DEF OneRoot
<1>3. CASE Number[b] >= 2
  BY <1>3 DEF PrefixInv, SafeInv, AtMostOneNormal
<1> QED
  BY <1>1, <1>2, <1>3

\* Every step of BlockSync is a step of ChainMirror or leaves its state alone.
LEMMA MirrorStep ==
    ASSUME OneRoot, TxHeightFixed, MirrorInv, [Next]_vars
    PROVE  [Mirror!MirrorNext]_<<NormalBlocks, NormalTransactions>>
<1> USE BlocksAssumption
<1>1. PrefixInv /\ SafeInv /\ TypeInv /\ TypeOK
  BY DEF MirrorInv, PrefixInv, SafeInv, TypeInv
<1>2. NormalBlocks \subseteq Blocks
  BY DEF NormalBlocks
<1>3. CASE UNCHANGED db
  BY <1>3 DEF db, NormalBlocks, NormalTransactions
<1>4. ASSUME DropBlock \/ DropTransaction \/ WriteBlock \/ WriteTransaction
      PROVE  /\ Height = block_now + 1
             /\ block_now \in Nat \cup {-1}
             /\ pc # "boot"
             /\ \A b \in NormalBlocks : Number[b] <= block_now + 1
  BY <1>1, <1>4
  DEF PrefixInv, SafeInv, TypeInv, TypeOK, InSync, Fetching, HeadAbove, RowsBelow,
      Height, Syncing, DropBlock, DropTransaction, WriteBlock, WriteTransaction
<1>5. CASE DropBlock
  <2>1. PICK d \in FindBlockByHeight(Height) :
            t_block' = [t_block EXCEPT ![d] = "FORK"]
    BY <1>5 DEF DropBlock
  <2>2. d \in NormalBlocks /\ Number[d] = block_now + 1
    BY <1>4, <1>5, <2>1 DEF FindBlockByHeight
  <2>3. NormalBlocks' = NormalBlocks \ {d}
    BY <1>1, <2>1, <2>2 DEF NormalBlocks, TypeOK
  <2>4. NormalTransactions' = NormalTransactions
    BY <1>5 DEF DropBlock, NormalTransactions
  <2>5. Mirror!Retract(d)
    BY <1>4, <1>5, <2>2, <2>3, <2>4 DEF Mirror!Retract, Mirror!IsTop
  <2> QED
    BY <1>2, <2>2, <2>5 DEF Mirror!MirrorNext
<1>6. CASE DropTransaction
  <2>1. PICK d \in todo :
            t_transaction' = [t_transaction EXCEPT ![d].F_status = "FORK"]
    BY <1>6 DEF DropTransaction
  <2>2. /\ d \in NormalTransactions
        /\ t_transaction[d].F_block = block_now + 1
        /\ block_now + 1 >= 2
        /\ FindBlockByHeight(block_now + 1) = {}
    BY <1>1, <1>4, <1>6
    DEF DropTransaction, MirrorInv, DropsHigh, PrefixInv, SafeInv, Dropped, Locals,
        FindTrasactionByHeight, NormalTransactions
  <2>3. NormalTransactions' = NormalTransactions \ {d}
    BY <1>1, <2>1, <2>2 DEF NormalTransactions, TypeOK, TransactionRow
  <2>4. NormalBlocks' = NormalBlocks
    BY <1>6 DEF DropTransaction, NormalBlocks
  <2>5. \A c \in NormalBlocks : d \notin Transactions[c]
    BY <1>1, <1>2, <2>2
    DEF PrefixInv, TxRows, FindBlockByHeight, NormalTransactions
  <2>6. Mirror!Hide
    BY <2>2, <2>3, <2>4, <2>5 DEF Mirror!Hide
  <2> QED
    BY <2>6 DEF Mirror!MirrorNext
<1>7. CASE WriteBlock
  <2>1. /\ GLastBlock \in Blocks /\ Number[GLastBlock] = block_now + 1
        /\ t_block' = [t_block EXCEPT ![GLastBlock] = "NORMAL"]
        /\ UNCHANGED t_transaction
        /\ pc = "write"
    BY <1>1, <1>7 DEF WriteBlock, TypeInv, Fetched, Fetching
  <2>2. /\ NormalBlocks' = NormalBlocks \cup {GLastBlock}
        /\ NormalTransactions' = NormalTransactions
    BY <1>1, <2>1 DEF NormalBlocks, NormalTransactions, TypeOK
  <2>3. CASE GLastBlock \in NormalBlocks
    BY <2>2, <2>3
  <2>4. CASE GLastBlock \notin NormalBlocks
    <3>1. ASSUME NEW c \in NormalBlocks PROVE Number[c] < Number[GLastBlock]
      <4>1. Number[c] \in Nat /\ Number[c] <= block_now + 1
        BY <1>2, <1>4, <1>7
      <4>2. CASE Number[c] = block_now + 1 /\ Number[c] < 2
        BY <1>2, <2>1, <2>4, <4>2 DEF OneRoot
      <4>3. CASE Number[c] = block_now + 1 /\ Number[c] >= 2
        BY <1>1, <1>4, <1>7, <2>1, <4>3 DEF SafeInv, Dropped, FindBlockByHeight
      <4> QED
        BY <1>4, <1>7, <2>1, <4>1, <4>2, <4>3
    <3>2. \A h \in 0..block_now : Complete(h)
      BY <1>1, <1>4, <1>7 DEF PrefixInv, Committed
    <3>3. \A h \in 0..(Number[GLastBlock] - 1) :
              \E c \in NormalBlocks : Number[c] = h
      <4>1. 0..(Number[GLastBlock] - 1) = 0..block_now
        BY <1>4, <1>7, <2>1
      <4> QED
        BY <3>2, <4>1 DEF Complete
    <3>4. ASSUME NEW c \in NormalBlocks
          PROVE  Transactions[c] \subseteq NormalTransactions
      <4>1. Number[c] \in 0..block_now
        BY <1>2, <1>4, <1>7, <2>1, <3>1
      <4>2. PICK b \in NormalBlocks :
                /\ Number[b] = Number[c]
                /\ \A t \in Transactions[b] :
                      t_transaction[t] = [F_status |-> "NORMAL",
                                          F_block |-> Number[c]]
        BY <3>2, <4>1 DEF Complete
      <4>3. b = c
        BY <1>1, <4>2, OneRowPerHeight
      <4> QED
        BY <1>2, <4>2, <4>3 DEF NormalTransactions
    <3>5. Mirror!Extend(GLastBlock)
      BY <2>2, <3>1, <3>3, <3>4 DEF Mirror!Extend
    <3> QED
      BY <2>1, <3>5 DEF Mirror!MirrorNext
  <2> QED
    BY <2>3, <2>4
<1>8. CASE WriteTransaction
  <2>1. PICK w \in todo :
            t_transaction' = [t_transaction EXCEPT ![w] = WrittenRow(w)]
    BY <1>8 DEF WriteTransaction
  <2>2. /\ GLastBlock \in NormalBlocks
        /\ Number[GLastBlock] = block_now + 1
        /\ w \in Transactions[GLastBlock]
        /\ w \in TxHashes
    BY <1>1, <1>8
    DEF WriteTransaction, PrefixInv, TypeInv, Fetched, Fetching, Locals,
        NormalBlocks
  <2>3. WrittenRow(w).F_status = "NORMAL"
    BY <1>1, <2>2 DEF WrittenRow, TypeOK, TransactionRow
  <2>4. NormalTransactions' = NormalTransactions \cup {w}
    BY <1>1, <2>1, <2>2, <2>3 DEF NormalTransactions, TypeOK
  <2>5. NormalBlocks' = NormalBlocks
    BY <1>8 DEF WriteTransaction, NormalBlocks
  <2>6. Mirror!Show(GLastBlock)
    BY <1>4, <1>8, <2>2, <2>4, <2>5 DEF Mirror!Show, Mirror!IsTop
  <2> QED
    BY <1>2, <2>2, <2>6 DEF Mirror!MirrorNext
<1> QED
  BY <1>3, <1>5, <1>6, <1>7, <1>8
  DEF Next, SyncStep, Failure, db, vars, ChainAdvance, ChainRollback, Boot, Poll,
      PollIdle, DropSkips, DropFind, DropDone, FetchBlock, FetchParent,
      FetchReceipt, FetchMisses, CheckParent, CheckParentFails, CalcPanics,
      DuplicateTransaction, SyncOneBlockDone, RpcFails, FindPanics, WriteFails,
      ResetSkipped, CommitLost, Crash, Dies

\* The synchroniser implements ChainMirror: through every crash, error and
\* reorganisation the NORMAL rows of t_block and t_transaction change only the way
\* a stack of complete blocks does.
THEOREM MirrorRefined ==
    ASSUME CommitsHold, ~Rollback, OneRoot, TxHeightFixed
    PROVE  Spec => MirrorImplemented
<1>1. Init => Mirror!MirrorInit
  BY DEF Init, Mirror!MirrorInit, NormalBlocks, NormalTransactions, NoTransaction
<1>2. MirrorInv /\ [Next]_vars
      => [Mirror!MirrorNext]_<<NormalBlocks, NormalTransactions>>
  BY MirrorStep
<1> QED
  BY <1>1, <1>2, MirrorInvInit, MirrorInvNext, PTL
  DEF Spec, MirrorImplemented, Mirror!MirrorSpec

(***************************************************************************)
(* Rows stand on their parents                                             *)
(***************************************************************************)
\* From the check to the write, the parent that the node reported is the row
\* below.
ParentStored ==
    pc = "write" /\ Height > 0 => chain_parent_block \in NormalBlocks

LinkInv == PrefixInv /\ ParentStored

LEMMA ParentStoredNext ==
    ASSUME ParentStored, [Next]_vars
    PROVE  ParentStored'
<1> USE DEF ParentStored, Height, Syncing, NormalBlocks
<1>1. CASE CheckParent
  BY <1>1
  DEF CheckParent, ParentMatches, FindBlockByHeight, db
<1>2. CASE UNCHANGED <<pc, t_block, block_now, blockNumber, chain_parent_block>>
  BY <1>2
<1>3. CASE pc' # "write"
  BY <1>3
<1> QED
  BY <1>1, <1>2, <1>3
  DEF Next, SyncStep, Failure, vars, db, ChainAdvance, ChainRollback, Boot, Poll,
      PollIdle, DropSkips, DropReturns, DropBlock, DropFind, DropTransaction,
      DropDone, FetchBlock, FetchParent, FetchReceipt, FetchMisses,
      CheckParentFails, WriteBlock, WriteTransaction, CalcPanics,
      DuplicateTransaction, SyncOneBlockDone, RpcFails, FindPanics, WriteFails,
      ResetSkipped, CommitLost, Crash, Dies, NextPoll, NextSync

LEMMA LinkStep ==
    ASSUME LinkInv, ReadsAgree, ParentLinked, Next
    PROVE  ParentLinked'
<1> USE BlocksAssumption DEF ParentLinked, NormalBlocks
<1>1. PrefixInv /\ SafeInv /\ TypeInv /\ TypeOK
  BY DEF LinkInv, PrefixInv, SafeInv, TypeInv
<1>2. CASE DropBlock
  <2>1. PICK d \in FindBlockByHeight(Height) :
            t_block' = [t_block EXCEPT ![d] = "FORK"]
    BY <1>2 DEF DropBlock
  <2>2. \A c \in NormalBlocks : Number[c] <= Number[d]
    BY <1>1, <1>2, <2>1
    DEF DropBlock, PrefixInv, HeadAbove, RowsBelow, FindBlockByHeight, Height
  <2>3. ASSUME NEW c \in NormalBlocks, Number[c] > 0
        PROVE  ParentHash[c] # d
    <3>1. c \in Blocks /\ Number[c] \in Nat /\ Number[c] <= Number[d]
      BY <2>2, <2>3
    <3>2. Number[ParentHash[c]] = Number[c] - 1
      BY <2>3, <3>1, ParentAssumption
    <3> QED
      BY <3>1, <3>2
  <2> QED
    BY <1>1, <2>1, <2>3 DEF FindBlockByHeight, TypeOK
<1>3. CASE WriteBlock
  <2>1. /\ GLastBlock \in Blocks /\ Number[GLastBlock] = Height
        /\ t_block' = [t_block EXCEPT ![GLastBlock] = "NORMAL"]
        /\ pc = "write"
    BY <1>1, <1>3
    DEF WriteBlock, TypeInv, Fetched, Fetching, InSync, Height
  <2>2. Number[GLastBlock] > 0 => ParentHash[GLastBlock] \in NormalBlocks
    BY <2>1 DEF ReadsAgree, LinkInv, ParentStored
  <2> QED
    BY <1>1, <2>1, <2>2 DEF TypeOK
<1>4. CASE UNCHANGED t_block
  BY <1>4
<1> QED
  BY <1>2, <1>3, <1>4
  DEF Next, SyncStep, Failure, db, vars, ChainAdvance, ChainRollback, Boot, Poll,
      PollIdle, DropSkips, DropFind, DropTransaction, DropDone, FetchBlock,
      FetchParent, FetchReceipt, FetchMisses, CheckParent, CheckParentFails,
      WriteTransaction, CalcPanics, DuplicateTransaction, SyncOneBlockDone,
      RpcFails, FindPanics, WriteFails, ResetSkipped, CommitLost, Crash, Dies

\* Nothing but a write after reads of two forks puts a block of t_block on a row
\* that is not its parent: drops come from the top, and what "check parent
\* block" has seen is still there when WriteBlock writes.
THEOREM RowsStayLinked ==
    ASSUME CommitsHold, ~Rollback, OneGenesis, TxHeightFixed
    PROVE  Spec => LinksKept
<1>1. Init => LinkInv
  BY PrefixInit DEF Init, LinkInv, ParentStored
<1>2. LinkInv /\ [Next]_vars => LinkInv'
  BY PrefixNext, ParentStoredNext DEF LinkInv
<1>3. LinkInv /\ [Next]_vars => [ReadsAgree /\ ParentLinked => ParentLinked']_vars
  BY LinkStep
<1> QED
  BY <1>1, <1>2, <1>3, PTL DEF Spec, LinksKept
=============================================================================
