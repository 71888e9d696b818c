---------------------------- MODULE GhostProofs ----------------------------
(***************************************************************************)
(* What DropBlok and SyncOneBlock leave in t_transaction as long as        *)
(* nothing fails: no transaction of a dropped block stays NORMAL, and the  *)
(* NORMAL transactions of a height are those of one block.  For every tree *)
(* of blocks, whatever the node does, with reorganisations to a chain that *)
(* is not longer included.                                                 *)
(***************************************************************************)
EXTENDS BlockSyncProofs

\* A NORMAL block holds t.
Held(t) == \E b \in NormalBlocks : t \in Transactions[b]

\* DropBlok has dropped a block at t's height and will still reset t.
ToReset(t) ==
    /\ t_transaction[t].F_block = Height
    /\ pc = "dropFind" \/ (pc = "dropTxs" /\ t \in todo)

\* Every NORMAL transaction is one or the other.
Tracked == faults = 0 => \A t \in NormalTransactions : Held(t) \/ ToReset(t)

\* DropBlok resets NORMAL transactions at the height it works on, and
\* WriteTransactions writes those of the block that was just written.
Loops ==
    /\ pc = "dropTxs" => todo \subseteq FindTrasactionByHeight(Height)
    /\ pc = "writeTxs"
       => /\ todo \subseteq Transactions[GLastBlock]
          /\ faults = 0 => t_block[GLastBlock] = "NORMAL"

GhostInv == TypeInv /\ TxRows /\ Loops /\ Tracked

\* The NORMAL transactions at height h are transactions of one block.
OfOneBlock(h) ==
    \E b \in Blocks : /\ Number[b] = h
                      /\ FindTrasactionByHeight(h) \subseteq Transactions[b]

\* The ones DropBlok is resetting are those of the block it has dropped.
DroppedTogether == faults = 0 /\ pc \in {"dropFind", "dropTxs"} => OfOneBlock(Height)

OneBlockInv == RowsInv /\ GhostInv /\ DroppedTogether

LEMMA GhostInit == Init => GhostInv
  BY TypeInit, BlocksAssumption
  DEF Init, GhostInv, TxRows, Loops, Tracked, NormalTransactions, NoTransaction

\* Only WriteTransaction changes the height of a row, and it writes that of the
\* block that holds the transaction.
LEMMA TxRowsNext ==
    ASSUME TxHeightFixed, TypeInv, TxRows, Loops, [Next]_vars
    PROVE  TxRows'
<1> USE BlocksAssumption
<1>1. TypeOK
  BY DEF TypeInv
<1>2. CASE DropTransaction
  <2>1. PICK d \in todo :
            t_transaction' = [t_transaction EXCEPT ![d].F_status = "FORK"]
    BY <1>2 DEF DropTransaction
  <2>2. \A t \in TxHashes : t_transaction'[t].F_block = t_transaction[t].F_block
    BY <1>1, <2>1 DEF TypeOK, TransactionRow
  <2>3. \A t \in TxHashes \ {d} : t_transaction'[t] = t_transaction[t]
    BY <1>1, <2>1 DEF TypeOK, TransactionRow
  <2>4. d \in TxHashes /\ t_transaction[d].F_status # "absent"
    BY <1>2, <2>1 DEF DropTransaction, Loops, FindTrasactionByHeight
  <2> QED
    BY <2>2, <2>3, <2>4 DEF TxRows
<1>3. CASE WriteTransaction
  <2>1. PICK w \in todo :
            /\ t_transaction[w].F_status # "NORMAL"
            /\ t_transaction' = [t_transaction EXCEPT ![w] = WrittenRow(w)]
    BY <1>3 DEF WriteTransaction
  <2>2. GLastBlock \in Blocks /\ w \in Transactions[GLastBlock] /\ w \in TxHashes
    BY <1>3, <2>1
    DEF WriteTransaction, Loops, TypeInv, Fetched, Fetching
  <2>3. WrittenRow(w).F_block = Number[GLastBlock]
    BY <1>1, <2>2 DEF WrittenRow, TxRows, TypeOK, TransactionRow
  <2>4. ASSUME NEW b \in Blocks, NEW t \in Transactions[b],
               t_transaction'[t].F_status # "absent"
        PROVE  t_transaction'[t].F_block = Number[b]
    <3>1. t \in TxHashes
      OBVIOUS
    <3>2. CASE t = w
      <4>1. Number[b] = Number[GLastBlock]
        BY <2>2, <3>2 DEF TxHeightFixed
      <4> QED
        BY <1>1, <2>1, <2>2, <2>3, <3>2, <4>1 DEF TypeOK
    <3>3. CASE t # w
      BY <1>1, <2>1, <2>4, <3>1, <3>3 DEF TxRows, TypeOK
    <3> QED
      BY <3>2, <3>3
  <2> QED
    BY <2>4 DEF TxRows
<1>4. CASE UNCHANGED t_transaction
  BY <1>4 DEF TxRows
<1> QED
  BY <1>2, <1>3, <1>4
  DEF Next, SyncStep, Failure, db, vars, ChainAdvance, ChainRollback, Boot, Poll,
      PollIdle, DropSkips, DropBlock, DropFind, DropDone, FetchBlock,
      FetchParent, FetchReceipt, FetchMisses, CheckParent, CheckParentFails,
      WriteBlock, CalcPanics, DuplicateTransaction, SyncOneBlockDone, RpcFails,
      FindPanics, WriteFails, ResetSkipped, CommitLost, Crash, Dies

LEMMA LoopsNext ==
    ASSUME TypeInv, Loops, [Next]_vars
    PROVE  Loops'
<1> USE BlocksAssumption, FaultsAssumption
<1> USE DEF TypeInv, TypeOK, Loops, Height, Syncing, FindTrasactionByHeight, db
<1>1. CASE ChainAdvance BY <1>1 DEF ChainAdvance
<1>2. CASE ChainRollback BY <1>2 DEF ChainRollback
<1>3. CASE DropFind BY <1>3 DEF DropFind
<1>4. CASE DropTransaction
  <2>1. PICK d \in todo :
            /\ t_transaction' = [t_transaction EXCEPT ![d].F_status = "FORK"]
            /\ todo' = todo \ {d}
    BY <1>4 DEF DropTransaction
  <2>2. \A t \in TxHashes \ {d} : t_transaction'[t] = t_transaction[t]
    BY <2>1
  <2> QED
    BY <1>4, <2>1, <2>2 DEF DropTransaction
<1>5. CASE WriteBlock
  BY <1>5 DEF WriteBlock, Fetched, Fetching
<1>6. CASE WriteTransaction BY <1>6 DEF WriteTransaction
<1>7. CASE ResetSkipped BY <1>7 DEF ResetSkipped, Fault
<1>8. CASE CommitLost BY <1>8 DEF CommitLost, Fault
<1>9. CASE pc' \notin {"dropTxs", "writeTxs"}
  BY <1>9
<1>10. CASE UNCHANGED vars BY <1>10 DEF vars
<1> QED
  BY <1>1, <1>2, <1>3, <1>4, <1>5, <1>6, <1>7, <1>8, <1>9, <1>10
  DEF Next, SyncStep, Failure, Boot, Poll, PollIdle, DropSkips, DropReturns,
      DropBlock, DropDone, FetchBlock, FetchParent, FetchReceipt, FetchMisses,
      CheckParent, CheckParentFails, CalcPanics, DuplicateTransaction,
      SyncOneBlockDone, RpcFails, FindPanics, WriteFails, Crash, Dies, NextPoll,
      NextSync

\* DropBlock turns the transactions of the dropped block into ones to reset,
\* DropTransaction resets them one by one, and DropBlok returns when there are none.
LEMMA TrackedNext ==
    ASSUME GhostInv, [Next]_vars
    PROVE  Tracked'
<1> USE BlocksAssumption, FaultsAssumption
<1> SUFFICES ASSUME faults' = 0,
                    NEW t \in NormalTransactions'
             PROVE  Held(t)' \/ ToReset(t)'
  BY DEF Tracked
<1>1. TypeOK /\ TypeInv
  BY DEF GhostInv, TypeInv
<1>2. ~Failure
  BY <1>1
  DEF TypeOK, Failure, RpcFails, FindPanics, WriteFails, ResetSkipped, CommitLost,
      Crash, Fault
<1>3. faults = 0
  BY <1>2
  DEF Next, SyncStep, vars, ChainAdvance, ChainRollback, Boot, Poll, PollIdle,
      DropSkips, DropBlock, DropFind, DropTransaction, DropDone, FetchBlock,
      FetchParent, FetchReceipt, FetchMisses, CheckParent, CheckParentFails,
      WriteBlock, WriteTransaction, CalcPanics, DuplicateTransaction,
      SyncOneBlockDone
<1>4. t \in TxHashes
  BY DEF NormalTransactions
<1>5. t \in NormalTransactions => Held(t) \/ ToReset(t)
  BY <1>3 DEF GhostInv, Tracked
<1>6. CASE DropBlock
  <2>1. PICK d \in FindBlockByHeight(Height) :
            t_block' = [t_block EXCEPT ![d] = "FORK"]
    BY <1>6 DEF DropBlock
  <2>2. d \in Blocks /\ Number[d] = Height
    BY <2>1 DEF FindBlockByHeight, NormalBlocks
  <2>3. /\ UNCHANGED <<t_transaction, block_now, blockNumber>>
        /\ pc = "drop" /\ pc' = "dropFind"
    BY <1>6 DEF DropBlock
  <2>4. t \in NormalTransactions /\ Height' = Height
    BY <2>3 DEF NormalTransactions, Height, Syncing
  <2>5. PICK b \in NormalBlocks : t \in Transactions[b]
    BY <1>5, <2>3, <2>4 DEF Held, ToReset
  <2>6. CASE b = d
    <3>1. t_transaction[t].F_block = Height
      BY <2>2, <2>4, <2>5, <2>6 DEF GhostInv, TxRows, NormalTransactions
    <3> QED
      BY <2>3, <2>4, <3>1 DEF ToReset
  <2>7. CASE b # d
    BY <1>1, <2>1, <2>2, <2>5, <2>7 DEF Held, NormalBlocks, TypeOK
  <2> QED
    BY <2>6, <2>7
<1>7. CASE DropFind
  <2>1. /\ UNCHANGED <<t_block, t_transaction, block_now, blockNumber>>
        /\ todo' = FindTrasactionByHeight(Height)
        /\ pc = "dropFind" /\ pc' = "dropTxs"
    BY <1>7 DEF DropFind, db
  <2>2. t \in NormalTransactions /\ Height' = Height /\ NormalBlocks' = NormalBlocks
    BY <2>1 DEF NormalTransactions, NormalBlocks, Height, Syncing
  <2>3. CASE Held(t)
    BY <2>2, <2>3 DEF Held
  <2>4. CASE ToReset(t)
    BY <2>1, <2>2, <2>4 DEF ToReset, FindTrasactionByHeight, NormalTransactions
  <2> QED
    BY <1>5, <2>2, <2>3, <2>4
<1>8. CASE DropTransaction
  <2>1. PICK d \in todo :
            /\ t_transaction' = [t_transaction EXCEPT ![d].F_status = "FORK"]
            /\ todo' = todo \ {d}
    BY <1>8 DEF DropTransaction
  <2>2. /\ UNCHANGED <<t_block, block_now, blockNumber, pc>>
        /\ pc = "dropTxs"
    BY <1>8 DEF DropTransaction
  <2>3. d \in TxHashes
    BY <1>1, <2>1 DEF TypeOK
  <2>4. t # d
    BY <1>1, <2>1, <2>3 DEF NormalTransactions, TypeOK, TransactionRow
  <2>5. t_transaction'[t] = t_transaction[t]
    BY <1>1, <1>4, <2>1, <2>4 DEF TypeOK
  <2>6. t \in NormalTransactions /\ Height' = Height /\ NormalBlocks' = NormalBlocks
    BY <2>2, <2>5 DEF NormalTransactions, NormalBlocks, Height, Syncing
  <2>7. CASE Held(t)
    BY <2>6, <2>7 DEF Held
  <2>8. CASE ToReset(t)
    BY <2>1, <2>2, <2>4, <2>5, <2>6, <2>8 DEF ToReset
  <2> QED
    BY <1>5, <2>6, <2>7, <2>8
<1>9. CASE WriteBlock
  <2>1. t \in NormalTransactions /\ ~ToReset(t)
    BY <1>9 DEF WriteBlock, NormalTransactions, ToReset
  <2>2. NormalBlocks \subseteq NormalBlocks'
    BY <1>1, <1>9 DEF WriteBlock, NormalBlocks, TypeOK
  <2> QED
    BY <1>5, <2>1, <2>2 DEF Held
<1>10. CASE WriteTransaction
  <2>1. PICK w \in todo :
            t_transaction' = [t_transaction EXCEPT ![w] = WrittenRow(w)]
    BY <1>10 DEF WriteTransaction
  <2>2. UNCHANGED t_block /\ pc = "writeTxs" /\ NormalBlocks' = NormalBlocks
    BY <1>10 DEF WriteTransaction, NormalBlocks
  <2>3. CASE t = w
    <3>1. GLastBlock \in NormalBlocks /\ t \in Transactions[GLastBlock]
      BY <1>1, <1>3, <2>1, <2>2, <2>3
      DEF GhostInv, Loops, TypeInv, Fetched, Fetching, NormalBlocks
    <3> QED
      BY <2>2, <3>1 DEF Held
  <2>4. CASE t # w
    <3>1. t \in NormalTransactions
      BY <1>1, <1>4, <2>1, <2>4 DEF NormalTransactions, TypeOK
    <3> QED
      BY <1>5, <2>2, <3>1 DEF Held, ToReset
  <2> QED
    BY <2>3, <2>4
<1>11. CASE /\ UNCHANGED <<t_block, t_transaction>>
            /\ ToReset(t) => ToReset(t)'
  <2>1. t \in NormalTransactions /\ NormalBlocks' = NormalBlocks
    BY <1>11 DEF NormalTransactions, NormalBlocks
  <2> QED
    BY <1>5, <1>11, <2>1 DEF Held
<1>12. CASE UNCHANGED vars \/ ChainAdvance \/ ChainRollback
  BY <1>11, <1>12 DEF vars, ChainAdvance, ChainRollback, ToReset, Height, Syncing, db
<1>13. CASE DropDone
  BY <1>11, <1>13 DEF DropDone, ToReset, db
<1>14. CASE pc \notin {"dropFind", "dropTxs"} /\ UNCHANGED db
  BY <1>11, <1>14 DEF ToReset, db
<1> QED
  BY <1>2, <1>6, <1>7, <1>8, <1>9, <1>10, <1>12, <1>13, <1>14
  DEF Next, SyncStep, vars, Boot, Poll, PollIdle, DropSkips, FetchBlock,
      FetchParent, FetchReceipt, FetchMisses, CheckParent, CheckParentFails,
      CalcPanics, DuplicateTransaction, SyncOneBlockDone, Dies

LEMMA GhostNext ==
    ASSUME TxHeightFixed
    PROVE  GhostInv /\ [Next]_vars => GhostInv'
  BY TypeNext, TxRowsNext, LoopsNext, TrackedNext DEF GhostInv

\* As long as nothing fails, no transaction of a dropped block is still NORMAL when
\* StartSyncLastBlock polls with the chain's blocks in the table: DropBlok has
\* found and reset them all, however the chain was reorganised meanwhile.
THEOREM NoGhostsLeft ==
    ASSUME TxHeightFixed
    PROVE  Spec => []GhostFree
<1>1. GhostInv => GhostFree
  BY DEF GhostInv, GhostFree, NoGhosts, Tracked, Held, ToReset, NormalTransactions,
         HasReceipt
<1> QED
  BY GhostInit, GhostNext, <1>1, PTL DEF Spec

(***************************************************************************)
(* The NORMAL transactions of a height                                     *)
(***************************************************************************)
\* A block of each height below 2 is never dropped, and at the others DropBlok
\* leaves no second NORMAL row: with no failure t_block has one at each height.
LEMMA OneRowWithoutFailure ==
    ASSUME OneRoot, RowsInv, faults = 0,
           NEW b \in NormalBlocks, NEW c \in NormalBlocks, Number[b] = Number[c]
    PROVE  b = c
<1> USE BlocksAssumption
<1>1. b \in Blocks /\ c \in Blocks /\ Number[b] \in Nat
  BY DEF NormalBlocks
<1>2. CASE Number[b] < 2
  BY <1>1, <1>2 DEF OneRoot
<1>3. CASE Number[b] >= 2
  <2> DEFINE S == FindBlockByHeight(Number[b])
  <2>1. IsFiniteSet(S) /\ Cardinality(S) \in Nat
    BY FS_Subset, FS_CardinalityType DEF RowsInv, FindBlockByHeight
  <2>2. Cardinality(S) <= 1
    BY <1>1, <1>3 DEF RowsInv, RowsAt
  <2>3. {b, c} \subseteq S
    BY DEF FindBlockByHeight
  <2>4. SUFFICES ASSUME b # c PROVE FALSE
    OBVIOUS
  <2>5. IsFiniteSet({b}) /\ Cardinality({b}) = 1
    BY FS_Singleton
  <2>6. Cardinality({b} \cup {c}) = 2
    <3>1. c \notin {b}
      BY <2>4
    <3>2. Cardinality({b} \cup {c}) = Cardinality({b}) + 1
      BY <2>5, <3>1, FS_AddElement, Zenon
    <3>3. Cardinality({b}) + 1 = 2
      BY <2>5
    <3> QED
      BY <3>2, <3>3, Zenon
  <2>7. Cardinality({b} \cup {c}) <= Cardinality(S)
    <3>1. {b} \cup {c} \in SUBSET S
      BY <2>3
    <3> QED
      BY <2>1, <3>1, FS_Subset
  <2> QED
    BY <2>1, <2>2, <2>6, <2>7
<1> QED
  BY <1>1, <1>2, <1>3

\* All NORMAL transactions of a height are in its NORMAL block, unless DropBlok has
\* just dropped it.
LEMMA HeightIsOneBlock ==
    ASSUME OneRoot, OneBlockInv, faults = 0, NEW h, FindTrasactionByHeight(h) # {}
    PROVE  OfOneBlock(h)
<1> USE BlocksAssumption
<1>1. CASE pc \in {"dropFind", "dropTxs"} /\ h = Height
  BY <1>1 DEF OneBlockInv, DroppedTogether
<1>2. CASE ~(pc \in {"dropFind", "dropTxs"} /\ h = Height)
  <2>1. ASSUME NEW t \in FindTrasactionByHeight(h)
        PROVE  \E b \in NormalBlocks : Number[b] = h /\ t \in Transactions[b]
    <3>1. /\ t \in NormalTransactions
          /\ t_transaction[t].F_block = h
          /\ t_transaction[t].F_status = "NORMAL"
      BY DEF FindTrasactionByHeight, NormalTransactions
    <3>2. PICK b \in NormalBlocks : t \in Transactions[b]
      BY <1>2, <3>1 DEF OneBlockInv, GhostInv, Tracked, Held, ToReset
    <3>3. Number[b] = h
      BY <3>1, <3>2 DEF OneBlockInv, GhostInv, TxRows, NormalBlocks
    <3> QED
      BY <3>2, <3>3
  <2>2. PICK u : u \in FindTrasactionByHeight(h)
    OBVIOUS
  <2>3. PICK b \in NormalBlocks : Number[b] = h /\ u \in Transactions[b]
    BY <2>1, <2>2
  <2>4. ASSUME NEW t \in FindTrasactionByHeight(h)
        PROVE  t \in Transactions[b]
    <3>1. PICK c \in NormalBlocks : Number[c] = h /\ t \in Transactions[c]
      BY <2>1
    <3>2. c = b
      BY <2>3, <3>1, OneRowWithoutFailure DEF OneBlockInv
    <3> QED
      BY <3>1, <3>2
  <2> QED
    BY <2>3, <2>4 DEF OfOneBlock, NormalBlocks
<1> QED
  BY <1>1, <1>2

LEMMA OneBlockInit == Init => OneBlockInv
  BY RowsInit, GhostInit DEF Init, OneBlockInv, DroppedTogether

LEMMA OneBlockNext ==
    ASSUME OneRoot, TxHeightFixed
    PROVE  OneBlockInv /\ [Next]_vars => OneBlockInv'
<1> SUFFICES ASSUME OneBlockInv, [Next]_vars PROVE DroppedTogether'
  BY RowsNext, GhostNext DEF OneBlockInv
<1> USE BlocksAssumption, FaultsAssumption
<1> SUFFICES ASSUME faults' = 0, pc' \in {"dropFind", "dropTxs"}
             PROVE  OfOneBlock(Height)'
  BY DEF DroppedTogether
<1>1. TypeOK /\ TypeInv
  BY DEF OneBlockInv, GhostInv, TypeInv
<1>2. ~Failure
  BY <1>1
  DEF TypeOK, Failure, RpcFails, FindPanics, WriteFails, ResetSkipped, CommitLost,
      Crash, Fault
<1>3. CASE DropBlock
  <2>1. PICK d \in FindBlockByHeight(Height) :
            t_block' = [t_block EXCEPT ![d] = "FORK"]
    BY <1>3 DEF DropBlock
  <2>2. /\ UNCHANGED <<t_transaction, block_now, blockNumber, faults>>
        /\ pc = "drop"
    BY <1>3 DEF DropBlock
  <2>3. Height' = Height /\ FindTrasactionByHeight(Height)' = FindTrasactionByHeight(Height)
    BY <2>2 DEF Height, Syncing, FindTrasactionByHeight
  <2>4. CASE FindTrasactionByHeight(Height) = {}
    BY <2>1, <2>3, <2>4 DEF OfOneBlock, FindBlockByHeight, NormalBlocks
  <2>5. CASE FindTrasactionByHeight(Height) # {}
    <3>1. OfOneBlock(Height)
      BY <2>2, <2>5, HeightIsOneBlock
    <3> QED
      BY <2>3, <3>1 DEF OfOneBlock
  <2> QED
    BY <2>4, <2>5
<1>4. CASE DropTransaction
  <2>1. PICK d \in todo :
            t_transaction' = [t_transaction EXCEPT ![d].F_status = "FORK"]
    BY <1>4 DEF DropTransaction
  <2>2. /\ UNCHANGED <<block_now, blockNumber, faults>>
        /\ pc = "dropTxs"
    BY <1>4 DEF DropTransaction
  <2>3. Height' = Height
    BY <2>2 DEF Height, Syncing
  <2>4. FindTrasactionByHeight(Height)' \subseteq FindTrasactionByHeight(Height)
    <3>1. \A t \in TxHashes :
              /\ t_transaction'[t].F_block = t_transaction[t].F_block
              /\ t_transaction'[t].F_status \in {t_transaction[t].F_status, "FORK"}
      BY <1>1, <2>1 DEF TypeOK, TransactionRow
    <3> QED
      BY <2>3, <3>1 DEF FindTrasactionByHeight
  <2>5. OfOneBlock(Height)
    BY <2>2 DEF OneBlockInv, DroppedTogether
  <2> QED
    BY <2>3, <2>4, <2>5 DEF OfOneBlock
<1>5. CASE /\ UNCHANGED <<t_transaction, block_now, blockNumber, faults>>
           /\ pc \in {"dropFind", "dropTxs"}
  <2>1. Height' = Height /\ FindTrasactionByHeight(Height)' = FindTrasactionByHeight(Height)
    BY <1>5 DEF Height, Syncing, FindTrasactionByHeight
  <2>2. OfOneBlock(Height)
    BY <1>5 DEF OneBlockInv, DroppedTogether
  <2> QED
    BY <2>1, <2>2 DEF OfOneBlock
<1>6. CASE UNCHANGED vars \/ ChainAdvance \/ ChainRollback \/ DropFind
  BY <1>5, <1>6 DEF vars, ChainAdvance, ChainRollback, DropFind, db
<1> QED
  BY <1>2, <1>3, <1>4, <1>6
  DEF Next, SyncStep, vars, Boot, Poll, PollIdle, DropSkips, DropReturns, DropDone,
      FetchBlock, FetchParent, FetchReceipt, FetchMisses, CheckParent,
      CheckParentFails, WriteBlock, WriteTransaction, CalcPanics,
      DuplicateTransaction, SyncOneBlockDone, Dies, NextPoll, NextSync
=============================================================================
