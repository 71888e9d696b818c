-------------------------- MODULE BlockSyncProofs --------------------------
(***************************************************************************)
(* Proofs about BlockSync, for every tree of blocks, every distribution of *)
(* the transactions over them and every number of failures.                *)
(***************************************************************************)
EXTENDS BlockSync, FiniteSetTheorems, TLAPS

(***************************************************************************)
(* The invariant behind type correctness and AtMostOneNormal               *)
(***************************************************************************)
Fetching == {"block", "parent", "receipts", "write", "writeTxs"}

\* SyncOneBlock runs only while the head that was read is above block_now.
InSync == pc \in Fetching => Syncing

\* Once fetched, GLastBlock is the block of the height being synchronised.
Fetched ==
    pc \in Fetching \ {"block"}
    => GLastBlock \in Blocks /\ Number[GLastBlock] = block_now + 1

\* From DropBlok's update to WriteBlock the height being synchronised has no
\* NORMAL row.
Dropped ==
    /\ pc \in {"dropFind", "dropTxs", "block", "parent", "receipts", "write"}
    /\ Height >= 2
    => FindBlockByHeight(Height) = {}

TypeInv == TypeOK /\ InSync /\ Fetched

SafeInv == TypeInv /\ AtMostOneNormal /\ Dropped

LEMMA TypeInit == Init => TypeInv
  BY BlocksAssumption, FaultsAssumption
  DEF Init, TypeInv, TypeOK, InSync, Fetched, Fetching, Status, TransactionRow,
      NoTransaction

LEMMA TypeNext == TypeInv /\ [Next]_vars => TypeInv'
<1> SUFFICES ASSUME TypeInv, [Next]_vars PROVE TypeInv'
  OBVIOUS
<1> USE BlocksAssumption, FaultsAssumption
<1> USE DEF TypeInv, TypeOK, InSync, Fetched, Fetching, NormalBlocks,
            FindBlockByHeight, Syncing, Height, db
<1>1. CASE ChainAdvance BY <1>1 DEF ChainAdvance
<1>2. CASE ChainRollback BY <1>2 DEF ChainRollback
<1>3. CASE Boot BY <1>3 DEF Boot, IsMaxBlocNumber, ResumePoint
<1>4. CASE Poll BY <1>4 DEF Poll, IsHead, Chains
<1>5. CASE PollIdle BY <1>5 DEF PollIdle, vars
<1>6. CASE DropSkips BY <1>6 DEF DropSkips, DropReturns, NextPoll, Droppable
<1>7. CASE DropBlock BY <1>7 DEF DropBlock, Droppable, Status
<1>8. CASE DropFind BY <1>8 DEF DropFind, FindTrasactionByHeight
<1>9. CASE DropTransaction BY <1>9 DEF DropTransaction, TransactionRow, Status
<1>10. CASE DropDone BY <1>10 DEF DropDone, DropReturns, NextPoll
<1>11. CASE FetchBlock BY <1>11 DEF FetchBlock, GetBlockByNumber, Chains
<1>12. CASE FetchParent BY <1>12 DEF FetchParent, GetBlockByNumber, Chains
<1>13. CASE FetchReceipt BY <1>13 DEF FetchReceipt
<1>14. CASE FetchMisses BY <1>14 DEF FetchMisses, NextSync
<1>15. CASE CheckParent BY <1>15 DEF CheckParent
<1>16. CASE CheckParentFails
  BY <1>16 DEF CheckParentFails, ParentMissing, NextSync, OneBelow
<1>17. CASE WriteBlock BY <1>17 DEF WriteBlock, Status
<1>18. CASE WriteTransaction
  BY <1>18 DEF WriteTransaction, WrittenRow, TransactionRow, Status
<1>19. CASE CalcPanics BY <1>19 DEF CalcPanics, Dies
<1>20. CASE DuplicateTransaction BY <1>20 DEF DuplicateTransaction, NextSync
<1>21. CASE SyncOneBlockDone BY <1>21 DEF SyncOneBlockDone, NextSync, NextPoll
<1>22. CASE RpcFails BY <1>22 DEF RpcFails, Fault, NextSync
<1>23. CASE FindPanics BY <1>23 DEF FindPanics, Fault, NextPoll
<1>24. CASE WriteFails BY <1>24 DEF WriteFails, Fault, NextSync, NextPoll
<1>25. CASE ResetSkipped BY <1>25 DEF ResetSkipped, Fault
<1>26. CASE CommitLost BY <1>26 DEF CommitLost, Fault
<1>27. CASE Crash BY <1>27 DEF Crash, Dies, Fault
<1>28. CASE UNCHANGED vars BY <1>28 DEF vars
<1> QED
  BY <1>1, <1>2, <1>3, <1>4, <1>5, <1>6, <1>7, <1>8, <1>9, <1>10, <1>11,
     <1>12, <1>13, <1>14, <1>15, <1>16, <1>17, <1>18, <1>19, <1>20, <1>21,
     <1>22, <1>23, <1>24, <1>25, <1>26, <1>27, <1>28
  DEF Next, SyncStep, Failure

LEMMA SafeInit == Init => SafeInv
  BY TypeInit
  DEF Init, SafeInv, AtMostOneNormal, Dropped, NormalBlocks, FindBlockByHeight

\* Two groups of steps matter: DropBlok's, which empty the height, and
\* WriteBlock's, which fills it again.
LEMMA SafeNext ==
    ASSUME CommitsHold
    PROVE  SafeInv /\ [Next]_vars => SafeInv'
<1> SUFFICES ASSUME SafeInv, [Next]_vars PROVE AtMostOneNormal' /\ Dropped'
  BY TypeNext DEF SafeInv
<1> USE BlocksAssumption
<1> USE DEF SafeInv, TypeInv, TypeOK, AtMostOneNormal, InSync, Fetched, Dropped,
            Fetching, NormalBlocks, FindBlockByHeight, Syncing, Height, db
<1>1. CASE ChainAdvance BY <1>1 DEF ChainAdvance
<1>2. CASE ChainRollback BY <1>2 DEF ChainRollback
<1>3. CASE Boot BY <1>3 DEF Boot, IsMaxBlocNumber, ResumePoint
<1>4. CASE Poll BY <1>4 DEF Poll, IsHead, Chains
<1>5. CASE PollIdle BY <1>5 DEF PollIdle, vars
<1>6. CASE DropSkips BY <1>6 DEF DropSkips, DropReturns, NextPoll, Droppable
<1>7. CASE DropBlock BY <1>7 DEF DropBlock, Droppable, Status
<1>8. CASE DropFind BY <1>8 DEF DropFind, FindTrasactionByHeight
<1>9. CASE DropTransaction BY <1>9 DEF DropTransaction, TransactionRow, Status
<1>10. CASE DropDone BY <1>10 DEF DropDone, DropReturns, NextPoll
<1>11. CASE FetchBlock BY <1>11 DEF FetchBlock, GetBlockByNumber, Chains
<1>12. CASE FetchParent BY <1>12 DEF FetchParent, GetBlockByNumber, Chains
<1>13. CASE FetchReceipt BY <1>13 DEF FetchReceipt
<1>14. CASE FetchMisses BY <1>14 DEF FetchMisses, NextSync
<1>15. CASE CheckParent BY <1>15 DEF CheckParent
<1>16. CASE CheckParentFails
  BY <1>16 DEF CheckParentFails, ParentMissing, NextSync, OneBelow
<1>17. CASE WriteBlock BY <1>17 DEF WriteBlock, Status
<1>18. CASE WriteTransaction
  BY <1>18 DEF WriteTransaction, WrittenRow, TransactionRow, Status
<1>19. CASE CalcPanics BY <1>19 DEF CalcPanics, Dies
<1>20. CASE DuplicateTransaction BY <1>20 DEF DuplicateTransaction, NextSync
<1>21. CASE SyncOneBlockDone BY <1>21 DEF SyncOneBlockDone, NextSync, NextPoll
<1>22. CASE RpcFails BY <1>22 DEF RpcFails, Fault, NextSync
<1>23. CASE FindPanics BY <1>23 DEF FindPanics, Fault, NextPoll
<1>24. CASE WriteFails BY <1>24 DEF WriteFails, Fault, NextSync, NextPoll
<1>25. CASE ResetSkipped BY <1>25 DEF ResetSkipped, Fault
<1>26. CASE CommitLost BY <1>26 DEF CommitLost, Fault, CommitsHold
<1>27. CASE Crash BY <1>27 DEF Crash, Dies, Fault
<1>28. CASE UNCHANGED vars BY <1>28 DEF vars
<1> QED
  BY <1>1, <1>2, <1>3, <1>4, <1>5, <1>6, <1>7, <1>8, <1>9, <1>10, <1>11,
     <1>12, <1>13, <1>14, <1>15, <1>16, <1>17, <1>18, <1>19, <1>20, <1>21,
     <1>22, <1>23, <1>24, <1>25, <1>26, <1>27, <1>28
  DEF Next, SyncStep, Failure

\* Type correctness: whatever the node does and whatever fails, every variable
\* keeps its type and block_now (connect.go) stays at -1 or above.
THEOREM TypeCorrect == Spec => []TypeOK
<1>1. TypeInv => TypeOK
  BY DEF TypeInv
<1> QED
  BY TypeInit, TypeNext, <1>1, PTL DEF Spec

\* From height 2 on, t_block never has two NORMAL rows at one height: the effect
\* of DropBlok survives until WriteBlock, whatever the node does and whatever
\* fails in between, as long as an update that is reported done is done.
THEOREM OneNormalRow ==
    ASSUME CommitsHold
    PROVE  Spec => []AtMostOneNormal
<1>1. SafeInv => AtMostOneNormal
  BY DEF SafeInv
<1> QED
  BY SafeInit, SafeNext, <1>1, PTL DEF Spec

(***************************************************************************)
(* The invariant behind RowsPerFailure: the same argument, counting rows   *)
(* instead of excluding them.                                              *)
(***************************************************************************)
Dropping == {"dropFind", "dropTxs", "block", "parent", "receipts", "write"}

\* The number of NORMAL rows at height h.
RowsAt(h) == Cardinality(FindBlockByHeight(h))

\* From DropBlok's update to WriteBlock one row less is NORMAL than may be.
RowsLeft == pc \in Dropping /\ Height >= 2 => RowsAt(Height) <= faults

RowsInv ==
    /\ TypeInv
    /\ IsFiniteSet(NormalBlocks)
    /\ \A h \in Nat : h >= 2 => RowsAt(h) <= 1 + faults
    /\ RowsLeft

LEMMA RowsInit == Init => RowsInv
<1> SUFFICES ASSUME Init PROVE RowsInv
  OBVIOUS
<1>1. NormalBlocks = {} /\ \A h \in Nat : FindBlockByHeight(h) = {}
  BY DEF Init, NormalBlocks, FindBlockByHeight
<1>2. IsFiniteSet({}) /\ Cardinality({}) = 0
  BY FS_EmptySet
<1> QED
  BY <1>1, <1>2, TypeInit DEF Init, RowsInv, RowsLeft, RowsAt, Dropping

\* A step that writes no row of t_block counts no less failures, and enters the
\* steps from the drop to the write with nothing dropped only if there was nothing
\* to drop, or if it is a failure.
LEMMA RowsQuiet ==
    ASSUME RowsInv, [Next]_vars, UNCHANGED t_block, ~DropBlock
    PROVE  RowsInv'
<1> USE BlocksAssumption
<1>1. TypeInv' /\ TypeInv /\ TypeOK /\ TypeOK'
  BY TypeNext DEF RowsInv, TypeInv
<1>2. /\ NormalBlocks' = NormalBlocks
      /\ \A h \in Nat : FindBlockByHeight(h)' = FindBlockByHeight(h)
  BY DEF NormalBlocks, FindBlockByHeight
<1>3. \A h \in Nat : RowsAt(h) \in Nat
  BY FS_Subset, FS_CardinalityType DEF RowsInv, RowsAt, FindBlockByHeight
<1>4. faults \in Nat /\ faults' \in Nat /\ faults' \in {faults, faults + 1}
  BY <1>1, FaultsAssumption
  DEF TypeOK, Next, SyncStep, Failure, vars, ChainAdvance, ChainRollback, Boot,
      Poll, PollIdle, DropSkips, DropBlock, DropFind, DropTransaction, DropDone,
      FetchBlock, FetchParent, FetchReceipt, FetchMisses, CheckParent,
      CheckParentFails, WriteBlock, WriteTransaction, CalcPanics,
      DuplicateTransaction, SyncOneBlockDone, RpcFails, FindPanics, WriteFails,
      ResetSkipped, CommitLost, Crash, Fault
<1>5. \A h \in Nat : h >= 2 => RowsAt(h)' <= 1 + faults'
  BY <1>2, <1>3, <1>4 DEF RowsInv, RowsAt
<1>6. ASSUME pc' \in Dropping, Height' >= 2
      PROVE  \/ pc \in Dropping /\ Height' = Height
             \/ Height' = Height /\ FindBlockByHeight(Height) = {}
             \/ Height' = Height /\ faults' = faults + 1
  <2> USE <1>1, <1>6 DEF TypeOK, Dropping, Height, Syncing
  <2>1. CASE DropSkips BY <2>1 DEF DropSkips, DropReturns, NextPoll, Droppable
  <2>2. CASE CommitLost BY <2>2 DEF CommitLost, Fault
  <2>3. CASE ResetSkipped BY <2>3 DEF ResetSkipped
  <2>4. CASE DropFind \/ DropTransaction BY <2>4 DEF DropFind, DropTransaction
  <2>5. CASE DropDone BY <2>5 DEF DropDone, DropReturns, NextPoll
  <2>6. CASE FetchBlock \/ FetchParent \/ FetchReceipt \/ CheckParent
    BY <2>6 DEF FetchBlock, FetchParent, FetchReceipt, CheckParent
  <2>7. CASE UNCHANGED <<pc, block_now, blockNumber>>
    BY <2>7
  <2>8. CASE pc' \notin Dropping
    BY <2>8
  <2> QED
    BY <2>1, <2>2, <2>3, <2>4, <2>5, <2>6, <2>7, <2>8
    DEF Next, SyncStep, Failure, vars, ChainAdvance, ChainRollback, Boot, Poll,
        PollIdle, FetchMisses, CheckParentFails, WriteBlock, WriteTransaction,
        CalcPanics, DuplicateTransaction, SyncOneBlockDone, RpcFails, FindPanics,
        WriteFails, Crash, Dies, NextPoll, NextSync
<1>7. RowsLeft'
  <2> SUFFICES ASSUME pc' \in Dropping, Height' >= 2 PROVE RowsAt(Height)' <= faults'
    BY DEF RowsLeft
  <2>1. Height' = Height /\ Height \in Nat /\ Height >= 2
    <3>1. Height' = Height /\ Height' >= 2
      BY <1>6
    <3>2. Height \in Int
      BY <1>1 DEF TypeOK, Height
    <3> QED
      BY <3>1, <3>2
  <2>2. RowsAt(Height)' = RowsAt(Height)
    BY <1>2, <2>1 DEF RowsAt
  <2>3. CASE FindBlockByHeight(Height) = {}
    BY <1>4, <2>2, <2>3, FS_EmptySet DEF RowsAt
  <2>4. CASE pc \in Dropping
    BY <1>3, <1>4, <2>1, <2>2, <2>4 DEF RowsInv, RowsLeft
  <2>5. CASE faults' = faults + 1
    BY <1>3, <1>4, <2>1, <2>2, <2>5 DEF RowsInv
  <2> QED
    BY <1>6, <2>3, <2>4, <2>5
<1> QED
  BY <1>1, <1>2, <1>5, <1>7 DEF RowsInv

LEMMA RowsNext == RowsInv /\ [Next]_vars => RowsInv'
<1> SUFFICES ASSUME RowsInv, [Next]_vars PROVE RowsInv'
  OBVIOUS
<1> USE BlocksAssumption
<1>1. TypeInv' /\ TypeInv /\ TypeOK
  BY TypeNext DEF RowsInv, TypeInv
<1>2. \A h \in Nat : IsFiniteSet(FindBlockByHeight(h)) /\ RowsAt(h) \in Nat
  BY FS_Subset, FS_CardinalityType DEF RowsInv, RowsAt, FindBlockByHeight
<1>3. CASE DropBlock
  <2>1. PICK d \in FindBlockByHeight(Height) :
            t_block' = [t_block EXCEPT ![d] = "FORK"]
    BY <1>3 DEF DropBlock
  <2>2. d \in NormalBlocks /\ d \in Blocks /\ Number[d] = Height /\ Height \in Nat
    BY <2>1 DEF FindBlockByHeight, NormalBlocks
  <2>3. /\ NormalBlocks' = NormalBlocks \ {d}
        /\ \A h \in Nat : FindBlockByHeight(h)' = FindBlockByHeight(h) \ {d}
    BY <1>1, <2>1, <2>2 DEF NormalBlocks, FindBlockByHeight, TypeOK
  <2>4. IsFiniteSet(NormalBlocks')
    BY <2>3, FS_RemoveElement DEF RowsInv
  <2>5. \A h \in Nat : RowsAt(h)' = IF h = Height THEN RowsAt(h) - 1 ELSE RowsAt(h)
    <3> TAKE h \in Nat
    <3>1. d \in FindBlockByHeight(h) <=> h = Height
      BY <2>2 DEF FindBlockByHeight
    <3>2. IsFiniteSet(FindBlockByHeight(h))
      BY <1>2
    <3>3. Cardinality(FindBlockByHeight(h) \ {d}) =
              IF d \in FindBlockByHeight(h) THEN Cardinality(FindBlockByHeight(h)) - 1
              ELSE Cardinality(FindBlockByHeight(h))
      BY <3>2, FS_RemoveElement
    <3> QED
      BY <2>3, <3>1, <3>3 DEF RowsAt
  <2>6. Height' = Height /\ faults' = faults /\ faults \in Nat
    BY <1>1, <1>3, FaultsAssumption DEF DropBlock, Height, Syncing, TypeOK
  <2>7. \A h \in Nat : h >= 2 => RowsAt(h)' <= 1 + faults'
    BY <1>2, <2>5, <2>6 DEF RowsInv
  <2>8. RowsLeft'
    BY <1>2, <2>2, <2>5, <2>6 DEF RowsInv, RowsLeft, RowsAt
  <2> QED
    BY <1>1, <2>4, <2>7, <2>8 DEF RowsInv
<1>4. CASE WriteBlock
  <2>1. /\ GLastBlock \in Blocks /\ Number[GLastBlock] = Height /\ Height \in Nat
        /\ t_block' = [t_block EXCEPT ![GLastBlock] = "NORMAL"]
        /\ pc = "write" /\ pc' = "writeTxs"
        /\ faults' = faults /\ faults \in Nat
    BY <1>1, <1>4, FaultsAssumption
    DEF WriteBlock, TypeInv, InSync, Fetched, Fetching, Height, TypeOK
  <2>2. /\ NormalBlocks' = NormalBlocks \cup {GLastBlock}
        /\ \A h \in Nat : FindBlockByHeight(h)' =
                              IF h = Height THEN FindBlockByHeight(h) \cup {GLastBlock}
                              ELSE FindBlockByHeight(h)
    BY <1>1, <2>1 DEF NormalBlocks, FindBlockByHeight, TypeOK
  <2>3. IsFiniteSet(NormalBlocks')
    BY <2>2, FS_AddElement DEF RowsInv
  <2>4. \A h \in Nat : RowsAt(h)' <= IF h = Height THEN RowsAt(h) + 1 ELSE RowsAt(h)
    <3> TAKE h \in Nat
    <3>1. /\ IsFiniteSet(FindBlockByHeight(h))
          /\ Cardinality(FindBlockByHeight(h)) \in Nat
      BY <1>2 DEF RowsAt
    <3>2. Cardinality(FindBlockByHeight(h) \cup {GLastBlock})
              <= Cardinality(FindBlockByHeight(h)) + 1
      <4>1. Cardinality(FindBlockByHeight(h) \cup {GLastBlock}) =
                IF GLastBlock \in FindBlockByHeight(h)
                THEN Cardinality(FindBlockByHeight(h))
                ELSE Cardinality(FindBlockByHeight(h)) + 1
        BY <3>1, FS_AddElement
      <4> QED
        BY <3>1, <4>1
    <3>3. CASE h = Height
      <4>1. FindBlockByHeight(h)' = FindBlockByHeight(h) \cup {GLastBlock}
        BY <2>2, <3>3
      <4> QED
        BY <3>2, <3>3, <4>1 DEF RowsAt
    <3>4. CASE h # Height
      <4>1. FindBlockByHeight(h)' = FindBlockByHeight(h)
        BY <2>2, <3>4
      <4> QED
        BY <3>1, <3>4, <4>1 DEF RowsAt
    <3> QED
      BY <3>3, <3>4
  <2>5. \A h \in Nat : RowsAt(h)' \in Nat
    BY <2>3, FS_Subset, FS_CardinalityType DEF RowsAt, FindBlockByHeight
  <2>6. \A h \in Nat : h >= 2 => RowsAt(h)' <= 1 + faults'
    BY <1>2, <2>1, <2>4, <2>5 DEF RowsInv, RowsLeft, Dropping
  <2>7. RowsLeft'
    BY <2>1 DEF RowsLeft, Dropping
  <2> QED
    BY <1>1, <2>3, <2>6, <2>7 DEF RowsInv
<1>5. CASE UNCHANGED t_block /\ ~DropBlock
  BY <1>5, RowsQuiet
<1> QED
  BY <1>3, <1>4, <1>5
  DEF Next, SyncStep, Failure, db, vars, ChainAdvance, ChainRollback, Boot, Poll,
      PollIdle, DropSkips, DropFind, DropTransaction, DropDone, FetchBlock,
      FetchParent, FetchReceipt, FetchMisses, CheckParent, CheckParentFails,
      WriteTransaction, CalcPanics, DuplicateTransaction, SyncOneBlockDone,
      RpcFails, FindPanics, WriteFails, ResetSkipped, CommitLost, Crash, Dies

\* Also when updateBlockColumn loses updates in their Commit, t_block has at each
\* height from 2 on at most one NORMAL row more than failures have happened.
THEOREM RowsBounded == Spec => []RowsPerFailure
<1>1. RowsInv => RowsPerFailure
  BY BlocksAssumption DEF RowsInv, RowsPerFailure, RowsAt, NormalBlocks
<1> QED
  BY RowsInit, RowsNext, <1>1, PTL DEF Spec

(***************************************************************************)
(* The invariant behind PrefixComplete and DropsTopFirst.  They need a     *)
(* node whose head never goes down and transactions that keep their height *)
(* across forks: without either, TLC finds a counterexample.  The argument *)
(* also uses that all forks start from one genesis block, the one row that *)
(* is neither dropped nor checked against a parent.                        *)
(***************************************************************************)
\* The chain reaches height n.
Reached(n) == \E c \in chain : n <= Number[c]

\* The head never drops below what was read from it or written since: the
\* rollback branch of StartSyncLastBlock is not taken.
HeadAbove ==
    /\ Reached(block_now)
    /\ Reached(blockNumber)
    /\ \A b \in Blocks : t_block[b] # "absent" => Reached(Number[b])
    /\ pc \in {"drop", "dropFind", "dropTxs"} => Syncing

\* At most the height being synchronised is NORMAL above block_now.
RowsBelow == pc # "boot" => \A b \in NormalBlocks : Number[b] <= block_now + 1

\* Everything up to block_now is complete.
Committed == pc # "boot" => \A h \in 0..block_now : Complete(h)

\* The F_block column of a transaction is the height of its block.
TxRows ==
    \A b \in Blocks : \A t \in Transactions[b] :
        t_transaction[t].F_status # "absent"
        => t_transaction[t].F_block = Number[b]

\* What the local variables of DropBlok and SyncOneBlock hold at each step.
Locals ==
    /\ pc = "dropTxs" => todo \subseteq FindTrasactionByHeight(Height)
    /\ pc = "receipts" /\ Height > 0
       => chain_parent_block \in Blocks /\ Number[chain_parent_block] = Height - 1
    /\ pc = "writeTxs"
       => /\ t_block[GLastBlock] = "NORMAL"
          /\ todo \subseteq Transactions[GLastBlock]
          /\ \A t \in Transactions[GLastBlock] \ todo :
                t_transaction[t] = [F_status |-> "NORMAL",
                                    F_block |-> Number[GLastBlock]]

PrefixInv ==
    /\ SafeInv
    /\ HeadAbove
    /\ RowsBelow
    /\ Committed
    /\ PrefixComplete
    /\ TxRows
    /\ Locals

\* The part of PrefixInv that only the tables decide.
TablesInv == PrefixComplete /\ TxRows

\* A step that leaves the tables alone leaves every height as complete as it was.
LEMMA SameTables ==
    ASSUME UNCHANGED db, TypeOK
    PROVE  /\ NormalBlocks' = NormalBlocks
           /\ \A h \in Int : Complete(h) => Complete(h)'
           /\ TablesInv => TablesInv'
<1>1. NormalBlocks' = NormalBlocks
  BY DEF db, NormalBlocks
<1>2. ASSUME NEW h \in Int, Complete(h) PROVE Complete(h)'
  BY <1>1, <1>2 DEF db, Complete
<1>3. PrefixComplete => PrefixComplete'
  BY <1>1, <1>2, BlocksAssumption DEF PrefixComplete, NormalBlocks
<1>4. TxRows => TxRows'
  BY DEF db, TxRows
<1> QED
  BY <1>1, <1>2, <1>3, <1>4 DEF TablesInv

LEMMA PrefixInit == Init => PrefixInv
<1> SUFFICES ASSUME Init PROVE PrefixInv
  OBVIOUS
<1>1. SafeInv
  BY SafeInit
<1>2. chain # {} /\ chain \subseteq Blocks
  BY DEF Init, Chains, IsChain
<1>3. HeadAbove
  BY <1>2, BlocksAssumption DEF Init, HeadAbove, Reached
<1> QED
  BY <1>1, <1>3, BlocksAssumption
  DEF Init, PrefixInv, RowsBelow, Committed, PrefixComplete, TxRows, Locals,
      NormalBlocks, NoTransaction

\* The steps that leave the tables alone.
Quiet ==
    \/ PollIdle \/ DropSkips \/ DropFind \/ DropDone
    \/ FetchBlock \/ FetchParent \/ FetchReceipt \/ FetchMisses
    \/ CheckParent \/ DuplicateTransaction
    \/ RpcFails \/ FindPanics \/ WriteFails \/ ResetSkipped

\* They leave block_now and the chain alone too, and only the locals change.
LEMMA PrefixQuiet ==
    ASSUME CommitsHold, PrefixInv, Quiet
    PROVE  PrefixInv'
<1> USE BlocksAssumption
<1>1. SafeInv' /\ TypeOK
  BY SafeNext
  DEF PrefixInv, SafeInv, TypeInv, Quiet, Next, SyncStep, Failure
<1>2. /\ UNCHANGED <<chain, t_block, t_transaction, block_now>>
      /\ pc # "boot"
      /\ blockNumber' \in {blockNumber, -1}
  BY DEF Quiet, db, vars, PollIdle, DropSkips, DropFind, DropDone, FetchBlock,
         FetchParent, FetchReceipt, FetchMisses, CheckParent,
         DuplicateTransaction, RpcFails, FindPanics, WriteFails, ResetSkipped,
         DropReturns, NextPoll, NextSync, Fault
<1>3. /\ pc' \in {"drop", "dropFind", "dropTxs"} => Syncing'
      /\ Locals'
  <2> USE <1>1, <1>2
  <2> USE DEF PrefixInv, SafeInv, TypeInv, HeadAbove, Locals, InSync, Fetching,
              Fetched, Syncing, Height, db
  <2>1. CASE PollIdle BY <2>1 DEF PollIdle, vars
  <2>2. CASE DropSkips BY <2>2 DEF DropSkips, DropReturns, NextPoll
  <2>3. CASE DropFind BY <2>3 DEF DropFind, FindTrasactionByHeight
  <2>4. CASE DropDone BY <2>4 DEF DropDone, DropReturns, NextPoll
  <2>5. CASE FetchBlock BY <2>5 DEF FetchBlock
  <2>6. CASE FetchParent
    BY <2>6 DEF FetchParent, GetBlockByNumber, TypeOK, Chains
  <2>7. CASE FetchReceipt BY <2>7 DEF FetchReceipt
  <2>8. CASE FetchMisses BY <2>8 DEF FetchMisses, NextSync
  <2>9. CASE CheckParent BY <2>9 DEF CheckParent
  <2>10. CASE DuplicateTransaction BY <2>10 DEF DuplicateTransaction, NextSync
  <2>11. CASE RpcFails BY <2>11 DEF RpcFails, NextSync
  <2>12. CASE FindPanics BY <2>12 DEF FindPanics, NextPoll
  <2>13. CASE WriteFails BY <2>13 DEF WriteFails, NextSync, NextPoll
  <2>14. CASE ResetSkipped BY <2>14 DEF ResetSkipped, FindTrasactionByHeight
  <2> QED
    BY <2>1, <2>2, <2>3, <2>4, <2>5, <2>6, <2>7, <2>8, <2>9, <2>10, <2>11,
       <2>12, <2>13, <2>14 DEF Quiet
<1>4. HeadAbove'
  <2>1. Reached(blockNumber)'
    BY <1>1, <1>2 DEF PrefixInv, HeadAbove, Reached, TypeOK, Chains, IsChain
  <2> QED
    BY <1>2, <1>3, <2>1 DEF PrefixInv, HeadAbove, Reached
<1>5. /\ NormalBlocks' = NormalBlocks
      /\ \A h \in Int : Complete(h) => Complete(h)'
      /\ TablesInv'
  BY <1>1, <1>2, SameTables DEF PrefixInv, TablesInv, db
<1>6. RowsBelow' /\ Committed'
  BY <1>1, <1>2, <1>5 DEF PrefixInv, RowsBelow, Committed, TypeOK
<1> QED
  BY <1>1, <1>3, <1>4, <1>5, <1>6 DEF PrefixInv, TablesInv

\* The steps that move the chain or block_now.
LEMMA PrefixMoves ==
    ASSUME CommitsHold, ~Rollback, OneGenesis, PrefixInv,
           \/ ChainAdvance \/ Boot \/ Poll \/ CheckParentFails
           \/ SyncOneBlockDone \/ CalcPanics \/ Crash
    PROVE  PrefixInv'
<1> USE BlocksAssumption
<1>1. SafeInv' /\ SafeInv /\ TypeOK
  BY SafeNext DEF PrefixInv, SafeInv, TypeInv, Next, SyncStep, Failure
<1>2. UNCHANGED db
  BY DEF ChainAdvance, Boot, Poll, CheckParentFails, SyncOneBlockDone, CalcPanics,
         Crash, Dies
<1>3. /\ NormalBlocks' = NormalBlocks
      /\ \A h \in Int : Complete(h) => Complete(h)'
      /\ TablesInv'
  BY <1>1, <1>2, SameTables DEF PrefixInv, TablesInv
<1>4. /\ chain \subseteq Blocks
      /\ chain # {}
      /\ \A b \in NormalBlocks : b \in Blocks /\ Number[b] \in Nat
  BY <1>1 DEF TypeOK, Chains, IsChain, NormalBlocks
<1> SUFFICES HeadAbove' /\ RowsBelow' /\ Committed' /\ Locals'
  BY <1>1, <1>3 DEF PrefixInv, TablesInv
<1>5. CASE ChainAdvance
  <2>1. ASSUME NEW n \in Int, Reached(n) PROVE Reached(n)'
    BY <1>1, <1>5, <2>1 DEF ChainAdvance, Longer, Reached, TypeOK, Chains
  <2>2. HeadAbove'
    BY <1>1, <1>5, <2>1 DEF ChainAdvance, HeadAbove, PrefixInv, TypeOK, Syncing, db
  <2> QED
    BY <1>1, <1>3, <1>5, <2>2
    DEF ChainAdvance, PrefixInv, RowsBelow, Committed, Locals, TypeOK, Height,
        Syncing, FindTrasactionByHeight, db
<1>6. CASE CalcPanics \/ Crash
  BY <1>1, <1>4, <1>6
  DEF CalcPanics, Crash, Dies, PrefixInv, HeadAbove, Reached, RowsBelow, Committed, Locals, db
<1>7. CASE Boot
  <2>1. PICK m \in {Number[b] : b \in Blocks} \cup {0} :
            IsMaxBlocNumber(m) /\ block_now' = m - 1
    BY <1>7 DEF Boot, ResumePoint
  <2>2. m \in Nat /\ \A b \in NormalBlocks : Number[b] <= m
    BY <2>1, <1>4 DEF IsMaxBlocNumber
  <2>3. RowsBelow'
    BY <2>1, <2>2, <1>3 DEF RowsBelow
  <2>4. Committed'
    BY <2>1, <2>2, <1>3
    DEF Committed, PrefixInv, PrefixComplete, IsMaxBlocNumber
  <2>5. Reached(m - 1)
    <3>1. CASE m = 0
      BY <3>1, <1>4 DEF Reached
    <3>2. CASE m # 0
      BY <3>2, <2>1, <2>2, <1>1, <1>4
      DEF IsMaxBlocNumber, PrefixInv, HeadAbove, Reached, NormalBlocks
    <3> QED
      BY <3>1, <3>2
  <2> QED
    BY <1>1, <1>7, <2>1, <2>3, <2>4, <2>5
    DEF Boot, HeadAbove, PrefixInv, Reached, Locals, db
<1>8. CASE Poll
  <2>1. PICK n \in {Number[b] : b \in chain} :
            /\ IsHead(chain, n)
            /\ n # block_now
            /\ block_now' = IF n < block_now THEN block_now - 1 ELSE block_now
            /\ blockNumber' = n
    BY <1>8 DEF Poll
  <2>2. n \in Nat /\ n > block_now
    BY <2>1, <1>1, <1>4 DEF IsHead, PrefixInv, HeadAbove, Reached, TypeOK
  <2>3. HeadAbove'
    BY <1>1, <1>4, <1>8, <2>1, <2>2
    DEF Poll, HeadAbove, Reached, PrefixInv, TypeOK, Syncing, db
  <2> QED
    BY <1>1, <1>3, <1>8, <2>1, <2>2, <2>3
    DEF Poll, PrefixInv, RowsBelow, Committed, Locals, TypeOK
<1>9. CASE CheckParentFails
  <2>1. /\ Height = block_now + 1 /\ block_now \in Nat
        /\ block_now' = block_now - 1
        /\ pc = "receipts" /\ pc' = "drop"
        /\ blockNumber' = blockNumber /\ chain' = chain
    BY <1>1, <1>9
    DEF CheckParentFails, SafeInv, TypeInv, TypeOK, InSync, Fetching, Height, Syncing,
        OneBelow, NextSync, ParentMissing, FindBlockByHeight, NormalBlocks
  <2>2. FindBlockByHeight(block_now) # {}
    <3>1. Complete(block_now)
      BY <2>1 DEF PrefixInv, Committed
    <3> QED
      BY <3>1 DEF Complete, FindBlockByHeight
  <2>3. PICK p \in FindBlockByHeight(block_now) : chain_parent_block # p
    BY <1>9, <2>1, <2>2 DEF CheckParentFails, ParentMissing, ParentMatches
  <2>4. block_now >= 1
    BY <2>1, <2>3
    DEF PrefixInv, Locals, FindBlockByHeight, NormalBlocks, OneGenesis
  <2>5. FindBlockByHeight(block_now + 1) = {}
    BY <1>1, <2>1, <2>4 DEF SafeInv, Dropped
  <2>6. RowsBelow'
    BY <1>3, <1>4, <2>1, <2>5 DEF PrefixInv, RowsBelow, FindBlockByHeight
  <2>7. HeadAbove'
    BY <1>1, <1>2, <1>4, <2>1
    DEF PrefixInv, HeadAbove, Reached, SafeInv, TypeInv, TypeOK, InSync, Fetching,
        Syncing, db
  <2>8. Committed'
    BY <1>3, <2>1 DEF PrefixInv, Committed
  <2> QED
    BY <2>1, <2>6, <2>7, <2>8 DEF Locals
<1>10. CASE SyncOneBlockDone
  <2>1. /\ pc = "writeTxs" /\ todo = {}
        /\ block_now' = block_now + 1
        /\ pc' \in {"drop", "poll"}
        /\ pc' = "drop" => blockNumber' > block_now'
        /\ blockNumber' \in {blockNumber, -1}
        /\ chain' = chain
    BY <1>10 DEF SyncOneBlockDone, NextSync, NextPoll
  <2>2. /\ GLastBlock \in NormalBlocks
        /\ Number[GLastBlock] = block_now + 1
        /\ block_now + 1 <= blockNumber
    BY <1>1, <2>1
    DEF PrefixInv, SafeInv, TypeInv, TypeOK, Locals, Fetched, Fetching, NormalBlocks,
        InSync, Syncing
  <2>3. Complete(block_now + 1)
    BY <2>1, <2>2 DEF PrefixInv, Locals, Complete
  <2>4. Committed'
    BY <1>1, <1>3, <2>1, <2>3 DEF PrefixInv, Committed, TypeOK
  <2>5. HeadAbove'
    BY <1>1, <1>2, <1>4, <2>1, <2>2
    DEF PrefixInv, HeadAbove, Reached, TypeOK, Syncing, db
  <2>6. RowsBelow'
    BY <1>1, <1>3, <1>4, <2>1 DEF PrefixInv, RowsBelow, TypeOK
  <2> QED
    BY <2>1, <2>4, <2>5, <2>6 DEF Locals
<1> QED
  BY <1>5, <1>6, <1>7, <1>8, <1>9, <1>10

\* The steps that write a row.  DropBlock and DropTransaction only touch the
\* height above block_now, the other two only make rows NORMAL.
LEMMA PrefixWrites ==
    ASSUME CommitsHold, TxHeightFixed, PrefixInv,
           DropBlock \/ DropTransaction \/ WriteBlock \/ WriteTransaction
    PROVE  PrefixInv'
<1> USE BlocksAssumption
<1>1. SafeInv' /\ SafeInv /\ TypeOK
  BY SafeNext DEF PrefixInv, SafeInv, TypeInv, Next, SyncStep, Failure
<1>2. /\ Height = block_now + 1
      /\ UNCHANGED <<chain, block_now, blockNumber, GLastBlock>>
      /\ pc # "boot"
      /\ Syncing
      /\ block_now \in Int
  BY <1>1
  DEF PrefixInv, SafeInv, TypeInv, TypeOK, InSync, Fetching, HeadAbove, Height, Syncing,
      DropBlock, DropTransaction, WriteBlock, WriteTransaction
<1>3. \A b \in NormalBlocks : b \in Blocks /\ Number[b] \in Nat
                               /\ Number[b] <= block_now + 1
  BY <1>2 DEF NormalBlocks, PrefixInv, RowsBelow
<1>4. Height' = Height /\ Syncing'
  BY <1>2 DEF Height, Syncing
<1> SUFFICES /\ \A b \in Blocks : t_block'[b] # "absent" => Reached(Number[b])
             /\ \A b \in NormalBlocks' : Number[b] <= block_now + 1
             /\ \A h \in 0..block_now : Complete(h)'
             /\ TxRows' /\ Locals'
  <2>1. HeadAbove' /\ RowsBelow' /\ Committed'
    BY <1>2, <1>4 DEF PrefixInv, HeadAbove, Reached, RowsBelow, Committed
  <2>2. PrefixComplete'
    BY <1>2, <1>1 DEF PrefixComplete, TypeOK, NormalBlocks
  <2> QED
    BY <1>1, <2>1, <2>2 DEF PrefixInv
<1>5. CASE DropBlock
  <2>1. PICK d \in FindBlockByHeight(block_now + 1) :
            t_block' = [t_block EXCEPT ![d] = "FORK"]
    BY <1>2, <1>5 DEF DropBlock
  <2>2. d \in Blocks /\ t_block[d] = "NORMAL" /\ Number[d] = block_now + 1
    BY <2>1 DEF FindBlockByHeight, NormalBlocks
  <2>3. NormalBlocks' = NormalBlocks \ {d}
    BY <1>1, <2>1, <2>2 DEF NormalBlocks, TypeOK
  <2>4. ASSUME NEW h \in 0..block_now PROVE Complete(h)'
    <3>1. Complete(h)
      BY <1>2 DEF PrefixInv, Committed
    <3>2. PICK b \in NormalBlocks :
              /\ Number[b] = h
              /\ \A t \in Transactions[b] :
                    t_transaction[t] = [F_status |-> "NORMAL", F_block |-> h]
      BY <3>1 DEF Complete
    <3>3. b \in NormalBlocks'
      BY <1>2, <2>2, <2>3, <3>2
    <3> QED
      BY <1>5, <3>2, <3>3 DEF DropBlock, Complete
  <2> QED
    BY <1>1, <1>3, <1>5, <2>1, <2>2, <2>3, <2>4
    DEF DropBlock, PrefixInv, HeadAbove, TxRows, Locals, TypeOK
<1>6. CASE DropTransaction
  <2>1. PICK d \in todo :
            /\ t_transaction' = [t_transaction EXCEPT ![d].F_status = "FORK"]
            /\ todo' = todo \ {d}
    BY <1>6 DEF DropTransaction
  <2>2. /\ d \in TxHashes
        /\ t_transaction[d].F_block = block_now + 1
        /\ t_transaction[d].F_status = "NORMAL"
        /\ \A t \in TxHashes : /\ t_transaction'[t].F_block = t_transaction[t].F_block
                               /\ t # d => t_transaction'[t] = t_transaction[t]
    BY <1>1, <1>2, <1>6, <2>1
    DEF DropTransaction, PrefixInv, Locals, TypeOK, TransactionRow,
        FindTrasactionByHeight
  <2>3. NormalBlocks' = NormalBlocks /\ t_block' = t_block /\ pc' = pc
    BY <1>6 DEF DropTransaction, NormalBlocks
  <2>4. ASSUME NEW h \in 0..block_now PROVE Complete(h)'
    <3>1. Complete(h)
      BY <1>2 DEF PrefixInv, Committed
    <3>2. PICK b \in NormalBlocks :
              /\ Number[b] = h
              /\ \A t \in Transactions[b] :
                    t_transaction[t] = [F_status |-> "NORMAL", F_block |-> h]
      BY <3>1 DEF Complete
    <3>3. Transactions[b] \subseteq TxHashes /\ d \notin Transactions[b]
      BY <1>2, <1>3, <2>2, <3>2
    <3> QED
      BY <2>2, <2>3, <3>2, <3>3 DEF Complete
  <2>5. TxRows'
    BY <2>2 DEF PrefixInv, TxRows
  <2>6. Locals'
    BY <1>4, <1>6, <2>1, <2>2, <2>3
    DEF DropTransaction, PrefixInv, Locals, FindTrasactionByHeight
  <2> QED
    BY <1>2, <1>3, <2>3, <2>4, <2>5, <2>6 DEF PrefixInv, HeadAbove
<1>7. CASE WriteBlock
  <2>1. /\ GLastBlock \in Blocks /\ Number[GLastBlock] = block_now + 1
        /\ t_block' = [t_block EXCEPT ![GLastBlock] = "NORMAL"]
        /\ t_transaction' = t_transaction
        /\ todo' = Transactions[GLastBlock]
        /\ pc' = "writeTxs"
    BY <1>1, <1>7 DEF WriteBlock, SafeInv, TypeInv, Fetched, Fetching
  <2>2. NormalBlocks' = NormalBlocks \cup {GLastBlock}
    BY <1>1, <2>1 DEF NormalBlocks, TypeOK
  <2>3. ASSUME NEW h \in 0..block_now PROVE Complete(h)'
    <3>1. Complete(h)
      BY <1>2 DEF PrefixInv, Committed
    <3> QED
      BY <2>1, <2>2, <3>1 DEF Complete
  <2>4. Reached(block_now + 1)
    BY <1>1, <1>2 DEF PrefixInv, HeadAbove, Reached, Syncing, TypeOK, Chains
  <2>5. \A b \in Blocks : t_block'[b] # "absent" => Reached(Number[b])
    BY <1>1, <2>1, <2>4 DEF PrefixInv, HeadAbove, TypeOK
  <2>6. TxRows'
    BY <2>1 DEF PrefixInv, TxRows
  <2>7. Locals'
    BY <1>1, <1>2, <2>1 DEF Locals, TypeOK
  <2> QED
    BY <1>2, <1>3, <2>1, <2>2, <2>3, <2>5, <2>6, <2>7
<1>8. CASE WriteTransaction
  <2>1. PICK w \in todo :
            /\ t_transaction[w].F_status # "NORMAL"
            /\ t_transaction' = [t_transaction EXCEPT ![w] = WrittenRow(w)]
            /\ todo' = todo \ {w}
    BY <1>8 DEF WriteTransaction
  <2>2. /\ GLastBlock \in Blocks /\ Number[GLastBlock] = block_now + 1
        /\ t_block[GLastBlock] = "NORMAL"
        /\ todo \subseteq Transactions[GLastBlock]
        /\ Transactions[GLastBlock] \subseteq TxHashes
    BY <1>1, <1>8
    DEF WriteTransaction, PrefixInv, SafeInv, TypeInv, Fetched, Fetching, Locals
  <2>3. WrittenRow(w) = [F_status |-> "NORMAL", F_block |-> Number[GLastBlock]]
    BY <1>1, <2>1, <2>2
    DEF WrittenRow, PrefixInv, TxRows, TypeOK, TransactionRow
  <2>4. /\ t_transaction'[w] = [F_status |-> "NORMAL",
                                F_block |-> Number[GLastBlock]]
        /\ \A t \in TxHashes : t # w => t_transaction'[t] = t_transaction[t]
    BY <1>1, <2>1, <2>2, <2>3 DEF TypeOK
  <2>5. NormalBlocks' = NormalBlocks /\ t_block' = t_block /\ pc' = pc
    BY <1>8 DEF WriteTransaction, NormalBlocks
  <2>6. ASSUME NEW h \in 0..block_now PROVE Complete(h)'
    <3>1. Complete(h)
      BY <1>2 DEF PrefixInv, Committed
    <3>2. PICK b \in NormalBlocks :
              /\ Number[b] = h
              /\ \A t \in Transactions[b] :
                    t_transaction[t] = [F_status |-> "NORMAL", F_block |-> h]
      BY <3>1 DEF Complete
    <3>3. Transactions[b] \subseteq TxHashes /\ w \notin Transactions[b]
      BY <1>3, <2>1, <3>2
    <3> QED
      BY <2>4, <2>5, <3>2, <3>3 DEF Complete
  <2>7. TxRows'
    <3> SUFFICES ASSUME NEW b \in Blocks, NEW t \in Transactions[b],
                        t_transaction'[t].F_status # "absent"
                 PROVE  t_transaction'[t].F_block = Number[b]
      BY DEF TxRows
    <3>1. CASE t = w
      <4>1. Number[b] = Number[GLastBlock]
        BY <2>1, <2>2, <3>1 DEF TxHeightFixed
      <4> QED
        BY <2>4, <3>1, <4>1
    <3>2. CASE t # w
      BY <2>4, <3>2 DEF PrefixInv, TxRows
    <3> QED
      BY <3>1, <3>2
  <2>8. Locals'
    BY <1>2, <1>8, <2>1, <2>2, <2>4, <2>5
    DEF WriteTransaction, PrefixInv, Locals
  <2> QED
    BY <1>2, <1>3, <2>5, <2>6, <2>7, <2>8 DEF PrefixInv, HeadAbove
<1> QED
  BY <1>5, <1>6, <1>7, <1>8

LEMMA PrefixNext ==
    ASSUME CommitsHold, ~Rollback, OneGenesis, TxHeightFixed
    PROVE  PrefixInv /\ [Next]_vars => PrefixInv'
<1> SUFFICES ASSUME PrefixInv, [Next]_vars PROVE PrefixInv'
  OBVIOUS
<1>1. CASE UNCHANGED vars
  <2>1. SafeInv'
    BY SafeNext DEF PrefixInv
  <2>2. TablesInv' /\ NormalBlocks' = NormalBlocks
        /\ \A h \in Int : Complete(h) => Complete(h)'
    BY <1>1, SameTables DEF PrefixInv, SafeInv, TypeInv, TablesInv, vars, db
  <2>3. HeadAbove' /\ Locals'
    BY <1>1
    DEF PrefixInv, HeadAbove, Reached, Locals, Height, Syncing,
        FindTrasactionByHeight, vars
  <2>4. RowsBelow' /\ Committed'
    BY <1>1, <2>2 DEF PrefixInv, RowsBelow, Committed, SafeInv, TypeInv, TypeOK, vars
  <2> QED
    BY <2>1, <2>2, <2>3, <2>4 DEF PrefixInv, TablesInv
<1>2. CASE ChainRollback
  BY <1>2 DEF ChainRollback
<1>3. CASE Quiet
  BY <1>3, PrefixQuiet
<1>6. CASE CommitLost
  BY <1>6 DEF CommitLost, Fault, CommitsHold
<1>4. CASE \/ ChainAdvance \/ Boot \/ Poll \/ CheckParentFails
           \/ SyncOneBlockDone \/ CalcPanics \/ Crash
  BY <1>4, PrefixMoves
<1>5. CASE DropBlock \/ DropTransaction \/ WriteBlock \/ WriteTransaction
  BY <1>5, PrefixWrites
<1> QED
  BY <1>1, <1>2, <1>3, <1>4, <1>5, <1>6 DEF Next, SyncStep, Failure, Quiet

\* Below a NORMAL row every height is complete, whatever fails and whenever the
\* process dies: GetMaxBlocNumber - 1 is a safe point for StartSyncLastBlock to
\* resume from.
THEOREM ResumeIsSafe ==
    ASSUME CommitsHold, ~Rollback, OneGenesis, TxHeightFixed
    PROVE  Spec => []PrefixComplete
<1>1. PrefixInv => PrefixComplete
  BY DEF PrefixInv
<1> QED
  BY PrefixInit, PrefixNext, <1>1, PTL DEF Spec

\* DropBlok takes blocks out of the NORMAL state from the top down.
THEOREM TopFirst ==
    ASSUME CommitsHold, ~Rollback, OneGenesis, TxHeightFixed
    PROVE  Spec => DropsTopFirst
<1>1. PrefixInv /\ [Next]_vars => [DropsTheTop]_vars
  <2> SUFFICES ASSUME PrefixInv, Next PROVE DropsTheTop
    OBVIOUS
  <2> USE BlocksAssumption DEF DropsTheTop, NormalBlocks
  <2>1. CASE DropBlock
    BY <2>1
    DEF DropBlock, PrefixInv, SafeInv, TypeInv, TypeOK, HeadAbove, RowsBelow,
        FindBlockByHeight, Height
  <2>2. CASE WriteBlock
    BY <2>2 DEF WriteBlock, PrefixInv, SafeInv, TypeInv, TypeOK
  <2>3. CASE UNCHANGED t_block
    BY <2>3
  <2> QED
    BY <2>1, <2>2, <2>3
    DEF Next, SyncStep, Failure, db, vars, ChainAdvance, ChainRollback, Boot, Poll,
        PollIdle, DropSkips, DropFind, DropTransaction, DropDone, FetchBlock,
        FetchParent, FetchReceipt, FetchMisses, CheckParent, CheckParentFails,
        WriteTransaction, DuplicateTransaction, SyncOneBlockDone, RpcFails,
        FindPanics, WriteFails, ResetSkipped, CalcPanics, CommitLost, Crash, Dies
<1> QED
  BY PrefixInit, PrefixNext, <1>1, PTL DEF Spec, DropsTopFirst

(***************************************************************************)
(* What get_summary reads                                                  *)
(***************************************************************************)
\* GLastBlock is forgotten with the process; otherwise it is at most the block
\* that was fetched before the last step back.
LastBlock ==
    /\ pc = "boot" => GLastBlock = NoBlock
    /\ GLastBlock # NoBlock => Number[GLastBlock] <= block_now + 2

\* When the loop has reached the head, the last block is the head's row.
AtHead ==
    pc = "poll" /\ IsHead(chain, block_now)
    => GLastBlock \in NormalBlocks /\ Number[GLastBlock] = block_now

SummaryInv == PrefixInv /\ LastBlock /\ AtHead

LEMMA SummaryNext ==
    ASSUME CommitsHold, ~Rollback, OneGenesis, TxHeightFixed, SummaryInv, Next
    PROVE  SummaryInv'
<1> USE BlocksAssumption
<1>1. PrefixInv /\ PrefixInv' /\ LastBlock /\ AtHead
  BY PrefixNext DEF SummaryInv
<1>2. TypeInv /\ TypeOK
  BY <1>1 DEF PrefixInv, SafeInv, TypeInv
<1>3. /\ chain \subseteq Blocks /\ chain # {} /\ block_now \in Int /\ blockNumber \in Int
      /\ \A b \in Blocks : Number[b] \in Nat
  BY <1>2 DEF TypeOK, Chains, IsChain
<1>4. Syncing => ~IsHead(chain, block_now)
  BY <1>1, <1>3 DEF Syncing, PrefixInv, HeadAbove, Reached, IsHead
<1> SUFFICES LastBlock' /\ AtHead'
  BY <1>1 DEF SummaryInv
<1>5. CASE ChainAdvance
  <2>1. ~IsHead(chain, block_now)'
    <3>1. chain' \subseteq Blocks
      BY <1>5 DEF ChainAdvance, Chains
    <3>2. PICK c \in chain : block_now <= Number[c]
      BY <1>1 DEF PrefixInv, HeadAbove, Reached
    <3>3. PICK b \in chain' : Number[c] < Number[b]
      BY <1>5 DEF ChainAdvance, Longer
    <3> QED
      BY <1>3, <1>5, <3>1, <3>2, <3>3 DEF ChainAdvance, IsHead
  <2> QED
    BY <1>1, <1>5, <2>1 DEF ChainAdvance, LastBlock, AtHead
<1>6. CASE Boot
  <2>1. PICK m \in {Number[b] : b \in Blocks} \cup {0} :
            IsMaxBlocNumber(m) /\ block_now' = m - 1
    BY <1>6 DEF Boot, ResumePoint
  <2>2. chain' = chain /\ m \in Nat
    BY <1>6, <2>1 DEF Boot
  <2>3. \E c \in chain : m <= Number[c]
    BY <1>1, <1>3, <2>1, <2>2
    DEF IsMaxBlocNumber, PrefixInv, HeadAbove, Reached, NormalBlocks
  <2>4. ~IsHead(chain, block_now)'
    BY <1>3, <2>1, <2>2, <2>3 DEF IsHead
  <2> QED
    BY <1>1, <1>6, <2>4 DEF Boot, LastBlock, AtHead
<1>7. CASE CalcPanics \/ Crash
  BY <1>7 DEF CalcPanics, Crash, Dies, LastBlock, AtHead
<1>8. CASE Poll
  <2>1. block_now' = block_now
    BY <1>1, <1>3, <1>8 DEF Poll, IsHead, PrefixInv, HeadAbove, Reached
  <2> QED
    BY <1>1, <1>8, <2>1 DEF Poll, LastBlock, AtHead
<1>9. CASE FetchBlock
  BY <1>2, <1>3, <1>9
  DEF FetchBlock, GetBlockByNumber, TypeInv, InSync, Fetching, Height, LastBlock,
      AtHead
<1>10. CASE CheckParentFails
  BY <1>2, <1>3, <1>10
  DEF CheckParentFails, OneBelow, NextSync, TypeInv, Fetched, Fetching, LastBlock,
      AtHead
<1>11. CASE SyncOneBlockDone
  <2>1. /\ GLastBlock \in Blocks /\ t_block[GLastBlock] = "NORMAL"
        /\ Number[GLastBlock] = block_now + 1
    BY <1>1, <1>2, <1>11
    DEF SyncOneBlockDone, PrefixInv, Locals, TypeInv, Fetched, Fetching
  <2>2. UNCHANGED <<t_block, GLastBlock>> /\ block_now' = block_now + 1 /\ pc' # "boot"
    BY <1>11 DEF SyncOneBlockDone, NextSync, NextPoll, db
  <2>3. GLastBlock' \in NormalBlocks' /\ Number[GLastBlock'] = block_now'
    BY <2>1, <2>2 DEF NormalBlocks
  <2> QED
    BY <1>3, <2>2, <2>3 DEF LastBlock, AtHead
<1>12. CASE PollIdle
  BY <1>1, <1>12 DEF PollIdle, vars, LastBlock, AtHead, NormalBlocks
<1>13. CASE /\ UNCHANGED <<chain, block_now, GLastBlock>>
            /\ pc # "boot" /\ pc' # "boot"
            /\ pc' = "poll" => Syncing
  BY <1>1, <1>4, <1>13 DEF LastBlock, AtHead
<1>14. pc \in Fetching \cup {"drop", "dropFind", "dropTxs"} => Syncing
  BY <1>1, <1>2 DEF TypeInv, InSync, PrefixInv, HeadAbove
<1>15. ~ChainRollback /\ ~CommitLost
  BY DEF ChainRollback, CommitLost, Fault, CommitsHold
<1>16. CASE DropSkips \/ DropBlock \/ DropFind \/ DropTransaction \/ DropDone
  BY <1>13, <1>14, <1>16
  DEF DropSkips, DropBlock, DropFind, DropTransaction, DropDone, DropReturns
<1>17. CASE \/ FetchParent \/ FetchReceipt \/ FetchMisses \/ CheckParent
            \/ WriteBlock \/ WriteTransaction \/ DuplicateTransaction
  BY <1>13, <1>17
  DEF FetchParent, FetchReceipt, FetchMisses, CheckParent, WriteBlock,
      WriteTransaction, DuplicateTransaction, NextSync
<1>18. CASE RpcFails \/ FindPanics \/ WriteFails \/ ResetSkipped
  BY <1>13, <1>14, <1>18
  DEF RpcFails, FindPanics, WriteFails, ResetSkipped, NextSync, NextPoll, Fetching
<1> QED
  BY <1>5, <1>6, <1>7, <1>8, <1>9, <1>10, <1>11, <1>12, <1>15, <1>16, <1>17,
     <1>18 DEF Next, SyncStep, Failure

\* The block number that get_summary answers stays near the stored blocks, and is
\* that of the highest one whenever StartSyncLastBlock has reached the head.
THEOREM SummaryIsNear ==
    ASSUME CommitsHold, ~Rollback, OneGenesis, TxHeightFixed
    PROVE  Spec => []SummaryNearTables
<1> USE BlocksAssumption
<1>1. Init => SummaryInv
  BY PrefixInit DEF Init, SummaryInv, LastBlock, AtHead
<1>2. SummaryInv /\ [Next]_vars => SummaryInv'
  <2>1. CASE UNCHANGED vars
    <3> SUFFICES ASSUME SummaryInv PROVE SummaryInv'
      BY <2>1, SummaryNext
    <3>1. PrefixInv'
      BY <2>1, PrefixNext DEF SummaryInv
    <3> QED
      BY <2>1, <3>1 DEF SummaryInv, LastBlock, AtHead, NormalBlocks, vars
  <2> QED
    BY <2>1, SummaryNext
<1>3. SummaryInv => SummaryNearTables
  <2> SUFFICES ASSUME SummaryInv PROVE SummaryNearTables
    OBVIOUS
  <2>1. TypeOK
    BY DEF SummaryInv, PrefixInv, SafeInv, TypeInv
  <2>2. ASSUME NEW b \in {GLastBlock} \ {NoBlock}, Number[b] >= 2
        PROVE  \E c \in NormalBlocks : Number[b] - Number[c] <= 2
    <3>1. b = GLastBlock /\ pc # "boot" /\ Number[b] <= block_now + 2
      BY DEF SummaryInv, LastBlock
    <3>2. b \in Blocks /\ block_now \in Nat
      BY <2>1, <2>2, <3>1 DEF TypeOK
    <3>3. PICK c \in NormalBlocks : Number[c] = block_now
      <4>1. block_now \in 0..block_now /\ Committed
        BY <3>2 DEF SummaryInv, PrefixInv
      <4>2. Complete(block_now)
        BY <3>1, <4>1 DEF Committed
      <4> QED
        BY <4>2 DEF Complete
    <3>4. Number[b] \in Nat /\ Number[c] \in Nat
      BY <3>2, <3>3 DEF NormalBlocks
    <3>5. Number[b] - Number[c] <= 2
      BY <3>1, <3>2, <3>3, <3>4
    <3> QED
      BY <3>5
  <2>3. \A b \in {GLastBlock} \ {NoBlock} : b \in Blocks /\ Number[b] \in Nat
    BY <2>1 DEF TypeOK
  <2> QED
    BY <2>2, <2>3 DEF SummaryNearTables, SummaryInv, AtHead
<1> QED
  BY <1>1, <1>2, <1>3, PTL DEF Spec
=============================================================================
