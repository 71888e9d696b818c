----------------------------- MODULE MCBlockSync -----------------------------
(***************************************************************************)
(* Instances of BlockSync.  Two forks, a and b, leave the chain above      *)
(* height 1; fork d differs already at height 1.                           *)
(***************************************************************************)
EXTENDS BlockSync

CONSTANTS g, a1, a2, a3, a4, a5, b2, b3, b4, d1, d2, t1, t2, t3

MCNumber == [b \in Blocks |-> CASE b = g -> 0
                                [] b \in {a1, d1} -> 1
                                [] b \in {a2, b2, d2} -> 2
                                [] b \in {a3, b3} -> 3
                                [] b \in {a4, b4} -> 4
                                [] b = a5 -> 5]

MCParentHash == [b \in Blocks |-> CASE b = g -> NoBlock
                                    [] b \in {a1, d1} -> g
                                    [] b \in {a2, b2} -> a1
                                    [] b = d2 -> d1
                                    [] b = a3 -> a2
                                    [] b = b3 -> b2
                                    [] b = a4 -> a3
                                    [] b = b4 -> b3
                                    [] b = a5 -> a4]

\* t1 is in both forks at one height, t2 only in fork a.
MCFixedTxs == [b \in Blocks |-> CASE b = a2 -> {t2}
                                  [] b \in {a3, b3} -> {t1}
                                  [] OTHER -> {}]

\* And one only in fork b, t3.
MCShortTxs == [b \in Blocks |-> IF b = b3 THEN {t1, t3} ELSE MCFixedTxs[b]]

\* Fork b holds t1 at a lower height than fork a.
MCMovedDownTxs == [b \in Blocks |-> IF b \in {a3, b2} THEN {t1} ELSE {}]

\* Fork b holds t1 at a higher height than fork a.
MCMovedUpTxs == [b \in Blocks |-> IF b \in {a2, b3} THEN {t1} ELSE {}]

\* The first block after the genesis block holds a transaction.
MCLowTxs == [b \in Blocks |-> IF b = a1 THEN {t1} ELSE {}]
=============================================================================
