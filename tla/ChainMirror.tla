----------------------------- MODULE ChainMirror -----------------------------
(***************************************************************************)
(* What the synchroniser promises to the readers of its tables, whatever   *)
(* the node does and whatever fails: the NORMAL blocks are a stack, one    *)
(* for each height from 0 on.  Only its top is ever taken off, a block is  *)
(* put on it only when all transactions of the blocks below are NORMAL, a  *)
(* transaction becomes NORMAL only with the top block, and stops being so  *)
(* only when no NORMAL block holds it.                                     *)
(*                                                                         *)
(* A block need not be the child of the one below it: see LinksKept in     *)
(* BlockSync.                                                              *)
(***************************************************************************)
EXTENDS Integers

CONSTANTS Blocks, Number, Transactions

VARIABLES
    rows,   \* the NORMAL blocks
    txs     \* the NORMAL transactions

IsTop(b) == b \in rows /\ \A c \in rows : Number[c] <= Number[b]

MirrorInit == rows = {} /\ txs = {}

Extend(b) ==
    /\ \A c \in rows : Number[c] < Number[b]
    /\ \A h \in 0..(Number[b] - 1) : \E c \in rows : Number[c] = h
    /\ \A c \in rows : Transactions[c] \subseteq txs
    /\ rows' = rows \cup {b}
    /\ UNCHANGED txs

Retract(b) ==
    /\ IsTop(b)
    /\ rows' = rows \ {b}
    /\ UNCHANGED txs

Show(b) ==
    /\ IsTop(b)
    /\ \E t \in Transactions[b] : txs' = txs \cup {t}
    /\ UNCHANGED rows

Hide ==
    /\ \E t \in txs : /\ \A c \in rows : t \notin Transactions[c]
                      /\ txs' = txs \ {t}
    /\ UNCHANGED rows

MirrorNext == (\E b \in Blocks : Extend(b) \/ Retract(b) \/ Show(b)) \/ Hide

MirrorSpec == MirrorInit /\ [][MirrorNext]_<<rows, txs>>
=============================================================================
