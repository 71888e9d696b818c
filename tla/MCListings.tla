------------------------------ MODULE MCListings ------------------------------
(***************************************************************************)
(* Instances of Listings: block 2 is replaced by a reorganisation to fork  *)
(* b, which goes on.  All transactions are the address's own.              *)
(***************************************************************************)
EXTENDS Listings

CONSTANTS g, a1, a2, b2, b3, t1, t2, t3, t4

MCNumber == [b \in Blocks |-> CASE b = g -> 0
                                [] b = a1 -> 1
                                [] b \in {a2, b2} -> 2
                                [] b = b3 -> 3]

MCParentHash == [b \in Blocks |-> CASE b = g -> NoBlock
                                    [] b = a1 -> g
                                    [] b \in {a2, b2} -> a1
                                    [] b = b3 -> b2]

\* Fork b keeps t2, drops t4 and adds t3.
MCTxs == [b \in Blocks |-> CASE b = a1 -> {t1}
                             [] b = a2 -> {t2, t4}
                             [] b = b2 -> {t2, t3}
                             [] OTHER -> {}]

MCTypes == [t \in TxHashes |-> IF t = t1 THEN "ME_MORTGAGE" ELSE "UNDEFINED"]

Listed(handlers, addrs, heights, txtypes) ==
    [handler : handlers, addr : addrs, height : heights, txtype : txtypes]

\* Every handler, get_by_height for the height of the fork.
MCAsks ==
    Listed({"get_blocks", "get_transactions", "get_by_addr"}, {"wallet"}, {0}, {"ALL"})
    \cup Listed({"get_mined_block_by_addr"}, {"", "wallet"}, {0}, {"ALL"})
    \cup Listed({"get_by_height"}, {"wallet"}, {2}, {"ALL"})
    \cup Listed({"get_by_addr_and_type"}, {"wallet"}, {0}, {"ALL", "QUERY_3OR4"})

\* The listing with pending transactions only.
MCTypedAsks == Listed({"get_by_addr_and_type"}, {"wallet"}, {0}, {"ALL"})
=============================================================================
