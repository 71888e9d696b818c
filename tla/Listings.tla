------------------------------- MODULE Listings -------------------------------
(***************************************************************************)
(* The listing handlers of the HTTP API (packages api/block_query,         *)
(* api/mining and api/transaction), reading the tables while the           *)
(* synchroniser writes them.  A listing is the NORMAL rows that match the  *)
(* request, newest first, cut into pages.  A client reads it page by page, *)
(* one request each, until a page is empty; every page is a query of its   *)
(* own, and the synchroniser takes any number of steps in between.         *)
(*                                                                         *)
(* A page is the set of rows it shows.  The count that goes with it is the *)
(* result of another query and decides nothing.  Every request has a       *)
(* context and a database handle of its own, so that two clients do not    *)
(* meet, and one is enough.                                                *)
(***************************************************************************)
EXTENDS BlockSync, FiniteSetsExt

CONSTANTS
    Asks,       \* the handlers the client asks, with their arguments
    PageSizes,  \* the page sizes it asks for
    MaxPending, \* how many pending transactions of the address there may be
    From,       \* the transactions whose F_from is the address asked for
    To,         \* the transactions whose F_to it is
    F_tx_type   \* what CalcTransactionType said of a transaction

ASSUME ListingsAssumption ==
    /\ \A a \in Asks : a.handler \in {"get_blocks", "get_mined_block_by_addr",
                                      "get_transactions", "get_by_addr",
                                      "get_by_height", "get_by_addr_and_type"}
    /\ PageSizes \subseteq Int
    /\ MaxPending \in Nat
    /\ From \subseteq TxHashes /\ To \subseteq TxHashes
    /\ F_tx_type \in [TxHashes -> {"UNDEFINED", "ME_MORTGAGE", "ME_REDEEM"}]

VARIABLES
    ask,        \* the handler and its arguments
    PageIndex,  \* the page it is asked for
    PageSize,
    step,       \* where the request is
    pending,    \* how many pending transactions the node reported
    window,     \* the pending ones on the page, and the query's Offset and Limit
    rsp,        \* the rows of the page answered last
    seen,       \* the rows of all pages so far
    kept        \* the listing as it was at its first page, if nothing has left it
                \* and its pending transactions have fitted on a page

reader == <<ask, PageIndex, PageSize, step, pending, window, rsp, seen, kept>>

(***************************************************************************)
(* What the handlers list                                                  *)
(***************************************************************************)
Get_BlocksOfAnyStatus == {b \in Blocks : t_block[b] # "absent"}

Get_Blocks == NormalBlocks

\* The rows whose F_miner is addr.  WriteBlock leaves the column empty: it would
\* be the block's Miner, but the line is commented out.
Get_mined_block_by_addr(addr) == {b \in NormalBlocks : addr = ""}

Get_transactions == NormalTransactions

Get_by_addr == NormalTransactions \cap (From \cup To)

Get_by_heightOfAnyStatus(height) == {t \in TxHashes :
                                         t_transaction[t].F_block = height}

Get_by_height(height) == {t \in NormalTransactions :
                              t_transaction[t].F_block = height}

\* The stored transactions of a txType, 3OR4 being either of the last two.
Get_by_addr_and_type(txtype) ==
    {t \in NormalTransactions :
        \/ txtype = "ALL" /\ t \in From \cup To
        \/ txtype = "FROM_ME" /\ t \in From /\ F_tx_type[t] = "UNDEFINED"
        \/ txtype = "TO_ME" /\ t \in To /\ F_tx_type[t] = "UNDEFINED"
        \/ txtype = F_tx_type[t] /\ txtype # "UNDEFINED" /\ t \in From \cup To
        \/ txtype = "QUERY_3OR4" /\ F_tx_type[t] # "UNDEFINED"
                                 /\ t \in From \cup To}

Listing ==
    CASE ask.handler = "get_blocks" -> Get_Blocks
      [] ask.handler = "get_mined_block_by_addr" -> Get_mined_block_by_addr(ask.addr)
      [] ask.handler = "get_transactions" -> Get_transactions
      [] ask.handler = "get_by_addr" -> Get_by_addr
      [] ask.handler = "get_by_height" -> Get_by_height(ask.height)
      [] ask.handler = "get_by_addr_and_type" -> Get_by_addr_and_type(ask.txtype)

\* The column a listing is ordered by, descending: F_block of a block, and
\* F_timestamp of a transaction, which like F_block is that of the block it was
\* first written with, and is taken to increase with it.
SortKey(row) == IF row \in Blocks THEN Number[row] ELSE t_transaction[row].F_block

\* Offset(offset).Limit(size) of rows: the rows come in some order that is
\* descending in their key, before's first, then the page's.  Rows with equal
\* keys come in any order, and in another one for another page.
Pages(rows, offset, size) ==
    {page \in SUBSET rows :
        \E before \in kSubset(IF offset < Cardinality(rows) THEN offset
                              ELSE Cardinality(rows), rows \ page) :
            LET after == rows \ (before \cup page)
            IN  /\ \/ Cardinality(page) = size
                   \/ Cardinality(page) < size /\ after = {}
                /\ \A b \in before, p \in page \cup after :
                      SortKey(b) >= SortKey(p)
                /\ \A p \in page, a \in after : SortKey(p) >= SortKey(a)}

(***************************************************************************)
(* A request                                                               *)
(***************************************************************************)
NoWindow == [shown |-> {}, offset |-> 0, size |-> 0]

NoAsk == [handler |-> "none", addr |-> "", height |-> 0, txtype |-> "ALL"]

ListInit ==
    /\ Init
    /\ ask = NoAsk
    /\ PageIndex = 1
    /\ PageSize = 1
    /\ step = "idle"
    /\ pending = 0
    /\ window = NoWindow
    /\ rsp = {}
    /\ seen = {}
    /\ kept = {}

AnyPage(index, size) == TRUE

\* Any other page is refused with ERR_PARAMETER_INVALID.
ValidPage(index, size) == index >= 1 /\ size > 0

OffsetByIndex == PageIndex * PageSize

Offset == (PageIndex - 1) * PageSize

MergeKeepsOffset(pendingLen, offset, size) ==
    IF pendingLen <= offset
    THEN [shown |-> {}, offset |-> offset, size |-> size]
    ELSE [shown |-> 1..pendingLen, offset |-> 0, size |-> size - pendingLen]

\* Get_by_addr_and_type puts the pending transactions first: the ones on the
\* page, and what it asks the table for.
Merge(pendingLen, offset, size) ==
    IF pendingLen <= offset
    THEN [shown |-> {}, offset |-> offset - pendingLen, size |-> size]
    ELSE [shown |-> 1..pendingLen, offset |-> 0, size |-> size - pendingLen]

\* pendingList[0 : size - pendingLen], with a negative upper bound, panics.
SliceFails(pendingLen, offset, size) == pendingLen > offset + size

\* Where a request starts: with the node's pending transactions, or with a query
\* of its own page.
Begin(handler) ==
    IF handler = "get_by_addr_and_type"
    THEN step' = "pending" /\ window' = NoWindow
    ELSE /\ step' = "query"
         /\ window' = [shown |-> {}, offset |-> Offset', size |-> PageSize']

\* The client asks for the first page of a listing.
AskFirst ==
    /\ step = "idle"
    /\ UNCHANGED vars
    /\ ask' \in Asks
    /\ PageIndex' = 1
    /\ PageSize' \in PageSizes
    /\ ValidPage(PageIndex', PageSize')
    /\ Begin(ask'.handler)
    /\ pending' = 0
    /\ rsp' = {}
    /\ seen' = {}
    /\ kept' = Listing'

\* A runtime panic: PANIC_RECOVER answers "unkown error" and panics again, so that
\* the server drops the connection.
Aborts == step' = "aborted" /\ UNCHANGED window

\* get_pending: Txpool.Content, then the cut of the pending list.
GetPending ==
    /\ step = "pending"
    /\ pending' \in 0..MaxPending
    /\ IF SliceFails(pending', Offset, PageSize)
       THEN Aborts
       ELSE step' = "query" /\ window' = Merge(pending', Offset, PageSize)
    /\ kept' = IF pending' \in pending..PageSize THEN kept ELSE {}
    /\ UNCHANGED <<vars, ask, PageIndex, PageSize, rsp, seen>>

\* The page is read and answered, and the client asks for the next one.  There
\* is no query with a Limit of 0 or less.
Query ==
    /\ step = "query"
    /\ UNCHANGED <<vars, ask, PageSize, pending, kept>>
    /\ rsp' \in IF window.size <= 0 THEN {{}}
                ELSE Pages(Listing, window.offset, window.size)
    /\ seen' = seen \cup rsp'
    /\ IF rsp' = {} /\ window.shown = {}
       THEN step' = "done" /\ UNCHANGED <<PageIndex, window>>
       ELSE PageIndex' = PageIndex + 1 /\ Begin(ask.handler)

\* The client has what it wants; or the node or the database has failed, and the
\* request is answered with the error.
Leave ==
    /\ step # "idle"
    /\ ask' = NoAsk
    /\ PageIndex' = 1
    /\ PageSize' = 1
    /\ step' = "idle"
    /\ pending' = 0
    /\ window' = NoWindow
    /\ rsp' = {}
    /\ seen' = {}
    /\ kept' = {}
    /\ UNCHANGED vars

\* The synchroniser, the node or a failure takes a step.
Write ==
    /\ Next
    /\ UNCHANGED <<ask, PageIndex, PageSize, step, pending, window, rsp, seen>>
    /\ kept' = IF step = "idle" \/ ~(Listing \subseteq Listing') THEN {} ELSE kept

ListNext == AskFirst \/ GetPending \/ Query \/ Leave \/ Write

ListSpec == ListInit /\ [][ListNext]_<<vars, reader>>

(***************************************************************************)
(* Properties                                                              *)
(***************************************************************************)
\* Every variable holds a value of its kind; no request with a page size below
\* 1 gets past the handlers' check of their parameters.
ListTypeOK ==
    /\ ask \in Asks \cup {NoAsk}
    /\ PageIndex \in Nat \ {0}
    /\ PageSize \in Nat \ {0}
    /\ step \in {"idle", "pending", "query", "done", "aborted"}
    /\ pending \in 0..MaxPending
    /\ window \in [shown : SUBSET (1..MaxPending), offset : Nat, size : Int]
    /\ rsp \subseteq Blocks \cup TxHashes
    /\ seen \subseteq Blocks \cup TxHashes
    /\ kept \subseteq Blocks \cup TxHashes

\* A page of get_blocks shows consecutive heights, each once, whatever the
\* synchroniser is doing, has left undone in a crash, or is undoing.
PagesContiguous ==
    ask.handler = "get_blocks"
    => /\ \A b, c \in rsp : Number[b] = Number[c] => b = c
       /\ \A b, c \in rsp : \A h \in Number[b]..Number[c] :
             \E d \in rsp : Number[d] = h

\* As long as nothing has failed, a page of get_by_height shows transactions of
\* one block: never some of the block that DropBlok is dropping and some of the
\* one that WriteTransactions is writing.
PagesOfOneBlock ==
    ask.handler = "get_by_height" /\ faults = 0 /\ rsp # {}
    => \E b \in Blocks : Number[b] = ask.height /\ rsp \subseteq Transactions[b]

\* A row that no other row of the listing is equal to in the column it is sorted
\* by is not missed by a client that reads all pages, unless something has left
\* the listing meanwhile: rows that SyncOneBlock adds move others to later pages,
\* never to earlier ones.
NothingMissed ==
    step = "done"
    => \A row \in kept :
          (\A other \in Listing \ {row} : SortKey(other) # SortKey(row))
          => row \in seen

\* A page of get_by_addr_and_type is the part from Offset to Offset + PageSize of
\* the pending transactions followed by the stored ones ("start of the range",
\* "end of the range"), and no page makes the handler panic.
PageIsRange ==
    /\ step # "aborted"
    /\ ask.handler = "get_by_addr_and_type" /\ step = "query"
       => LET shown == {i \in 1..pending : Offset < i /\ i <= Offset + PageSize}
              left == PageSize - Cardinality(shown)
          IN  /\ window.shown = shown
              /\ IF left = 0 THEN window.size <= 0
                 ELSE /\ window.size = left
                      /\ window.offset = Offset + Cardinality(shown) - pending

\* Get_by_addr_and_type does so if the pending transactions fit on one page.
FittingPendingPaged == pending <= PageSize => PageIsRange
=============================================================================
