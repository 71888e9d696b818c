--------------------------- MODULE ListingsProofs ---------------------------
(***************************************************************************)
(* Proofs about Listings: for every tree of blocks, every set of requests  *)
(* and page sizes, and any number of pages and pending transactions.       *)
(***************************************************************************)
EXTENDS Listings, MirrorProofs, GhostProofs

(***************************************************************************)
(* Facts about the operators                                               *)
(***************************************************************************)
\* The requests leave the tables alone: to them a step of Listings is a step of
\* BlockSync.
LEMMA ListStep == [ListNext]_<<vars, reader>> => [Next]_vars
  BY DEF ListNext, AskFirst, GetPending, Query, Leave, Write

\* A listing is one of NORMAL blocks or of NORMAL transactions.
LEMMA ListingOfTables ==
    ask \in Asks => Listing \subseteq NormalBlocks \/ Listing \subseteq NormalTransactions
<1> SUFFICES ASSUME ask \in Asks
             PROVE  Listing \subseteq NormalBlocks \/ Listing \subseteq NormalTransactions
  OBVIOUS
<1> USE DEF Listing
<1>1. CASE ask.handler = "get_blocks"
  BY <1>1 DEF Get_Blocks
<1>2. CASE ask.handler = "get_mined_block_by_addr"
  BY <1>2 DEF Get_mined_block_by_addr
<1>3. CASE ask.handler = "get_transactions"
  BY <1>3 DEF Get_transactions
<1>4. CASE ask.handler = "get_by_addr"
  BY <1>4 DEF Get_by_addr
<1>5. CASE ask.handler = "get_by_height"
  BY <1>5 DEF Get_by_height
<1>6. CASE ask.handler = "get_by_addr_and_type"
  BY <1>6 DEF Get_by_addr_and_type
<1> QED
  BY <1>1, <1>2, <1>3, <1>4, <1>5, <1>6, ListingsAssumption

LEMMA ListingType == ask \in Asks => Listing \subseteq Blocks \cup TxHashes
  BY ListingOfTables DEF NormalBlocks, NormalTransactions

LEMMA SortKeyType ==
    TypeOK => \A row \in Blocks \cup TxHashes : SortKey(row) \in Int
  BY BlocksAssumption DEF SortKey, TypeOK, TransactionRow

\* rows are cut by Offset(offset).Limit(size) into before, page and after.
IsCut(rows, offset, size, before, page, after) ==
    /\ rows = before \cup page \cup after
    /\ before \cap page = {} /\ before \cap after = {} /\ page \cap after = {}
    /\ IsFiniteSet(before) /\ IsFiniteSet(page)
    /\ Cardinality(before) = IF offset < Cardinality(rows) THEN offset
                             ELSE Cardinality(rows)
    /\ Cardinality(page) = size \/ (Cardinality(page) < size /\ after = {})
    /\ \A b \in before, p \in page \cup after : SortKey(b) >= SortKey(p)
    /\ \A p \in page, a \in after : SortKey(p) >= SortKey(a)

LEMMA PageParts ==
    ASSUME NEW rows, IsFiniteSet(rows), NEW offset \in Nat, NEW size \in Nat \ {0},
           NEW page \in Pages(rows, offset, size)
    PROVE  \E before, after \in SUBSET rows :
              IsCut(rows, offset, size, before, page, after)
<1>1. page \in SUBSET rows
  BY DEF Pages
<1>2. PICK before \in kSubset(IF offset < Cardinality(rows) THEN offset
                              ELSE Cardinality(rows), rows \ page) :
          LET after == rows \ (before \cup page)
          IN  /\ \/ Cardinality(page) = size
                 \/ Cardinality(page) < size /\ after = {}
              /\ \A b \in before, p \in page \cup after : SortKey(b) >= SortKey(p)
              /\ \A p \in page, a \in after : SortKey(p) >= SortKey(a)
  BY DEF Pages
<1>3. /\ before \in SUBSET (rows \ page)
      /\ Cardinality(before) = IF offset < Cardinality(rows) THEN offset
                               ELSE Cardinality(rows)
  BY <1>2 DEF kSubset
<1>4. before \in SUBSET rows
  BY <1>3
<1>5. IsFiniteSet(before) /\ IsFiniteSet(page)
  BY <1>1, <1>4, FS_Subset
<1> DEFINE after == rows \ (before \cup page)
<1>6. /\ after \in SUBSET rows
      /\ rows = before \cup page \cup after
      /\ before \cap page = {} /\ before \cap after = {} /\ page \cap after = {}
  BY <1>1, <1>3
<1>7. IsCut(rows, offset, size, before, page, after)
  BY <1>2, <1>3, <1>5, <1>6 DEF IsCut
<1> QED
  BY <1>4, <1>6, <1>7

\* The arithmetic of the pages of one size.
LEMMA OffsetStep ==
    ASSUME NEW i \in Nat \ {0}, NEW s \in Nat \ {0}
    PROVE  /\ (i - 1) * s \in Nat
           /\ IF i = 1 THEN (i - 1) * s = 0 ELSE (i - 1) * s >= s
           /\ (i + 1 - 1) * s = (i - 1) * s + s
  BY SMT

WindowType == [shown : SUBSET (1..MaxPending), offset : Nat, size : Int]

LEMMA NoWindowType == NoWindow \in WindowType
  BY DEF NoWindow, WindowType

LEMMA OwnPageType ==
    ASSUME NEW offset \in Nat, NEW size \in Int
    PROVE  [shown |-> {}, offset |-> offset, size |-> size] \in WindowType
  BY DEF WindowType

LEMMA MergeType ==
    ASSUME NEW p \in 0..MaxPending, NEW offset \in Nat, NEW size \in Nat
    PROVE  Merge(p, offset, size) \in WindowType
<1>1. CASE p <= offset
  <2>1. Merge(p, offset, size) = [shown |-> {}, offset |-> offset - p, size |-> size]
    BY <1>1 DEF Merge
  <2>2. offset - p \in Nat
    BY <1>1, ListingsAssumption
  <2> QED
    BY <2>1, <2>2, OwnPageType
<1>2. CASE ~(p <= offset)
  <2>1. Merge(p, offset, size) = [shown |-> 1..p, offset |-> 0, size |-> size - p]
    BY <1>2 DEF Merge
  <2>2. 1..p \subseteq 1..MaxPending /\ size - p \in Int
    BY ListingsAssumption
  <2> QED
    BY <2>1, <2>2 DEF WindowType
<1> QED
  BY <1>1, <1>2
(***************************************************************************)
(* Type correctness                                                        *)
(***************************************************************************)
\* A request under way is one of Asks, and only get_by_addr_and_type asks for the
\* pending transactions.
Asked ==
    /\ step # "idle" => ask \in Asks
    /\ step = "pending" => ask.handler = "get_by_addr_and_type"
    /\ ask.handler # "get_by_addr_and_type" => pending = 0
    /\ step = "idle" => kept = {}

ListTypeInv == ListTypeOK /\ Asked

LEMMA ListTypeInit == ListInit => ListTypeInv
<1>1. NoAsk.handler = "none"
  BY DEF NoAsk
<1> QED
  BY <1>1, ListingsAssumption, NoWindowType
  DEF ListInit, ListTypeInv, ListTypeOK, Asked, WindowType

LEMMA ListTypeNext ==
    ListTypeInv /\ [ListNext]_<<vars, reader>> => ListTypeInv'
<1> SUFFICES ASSUME ListTypeInv, [ListNext]_<<vars, reader>> PROVE ListTypeInv'
  OBVIOUS
<1> USE ListingsAssumption
<1> USE DEF ListTypeInv, ListTypeOK, Asked
<1>1. CASE AskFirst
  <2>1. ask' \in Asks /\ PageIndex' = 1 /\ PageSize' \in Nat \ {0}
    BY <1>1 DEF AskFirst, ValidPage
  <2>2. Offset' = 0
    <3>1. Offset' = (1 - 1) * PageSize'
      BY <2>1 DEF Offset
    <3>2. \A s \in Nat : (1 - 1) * s = 0
      BY SMT
    <3> QED
      BY <2>1, <3>1, <3>2
  <2>3. kept' \subseteq Blocks \cup TxHashes
    <3>1. (ask \in Asks)'
      BY <2>1
    <3>2. (Listing \subseteq Blocks \cup TxHashes)'
      BY <3>1, ListingType, PTL
    <3> QED
      BY <1>1, <3>2 DEF AskFirst
  <2>4. CASE ask'.handler = "get_by_addr_and_type"
    BY <1>1, <2>1, <2>3, <2>4, NoWindowType DEF AskFirst, Begin, WindowType
  <2>5. CASE ask'.handler # "get_by_addr_and_type"
    BY <1>1, <2>1, <2>2, <2>3, <2>5, OwnPageType DEF AskFirst, Begin, WindowType
  <2> QED
    BY <2>4, <2>5
<1>2. CASE GetPending
  <2>1. /\ pending' \in 0..MaxPending /\ step = "pending"
        /\ Offset \in Nat
        /\ UNCHANGED <<ask, PageIndex, PageSize, rsp, seen>>
        /\ kept' \in {kept, {}}
    BY <1>2, OffsetStep DEF GetPending, Offset
  <2>2. CASE SliceFails(pending', Offset, PageSize)
    BY <1>2, <2>1, <2>2 DEF GetPending, Aborts
  <2>3. CASE ~SliceFails(pending', Offset, PageSize)
    <3>1. step' = "query" /\ window' = Merge(pending', Offset, PageSize)
      BY <1>2, <2>3 DEF GetPending
    <3>2. window' \in WindowType
      BY <2>1, <3>1, MergeType
    <3> QED
      BY <2>1, <3>1, <3>2 DEF WindowType
  <2> QED
    BY <2>2, <2>3
<1>3. CASE Query
  <2>1. /\ step = "query" /\ ask \in Asks
        /\ UNCHANGED <<ask, PageSize, pending, kept>>
        /\ seen' = seen \cup rsp'
        /\ PageIndex' \in {PageIndex, PageIndex + 1}
    BY <1>3 DEF Query
  <2>2. rsp' \subseteq Blocks \cup TxHashes
    BY <1>3, <2>1, ListingType DEF Query, Pages
  <2>3. Offset' \in Nat
    <3>1. PageIndex' \in Nat \ {0} /\ PageSize' \in Nat \ {0}
      BY <2>1
    <3> QED
      BY <3>1, OffsetStep DEF Offset
  <2>4. CASE rsp' = {} /\ window.shown = {}
    BY <1>3, <2>1, <2>2, <2>4 DEF Query
  <2>5. CASE ~(rsp' = {} /\ window.shown = {}) /\ ask.handler = "get_by_addr_and_type"
    BY <1>3, <2>1, <2>2, <2>5, NoWindowType DEF Query, Begin, WindowType
  <2>6. CASE ~(rsp' = {} /\ window.shown = {}) /\ ask.handler # "get_by_addr_and_type"
    BY <1>3, <2>1, <2>2, <2>3, <2>6, OwnPageType DEF Query, Begin, WindowType
  <2> QED
    BY <2>4, <2>5, <2>6
<1>4. CASE Leave
  <2>1. NoAsk.handler = "none"
    BY DEF NoAsk
  <2> QED
    BY <1>4, <2>1, NoWindowType DEF Leave, WindowType
<1>5. CASE Write
  BY <1>5 DEF Write
<1>6. CASE UNCHANGED <<vars, reader>>
  BY <1>6 DEF reader
<1> QED
  BY <1>1, <1>2, <1>3, <1>4, <1>5, <1>6 DEF ListNext

\* Type correctness of the requests, whatever the synchroniser does meanwhile.
THEOREM ListTypeCorrect == ListSpec => []ListTypeOK
<1>1. ListTypeInv => ListTypeOK
  BY DEF ListTypeInv
<1> QED
  BY ListTypeInit, ListTypeNext, <1>1, PTL DEF ListSpec
(***************************************************************************)
(* The pending transactions of get_by_addr_and_type                        *)
(***************************************************************************)
\* The window of a query is the cut of its page's range, for listings without
\* pending transactions too.  A request is aborted only by the negative slice.
Windows ==
    /\ step = "query" => window = Merge(pending, Offset, PageSize)
    /\ step = "aborted" => SliceFails(pending, Offset, PageSize)

WindowInv == ListTypeInv /\ Windows

\* Without pending transactions the page is what the request asks for.
LEMMA MergeNone ==
    ASSUME NEW offset \in Nat, NEW size
    PROVE  Merge(0, offset, size) = [shown |-> {}, offset |-> offset, size |-> size]
<1>1. 0 <= offset /\ offset - 0 = offset
  OBVIOUS
<1> QED
  BY <1>1 DEF Merge

LEMMA OffsetType == ListTypeOK => Offset \in Nat
  BY OffsetStep DEF ListTypeOK, Offset

LEMMA WindowInit == ListInit => WindowInv
  BY ListTypeInit DEF ListInit, WindowInv, Windows

\* A request that starts with its own page, not with the pending transactions.
LEMMA WindowBegins ==
    ASSUME ListTypeInv', NEW handler, handler = ask'.handler, Begin(handler)
    PROVE  Windows'
<1>1. CASE handler = "get_by_addr_and_type"
  BY <1>1 DEF Begin, Windows
<1>2. CASE handler # "get_by_addr_and_type"
  <2>1. pending' = 0
    BY <1>2 DEF ListTypeInv, Asked
  <2>2. (Offset \in Nat)'
    <3>1. ListTypeOK'
      BY DEF ListTypeInv
    <3> QED
      BY <3>1, OffsetType, PTL
  <2>3. window' = Merge(pending', Offset', PageSize') /\ step' = "query"
    BY <1>2, <2>1, <2>2, MergeNone DEF Begin
  <2> QED
    BY <2>3 DEF Windows, Merge
<1> QED
  BY <1>1, <1>2

LEMMA WindowNext == WindowInv /\ [ListNext]_<<vars, reader>> => WindowInv'
<1> SUFFICES ASSUME WindowInv, [ListNext]_<<vars, reader>> PROVE Windows'
  BY ListTypeNext DEF WindowInv
<1>1. ListTypeInv'
  BY ListTypeNext DEF WindowInv
<1>2. CASE AskFirst
  BY <1>1, <1>2, WindowBegins DEF AskFirst
<1>3. CASE GetPending
  <2>1. UNCHANGED <<PageIndex, PageSize>>
    BY <1>3 DEF GetPending
  <2>2. Offset' = Offset
    BY <2>1 DEF Offset
  <2> QED
    BY <1>3, <2>1, <2>2 DEF GetPending, Aborts, Windows, Merge, SliceFails
<1>4. CASE Query
  <2>1. ask' = ask
    BY <1>4 DEF Query
  <2>2. CASE Begin(ask.handler)
    BY <1>1, <2>1, <2>2, WindowBegins
  <2>3. CASE step' = "done"
    BY <2>3 DEF Windows
  <2> QED
    BY <1>4, <2>2, <2>3 DEF Query
<1>5. CASE Leave
  BY <1>5 DEF Leave, Windows
<1>6. CASE UNCHANGED <<PageIndex, PageSize, step, pending, window>>
  BY <1>6 DEF WindowInv, Windows, Offset, Merge, SliceFails
<1> QED
  BY <1>2, <1>3, <1>4, <1>5, <1>6 DEF ListNext, Write, reader

\* If the pending transactions fit on one page, get_by_addr_and_type answers every
\* page with its range of the pending transactions followed by the stored ones, and
\* never panics: for every page size and any number of pages.
THEOREM PendingArePaged == ListSpec => []FittingPendingPaged
<1>1. WindowInv => FittingPendingPaged
  <2> SUFFICES ASSUME WindowInv, pending <= PageSize PROVE PageIsRange
    BY DEF FittingPendingPaged
  <2>1. /\ Offset \in Nat /\ PageSize \in Nat \ {0} /\ pending \in Nat
        /\ Offset = 0 \/ Offset >= PageSize
    <3>1. Offset = 0 \/ Offset >= PageSize
      BY OffsetStep DEF WindowInv, ListTypeInv, ListTypeOK, Offset
    <3> QED
      BY <3>1, OffsetType, ListingsAssumption DEF WindowInv, ListTypeInv, ListTypeOK
  <2>2. step # "aborted"
    BY <2>1 DEF WindowInv, Windows, SliceFails
  <2> DEFINE shown == {i \in 1..pending : Offset < i /\ i <= Offset + PageSize}
             left == PageSize - Cardinality(shown)
  <2>3. ASSUME step = "query"
        PROVE  /\ window.shown = shown
               /\ IF left = 0 THEN window.size <= 0
                  ELSE /\ window.size = left
                       /\ window.offset = Offset + Cardinality(shown) - pending
    <3>1. window = Merge(pending, Offset, PageSize)
      BY <2>3 DEF WindowInv, Windows
    <3>2. CASE pending <= Offset
      <4>1. shown = {} /\ Cardinality(shown) = 0
        BY <2>1, <3>2, FS_EmptySet
      <4>2. window = [shown |-> {}, offset |-> Offset - pending, size |-> PageSize]
        BY <3>1, <3>2 DEF Merge
      <4> QED
        BY <2>1, <4>1, <4>2
    <3>3. CASE pending > Offset
      <4>1. Offset = 0
        BY <2>1, <3>3
      <4>2. shown = 1..pending
        BY <2>1, <4>1
      <4>3. Cardinality(shown) = pending
        <5>1. Cardinality(1..pending) = IF 1 > pending THEN 0 ELSE pending - 1 + 1
          BY <2>1, FS_Interval
        <5>2. Cardinality(1..pending) = pending
          BY <2>1, <5>1
        <5> HIDE DEF shown
        <5> QED
          BY <4>2, <5>2
      <4>4. window = [shown |-> 1..pending, offset |-> 0, size |-> PageSize - pending]
        BY <2>1, <3>1, <3>3 DEF Merge
      <4> QED
        BY <2>1, <4>1, <4>2, <4>3, <4>4
    <3> QED
      BY <2>1, <3>2, <3>3
  <2> QED
    BY <2>2, <2>3 DEF PageIsRange
<1> QED
  BY WindowInit, WindowNext, <1>1, PTL DEF ListSpec
(***************************************************************************)
(* One page of get_blocks and of get_by_height                             *)
(***************************************************************************)
\* An answer is a page of the listing as it is when the query runs, and a page
\* stays as it was answered while the tables change.
LEMMA AnswerIsPage ==
    ASSUME ListTypeInv, [ListNext]_<<vars, reader>>
    PROVE  \/ rsp' = {}
           \/ UNCHANGED <<rsp, ask>>
           \/ /\ UNCHANGED <<vars, ask>>
              /\ ask \in Asks
              /\ \E offset \in Nat, size \in Nat \ {0} :
                    rsp' \in Pages(Listing, offset, size)
<1>1. CASE Query
  <2>1. UNCHANGED <<vars, ask>> /\ ask \in Asks
    BY <1>1 DEF Query, ListTypeInv, Asked
  <2>2. CASE window.size <= 0
    BY <1>1, <2>2 DEF Query
  <2>3. CASE ~(window.size <= 0)
    <3>1. window.offset \in Nat /\ window.size \in Nat \ {0}
      BY <2>3 DEF ListTypeInv, ListTypeOK
    <3>2. rsp' \in Pages(Listing, window.offset, window.size)
      BY <1>1, <2>3 DEF Query
    <3> QED
      BY <2>1, <3>1, <3>2
  <2> QED
    BY <2>2, <2>3
<1>2. CASE AskFirst \/ Leave
  BY <1>2 DEF AskFirst, Leave
<1>3. CASE GetPending \/ Write \/ UNCHANGED <<vars, reader>>
  BY <1>3 DEF GetPending, Write, reader
<1> QED
  BY <1>1, <1>2, <1>3 DEF ListNext

\* A page of the NORMAL blocks takes an interval of their heights: each height has
\* one row, and below a NORMAL row no height is without one.
LEMMA PageIsInterval ==
    ASSUME OneRoot, PrefixInv, RowsInv, NEW offset \in Nat, NEW size \in Nat \ {0},
           NEW page \in Pages(NormalBlocks, offset, size)
    PROVE  /\ \A b, c \in page : Number[b] = Number[c] => b = c
           /\ \A b, c \in page : \A h \in Number[b]..Number[c] :
                 \E d \in page : Number[d] = h
<1>1. \A b \in NormalBlocks : b \in Blocks /\ Number[b] \in Nat /\ SortKey(b) = Number[b]
  BY BlocksAssumption DEF NormalBlocks, SortKey
<1>2. IsFiniteSet(NormalBlocks)
  BY DEF RowsInv
<1> PICK before, after \in SUBSET NormalBlocks :
        IsCut(NormalBlocks, offset, size, before, page, after)
  BY <1>2, PageParts
<1>3. /\ NormalBlocks = before \cup page \cup after
      /\ before \cap page = {} /\ page \cap after = {}
      /\ \A b \in before, p \in page \cup after : SortKey(b) >= SortKey(p)
      /\ \A p \in page, a \in after : SortKey(p) >= SortKey(a)
  BY DEF IsCut
<1>4. ASSUME NEW b \in page, NEW c \in page, Number[b] = Number[c] PROVE b = c
  BY <1>3, <1>4, OneRowPerHeight
<1>5. ASSUME NEW b \in page, NEW c \in page, NEW h \in Number[b]..Number[c]
      PROVE  \E d \in page : Number[d] = h
  <2>1. /\ b \in NormalBlocks /\ c \in NormalBlocks
        /\ Number[b] \in Nat /\ Number[c] \in Nat
        /\ h \in Nat /\ Number[b] <= h /\ h <= Number[c]
    BY <1>1, <1>3
  <2>2. PICK d \in NormalBlocks : Number[d] = h
    <3>1. CASE h = Number[c]
      BY <2>1, <3>1
    <3>2. CASE h # Number[c]
      <4>1. h \in 0..(Number[c] - 1)
        BY <2>1, <3>2
      <4>2. Complete(h)
        BY <2>1, <4>1 DEF PrefixInv, PrefixComplete
      <4> QED
        BY <4>2 DEF Complete
    <3> QED
      BY <3>1, <3>2
  <2>3. CASE d \in before
    <3>1. Number[d] >= Number[c]
      BY <1>1, <1>3, <2>1, <2>2, <2>3
    <3>2. Number[d] = Number[c]
      BY <2>1, <2>2, <3>1
    <3>3. d = c
      BY <2>1, <2>2, <3>2, OneRowPerHeight
    <3> QED
      BY <1>3, <2>3, <3>3
  <2>4. CASE d \in after
    <3>1. Number[b] >= Number[d]
      BY <1>1, <1>3, <2>1, <2>2, <2>4
    <3>2. Number[d] = Number[b]
      BY <2>1, <2>2, <3>1
    <3>3. d = b
      BY <2>1, <2>2, <3>2, OneRowPerHeight
    <3> QED
      BY <1>3, <2>4, <3>3
  <2> QED
    BY <1>3, <2>2, <2>3, <2>4
<1> QED
  BY <1>4, <1>5

ContiguousInv == MirrorInv /\ RowsInv /\ ListTypeInv /\ PagesContiguous

\* A page of get_blocks shows consecutive heights, each once, at every moment of a
\* crash, a restart or a reorganisation.
THEOREM PagesAreContiguous ==
    ASSUME CommitsHold, ~Rollback, OneRoot, TxHeightFixed
    PROVE  ListSpec => []PagesContiguous
<1>1. ListInit => ContiguousInv
  BY MirrorInvInit, RowsInit, ListTypeInit
  DEF ListInit, ContiguousInv, PagesContiguous
<1>2. ContiguousInv /\ [ListNext]_<<vars, reader>> => ContiguousInv'
  <2> SUFFICES ASSUME ContiguousInv, [ListNext]_<<vars, reader>>
               PROVE  PagesContiguous'
    BY ListStep, MirrorInvNext, RowsNext, ListTypeNext DEF ContiguousInv
  <2>1. CASE rsp' = {}
    BY <2>1 DEF PagesContiguous
  <2>2. CASE UNCHANGED <<rsp, ask>>
    BY <2>2 DEF ContiguousInv, PagesContiguous
  <2>3. CASE \E offset \in Nat, size \in Nat \ {0} :
                rsp' \in Pages(Listing, offset, size)
    <3> SUFFICES ASSUME UNCHANGED ask, ask.handler = "get_blocks"
                 PROVE  PagesContiguous'
      BY <2>1, <2>2, AnswerIsPage DEF ContiguousInv, PagesContiguous
    <3>1. Listing = NormalBlocks
      BY DEF Listing, Get_Blocks
    <3>2. PICK offset \in Nat, size \in Nat \ {0} :
              rsp' \in Pages(NormalBlocks, offset, size)
      BY <2>3, <3>1
    <3> QED
      BY <3>2, PageIsInterval DEF ContiguousInv, MirrorInv, PagesContiguous
  <2> QED
    BY <2>1, <2>2, <2>3, AnswerIsPage DEF ContiguousInv
<1>3. ContiguousInv => PagesContiguous
  BY DEF ContiguousInv
<1> QED
  BY <1>1, <1>2, <1>3, PTL DEF ListSpec

HeightInv == OneBlockInv /\ ListTypeInv /\ PagesOfOneBlock

\* As long as nothing has failed, a page of get_by_height shows transactions of one
\* block, also in the middle of DropBlok and of WriteTransactions, and whatever the
\* node does.
THEOREM PagesAreOfOneBlock ==
    ASSUME OneRoot, TxHeightFixed
    PROVE  ListSpec => []PagesOfOneBlock
<1>1. ListInit => HeightInv
  BY OneBlockInit, ListTypeInit DEF ListInit, HeightInv, PagesOfOneBlock
<1>2. HeightInv /\ [ListNext]_<<vars, reader>> => HeightInv'
  <2> SUFFICES ASSUME HeightInv, [ListNext]_<<vars, reader>>
               PROVE  PagesOfOneBlock'
    BY ListStep, OneBlockNext, ListTypeNext DEF HeightInv
  <2>1. CASE rsp' = {}
    BY <2>1 DEF PagesOfOneBlock
  <2>2. CASE UNCHANGED <<rsp, ask>>
    <3>1. faults' = 0 => faults = 0
      <4>1. faults \in Nat
        BY FaultsAssumption DEF HeightInv, OneBlockInv, GhostInv, TypeInv, TypeOK
      <4> QED
        BY <4>1, ListStep
        DEF Next, SyncStep, Failure, vars, ChainAdvance, ChainRollback, Boot, Poll,
            PollIdle, DropSkips, DropBlock, DropFind, DropTransaction, DropDone,
            FetchBlock, FetchParent, FetchReceipt, FetchMisses, CheckParent,
            CheckParentFails, WriteBlock, WriteTransaction, CalcPanics,
            DuplicateTransaction, SyncOneBlockDone, RpcFails, FindPanics,
            WriteFails, ResetSkipped, CommitLost, Crash, Fault
    <3> QED
      BY <2>2, <3>1 DEF HeightInv, PagesOfOneBlock
  <2>3. CASE /\ UNCHANGED <<vars, ask>>
             /\ \E offset \in Nat, size \in Nat \ {0} :
                   rsp' \in Pages(Listing, offset, size)
    <3> SUFFICES ASSUME ask.handler = "get_by_height", faults = 0, rsp' # {}
                 PROVE  \E b \in Blocks : Number[b] = ask.height
                                          /\ rsp' \subseteq Transactions[b]
      BY <2>3 DEF PagesOfOneBlock, vars
    <3>1. Listing = FindTrasactionByHeight(ask.height)
      BY DEF Listing, Get_by_height, FindTrasactionByHeight, NormalTransactions
    <3>2. rsp' \subseteq FindTrasactionByHeight(ask.height)
      BY <2>3, <3>1 DEF Pages
    <3>3. OfOneBlock(ask.height)
      BY <3>2, HeightIsOneBlock DEF HeightInv
    <3> QED
      BY <3>2, <3>3 DEF OfOneBlock
  <2> QED
    BY <2>1, <2>2, <2>3, AnswerIsPage DEF HeightInv
<1>3. HeightInv => PagesOfOneBlock
  BY DEF HeightInv
<1> QED
  BY <1>1, <1>2, <1>3, PTL DEF ListSpec
(***************************************************************************)
(* What a client that reads all pages has seen.  A row with a key of its   *)
(* own has one place in the listing, the number of rows with a higher key: *)
(* the client has seen it, or its place is on a page to come.              *)
(***************************************************************************)
\* No other row of the listing has the key of row.
Alone(row) == \A other \in Listing \ {row} : SortKey(other) # SortKey(row)

\* The ones that come before row.
Above(row, rows) == {r \in rows : SortKey(r) > SortKey(row)}

\* The place of row in the listing, from 0.
Rank(row) == Cardinality(Above(row, Listing))

\* The stored rows that the pages before PageIndex have covered.
Covered == Merge(pending, Offset, PageSize).offset

\* Nothing that is kept has left the listing, and the pending transactions of
\* the pages so far have fitted on one.
Kept ==
    /\ kept \subseteq Listing
    /\ kept # {} => pending <= PageSize

SeenOrAhead ==
    /\ step \in {"pending", "query"}
       => \A row \in kept : Alone(row) => row \in seen \/ Rank(row) >= Covered
    /\ step = "done" => \A row \in kept : Alone(row) => row \in seen

FiniteTables == IsFiniteSet(NormalBlocks) /\ IsFiniteSet(NormalTransactions)

MissInv ==
    /\ TypeInv
    /\ FiniteTables
    /\ WindowInv
    /\ step # "idle" => Kept
    /\ SeenOrAhead

\* A page that starts at or before the place of row holds it, or ends before it.
LEMMA PageHoldsRow ==
    ASSUME NEW rows, IsFiniteSet(rows), \A r \in rows : SortKey(r) \in Int,
           NEW offset \in Nat, NEW size \in Nat \ {0},
           NEW page \in Pages(rows, offset, size),
           NEW row \in rows,
           \A other \in rows \ {row} : SortKey(other) # SortKey(row),
           Cardinality(Above(row, rows)) >= offset,
           row \notin page
    PROVE  Cardinality(Above(row, rows)) >= offset + size
<1> DEFINE above == Above(row, rows)
<1>1. above \in SUBSET rows
  BY DEF Above
<1>2. IsFiniteSet(above) /\ Cardinality(above) \in Nat /\ Cardinality(rows) \in Nat
  BY <1>1, FS_Subset, FS_CardinalityType
<1> PICK before, after \in SUBSET rows : IsCut(rows, offset, size, before, page, after)
  BY PageParts
<1>3. /\ rows = before \cup page \cup after
      /\ before \cap page = {} /\ before \cap after = {} /\ page \cap after = {}
      /\ IsFiniteSet(before) /\ IsFiniteSet(page)
      /\ Cardinality(before) = IF offset < Cardinality(rows) THEN offset
                               ELSE Cardinality(rows)
      /\ Cardinality(page) = size \/ (Cardinality(page) < size /\ after = {})
      /\ \A b \in before, p \in page \cup after : SortKey(b) >= SortKey(p)
      /\ \A p \in page, a \in after : SortKey(p) >= SortKey(a)
  BY DEF IsCut
<1>4. row \notin before
  <2> SUFFICES ASSUME row \in before PROVE FALSE
    OBVIOUS
  <2>1. above \subseteq before \ {row}
    BY <1>3 DEF Above
  <2>2. /\ IsFiniteSet(before \ {row})
        /\ Cardinality(before \ {row}) = Cardinality(before) - 1
    BY <1>3, FS_RemoveElement
  <2>3. Cardinality(above) <= Cardinality(before) - 1
    <3>1. Cardinality(above) <= Cardinality(before \ {row})
      BY <2>1, <2>2, FS_Subset
    <3> QED
      BY <2>2, <3>1
  <2>4. Cardinality(before) <= offset
    BY <1>2, <1>3
  <2> HIDE DEF above
  <2>5. Cardinality(above) >= offset
    BY DEF above
  <2>6. Cardinality(before) \in Nat
    BY <1>3, FS_CardinalityType
  <2> QED
    BY <1>2, <2>3, <2>4, <2>5, <2>6
<1>5. row \in after /\ Cardinality(page) = size
  BY <1>3, <1>4
<1>6. Cardinality(before) = offset
  <2>1. Cardinality(before) # Cardinality(rows)
    BY <1>4, FS_Subset
  <2> QED
    BY <1>3, <2>1
<1>7. before \cup page \subseteq above
  BY <1>3, <1>4, <1>5 DEF Above
<1>8. /\ IsFiniteSet(before \cup page)
      /\ Cardinality(before \cup page) = offset + size
  <2>1. Cardinality(before \cap page) = 0
    BY <1>3, FS_EmptySet
  <2>2. /\ IsFiniteSet(before \cup page)
        /\ Cardinality(before \cup page) =
               Cardinality(before) + Cardinality(page) - Cardinality(before \cap page)
    BY <1>3, FS_Union
  <2> QED
    BY <1>5, <1>6, <2>1, <2>2
<1>9. Cardinality(before \cup page) <= Cardinality(above)
  BY <1>2, <1>7, FS_Subset
<1> HIDE DEF above
<1>10. Cardinality(above) >= offset + size
  BY <1>2, <1>8, <1>9
<1> QED
  BY <1>10 DEF above

\* A page is empty only behind the last row.
LEMMA EmptyPageIsLast ==
    ASSUME NEW rows, IsFiniteSet(rows), NEW offset \in Nat, NEW size \in Nat \ {0},
           {} \in Pages(rows, offset, size)
    PROVE  Cardinality(rows) <= offset
<1>1. PICK before, after \in SUBSET rows : IsCut(rows, offset, size, before, {}, after)
  BY PageParts
<1>2. after = {} /\ rows = before
  BY <1>1, FS_EmptySet DEF IsCut
<1>3. Cardinality(rows) = IF offset < Cardinality(rows) THEN offset
                          ELSE Cardinality(rows)
  BY <1>1, <1>2 DEF IsCut
<1>4. Cardinality(rows) \in Nat
  BY FS_CardinalityType
<1> QED
  BY <1>3, <1>4

\* From one page to the next the covered part grows by what the query asked for.
LEMMA CoveredStep ==
    ASSUME NEW p \in Nat, NEW offset \in Nat, NEW size \in Nat \ {0}, p <= size,
           offset = 0 \/ offset >= size
    PROVE  LET w == Merge(p, offset, size)
               next == Merge(p, offset + size, size).offset
           IN  IF w.size <= 0 THEN w.shown # {} /\ next = 0
               ELSE next = w.offset + w.size
<1>1. Merge(p, offset + size, size).offset = offset + size - p
  BY DEF Merge
<1>2. CASE p <= offset
  <2>1. Merge(p, offset, size) = [shown |-> {}, offset |-> offset - p, size |-> size]
    BY <1>2 DEF Merge
  <2> QED
    BY <1>1, <2>1
<1>3. CASE p > offset
  <2>1. Merge(p, offset, size) = [shown |-> 1..p, offset |-> 0, size |-> size - p]
    BY <1>3 DEF Merge
  <2>2. offset = 0
    BY <1>3
  <2>3. 1 \in 1..p
    BY <1>3
  <2> QED
    BY <1>1, <2>1, <2>2, <2>3
<1> QED
  BY <1>2, <1>3

\* A step of the synchroniser makes at most one more row NORMAL.
LEMMA FiniteNext ==
    ASSUME TypeInv, FiniteTables, [Next]_vars
    PROVE  FiniteTables'
<1>1. TypeOK
  BY DEF TypeInv
<1>2. \E x : NormalBlocks' \subseteq NormalBlocks \cup {x}
  <2>1. CASE WriteBlock
    BY <1>1, <2>1 DEF WriteBlock, TypeOK, NormalBlocks
  <2>2. CASE DropBlock
    BY <1>1, <2>2 DEF DropBlock, TypeOK, NormalBlocks
  <2>3. CASE UNCHANGED t_block
    BY <2>3 DEF NormalBlocks
  <2> QED
    BY <2>1, <2>2, <2>3
    DEF Next, SyncStep, Failure, db, vars, ChainAdvance, ChainRollback, Boot, Poll,
        PollIdle, DropSkips, DropFind, DropTransaction, DropDone, FetchBlock,
        FetchParent, FetchReceipt, FetchMisses, CheckParent, CheckParentFails,
        WriteTransaction, CalcPanics, DuplicateTransaction, SyncOneBlockDone,
        RpcFails, FindPanics, WriteFails, ResetSkipped, CommitLost, Crash, Dies
<1>3. \E x : NormalTransactions' \subseteq NormalTransactions \cup {x}
  <2>1. CASE WriteTransaction
    BY <1>1, <2>1 DEF WriteTransaction, TypeOK, NormalTransactions
  <2>2. CASE DropTransaction
    BY <1>1, <2>2 DEF DropTransaction, TypeOK, TransactionRow, NormalTransactions
  <2>3. CASE UNCHANGED t_transaction
    BY <2>3 DEF NormalTransactions
  <2> QED
    BY <2>1, <2>2, <2>3
    DEF Next, SyncStep, Failure, db, vars, ChainAdvance, ChainRollback, Boot, Poll,
        PollIdle, DropSkips, DropBlock, DropFind, DropDone, FetchBlock,
        FetchParent, FetchReceipt, FetchMisses, CheckParent, CheckParentFails,
        WriteBlock, CalcPanics, DuplicateTransaction, SyncOneBlockDone,
        RpcFails, FindPanics, WriteFails, ResetSkipped, CommitLost, Crash, Dies
<1>4. ASSUME NEW S, NEW T, NEW x, IsFiniteSet(S), T \subseteq S \cup {x}
      PROVE  IsFiniteSet(T)
  <2>1. IsFiniteSet(S \cup {x})
    BY <1>4, FS_AddElement
  <2> QED
    BY <1>4, <2>1, FS_Subset
<1> QED
  BY <1>2, <1>3, <1>4 DEF FiniteTables

LEMMA ListingFinite == ask \in Asks /\ FiniteTables => IsFiniteSet(Listing)
  BY ListingOfTables, FS_Subset DEF FiniteTables

\* A row keeps its key as long as it is in the listing: a NORMAL transaction keeps
\* its F_block.
LEMMA KeysStay ==
    ASSUME TypeInv, [Next]_vars, ask \in Asks, NEW row \in Listing
    PROVE  SortKey(row)' = SortKey(row)
<1>1. TypeOK
  BY DEF TypeInv
<1>2. ASSUME NEW t \in NormalTransactions
      PROVE  t_transaction'[t].F_block = t_transaction[t].F_block
  <2>1. CASE WriteTransaction
    BY <1>1, <2>1 DEF WriteTransaction, TypeOK, NormalTransactions
  <2>2. CASE DropTransaction
    BY <1>1, <2>2 DEF DropTransaction, TypeOK, TransactionRow, NormalTransactions
  <2>3. CASE UNCHANGED t_transaction
    BY <2>3
  <2> QED
    BY <2>1, <2>2, <2>3
    DEF Next, SyncStep, Failure, db, vars, ChainAdvance, ChainRollback, Boot, Poll,
        PollIdle, DropSkips, DropBlock, DropFind, DropDone, FetchBlock,
        FetchParent, FetchReceipt, FetchMisses, CheckParent, CheckParentFails,
        WriteBlock, CalcPanics, DuplicateTransaction, SyncOneBlockDone,
        RpcFails, FindPanics, WriteFails, ResetSkipped, CommitLost, Crash, Dies
<1>3. row \in Blocks \/ row \in NormalTransactions
  BY ListingOfTables DEF NormalBlocks
<1> QED
  BY <1>2, <1>3 DEF SortKey

\* Rows that are added to a listing move others to later places only.
LEMMA RanksGrow ==
    ASSUME TypeInv, [Next]_vars, FiniteTables', ask \in Asks, ask' = ask,
           Listing \subseteq Listing', NEW row \in Listing, Alone(row)'
    PROVE  Alone(row) /\ Rank(row)' >= Rank(row)
<1>1. \A r \in Listing : SortKey(r)' = SortKey(r)
  BY KeysStay
<1>2. Alone(row)
  BY <1>1 DEF Alone
<1>3. Above(row, Listing) \subseteq Above(row, Listing)'
  BY <1>1 DEF Above
<1>4. IsFiniteSet(Listing')
  <2>1. (ask \in Asks)'
    OBVIOUS
  <2>2. IsFiniteSet(Listing)'
    BY <2>1, ListingFinite, PTL
  <2> QED
    BY <2>2
<1>5. IsFiniteSet(Above(row, Listing)')
  <2>1. Above(row, Listing)' \in SUBSET Listing'
    BY DEF Above
  <2> QED
    BY <1>4, <2>1, FS_Subset
<1>6. Cardinality(Above(row, Listing)) <= Cardinality(Above(row, Listing)')
  BY <1>3, <1>5, FS_Subset
<1>7. /\ Cardinality(Above(row, Listing)) \in Nat
      /\ Cardinality(Above(row, Listing)') \in Nat
  BY <1>3, <1>5, FS_Subset, FS_CardinalityType
<1>8. Rank(row)' = Cardinality(Above(row, Listing)')
  BY DEF Rank
<1> QED
  BY <1>2, <1>6, <1>7, <1>8 DEF Rank

\* A step of the client leaves the listing it reads as it is.
LEMMA SameListing ==
    ASSUME UNCHANGED <<vars, ask>>
    PROVE  /\ Listing' = Listing
           /\ \A row : Alone(row)' <=> Alone(row)
           /\ \A row : Rank(row)' = Rank(row)
<1>1. NormalBlocks' = NormalBlocks /\ NormalTransactions' = NormalTransactions
  BY DEF vars, NormalBlocks, NormalTransactions
<1>2. Listing' = Listing
  BY <1>1
  DEF vars, Listing, Get_Blocks, Get_mined_block_by_addr, Get_transactions,
      Get_by_addr, Get_by_height, Get_by_addr_and_type
<1>3. \A row : SortKey(row)' = SortKey(row)
  BY DEF vars, SortKey
<1>4. ASSUME NEW row PROVE Above(row, Listing)' = Above(row, Listing)
  BY <1>2, <1>3 DEF Above
<1> QED
  BY <1>2, <1>3, <1>4 DEF Alone, Rank

LEMMA MissInit == ListInit => MissInv
<1> SUFFICES ASSUME ListInit PROVE MissInv
  OBVIOUS
<1>1. TypeInv /\ WindowInv
  BY TypeInit, WindowInit DEF ListInit
<1>2. NormalBlocks = {} /\ NormalTransactions = {}
  BY DEF ListInit, Init, NormalBlocks, NormalTransactions, NoTransaction
<1> QED
  BY <1>1, <1>2, FS_EmptySet DEF ListInit, MissInv, FiniteTables, SeenOrAhead

\* The client has asked for its first page: nothing is covered.
LEMMA MissAsk ==
    ASSUME MissInv, AskFirst, ListTypeInv', FiniteTables'
    PROVE  Kept' /\ SeenOrAhead'
<1>1. /\ kept' = Listing' /\ pending' = 0
      /\ (ask \in Asks)' /\ PageIndex' = 1 /\ PageSize' \in Nat \ {0}
      /\ step' \in {"pending", "query"}
  BY DEF AskFirst, Begin, ListTypeInv, ListTypeOK
<1>2. Covered' = 0
  <2>1. Offset' = (1 - 1) * PageSize'
    BY <1>1 DEF Offset
  <2>2. \A s \in Nat : (1 - 1) * s = 0
    BY SMT
  <2>3. Offset' = 0
    BY <1>1, <2>1, <2>2
  <2>4. Covered' = Merge(0, 0, PageSize').offset
    BY <1>1, <2>3 DEF Covered, Merge
  <2> QED
    BY <2>4, MergeNone
<1>3. ASSUME NEW row PROVE Rank(row)' >= 0
  <2>1. (IsFiniteSet(Listing))'
    BY <1>1, ListingFinite, PTL
  <2>2. Above(row, Listing)' \in SUBSET Listing'
    BY DEF Above
  <2>3. Cardinality(Above(row, Listing)') \in Nat
    BY <2>1, <2>2, FS_Subset, FS_CardinalityType
  <2> QED
    BY <2>3 DEF Rank
<1> QED
  BY <1>1, <1>2, <1>3 DEF Kept, SeenOrAhead

\* The node has answered with its pending transactions: as long as there are no
\* fewer than on the page before, the page starts no later.
LEMMA MissPending ==
    ASSUME MissInv, GetPending
    PROVE  Kept' /\ SeenOrAhead'
<1>1. /\ step = "pending" /\ step' \in {"query", "aborted"}
      /\ UNCHANGED <<vars, ask, PageIndex, PageSize, seen>>
      /\ pending' \in 0..MaxPending
      /\ kept' = IF pending' \in pending..PageSize THEN kept ELSE {}
  BY DEF GetPending, Aborts
<1>2. /\ Listing' = Listing
      /\ \A row : Alone(row)' <=> Alone(row)
      /\ \A row : Rank(row)' = Rank(row)
  BY <1>1, SameListing
<1>3. CASE kept' = {}
  BY <1>3 DEF Kept, SeenOrAhead
<1>4. CASE kept' # {}
  <2>1. /\ kept' = kept /\ pending <= pending' /\ pending' <= PageSize
        /\ pending \in Nat /\ pending' \in Nat
        /\ Offset \in Nat /\ Offset' = Offset /\ PageSize \in Nat
    BY <1>1, <1>4, OffsetType, ListingsAssumption
    DEF MissInv, WindowInv, ListTypeInv, ListTypeOK, Offset
  <2>2. Covered' <= Covered /\ Covered' \in Nat /\ Covered \in Nat
    <3>1. Covered = IF pending <= Offset THEN Offset - pending ELSE 0
      BY DEF Covered, Merge
    <3>2. Covered' = IF pending' <= Offset THEN Offset - pending' ELSE 0
      BY <2>1 DEF Covered, Merge
    <3>3. \A p, q, o \in Nat :
              p <= q => /\ (IF q <= o THEN o - q ELSE 0) <= (IF p <= o THEN o - p ELSE 0)
                        /\ (IF q <= o THEN o - q ELSE 0) \in Nat
                        /\ (IF p <= o THEN o - p ELSE 0) \in Nat
      OBVIOUS
    <3> QED
      BY <2>1, <3>1, <3>2, <3>3
  <2>3. Kept'
    BY <1>1, <1>2, <2>1 DEF MissInv, Kept
  <2>4. ASSUME NEW row \in kept, Alone(row)
        PROVE  row \in seen \/ Rank(row) >= Covered'
    <3>1. row \in seen \/ Rank(row) >= Covered
      BY <1>1, <2>4 DEF MissInv, SeenOrAhead
    <3>2. Rank(row) \in Nat
      <4>1. IsFiniteSet(Listing)
        BY <1>1, ListingFinite DEF MissInv, WindowInv, ListTypeInv, Asked
      <4>2. Above(row, Listing) \in SUBSET Listing
        BY DEF Above
      <4> QED
        BY <4>1, <4>2, FS_Subset, FS_CardinalityType DEF Rank
    <3> QED
      BY <2>2, <3>1, <3>2
  <2>5. SeenOrAhead'
    BY <1>1, <1>2, <2>1, <2>4 DEF SeenOrAhead
  <2> QED
    BY <2>3, <2>5
<1> QED
  BY <1>3, <1>4

\* A page is answered: it holds the row, or the row comes after it.
LEMMA MissQuery ==
    ASSUME MissInv, Query
    PROVE  Kept' /\ SeenOrAhead'
<1>1. /\ step = "query" /\ ask \in Asks
      /\ UNCHANGED <<vars, ask, PageSize, pending, kept>>
      /\ seen' = seen \cup rsp'
      /\ IF rsp' = {} /\ window.shown = {}
         THEN step' = "done"
         ELSE PageIndex' = PageIndex + 1 /\ step' \in {"pending", "query"}
  BY DEF Query, Begin, MissInv, WindowInv, ListTypeInv, Asked
<1>2. /\ Listing' = Listing
      /\ \A row : Alone(row)' <=> Alone(row)
      /\ \A row : Rank(row)' = Rank(row)
  BY <1>1, SameListing
<1>3. Kept'
  BY <1>1, <1>2 DEF MissInv, Kept
<1>4. /\ Offset \in Nat /\ PageSize \in Nat \ {0} /\ pending \in Nat
      /\ PageIndex \in Nat \ {0}
      /\ Offset = 0 \/ Offset >= PageSize
  <2>1. Offset = 0 \/ Offset >= PageSize
    BY OffsetStep DEF MissInv, WindowInv, ListTypeInv, ListTypeOK, Offset
  <2> QED
    BY <2>1, OffsetType, ListingsAssumption
    DEF MissInv, WindowInv, ListTypeInv, ListTypeOK
<1>5. window = Merge(pending, Offset, PageSize) /\ window \in WindowType
  BY <1>1 DEF MissInv, WindowInv, Windows, ListTypeInv, ListTypeOK, WindowType
<1>6. window.offset = Covered /\ window.offset \in Nat /\ window.size \in Int
  BY <1>5 DEF Covered, WindowType
<1>7. IsFiniteSet(Listing) /\ \A r \in Listing : SortKey(r) \in Int
  BY <1>1, ListingFinite, ListingType, SortKeyType DEF MissInv, TypeInv
<1> SUFFICES ASSUME NEW row \in kept, Alone(row), row \notin seen'
             PROVE  step' # "done" /\ Rank(row) >= Covered'
  BY <1>1, <1>2, <1>3 DEF SeenOrAhead
<1>8. /\ row \in Listing /\ pending <= PageSize
      /\ Rank(row) >= window.offset
      /\ row \notin rsp'
  BY <1>1, <1>6 DEF MissInv, Kept, SeenOrAhead
<1>9. Rank(row) \in Nat /\ Rank(row) <= Cardinality(Listing)
      /\ Cardinality(Listing) \in Nat
  <2>1. Above(row, Listing) \in SUBSET Listing
    BY DEF Above
  <2> QED
    BY <1>7, <2>1, FS_Subset, FS_CardinalityType DEF Rank
<1> DEFINE next == Merge(pending, Offset + PageSize, PageSize).offset
<1>10. IF window.size <= 0 THEN window.shown # {} /\ next = 0
       ELSE next = window.offset + window.size
  BY <1>4, <1>5, <1>8, CoveredStep
<1>11. PageIndex' = PageIndex + 1 => Covered' = next
  <2> SUFFICES ASSUME PageIndex' = PageIndex + 1 PROVE Covered' = next
    OBVIOUS
  <2>1. (PageIndex + 1 - 1) * PageSize = (PageIndex - 1) * PageSize + PageSize
    BY <1>4, OffsetStep
  <2>2. Offset' = Offset + PageSize
    <3>1. PageIndex' - 1 = PageIndex + 1 - 1 /\ PageSize' = PageSize
      BY <1>1, <1>4
    <3>2. Offset' = (PageIndex + 1 - 1) * PageSize
      BY <3>1, Zenon DEF Offset
    <3> QED
      BY <2>1, <3>2 DEF Offset
  <2> QED
    BY <1>1, <2>2 DEF Covered, Merge
<1>12. CASE window.size <= 0
  BY <1>1, <1>9, <1>10, <1>11, <1>12
<1>13. CASE ~(window.size <= 0)
  <2>1. rsp' \in Pages(Listing, window.offset, window.size)
    BY <1>13 DEF Query
  <2>2. window.size \in Nat \ {0}
    BY <1>6, <1>13
  <2>3. Rank(row) >= window.offset + window.size
    BY <1>6, <1>7, <1>8, <2>1, <2>2, PageHoldsRow DEF Alone, Rank
  <2>4. rsp' # {}
    <3> SUFFICES ASSUME rsp' = {} PROVE FALSE
      OBVIOUS
    <3>1. {} \in Pages(Listing, window.offset, window.size)
      BY <2>1
    <3>2. Cardinality(Listing) <= window.offset
      BY <1>6, <1>7, <2>2, <3>1, EmptyPageIsLast
    <3> QED
      BY <1>6, <1>9, <2>2, <2>3, <3>2
  <2> QED
    BY <1>1, <1>10, <1>11, <1>13, <2>3, <2>4
<1> QED
  BY <1>12, <1>13

\* The synchroniser has added rows to the listing, or something has left it.
LEMMA MissWrite ==
    ASSUME MissInv, Write, step # "idle", FiniteTables'
    PROVE  Kept' /\ SeenOrAhead'
<1>1. /\ UNCHANGED <<ask, PageIndex, PageSize, step, pending, seen>>
      /\ kept' = IF ~(Listing \subseteq Listing') THEN {} ELSE kept
      /\ ask \in Asks /\ [Next]_vars /\ TypeInv
  BY DEF Write, MissInv, WindowInv, ListTypeInv, Asked
<1>2. CASE ~(Listing \subseteq Listing')
  BY <1>1, <1>2 DEF Kept, SeenOrAhead
<1>3. CASE Listing \subseteq Listing'
  <2>1. kept' = kept /\ kept \subseteq Listing
    BY <1>1, <1>3 DEF MissInv, Kept
  <2>2. Kept'
    BY <1>1, <1>3, <2>1 DEF MissInv, Kept
  <2>3. Covered' = Covered
    BY <1>1 DEF Covered, Offset, Merge
  <2>4. ASSUME NEW row \in kept, Alone(row)'
        PROVE  /\ Alone(row)
               /\ Rank(row) >= Covered => Rank(row)' >= Covered'
    <3>1. Alone(row) /\ Rank(row)' >= Rank(row)
      BY <1>1, <1>3, <2>1, <2>4, RanksGrow
    <3>2. Rank(row) \in Nat /\ Rank(row)' \in Nat
      <4>1. IsFiniteSet(Listing)
        BY <1>1, ListingFinite DEF MissInv
      <4>2. (ask \in Asks)'
        BY <1>1
      <4>3. (IsFiniteSet(Listing))'
        BY <4>2, ListingFinite, PTL
      <4>4. /\ Above(row, Listing) \in SUBSET Listing
            /\ Above(row, Listing)' \in SUBSET Listing'
        BY DEF Above
      <4>5. Rank(row) \in Nat
        BY <4>1, <4>4, FS_Subset, FS_CardinalityType DEF Rank
      <4>6. Cardinality(Above(row, Listing)') \in Nat
        BY <4>3, <4>4, FS_Subset, FS_CardinalityType
      <4> QED
        BY <4>5, <4>6 DEF Rank
    <3>3. Covered \in Nat
      <4>1. Offset \in Nat /\ PageSize \in Nat /\ pending \in Nat
        BY OffsetType, ListingsAssumption
        DEF MissInv, WindowInv, ListTypeInv, ListTypeOK
      <4> QED
        BY <4>1 DEF Covered, Merge
    <3> QED
      BY <2>3, <3>1, <3>2, <3>3
  <2>5. SeenOrAhead'
    BY <1>1, <2>1, <2>4 DEF MissInv, SeenOrAhead
  <2> QED
    BY <2>2, <2>5
<1> QED
  BY <1>2, <1>3

LEMMA MissNext == MissInv /\ [ListNext]_<<vars, reader>> => MissInv'
<1> SUFFICES ASSUME MissInv, [ListNext]_<<vars, reader>> PROVE MissInv'
  OBVIOUS
<1>1. TypeInv' /\ WindowInv' /\ FiniteTables'
  BY ListStep, TypeNext, WindowNext, FiniteNext DEF MissInv
<1>2. ListTypeInv'
  BY <1>1 DEF WindowInv
<1>3. CASE Kept' /\ SeenOrAhead'
  BY <1>1, <1>3 DEF MissInv
<1>4. CASE step' = "idle"
  BY <1>1, <1>4 DEF MissInv, SeenOrAhead
<1>5. CASE AskFirst
  BY <1>1, <1>2, <1>3, <1>5, MissAsk
<1>6. CASE GetPending \/ Query
  BY <1>3, <1>6, MissPending, MissQuery
<1>7. CASE Leave
  BY <1>4, <1>7 DEF Leave
<1>8. CASE Write
  <2>1. step = "idle" => step' = "idle"
    BY <1>8 DEF Write
  <2> QED
    BY <1>1, <1>3, <1>4, <1>8, <2>1, MissWrite
<1>9. CASE UNCHANGED <<vars, reader>>
  <2>1. /\ Listing' = Listing
        /\ \A row : Alone(row)' <=> Alone(row)
        /\ \A row : Rank(row)' = Rank(row)
    BY <1>9, SameListing DEF reader
  <2>2. Covered' = Covered
    BY <1>9 DEF reader, Covered, Offset, Merge
  <2>3. step # "idle" => Kept'
    BY <1>9, <2>1 DEF reader, MissInv, Kept
  <2>4. SeenOrAhead'
    BY <1>9, <2>1, <2>2 DEF reader, MissInv, SeenOrAhead
  <2> QED
    BY <1>1, <1>9, <2>3, <2>4 DEF MissInv, reader
<1> QED
  BY <1>5, <1>6, <1>7, <1>8, <1>9 DEF ListNext

\* A client that reads all pages of a listing misses no row that has a key of its
\* own, as long as nothing leaves the listing and no pending transaction is mined:
\* for every listing, every page size, and any rows SyncOneBlock adds meanwhile.
THEOREM NoRowMissed == ListSpec => []NothingMissed
<1>1. MissInv => NothingMissed
  BY DEF MissInv, SeenOrAhead, Alone, NothingMissed
<1> QED
  BY MissInit, MissNext, <1>1, PTL DEF ListSpec
=============================================================================
