------------------------- MODULE MonitorPagesProofs -------------------------
(***************************************************************************)
(* The views of the web application for any number of rows, reads, writes  *)
(* and moves, any page sizes, drafts and faults.                           *)
(*                                                                         *)
(* The types need bounds that grow with the moves and writes so far: a     *)
(* page number rises by one with a move, a version with a write.  What the *)
(* views show is not inductive by itself either: the answer a read brings  *)
(* was made while the view asked for something else, or while other rows   *)
(* were stored.  The invariants say what a read that may still be believed *)
(* has in hand, and what the backend has done to its rows since.           *)
(***************************************************************************)
EXTENDS MonitorPages, WebClientProofs, FiniteSetTheorems

-----------------------------------------------------------------------------
(* The invariants *)

Reach == MaxRows + moves        \* the highest page number a view has come to
Latest == changes + 1           \* the version the last write has stored

\* An answer names a page within reach and versions that were written.
AnswerInv(answer) ==
    /\ answer.page <= Reach
    /\ \A row \in Ids : answer.items[row] <= Latest

\* What a successful answer of a list says of itself.
PageInv(read) ==
    /\ read.answer.page = read.query.page
    /\ read.answer.size = read.query.size
    /\ read.answer.pages = Pages(read.answer.total, read.answer.size)
    /\ Cardinality(Held(read.answer.items)) <= read.answer.size

\* A collection has taken no more than the pages before the one it asks for.
TakenInv(read) ==
    IF view = "active"
    THEN /\ read.query.size = FixedSize
         /\ read.taken <= (read.query.page - 1) * FixedSize
         /\ (read.query.page - 1) * FixedSize <= MaxRows
    ELSE read.taken = 0

ReadInv(read) ==
    /\ read.phase = "none" => read = NoRead
    /\ read.query.page <= Reach
    /\ AnswerInv(read.answer) /\ read.answer.total <= MaxRows
    /\ \A row \in Ids : read.items[row] <= Latest
    /\ TakenInv(read)
    /\ view \in ListViews /\ read.outcome = "success" => PageInv(read)
    /\ ~read.aborted => read.outcome # "cancelled"

\* Only the list has addresses of its own, only two views have buttons, and
\* only the views with page controls ask for more than their first page.
ControlsInv ==
    /\ target \notin {NULL, Away} => view = "list" /\ target.page <= Reach
    /\ mutation.phase # "none" => view \in {"list", "details"}
    /\ view = "active" => asked = [page |-> 1, size |-> FixedSize]
    /\ asked.page <= Reach /\ source.page <= Reach /\ mutation.page <= Reach
    /\ mutation.last => mutation.page > 1

\* A write by a button is counted as the move that pressed it.
WritesInv ==
    /\ changes + (IF mutation.phase = "sent" THEN 1 ELSE 0) <= MaxChanges + moves
    /\ mutation.phase = "sent" => moves >= 1
    /\ \A row \in Ids : rows[row] <= Latest
    /\ (mutation.phase = "answered" /\ mutation.outcome = "success"
        /\ mutation.kind = "change") => mutation.version <= Latest

ShownInv ==
    /\ AnswerInv(shown.data)
    /\ view # "active" => shown.data.total <= MaxRows

TypeInv ==
    /\ PagesTypeOK /\ ControlsInv /\ WritesInv /\ ShownInv
    /\ \A r \in Reads : ReadInv(reads[r])

\* A read that may be believed asks for what the view asks for, and there is
\* at most one; a view at rest shows it.  Buttons are at work on rows shown.
AskedInv ==
    /\ view # "active" /\ ~due => \A r \in Reads : Waiting(r) => reads[r].query = asked
    /\ \A r, q \in Reads : Waiting(r) /\ Waiting(q) => r = q
    /\ mutation.phase # "none" => shown.type = "ready"
    /\ SettledShowsAsked

\* A row that was active when a collection began, and that the collection does
\* not have, is still to come: its place is on a page that is yet to be read.
CollectionInv(read) ==
    view = "active" /\ read.undisturbed /\ read.phase # "none" =>
        /\ read.begun \subseteq Stored
        /\ read.phase = "counted" => read.total = Cardinality(Stored)
        /\ \A row \in read.begun :
             \/ read.items[row] # 0
             \/ Place(row, Stored) > (read.query.page - 1) * read.query.size
        /\ read.phase = "answered" /\ read.outcome = "success" =>
             \A row \in read.begun :
               \/ read.items[row] # 0 \/ read.answer.items[row] # 0
               \/ /\ Place(row, Stored) > read.query.page * read.query.size
                  /\ read.query.page < read.answer.pages

\* Of the rows in both, those of one are as old as those of the other or older.
NotNewer(items, others) ==
    \A row \in Ids : items[row] # 0 /\ others[row] # 0 => items[row] <= others[row]

\* What is shown is no newer than what is stored, nor than what the read that
\* may be believed will put in its place.
VersionsInv ==
    /\ NotNewer(shown.data.items, rows)
    /\ \A r \in Reads : Waiting(r) =>
         /\ NotNewer(reads[r].items, rows) /\ NotNewer(reads[r].answer.items, rows)
         /\ reads[r].undisturbed =>
              /\ NotNewer(shown.data.items, reads[r].items)
              /\ NotNewer(shown.data.items, reads[r].answer.items)
    /\ (mutation.phase = "answered" /\ mutation.outcome = "success"
        /\ mutation.kind = "change") =>
         (rows[mutation.row] # 0 => mutation.version <= rows[mutation.row])

\* The edit form's flag is up while what is typed differs from what is stored,
\* until the form is saved or the edits are discarded.
FlagInv ==
    view = "edit" /\ target # Away => (form.draft # 0 => form.dirty)

\* The list alone may load without a read: see LoadingIsReading.
LoadingElsewhere == view # "list" => LoadingIsReading

-----------------------------------------------------------------------------
(* Places and pages *)

LEMMA Scales ==
    ASSUME NEW a \in Nat, NEW b \in Nat, NEW c \in Nat, a <= b
    PROVE  a * c \in Nat /\ b * c \in Nat /\ a * c <= b * c
<1>1. PICK d \in Nat : b = a + d
  BY b - a \in Nat
<1>2. d * c \in Nat /\ a * c \in Nat /\ (a + d) * c = a * c + d * c
  OBVIOUS
<1>. QED BY <1>1, <1>2

\* Places are numbers up to the number of rows, and newer rows come first.
LEMMA PlacesRise ==
    ASSUME NEW S \in SUBSET Int, IsFiniteSet(S), NEW row \in S
    PROVE  /\ Place(row, S) \in Nat
           /\ Place(row, S) <= Cardinality(S)
           /\ Cardinality(S) \in Nat
           /\ \A other \in S : row < other => Place(other, S) < Place(row, S)
<1> DEFINE From(r) == {other \in S : other >= r}
<1>1. \A r : From(r) \in SUBSET S /\ IsFiniteSet(From(r))
  BY FS_Subset
<1>2. \A r : Cardinality(From(r)) \in Nat /\ Cardinality(S) \in Nat
             /\ Cardinality(From(r)) <= Cardinality(S)
  BY <1>1, FS_CardinalityType, FS_Subset
<1>3. ASSUME NEW other \in S, row < other
      PROVE  Cardinality(From(other)) < Cardinality(From(row))
  <2>1. From(other) \in SUBSET From(row)
    <3>1. \A x \in S : x \in Int /\ row \in Int /\ other \in Int
      BY <1>3
    <3>2. \A x \in S : x >= other => x >= row
      BY <1>3, <3>1
    <3>. QED BY <3>2
  <2>2. row \in From(row) /\ row \notin From(other)
    BY <1>3
  <2>3. Cardinality(From(other)) <= Cardinality(From(row))
        /\ Cardinality(From(row)) # Cardinality(From(other))
    BY <1>1, <2>1, <2>2, FS_Subset
  <2>. QED BY <1>2, <2>3
<1>. QED BY <1>2, <1>3 DEF Place

\* Rows that come move places up only.
LEMMA PlacesGrow ==
    ASSUME NEW T \in SUBSET Int, IsFiniteSet(T), NEW S \in SUBSET T, NEW row \in S
    PROVE  Place(row, S) <= Place(row, T)
<1> DEFINE From(U) == {other \in U : other >= row}
<1>1. From(T) \in SUBSET T /\ From(S) \in SUBSET From(T)
  OBVIOUS
<1>2. IsFiniteSet(From(T))
  BY <1>1, FS_Subset
<1>3. Cardinality(From(S)) <= Cardinality(From(T))
  BY <1>1, <1>2, FS_Subset
<1>. QED BY <1>3 DEF Place

LEMMA Pigeons ==
    ASSUME NEW S, IsFiniteSet(S), NEW T, IsFiniteSet(T),
           Cardinality(T) < Cardinality(S), NEW f \in [S -> T]
    PROVE  \E x \in S : \E y \in S : x # y /\ f[x] = f[y]
BY FS_PigeonHole

\* A page holds no more rows than its size.
LEMMA PagesFit ==
    ASSUME NEW S \in SUBSET Int, IsFiniteSet(S), NEW page \in Nat \ {0}, NEW size \in Nat
    PROVE  Cardinality(OnPage(S, page, size)) <= size
<1> DEFINE held == OnPage(S, page, size)
           low == (page - 1) * size + 1
           high == page * size
           places == low..high
           place == [row \in held |-> Place(row, S)]
<1>1. low \in Int /\ high \in Int /\ high - low + 1 = size
  <2>1. (page - 1) * size \in Int /\ page * size = (page - 1) * size + size
    OBVIOUS
  <2>. QED BY <2>1
<1>2. held \in SUBSET S /\ place \in [held -> low..high]
  BY DEF OnPage
<1>3. IsFiniteSet(low..high) /\ Cardinality(low..high) = size
  <2> HIDE DEF low, high
  <2>1. Cardinality(low..high) = IF low > high THEN 0 ELSE high - low + 1
    BY <1>1, FS_Interval
  <2>. QED BY <1>1, <2>1, FS_Interval
<1>4. IsFiniteSet(held) /\ Cardinality(held) \in Nat
  BY <1>2, FS_Subset, FS_CardinalityType
<1>5. ASSUME Cardinality(held) > size PROVE FALSE
  <2>1. /\ place \in [held -> places] /\ IsFiniteSet(held) /\ IsFiniteSet(places)
        /\ Cardinality(places) < Cardinality(held)
    BY <1>2, <1>3, <1>4, <1>5
  <2>2. PICK x \in held, y \in held : x # y /\ place[x] = place[y]
    <3> HIDE DEF held, places, place
    <3>. QED BY <2>1, Pigeons
  <2>3. x \in Int /\ y \in Int /\ x \in S /\ y \in S
    BY <1>2
  <2>4. Place(x, S) = Place(y, S)
    BY <2>2
  <2>. QED BY <2>2, <2>3, <2>4, PlacesRise
<1>. QED BY <1>4, <1>5

\* The number of pages is no more than the number of rows, or one.
LEMMA PagesInRange ==
    ASSUME NEW total \in 0..MaxRows, NEW size \in Nat \ {0}
    PROVE  Pages(total, size) \in 1..MaxRows
<1> DEFINE pages == Pages(total, size)
<1>1. pages \in Nat \ {0} /\ (total # 0 => (pages - 1) * size < total)
  BY PagesHoldEveryRow, PagesAssumption
<1>2. CASE total = 0
  BY <1>2, PagesAssumption DEF Pages
<1>3. CASE total # 0
  <2> HIDE DEF pages
  <2>1. (pages - 1) * 1 <= (pages - 1) * size
    BY <1>1
  <2>. QED BY <1>1, <1>3, <2>1, PagesAssumption DEF pages
<1>. QED BY <1>2, <1>3

\* The pages before the last are full.
LEMMA PagesBefore ==
    ASSUME NEW total \in 0..MaxRows, NEW size \in Nat \ {0},
           NEW page \in Nat, page < Pages(total, size)
    PROVE  page * size \in Nat /\ page * size <= MaxRows
<1> DEFINE pages == Pages(total, size)
<1>1. pages \in Nat \ {0} /\ (pages - 1) * size <= total
  BY PagesHoldEveryRow, PagesAssumption
<1> HIDE DEF pages
<1>2. page * size \in Nat /\ page * size <= (pages - 1) * size
  <2>1. page <= pages - 1 /\ pages - 1 \in Nat
    BY <1>1 DEF pages
  <2>. QED BY <2>1, Scales
<1>. QED BY <1>1, <1>2, PagesAssumption

-----------------------------------------------------------------------------
(* Types *)

LEMMA Limits ==
    /\ MaxRows \in Nat \ {0} /\ MaxChanges \in Nat /\ MaxMoves \in Nat
    /\ FixedSize \in Nat \ {0}
BY PagesAssumption

LEMMA Ranges ==
    /\ Sizes \subseteq Nat \ {0} /\ FixedSize \in Sizes /\ PageSizes \subseteq Sizes
    /\ PageNumbers \subseteq Nat \ {0} /\ 1 \in PageNumbers
    /\ Versions \subseteq Nat /\ 0 \in Versions
    /\ Ids \subseteq Nat \ {0} /\ 1 \in Ids
BY PagesAssumption DEF Sizes, PageNumbers, Versions, Ids

\* The bound on the rows behind one view lies within that of all.
LEMMA Rooms ==
    ASSUME NEW v
    PROVE  /\ Room(v) \in 1..MaxRows /\ 1..Room(v) \subseteq Ids
           /\ 0..Room(v) \subseteq 0..MaxRows /\ 1..Room(v) \subseteq 1..MaxRows
<1>1. Room(v) \in 1..MaxRows
  BY PagesAssumption DEF Room
<1>. QED BY <1>1, Limits DEF Ids

LEMMA FiniteIds ==
    IsFiniteSet(Ids) /\ Cardinality(Ids) = MaxRows
BY Limits, FS_Interval DEF Ids

\* An address of the list is neither another one nor none.
LEMMA Targets ==
    NULL # Away /\ Away \notin Queries /\ NULL \notin Queries
<1>1. Away \in [page: Nat, size: Nat]
  BY DEF Away
<1>2. ASSUME NEW query \in Queries PROVE query # Away /\ query # NULL
  <2>1. query \in [page: Nat, size: Nat] /\ query.page # 0
    BY Ranges DEF Queries
  <2>. QED BY <2>1, FormAssumption DEF Away
<1>. QED BY <1>1, <1>2, FormAssumption

\* What is known of the numbers in a read and in what is shown.
LEMMA ReadFields ==
    ASSUME NEW read \in ReadStates
    PROVE  /\ read.query \in Queries
           /\ read.query.page \in PageNumbers /\ read.query.page \in Nat \ {0}
           /\ read.query.size \in Sizes /\ read.query.size \in Nat \ {0}
           /\ read.answer \in Answers
           /\ read.items \in [Ids -> Versions] /\ \A row \in Ids : read.items[row] \in Nat
           /\ read.total \in 0..MaxRows /\ read.taken \in Nat
           /\ read.begun \in SUBSET Ids /\ read.undisturbed \in BOOLEAN
           /\ read.aborted \in BOOLEAN
<1>1. read.query \in Queries /\ read.answer \in Answers /\ read.items \in [Ids -> Versions]
      /\ read.total \in 0..MaxRows /\ read.taken \in 0..(MaxRows + FixedSize)
      /\ read.begun \in SUBSET Ids /\ read.undisturbed \in BOOLEAN /\ read.aborted \in BOOLEAN
  BY DEF ReadStates
<1>2. \A row \in Ids : read.items[row] \in Nat
  BY <1>1, Ranges
<1>3. read.query.page \in PageNumbers /\ read.query.size \in Sizes
  BY <1>1 DEF Queries
<1>4. read.query.page \in Nat \ {0} /\ read.query.size \in Nat \ {0}
  BY <1>3, Ranges
<1>5. read.taken \in Nat
  BY <1>1, Limits
<1>. QED BY <1>1, <1>2, <1>3, <1>4, <1>5

LEMMA AnswerFields ==
    ASSUME NEW answer \in Answers
    PROVE  /\ answer.page \in PageNumbers /\ answer.page \in Nat \ {0}
           /\ answer.size \in Sizes /\ answer.size \in Nat \ {0}
           /\ answer.items \in [Ids -> Versions] /\ \A row \in Ids : answer.items[row] \in Nat
           /\ answer.total \in 0..(MaxRows + FixedSize) /\ answer.total \in Nat
           /\ answer.pages \in 1..MaxRows /\ answer.pages \in Nat \ {0}
<1>1. answer.page \in PageNumbers /\ answer.size \in Sizes
      /\ answer.items \in [Ids -> Versions]
      /\ answer.total \in 0..(MaxRows + FixedSize) /\ answer.pages \in 1..MaxRows
  BY DEF Answers
<1>2. \A row \in Ids : answer.items[row] \in Nat
  BY <1>1, Ranges
<1>3. answer.page \in Nat \ {0} /\ answer.size \in Nat \ {0}
  BY <1>1, Ranges
<1>4. answer.total \in Nat /\ answer.pages \in Nat \ {0}
  BY <1>1, Limits
<1>. QED BY <1>1, <1>2, <1>3, <1>4

LEMMA HeldRows ==
    ASSUME NEW items \in [Ids -> Versions]
    PROVE  /\ Held(items) \in SUBSET Ids /\ IsFiniteSet(Held(items))
           /\ Cardinality(Held(items)) \in 0..MaxRows
<1> DEFINE held == Held(items)
<1>1. held \in SUBSET Ids
  BY DEF Held
<1> HIDE DEF held
<1>2. Cardinality(held) \in Nat /\ Cardinality(held) <= Cardinality(Ids) /\ IsFiniteSet(held)
  BY <1>1, FiniteIds, FS_Subset, FS_CardinalityType
<1>3. Cardinality(held) \in 0..MaxRows
  BY <1>2, FiniteIds, Limits
<1>. QED BY <1>1, <1>2, <1>3 DEF held

\* The bounds of an instant.
LEMMA Horizon ==
    ASSUME moves \in Nat, changes \in Nat
    PROVE  Reach \in Nat \ {0} /\ Reach = MaxRows + moves
           /\ Latest \in Nat \ {0} /\ Latest = changes + 1
BY Limits DEF Reach, Latest

LEMMA LaterHorizon ==
    ASSUME moves \in Nat, changes \in Nat, moves' \in Nat, changes' \in Nat,
           moves <= moves', changes <= changes'
    PROVE  /\ Reach \in Nat /\ Reach' \in Nat /\ Reach <= Reach'
           /\ Latest \in Nat /\ Latest' \in Nat /\ Latest <= Latest'
<1>1. Reach' = MaxRows + moves' /\ Latest' = changes' + 1
      /\ Reach = MaxRows + moves /\ Latest = changes + 1
  BY DEF Reach, Latest
<1>2. MaxRows \in Nat
  BY Limits
<1>3. \A m, n \in Nat : m <= n =>
         /\ MaxRows + m \in Nat /\ MaxRows + n \in Nat /\ MaxRows + m <= MaxRows + n
         /\ m + 1 \in Nat /\ n + 1 \in Nat /\ m + 1 <= n + 1
  BY <1>2
<1>4. /\ MaxRows + moves \in Nat /\ MaxRows + moves' \in Nat
      /\ MaxRows + moves <= MaxRows + moves'
  BY Zenon, <1>3
<1>5. changes + 1 \in Nat /\ changes' + 1 \in Nat /\ changes + 1 <= changes' + 1
  BY Zenon, <1>3
<1>. QED BY Zenon, <1>1, <1>4, <1>5

LEMMA EmptyRecords ==
    /\ NoItems \in [Ids -> Versions] /\ NoAnswer \in Answers
    /\ NoRead \in ReadStates /\ NoMutation \in Mutations
    /\ Loading \in Shown /\ NewForm \in FormStates
<1>1. NoItems \in [Ids -> Versions]
  BY Ranges DEF NoItems
<1>2. NoAnswer \in Answers
  BY <1>1, Ranges, Limits DEF NoAnswer, Answers
<1>3. NoRead \in ReadStates
  BY <1>1, <1>2, Ranges, Limits DEF NoRead, ReadStates, Queries
<1>4. NoMutation \in Mutations
  BY Ranges DEF NoMutation, Mutations
<1>5. NewForm \in FormStates
  BY FormAssumption DEF NewForm, FormStates
<1>. QED BY <1>1, <1>2, <1>3, <1>4, <1>5 DEF Loading, Shown

LEMMA StoredRows ==
    /\ Stored \in SUBSET Ids /\ Stored \in SUBSET Int /\ IsFiniteSet(Stored)
    /\ Cardinality(Stored) \in 0..MaxRows
<1>1. Stored \in SUBSET Ids
  BY DEF Stored
<1>2. Cardinality(Stored) \in Nat /\ Cardinality(Stored) <= Cardinality(Ids)
      /\ IsFiniteSet(Stored)
  BY <1>1, FiniteIds, FS_Subset, FS_CardinalityType
<1>. QED BY <1>1, <1>2, FiniteIds, Ranges, Limits

\* Nothing a fault makes of an exchange is taken for an answer or for the
\* caller's own signal.
LEMMA FaultsFail ==
    ASSUME NEW exchange \in Faults
    PROVE  /\ ReadOutcome(exchange, FALSE) \in Outcomes \ {"success", "cancelled"}
           /\ IncidentOutcome(exchange, FALSE) \in Outcomes \ {"success", "cancelled"}
           /\ exchange \in Exchanges
<1>1. exchange \in Exchanges
  BY FormAssumption DEF Exchanges
<1>2. CASE exchange \in NoResponse
  BY <1>2 DEF NoResponse, ReadOutcome, IncidentOutcome, RequestFailure, Outcomes,
              Exchanges, Responses
<1>3. CASE exchange \notin NoResponse
  <2>1. ~Ok(exchange.status) \/ Parsed(exchange) = "unexpected_response"
    BY <1>1, <1>3, FormAssumption DEF Parsed
  <2>2. ResponseFailure(exchange.status) \in Outcomes \ {"success", "cancelled"}
        /\ IncidentResponseFailure(exchange.status) \in Outcomes \ {"success", "cancelled"}
    <3>1. exchange.status \in Nat
      BY <1>1, ExchangeKinds
    <3>2. ResponseFailure(exchange.status) \in Outcomes \ {"success"}
          /\ IncidentResponseFailure(exchange.status) \in Outcomes \ {"success"}
      BY <3>1, FailureIsOutcome
    <3>3. ResponseFailure(exchange.status) # "cancelled"
      <4>1. CASE exchange.status < 500
        BY <4>1 DEF ResponseFailure
      <4>2. CASE exchange.status >= 500
        BY <4>2 DEF ResponseFailure
      <4>. QED BY <3>1, <4>1, <4>2
    <3>4. IncidentResponseFailure(exchange.status) # "cancelled"
      BY DEF IncidentResponseFailure
    <3>. QED BY <3>2, <3>3, <3>4
  <2>3. "unexpected_response" \in Outcomes \ {"success", "cancelled"}
    BY DEF Outcomes
  <2>. QED BY <1>1, <1>3, <2>1, <2>2, <2>3 DEF ReadOutcome, IncidentOutcome
<1>. QED BY <1>1, <1>2, <1>3

LEMMA NoReadInv ==
    ASSUME moves \in Nat, changes \in Nat
    PROVE  AnswerInv(NoAnswer) /\ ReadInv(NoRead)
<1>1. \A row \in Ids : NoItems[row] = 0
  BY DEF NoItems
<1>2. Reach \in Nat \ {0} /\ Latest \in Nat
  BY Horizon
<1>3. AnswerInv(NoAnswer)
  BY <1>1, <1>2 DEF AnswerInv, NoAnswer
<1>4. TakenInv(NoRead)
  <2>1. (1 - 1) * FixedSize = 0
    BY Limits
  <2>. QED BY <2>1, Limits DEF TakenInv, NoRead
<1>5. NoAnswer.total <= MaxRows
  BY Limits DEF NoAnswer
<1>. QED BY <1>1, <1>2, <1>3, <1>4, <1>5 DEF ReadInv, NoRead

\* What was in bounds stays in bounds.
LEMMA AnswerInvKept ==
    ASSUME NEW answer \in Answers, AnswerInv(answer),
           Reach \in Nat, Reach' \in Nat, Reach <= Reach',
           Latest \in Nat, Latest' \in Nat, Latest <= Latest'
    PROVE  answer.page <= Reach' /\ \A row \in Ids : answer.items[row] <= Latest'
BY AnswerFields DEF AnswerInv

LEMMA ReadInvKept ==
    ASSUME NEW r \in Reads, NEW read \in ReadStates, ReadInv(read), reads'[r] = read,
           view' = view \/ (view' = "left" /\ read.taken = 0),
           moves \in Nat, changes \in Nat, moves' \in Nat, changes' \in Nat,
           moves <= moves', changes <= changes'
    PROVE  ReadInv(reads[r])'
<1>1. /\ read.query.page \in Nat /\ \A row \in Ids : read.items[row] \in Nat
      /\ read.answer \in Answers
  BY ReadFields
<1>2. Reach \in Nat /\ Reach' \in Nat /\ Reach <= Reach'
      /\ Latest \in Nat /\ Latest' \in Nat /\ Latest <= Latest'
  BY LaterHorizon
<1>3. AnswerInv(reads[r].answer)'
  <2>1. AnswerInv(read.answer)
    BY DEF ReadInv
  <2>. QED BY <1>1, <1>2, <2>1, AnswerInvKept DEF AnswerInv
<1>4. TakenInv(reads[r])'
  BY DEF ReadInv, TakenInv
<1>5. PageInv(read) => PageInv(reads[r])'
  BY DEF PageInv
<1>6. view' \in ListViews => view \in ListViews
  BY DEF ListViews
<1>7. reads'[r].query.page <= Reach' /\ \A row \in Ids : reads'[r].items[row] <= Latest'
  BY <1>1, <1>2 DEF ReadInv
<1>. QED BY <1>3, <1>4, <1>5, <1>6, <1>7 DEF ReadInv

LEMMA ShownInvKept ==
    ASSUME NEW data \in Answers, AnswerInv(data), view # "active" => data.total <= MaxRows,
           shown'.data = data, view' = view \/ data.total <= MaxRows,
           moves \in Nat, changes \in Nat, moves' \in Nat, changes' \in Nat,
           moves <= moves', changes <= changes'
    PROVE  ShownInv'
<1>1. AnswerInv(shown.data)'
  BY LaterHorizon, AnswerInvKept DEF AnswerInv
<1>. QED BY <1>1 DEF ShownInv

\* What the invariant says of the parts that most steps leave alone.
LEMMA TypeFacts ==
    ASSUME TypeInv
    PROVE  /\ moves \in Nat /\ changes \in Nat /\ moves <= MaxMoves
           /\ changes <= MaxChanges + MaxMoves
           /\ view \in Views \cup {"left"}
           /\ asked \in Queries /\ source \in Queries
           /\ target \in Queries \cup {Away, NULL}
           /\ shown \in Shown /\ shown.data \in Answers /\ due \in BOOLEAN
           /\ reads \in [Reads -> ReadStates] /\ rows \in [Ids -> Versions]
           /\ mutation \in Mutations /\ form \in FormStates
           /\ \A r \in Reads : reads[r] \in ReadStates /\ ReadInv(reads[r])
<1>1. PagesTypeOK /\ \A r \in Reads : ReadInv(reads[r])
  BY DEF TypeInv
<1>2. moves \in 0..MaxMoves /\ changes \in 0..(MaxChanges + MaxMoves)
  BY <1>1 DEF PagesTypeOK
<1>3. moves \in Nat /\ changes \in Nat /\ moves <= MaxMoves /\ changes <= MaxChanges + MaxMoves
  BY <1>2, Limits
<1>4. shown \in Shown /\ shown.data \in Answers
  BY <1>1 DEF PagesTypeOK, Shown
<1>. QED BY <1>1, <1>3, <1>4 DEF PagesTypeOK

\* A step that leaves moves, writes and the view alone keeps a part in bounds.
LEMMA ReadsKept ==
    ASSUME TypeInv, NEW new \in [Reads -> ReadStates], \A r \in Reads : ReadInv(new[r]),
           reads' = new, UNCHANGED <<view, changes, moves>>
    PROVE  /\ reads' \in [Reads -> ReadStates]
           /\ \A r \in Reads : ReadInv(reads[r])'
<1>1. SUFFICES ASSUME NEW r \in Reads PROVE ReadInv(reads[r])'
  OBVIOUS
<1>2. new[r] \in ReadStates /\ ReadInv(new[r]) /\ reads'[r] = new[r]
  OBVIOUS
<1>3. moves \in Nat /\ changes \in Nat /\ moves' \in Nat /\ changes' \in Nat
      /\ moves <= moves' /\ changes <= changes'
  BY TypeFacts
<1>. QED BY <1>2, <1>3, ReadInvKept

LEMMA OneReadKept ==
    ASSUME TypeInv, NEW r \in Reads, NEW read \in ReadStates, ReadInv(read),
           reads' = [reads EXCEPT ![r] = read], UNCHANGED <<view, changes, moves>>
    PROVE  /\ reads' \in [Reads -> ReadStates]
           /\ \A q \in Reads : ReadInv(reads[q])'
<1> DEFINE new == [reads EXCEPT ![r] = read]
<1>1. new \in [Reads -> ReadStates] /\ \A q \in Reads : new[q] = IF q = r THEN read ELSE reads[q]
  BY TypeFacts
<1>2. \A q \in Reads : ReadInv(new[q])
  BY <1>1, TypeFacts
<1>3. reads' = new
  OBVIOUS
<1> HIDE DEF new
<1>. QED BY <1>1, <1>2, <1>3, ReadsKept

\* A step of the reads alone.
LEMMA OnlyReads ==
    ASSUME TypeInv, due' \in BOOLEAN, reads' \in [Reads -> ReadStates],
           \A r \in Reads : ReadInv(reads[r])',
           UNCHANGED <<view, target, form, asked, source, shown, rows, changes,
                       moves, mutation>>
    PROVE  TypeInv'
<1>1. moves \in Nat /\ changes \in Nat
  BY Limits DEF TypeInv, PagesTypeOK
<1>2. PagesTypeOK' /\ ControlsInv' /\ WritesInv' /\ ShownInv'
  BY DEF TypeInv, PagesTypeOK, ControlsInv, WritesInv, ShownInv, AnswerInv, Reach, Latest
<1>. QED BY <1>2 DEF TypeInv

LEMMA InitTypes == Init => TypeInv
<1> SUFFICES ASSUME Init PROVE TypeInv
  OBVIOUS
<1>1. moves = 0 /\ changes = 0 /\ moves \in Nat /\ changes \in Nat
  BY DEF Init
<1>2. Reach \in Nat /\ Reach = MaxRows + 0 /\ Latest \in Nat /\ Latest = 0 + 1
  BY <1>1, Horizon
<1>3. PICK n \in 0..MaxRows : rows = [row \in Ids |-> IF row <= n THEN 1 ELSE 0]
  BY Rooms DEF Init
<1>4. 1 \in Versions /\ 0 \in Versions
  BY Limits DEF Versions
<1>5. rows \in [Ids -> Versions] /\ \A row \in Ids : rows[row] <= Latest
  BY <1>2, <1>3, <1>4
<1>6. FirstSizes(view) \subseteq Sizes
  BY PagesAssumption DEF FirstSizes, Sizes
<1>7. asked \in [page: 1..MaxRows, size: FirstSizes(view)] /\ (view # "list" => asked.page = 1)
  <2>1. 1..Room(view) \subseteq 1..MaxRows
    BY Rooms
  <2>. QED BY <2>1 DEF Init
<1>8. asked \in Queries /\ asked.page \in 1..MaxRows
  <2>1. 1..MaxRows \subseteq PageNumbers
    BY Limits DEF PageNumbers
  <2>. QED BY <1>6, <1>7, <2>1 DEF Queries
<1>9. view = "active" => asked = [page |-> 1, size |-> FixedSize]
  BY <1>7 DEF FirstSizes
<1>10. AnswerInv(NoAnswer) /\ ReadInv(NoRead)
  BY <1>1, NoReadInv
<1>11. \A r \in Reads : reads[r] = NoRead
  BY DEF Init
<1>12. shown \in Shown /\ shown.data = NoAnswer
  BY EmptyRecords DEF Init, Loading, Ready, Shown
<1>13. reads \in [Reads -> ReadStates]
  BY EmptyRecords DEF Init
<1>14. moves \in 0..MaxMoves /\ changes \in 0..(MaxChanges + MaxMoves)
  BY <1>1, Limits
<1>15. PagesTypeOK
  <2>1. view \in Views \cup {"left"} /\ source \in Queries /\ target \in Queries \cup {Away, NULL}
        /\ due \in BOOLEAN /\ mutation \in Mutations /\ form \in FormStates
    BY <1>8, EmptyRecords DEF Init
  <2>. QED BY <1>5, <1>8, <1>12, <1>13, <1>14, <2>1 DEF PagesTypeOK
<1>16. ControlsInv
  <2>1. asked.page <= Reach /\ 1 <= Reach
    BY <1>2, <1>8, Limits
  <2>2. target = NULL /\ source = asked /\ mutation = NoMutation
    BY DEF Init
  <2>. QED BY <1>9, <2>1, <2>2 DEF ControlsInv, NoMutation
<1>17. WritesInv
  <2>1. mutation.phase = "none"
    BY DEF Init, NoMutation
  <2>. QED BY <1>1, <1>5, <2>1, Limits DEF WritesInv
<1>18. ShownInv
  <2>1. NoAnswer.total = 0
    BY DEF NoAnswer
  <2>. QED BY <1>10, <1>12, <2>1, Limits DEF ShownInv
<1>. QED BY <1>10, <1>11, <1>15, <1>16, <1>17, <1>18 DEF TypeInv

\* Reads that are aborted.
LEMMA AbortedTypes ==
    ASSUME NEW read \in ReadStates, ReadInv(read), moves \in Nat, changes \in Nat
    PROVE  Aborted(read) \in ReadStates /\ ReadInv(Aborted(read))
<1>1. CASE read.phase = "none"
  BY <1>1, EmptyRecords, NoReadInv DEF Aborted
<1>2. CASE read.phase = "answered" /\ read.attempt = 2
  <2> DEFINE new == [read EXCEPT !.aborted = TRUE]
  <2>1. Aborted(read) = new
    BY <1>2 DEF Aborted
  <2>2. new \in ReadStates
    BY DEF ReadStates
  <2>3. ReadInv(new)
    <3>1. /\ new.phase = "answered" /\ new.query = read.query /\ new.answer = read.answer
          /\ new.items = read.items /\ new.taken = read.taken /\ new.outcome = read.outcome
          /\ new.aborted = TRUE
      BY <1>2 DEF ReadStates
    <3> HIDE DEF new
    <3>. QED BY <3>1 DEF ReadInv, TakenInv, PageInv
  <2>. QED BY <2>1, <2>2, <2>3
<1>3. CASE read.phase # "none" /\ ~(read.phase = "answered" /\ read.attempt = 2)
  <2> DEFINE new == [NoRead EXCEPT !.phase = "answered", !.attempt = read.attempt,
                                   !.aborted = TRUE,
                                   !.outcome = RequestFailure(TimedOut, TRUE)]
  <2>1. Aborted(read) = new
    BY <1>3 DEF Aborted
  <2>2. RequestFailure(TimedOut, TRUE) = "cancelled" /\ "cancelled" \in Outcomes
    BY DEF RequestFailure, Outcomes
  <2>3. new \in ReadStates
    BY <2>2, EmptyRecords DEF ReadStates
  <2>4. ReadInv(new)
    <3>1. /\ new.phase = "answered" /\ new.query = NoRead.query /\ new.answer = NoRead.answer
          /\ new.items = NoRead.items /\ new.taken = NoRead.taken /\ new.outcome = "cancelled"
          /\ new.aborted = TRUE
      BY <2>2 DEF NoRead
    <3> HIDE DEF new
    <3>. QED BY <3>1, NoReadInv DEF ReadInv, TakenInv
  <2>. QED BY <2>1, <2>3, <2>4
<1>. QED BY <1>1, <1>2, <1>3

LEMMA RunEffectTypes ==
    ASSUME TypeInv, RunEffect
    PROVE  TypeInv'
<1>0. /\ asked \in Queries /\ moves \in Nat /\ changes \in Nat
      /\ reads \in [Reads -> ReadStates]
      /\ \A r \in Reads : reads[r] \in ReadStates /\ ReadInv(reads[r])
  BY TypeFacts
<1> DEFINE first == [NoRead EXCEPT !.phase = "sent", !.query = asked,
                                   !.begun = IF view = "active" THEN Stored ELSE {}]
<1>1. PICK r \in Reads :
        reads' = [other \in Reads |-> IF other = r THEN first ELSE Aborted(reads[other])]
  BY DEF RunEffect
<1>2. first \in ReadStates
  BY <1>0, EmptyRecords, StoredRows DEF ReadStates
<1>3. /\ first.phase = "sent" /\ first.query = asked /\ first.answer = NoRead.answer
      /\ first.items = NoRead.items /\ first.taken = 0 /\ first.outcome = "none"
      /\ first.aborted = FALSE
  BY DEF NoRead
<1>4. ReadInv(first)
  <2> HIDE DEF first
  <2>1. asked.page <= Reach /\ (view = "active" => asked = [page |-> 1, size |-> FixedSize])
    BY DEF TypeInv, ControlsInv
  <2>2. TakenInv(first)
    <3>1. (1 - 1) * FixedSize = 0 /\ 0 <= MaxRows
      BY Limits
    <3>. QED BY <1>3, <2>1, <3>1 DEF TakenInv
  <2>. QED BY <1>0, <1>3, <2>1, <2>2, NoReadInv DEF ReadInv
<1> DEFINE new == [other \in Reads |-> IF other = r THEN first ELSE Aborted(reads[other])]
<1>5. new \in [Reads -> ReadStates] /\ \A q \in Reads : ReadInv(new[q])
  <2> HIDE DEF first
  <2>1. \A q \in Reads : Aborted(reads[q]) \in ReadStates /\ ReadInv(Aborted(reads[q]))
    BY <1>0, AbortedTypes
  <2>. QED BY <1>2, <1>4, <2>1
<1>6. reads' = new /\ due' \in BOOLEAN
      /\ UNCHANGED <<view, target, form, asked, source, shown, rows, changes, moves, mutation>>
  BY <1>1 DEF RunEffect
<1> HIDE DEF new
<1>. QED BY <1>5, <1>6, ReadsKept, OnlyReads

\* The answer of a list: a page of the rows there are.
LEMMA PageTypes ==
    ASSUME TypeInv, NEW query \in Queries, query.page <= Reach, NEW total \in 0..MaxRows
    PROVE  /\ Page(query, total) \in Answers /\ AnswerInv(Page(query, total))
           /\ Page(query, total).page = query.page /\ Page(query, total).size = query.size
           /\ Page(query, total).total = total
           /\ Page(query, total).pages = Pages(total, query.size)
           /\ Held(Page(query, total).items) = OnPage(Stored, query.page, query.size)
           /\ Cardinality(Held(Page(query, total).items)) <= query.size
<1> DEFINE held == OnPage(Stored, query.page, query.size)
<1>1. query.page \in PageNumbers /\ query.size \in Sizes
      /\ query.page \in Nat \ {0} /\ query.size \in Nat \ {0}
  BY Ranges DEF Queries
<1>2. held \in SUBSET Stored
  BY DEF OnPage
<1>3. Cardinality(held) <= query.size
  BY <1>1, StoredRows, PagesFit
<1>4. Pages(total, query.size) \in 1..MaxRows
  BY <1>1, PagesInRange
<1> HIDE DEF held
<1>5. Items(held) \in [Ids -> Versions] /\ \A row \in Ids : Items(held)[row] <= Latest
  <2>1. rows \in [Ids -> Versions] /\ (\A row \in Ids : rows[row] <= Latest) /\ 0 <= Latest
    BY TypeFacts, Horizon DEF TypeInv, WritesInv
  <2>. QED BY <2>1, Ranges DEF Items
<1>6. Held(Items(held)) = held
  BY <1>2 DEF Held, Items, Stored
<1>7. total \in 0..(MaxRows + FixedSize)
  BY Limits
<1>8. Page(query, total) = [items |-> Items(held), page |-> query.page, size |-> query.size,
                            total |-> total, pages |-> Pages(total, query.size)]
  BY DEF Page, held
<1>9. Page(query, total) \in Answers
  BY <1>1, <1>4, <1>5, <1>7, <1>8 DEF Answers
<1>. QED BY <1>3, <1>5, <1>6, <1>8, <1>9 DEF AnswerInv, held

\* A read that is answered.
LEMMA AnsweredTypes ==
    ASSUME NEW read \in ReadStates, ReadInv(read), read.phase # "none",
           NEW outcome \in Outcomes \ {"cancelled"}, NEW answer \in Answers, AnswerInv(answer),
           answer.total <= MaxRows,
           view \in ListViews /\ outcome = "success" =>
             /\ answer.page = read.query.page /\ answer.size = read.query.size
             /\ answer.pages = Pages(answer.total, answer.size)
             /\ Cardinality(Held(answer.items)) <= answer.size,
           NEW new, new = [read EXCEPT !.phase = "answered", !.outcome = outcome,
                                       !.answer = answer, !.total = 0]
    PROVE  new \in ReadStates /\ ReadInv(new)
<1>1. new \in ReadStates
  <2>1. 0 \in 0..MaxRows
    BY Limits
  <2>. QED BY <2>1 DEF ReadStates
<1>2. /\ new.phase = "answered" /\ new.query = read.query /\ new.answer = answer
      /\ new.items = read.items /\ new.taken = read.taken /\ new.outcome = outcome
      /\ new.aborted = read.aborted
  BY DEF ReadStates
<1>3. TakenInv(new)
  BY <1>2 DEF ReadInv, TakenInv
<1>4. view \in ListViews /\ new.outcome = "success" => PageInv(new)
  BY <1>2 DEF PageInv
<1>. QED BY <1>1, <1>2, <1>3, <1>4 DEF ReadInv

LEMMA ServeTypes ==
    ASSUME TypeInv, NEW r \in Reads, Serve(r)
    PROVE  TypeInv'
<1> DEFINE read == reads[r]
<1>0. /\ read \in ReadStates /\ ReadInv(read) /\ reads \in [Reads -> ReadStates]
      /\ moves \in Nat /\ changes \in Nat
  BY TypeFacts
<1>1. UNCHANGED <<view, target, form, asked, source, shown, due, rows, changes, moves, mutation>>
      /\ due' \in BOOLEAN
  BY TypeFacts DEF Serve
<1>2. SUFFICES \E new \in ReadStates : ReadInv(new) /\ reads' = [reads EXCEPT ![r] = new]
  BY <1>1, OneReadKept, OnlyReads
<1>3. NoAnswer \in Answers /\ AnswerInv(NoAnswer) /\ NoAnswer.total = 0 /\ 0 <= MaxRows
  BY <1>0, EmptyRecords, NoReadInv, Limits DEF NoAnswer
<1>4. CASE Count(r)
  <2> DEFINE new == [read EXCEPT !.phase = "counted", !.total = Cardinality(Stored)]
  <2>1. read.phase = "sent" /\ reads' = [reads EXCEPT ![r] = new]
    BY <1>0, <1>4 DEF Count
  <2>2. new \in ReadStates
    BY <1>0, StoredRows DEF ReadStates
  <2>3. /\ new.phase = "counted" /\ new.query = read.query /\ new.answer = read.answer
        /\ new.items = read.items /\ new.taken = read.taken /\ new.outcome = read.outcome
        /\ new.aborted = read.aborted
    BY <1>0 DEF ReadStates
  <2> HIDE DEF new
  <2>4. ReadInv(new)
    BY <1>0, <2>1, <2>3 DEF ReadInv, TakenInv, PageInv
  <2>. QED BY <2>1, <2>2, <2>4
<1>5. CASE \E outcome \in Outcomes \ {"cancelled"}, answer \in Answers :
             /\ Answered(r, outcome, answer) /\ read.phase # "none"
             /\ AnswerInv(answer) /\ answer.total <= MaxRows
             /\ view \in ListViews /\ outcome = "success" =>
                  /\ answer.page = read.query.page /\ answer.size = read.query.size
                  /\ answer.pages = Pages(answer.total, answer.size)
                  /\ Cardinality(Held(answer.items)) <= answer.size
  <2>1. PICK outcome \in Outcomes \ {"cancelled"}, answer \in Answers :
             /\ Answered(r, outcome, answer) /\ read.phase # "none"
             /\ AnswerInv(answer) /\ answer.total <= MaxRows
             /\ view \in ListViews /\ outcome = "success" =>
                  /\ answer.page = read.query.page /\ answer.size = read.query.size
                  /\ answer.pages = Pages(answer.total, answer.size)
                  /\ Cardinality(Held(answer.items)) <= answer.size
    BY <1>5
  <2> DEFINE new == [read EXCEPT !.phase = "answered", !.outcome = outcome,
                                 !.answer = answer, !.total = 0]
  <2>2. reads' = [reads EXCEPT ![r] = new]
    BY <1>0, <2>1 DEF Answered
  <2>3. new = [read EXCEPT !.phase = "answered", !.outcome = outcome,
                           !.answer = answer, !.total = 0]
    OBVIOUS
  <2> HIDE DEF new
  <2>4. new \in ReadStates /\ ReadInv(new)
    BY <1>0, <2>1, <2>3, AnsweredTypes
  <2>. QED BY <2>2, <2>4
<1>6. "success" \in Outcomes \ {"cancelled"} /\ "not_found" \in Outcomes \ {"cancelled", "success"}
  BY DEF Outcomes
<1>7. CASE SelectPage(r)
  <2> DEFINE answer == Page(read.query, read.total)
  <2>1. read.query \in Queries /\ read.query.page <= Reach /\ read.total \in 0..MaxRows
    BY <1>0, ReadFields DEF ReadInv
  <2>2. /\ answer \in Answers /\ AnswerInv(answer) /\ answer.total <= MaxRows
        /\ answer.page = read.query.page /\ answer.size = read.query.size
        /\ answer.pages = Pages(answer.total, answer.size)
        /\ Cardinality(Held(answer.items)) <= answer.size
    BY <2>1, PageTypes
  <2>3. Answered(r, "success", answer) /\ read.phase # "none"
    BY <1>7 DEF SelectPage
  <2> HIDE DEF answer
  <2>. QED BY <1>5, <1>6, <2>2, <2>3
<1>8. CASE SelectRows(r)
  <2> DEFINE answer == [NoAnswer EXCEPT !.items = rows]
  <2>1. rows \in [Ids -> Versions] /\ \A row \in Ids : rows[row] <= Latest
    BY TypeFacts DEF TypeInv, WritesInv
  <2>2. answer \in Answers /\ answer.items = rows /\ answer.page = NoAnswer.page
        /\ answer.total = NoAnswer.total
    BY <1>3, <2>1 DEF Answers
  <2>3. Answered(r, "success", answer) /\ read.phase # "none"
    BY <1>8 DEF SelectRows
  <2>4. view \notin ListViews
    BY <1>8 DEF SelectRows, SetViews, ListViews
  <2> HIDE DEF answer
  <2>5. AnswerInv(answer) /\ answer.total <= MaxRows
    BY <1>3, <2>1, <2>2 DEF AnswerInv
  <2>. QED BY <1>5, <1>6, <2>2, <2>3, <2>4, <2>5
<1>9. CASE SelectRow(r)
  <2>1. view \notin ListViews /\ read.phase # "none"
    BY <1>9 DEF SelectRow, RowViews, ListViews
  <2>2. CASE rows[1] # 0
    <3> DEFINE answer == [NoAnswer EXCEPT !.items = Items({1})]
    <3>1. rows \in [Ids -> Versions] /\ (\A row \in Ids : rows[row] <= Latest) /\ 0 <= Latest
      BY TypeFacts, Horizon DEF TypeInv, WritesInv
    <3>2. Items({1}) \in [Ids -> Versions] /\ \A row \in Ids : Items({1})[row] <= Latest
      BY <3>1, Ranges DEF Items
    <3>3. answer \in Answers /\ answer.items = Items({1}) /\ answer.page = NoAnswer.page
          /\ answer.total = NoAnswer.total
      BY <1>3, <3>2 DEF Answers
    <3>4. Answered(r, "success", answer)
      BY <1>9, <2>2 DEF SelectRow
    <3> HIDE DEF answer
    <3>5. AnswerInv(answer) /\ answer.total <= MaxRows
      BY <1>3, <3>2, <3>3 DEF AnswerInv
    <3>. QED BY <1>5, <1>6, <2>1, <3>3, <3>4, <3>5
  <2>3. CASE rows[1] = 0
    <3>1. Answered(r, "not_found", NoAnswer)
      BY <1>9, <2>3 DEF SelectRow
    <3>. QED BY <1>3, <1>5, <1>6, <2>1, <3>1
  <2>. QED BY <2>2, <2>3
<1>10. CASE Fail(r)
  <2>1. PICK exchange \in Faults :
          Answered(r, IF view \in IncidentViews THEN IncidentOutcome(exchange, FALSE)
                      ELSE ReadOutcome(exchange, FALSE), NoAnswer)
    BY <1>10 DEF Fail
  <2> DEFINE outcome == IF view \in IncidentViews THEN IncidentOutcome(exchange, FALSE)
                        ELSE ReadOutcome(exchange, FALSE)
  <2>2. outcome \in Outcomes \ {"success", "cancelled"}
    BY FaultsFail
  <2>3. Answered(r, outcome, NoAnswer) /\ read.phase # "none"
    BY <1>10, <2>1 DEF Fail
  <2> HIDE DEF outcome
  <2>. QED BY <1>3, <1>5, <2>2, <2>3
<1>. QED BY <1>4, <1>7, <1>8, <1>9, <1>10 DEF Serve

\* What a collection has after the answer it has got.
LEMMA CollectedTypes ==
    ASSUME NEW read \in ReadStates, ReadInv(read), moves \in Nat, changes \in Nat
    PROVE  /\ Collected(read).items \in [Ids -> Versions]
           /\ \A row \in Ids : Collected(read).items[row] <= Latest
           /\ view = "active" /\ read.outcome = "success" =>
                /\ Collected(read).taken \in Nat
                /\ Collected(read).taken <= read.query.page * FixedSize
                /\ read.query.page * FixedSize <= MaxRows + FixedSize
                /\ read.query.size = FixedSize
<1> DEFINE count == Cardinality(Held(read.answer.items))
           items == [row \in Ids |-> IF read.answer.items[row] # 0 THEN read.answer.items[row]
                                     ELSE read.items[row]]
<1>1. read.answer \in Answers /\ read.items \in [Ids -> Versions]
      /\ read.query.page \in Nat \ {0} /\ read.taken \in Nat
  BY ReadFields
<1>2. read.answer.items \in [Ids -> Versions]
  BY <1>1, AnswerFields
<1>3. Collected(read).items = items /\ Collected(read).taken = read.taken + count
  BY DEF Collected
<1>4. items \in [Ids -> Versions] /\ \A row \in Ids : items[row] <= Latest
  BY <1>1, <1>2 DEF ReadInv, AnswerInv
<1>5. count \in Nat
  <2>1. count \in 0..MaxRows
    BY <1>2, HeldRows
  <2> HIDE DEF count
  <2>. QED BY <2>1, Limits
<1> HIDE DEF count, items
<1>6. ASSUME view = "active", read.outcome = "success"
      PROVE  /\ read.taken + count \in Nat
             /\ read.taken + count <= read.query.page * FixedSize
             /\ read.query.page * FixedSize <= MaxRows + FixedSize
             /\ read.query.size = FixedSize
  <2>1. /\ read.query.size = FixedSize /\ read.taken <= (read.query.page - 1) * FixedSize
        /\ (read.query.page - 1) * FixedSize <= MaxRows
    BY <1>6 DEF ReadInv, TakenInv
  <2>2. count <= FixedSize
    <3>1. PageInv(read)
      BY <1>6 DEF ReadInv, ListViews
    <3>. QED BY <2>1, <3>1 DEF PageInv, count
  <2>3. read.query.page * FixedSize = (read.query.page - 1) * FixedSize + FixedSize
        /\ (read.query.page - 1) * FixedSize \in Nat
    <3>1. read.query.page - 1 \in Nat /\ FixedSize \in Nat
      BY <1>1, Limits
    <3>2. \A p \in Nat : p * FixedSize \in Nat
                         /\ (p + 1) * FixedSize = p * FixedSize + FixedSize
      BY Limits
    <3>3. (read.query.page - 1) + 1 = read.query.page
      BY <1>1
    <3>. QED BY <3>1, <3>2, <3>3
  <2> DEFINE before == (read.query.page - 1) * FixedSize
  <2> HIDE DEF before
  <2>4. before \in Nat /\ read.taken <= before /\ before <= MaxRows
        /\ read.query.page * FixedSize = before + FixedSize
    BY <2>1, <2>3 DEF before
  <2>. QED BY <1>1, <1>5, <2>1, <2>2, <2>4, Limits
<1>. QED BY <1>3, <1>4, <1>6

\* readWithOneRetry and listAllActiveIncidents go on.
LEMMA GoesOnTypes ==
    ASSUME TypeInv, NEW r \in Reads, reads[r].phase = "answered", Repeat(r) \/ NextPage(r)
    PROVE  \E new \in ReadStates : ReadInv(new) /\ reads' = [reads EXCEPT ![r] = new]
<1> DEFINE read == reads[r]
<1>1. /\ read \in ReadStates /\ ReadInv(read) /\ reads \in [Reads -> ReadStates]
      /\ moves \in Nat /\ changes \in Nat
  BY TypeFacts
<1>2. CASE Repeat(r)
  <2> DEFINE new == [read EXCEPT !.phase = "sent", !.attempt = 2, !.outcome = "none"]
  <2>1. reads' = [reads EXCEPT ![r] = new]
    BY <1>1, <1>2 DEF Repeat
  <2>2. new \in ReadStates
    BY <1>1 DEF ReadStates
  <2>3. /\ new.phase = "sent" /\ new.query = read.query /\ new.answer = read.answer
        /\ new.items = read.items /\ new.taken = read.taken /\ new.outcome = "none"
    BY <1>1 DEF ReadStates
  <2> HIDE DEF new
  <2>4. ReadInv(new)
    BY <1>1, <2>3 DEF ReadInv, TakenInv
  <2>. QED BY <2>1, <2>2, <2>4
<1>3. CASE NextPage(r)
  <2> DEFINE query == [page |-> read.query.page + 1, size |-> read.query.size]
             new == [read EXCEPT !.phase = "sent", !.attempt = 1, !.outcome = "none",
                                 !.answer = NoAnswer, !.query = query,
                                 !.items = Collected(read).items,
                                 !.taken = Collected(read).taken]
  <2>1. reads' = [reads EXCEPT ![r] = new] /\ Continues(read)
    BY <1>1, <1>3 DEF NextPage
  <2>2. view = "active" /\ read.outcome = "success" /\ read.query.page < read.answer.pages
    BY <2>1 DEF Continues, Outcome
  <2>3. /\ read.query.page \in Nat \ {0} /\ read.query.size \in Sizes
        /\ read.answer \in Answers
    BY <1>1, ReadFields
  <2>4. read.answer.pages \in 1..MaxRows /\ read.answer.total \in Nat
        /\ read.answer.size \in Nat \ {0}
    BY <2>3, AnswerFields
  <2>5. read.query.page + 1 \in 1..MaxRows /\ read.query.page + 1 <= Reach
    BY <1>1, <2>2, <2>3, <2>4, Horizon, Limits
  <2>6. query \in Queries
    <3>1. read.query.page + 1 \in PageNumbers
      BY <2>5, Limits DEF PageNumbers
    <3>. QED BY <2>3, <3>1 DEF Queries
  <2>7. /\ Collected(read).items \in [Ids -> Versions]
        /\ \A row \in Ids : Collected(read).items[row] <= Latest
        /\ Collected(read).taken \in Nat
        /\ Collected(read).taken <= read.query.page * FixedSize
        /\ read.query.page * FixedSize <= MaxRows + FixedSize
        /\ read.query.size = FixedSize
    BY <1>1, <2>2, CollectedTypes
  <2>8. read.query.page * FixedSize \in Nat /\ read.query.page * FixedSize <= MaxRows
    <3>1. PageInv(read) /\ read.answer.total <= MaxRows
      BY <1>1, <2>2 DEF ReadInv, ListViews
    <3>2. read.answer.total \in 0..MaxRows /\ read.answer.size = FixedSize
          /\ read.query.page < Pages(read.answer.total, FixedSize)
      BY <2>2, <2>4, <2>7, <3>1, Limits DEF PageInv
    <3>. QED BY <2>3, <3>2, PagesBefore, Limits
  <2>9. Collected(read).taken \in 0..(MaxRows + FixedSize)
    <3> DEFINE high == read.query.page * FixedSize
               taken == Collected(read).taken
    <3>1. high \in Nat /\ high <= MaxRows /\ taken \in Nat /\ taken <= high
      BY <2>7, <2>8
    <3> HIDE DEF high, taken
    <3>2. taken \in 0..(MaxRows + FixedSize)
      BY <3>1, Limits
    <3>. QED BY <3>2 DEF taken
  <2>10. new \in ReadStates
    <3> HIDE DEF query
    <3>. QED BY <1>1, <2>6, <2>7, <2>9, EmptyRecords DEF ReadStates
  <2>11. /\ new.phase = "sent" /\ new.query = query /\ new.answer = NoAnswer
         /\ new.items = Collected(read).items /\ new.taken = Collected(read).taken
         /\ new.outcome = "none"
    BY <1>1 DEF ReadStates
  <2> HIDE DEF new
  <2>12. TakenInv(new)
    <3>1. new.query.page - 1 = read.query.page /\ new.query.size = FixedSize
      BY <2>3, <2>7, <2>11
    <3>2. (new.query.page - 1) * FixedSize = read.query.page * FixedSize
      BY <3>1
    <3>3. new.taken <= (new.query.page - 1) * FixedSize
          /\ (new.query.page - 1) * FixedSize <= MaxRows
      BY <2>7, <2>8, <2>11, <3>2
    <3>4. new.query.size = FixedSize
      BY <3>1
    <3>5. view = "active"
      BY <2>2
    <3>. QED BY Zenon, <3>3, <3>4, <3>5 DEF TakenInv
  <2>13. AnswerInv(NoAnswer) /\ NoAnswer.total <= MaxRows
    BY <1>1, NoReadInv, Limits DEF NoAnswer
  <2>14. new.query.page <= Reach
    BY <2>5, <2>11
  <2>15. ReadInv(new)
    BY <2>7, <2>11, <2>12, <2>13, <2>14 DEF ReadInv
  <2>. QED BY <2>1, <2>10, <2>15
<1>. QED BY <1>2, <1>3

LEMMA ContinueTypes ==
    ASSUME TypeInv, NEW r \in Reads, Continue(r)
    PROVE  TypeInv'
<1> DEFINE read == reads[r]
<1>0. /\ read \in ReadStates /\ ReadInv(read) /\ reads \in [Reads -> ReadStates]
      /\ moves \in Nat /\ changes \in Nat /\ asked \in Queries /\ due \in BOOLEAN
      /\ shown \in Shown /\ shown.data \in Answers /\ mutation \in Mutations
  BY TypeFacts
<1>1. UNCHANGED <<view, form, source, rows, changes, moves>>
  BY DEF Continue
<1>2. CASE (Repeat(r) \/ NextPage(r)) /\ UNCHANGED <<asked, due, target, shown, mutation>>
  <2>1. reads[r].phase = "answered"
    BY DEF Continue
  <2>2. PICK new \in ReadStates : ReadInv(new) /\ reads' = [reads EXCEPT ![r] = new]
    BY <1>2, <2>1, GoesOnTypes
  <2>3. due' \in BOOLEAN
    BY <1>0, <1>2
  <2>. QED BY <1>1, <1>2, <2>2, <2>3, OneReadKept, OnlyReads
<1>3. CASE Finish(r)
  <2>1. reads' = [reads EXCEPT ![r] = NoRead]
    BY <1>3 DEF Finish
  <2>2. reads' \in [Reads -> ReadStates] /\ \A q \in Reads : ReadInv(reads[q])'
    BY <1>0, <1>1, <2>1, EmptyRecords, NoReadInv, OneReadKept
  <2>3. CASE UNCHANGED <<asked, due, target, shown, mutation>>
    <3>1. due' \in BOOLEAN
      BY <1>0, <2>3
    <3>. QED BY <1>1, <2>2, <2>3, <3>1, OnlyReads
  <2>4. CASE Present(read) /\ BeyondLastPage(read)
    <3> DEFINE page == [page |-> read.answer.pages, size |-> read.query.size]
    <3>1. /\ view = "list" /\ asked' = [asked EXCEPT !.page = read.answer.pages]
          /\ due' = (due \/ asked' # asked) /\ target' = page
          /\ shown' = Loading /\ mutation' = NoMutation
      BY <2>4 DEF Present, BeyondLastPage
    <3>2. read.answer.pages \in 1..MaxRows /\ read.query.size \in Sizes
      BY <1>0, ReadFields, AnswerFields
    <3>3. read.answer.pages \in PageNumbers /\ read.answer.pages <= Reach /\ 1 <= Reach
      BY <1>0, <3>2, Horizon, Limits DEF PageNumbers
    <3>4. asked' \in Queries /\ target' \in Queries /\ asked'.page = read.answer.pages
          /\ target'.page = read.answer.pages
      BY <1>0, <3>1, <3>2, <3>3 DEF Queries
    <3>5. due' \in BOOLEAN
      BY <1>0, <3>1
    <3>6. PagesTypeOK'
      BY <1>1, <2>2, <3>1, <3>4, <3>5, EmptyRecords DEF TypeInv, PagesTypeOK
    <3>7. Reach' = Reach /\ Latest' = Latest
      BY <1>1 DEF Reach, Latest
    <3>8. ControlsInv'
      <4>1. view' = "list" /\ asked'.page <= Reach /\ source'.page <= Reach /\ target'.page <= Reach
        BY <1>1, <3>1, <3>3, <3>4 DEF TypeInv, ControlsInv
      <4>2. mutation'.phase = "none" /\ mutation'.page = 1 /\ mutation'.last = FALSE
        BY <3>1 DEF NoMutation
      <4>. QED BY <3>3, <3>7, <4>1, <4>2 DEF ControlsInv
    <3>9. WritesInv'
      <4>1. mutation'.phase = "none"
        BY <3>1 DEF NoMutation
      <4>2. changes <= MaxChanges + moves
        BY <1>0, Limits DEF TypeInv, WritesInv
      <4>3. changes + 0 <= MaxChanges + moves
        BY <1>0, <4>2
      <4>. QED BY <1>1, <3>7, <4>1, <4>3 DEF TypeInv, WritesInv
    <3>10. ShownInv'
      <4>1. AnswerInv(NoAnswer) /\ NoAnswer.total <= MaxRows /\ NoAnswer \in Answers
        BY <1>0, NoReadInv, EmptyRecords, Limits DEF NoAnswer
      <4>2. shown'.data = NoAnswer
        BY <3>1 DEF Loading
      <4>. QED BY <1>0, <1>1, <4>1, <4>2, ShownInvKept
    <3>. QED BY <2>2, <3>6, <3>8, <3>9, <3>10 DEF TypeInv
  <2>5. CASE Present(read) /\ ~BeyondLastPage(read)
    <3> DEFINE gathered == Gathered(read)
    <3>1. /\ shown' = CASE Outcome(read) = "success" ->
                            Ready(IF view = "active" THEN gathered ELSE read.answer)
                       [] Outcome(read) = "not_found" /\ view \in RowViews ->
                            [Loading EXCEPT !.type = "not_found"]
                       [] OTHER -> [Loading EXCEPT !.type = "error"]
          /\ mutation' \in {NoMutation, mutation}
          /\ UNCHANGED <<asked, due, target>>
      BY <2>5 DEF Present, Unmounted
    <3>2. Outcome(read) = "success" => read.outcome = "success"
      BY DEF Outcome
    <3>3. ASSUME view = "active", read.outcome = "success"
          PROVE  gathered \in Answers /\ AnswerInv(gathered)
      <4>1. /\ Collected(read).items \in [Ids -> Versions]
            /\ \A row \in Ids : Collected(read).items[row] <= Latest
            /\ Collected(read).taken \in Nat
            /\ Collected(read).taken <= read.query.page * FixedSize
            /\ read.query.page * FixedSize <= MaxRows + FixedSize
        BY <1>0, <3>3, CollectedTypes
      <4>2. Collected(read).taken \in 0..(MaxRows + FixedSize)
        <5> DEFINE high == read.query.page * FixedSize
                   taken == Collected(read).taken
        <5>1. high \in Int
          <6>1. read.query.page \in Nat /\ FixedSize \in Nat
            BY <1>0, ReadFields, Limits
          <6>. QED BY <6>1
        <5>2. high <= MaxRows + FixedSize /\ taken \in Nat /\ taken <= high
          BY <4>1
        <5> HIDE DEF high, taken
        <5>3. taken \in 0..(MaxRows + FixedSize)
          BY <5>1, <5>2, Limits
        <5>. QED BY <5>3 DEF taken
      <4>3. 1 <= Reach
        BY <1>0, Horizon
      <4>. QED BY <4>1, <4>2, <4>3, Ranges, Limits DEF Gathered, Answers, AnswerInv
    <3>4. NoAnswer \in Answers /\ AnswerInv(NoAnswer) /\ NoAnswer.total <= MaxRows
      BY <1>0, EmptyRecords, NoReadInv, Limits DEF NoAnswer
    <3>5. read.answer \in Answers /\ AnswerInv(read.answer) /\ read.answer.total <= MaxRows
      BY <1>0, ReadFields DEF ReadInv
    <3>6. \E data \in Answers : AnswerInv(data) /\ (view # "active" => data.total <= MaxRows)
             /\ \E type \in {"ready", "not_found", "error"} : shown' = [type |-> type, data |-> data]
      <4> HIDE DEF gathered
      <4>1. CASE Outcome(read) = "success"
        <5>1. shown' = [type |-> "ready", data |-> IF view = "active" THEN gathered ELSE read.answer]
          BY <3>1, <4>1 DEF Ready
        <5>. QED BY <3>2, <3>3, <3>5, <4>1, <5>1
      <4>2. CASE Outcome(read) = "not_found" /\ view \in RowViews
        <5>1. shown' = [type |-> "not_found", data |-> NoAnswer]
          BY <3>1, <4>2 DEF Loading
        <5>. QED BY <3>4, <5>1
      <4>3. CASE Outcome(read) # "success" /\ ~(Outcome(read) = "not_found" /\ view \in RowViews)
        <5>1. shown' = [type |-> "error", data |-> NoAnswer]
          BY <3>1, <4>3 DEF Loading
        <5>. QED BY <3>4, <5>1
      <4>. QED BY <4>1, <4>2, <4>3
    <3>7. PICK data \in Answers : AnswerInv(data) /\ (view # "active" => data.total <= MaxRows)
             /\ \E type \in {"ready", "not_found", "error"} : shown' = [type |-> type, data |-> data]
      BY <3>6
    <3>8. shown' \in Shown /\ shown'.data = data
      BY <3>7 DEF Shown
    <3>9. mutation' \in Mutations
      BY <1>0, <3>1, EmptyRecords
    <3>10. PagesTypeOK'
      BY <1>1, <2>2, <3>1, <3>8, <3>9 DEF TypeInv, PagesTypeOK
    <3>11. Reach' = Reach /\ Latest' = Latest
      BY <1>1 DEF Reach, Latest
    <3>12. ControlsInv' /\ WritesInv'
      <4>1. CASE mutation' = mutation
        BY <1>1, <3>1, <3>11, <4>1 DEF TypeInv, ControlsInv, WritesInv
      <4>2. CASE mutation' = NoMutation
        <5>1. mutation'.phase = "none" /\ mutation'.page = 1 /\ mutation'.last = FALSE /\ 1 <= Reach
          BY <1>0, <4>2, Horizon DEF NoMutation
        <5>2. ControlsInv'
          BY <1>1, <3>1, <3>11, <5>1 DEF TypeInv, ControlsInv
        <5>3. changes + 0 <= MaxChanges + moves
          BY <1>0, Limits DEF TypeInv, WritesInv
        <5>4. WritesInv'
          BY <1>1, <3>11, <5>1, <5>3 DEF TypeInv, WritesInv
        <5>. QED BY <5>2, <5>4
      <4>. QED BY <3>1, <4>1, <4>2
    <3>13. ShownInv'
      BY <1>0, <1>1, <3>7, <3>8, ShownInvKept
    <3>. QED BY <2>2, <3>10, <3>12, <3>13 DEF TypeInv
  <2>. QED BY <1>3, <2>3, <2>4, <2>5 DEF Finish
<1>. QED BY <1>2, <1>3 DEF Continue

\* A step of the user or the router, which leaves the reads and the rows alone.
LEMMA MovedTypes ==
    ASSUME TypeInv, UNCHANGED <<view, form, reads, rows, changes>>,
           moves' = moves \/ (moves' = moves + 1 /\ moves < MaxMoves)
    PROVE  /\ reads' \in [Reads -> ReadStates] /\ \A r \in Reads : ReadInv(reads[r])'
           /\ view' \in Views \cup {"left"} /\ form' \in FormStates
           /\ rows' \in [Ids -> Versions] /\ changes' \in 0..(MaxChanges + MaxMoves)
           /\ moves' \in 0..MaxMoves /\ moves' \in Nat /\ changes' \in Nat
           /\ moves <= moves' /\ changes <= changes'
           /\ Reach <= Reach' /\ Reach \in Nat /\ Reach' \in Nat /\ Latest' = Latest
           /\ (mutation'.phase = "none" => WritesInv')
           /\ (mutation' = mutation => WritesInv')
<1>1. /\ moves \in Nat /\ changes \in Nat /\ moves <= MaxMoves
      /\ reads \in [Reads -> ReadStates]
      /\ \A r \in Reads : reads[r] \in ReadStates /\ ReadInv(reads[r])
  BY TypeFacts
<1>2. moves' \in Nat /\ moves <= moves' /\ changes' \in Nat /\ changes <= changes'
      /\ moves' \in 0..MaxMoves
  BY <1>1, Limits
<1>3. \A r \in Reads : ReadInv(reads[r])'
  <2>1. SUFFICES ASSUME NEW r \in Reads PROVE ReadInv(reads[r])'
    OBVIOUS
  <2>2. reads[r] \in ReadStates /\ ReadInv(reads[r]) /\ reads'[r] = reads[r]
    BY <1>1
  <2>. QED BY <1>1, <1>2, <2>2, ReadInvKept
<1>4. Reach <= Reach' /\ Reach \in Nat /\ Reach' \in Nat
  BY <1>1, <1>2, LaterHorizon
<1>5. Latest' = Latest
  BY DEF Latest
<1>6. \A m \in {0, 1} : changes + m <= MaxChanges + moves => changes + m <= MaxChanges + moves'
  BY <1>1, Limits
<1>7. changes + 0 <= MaxChanges + moves'
  <2>1. changes + 0 <= MaxChanges + moves
    BY <1>1, Limits DEF TypeInv, WritesInv
  <2>. QED BY <1>6, <2>1
<1>8. mutation'.phase = "none" => WritesInv'
  <2>1. \A row \in Ids : rows'[row] <= Latest'
    BY <1>5 DEF TypeInv, WritesInv
  <2>. QED BY <1>7, <2>1 DEF WritesInv
<1>9. mutation' = mutation => WritesInv'
  <2>1. ASSUME mutation' = mutation PROVE WritesInv'
    <3>1. changes' + (IF mutation'.phase = "sent" THEN 1 ELSE 0) <= MaxChanges + moves'
      <4>1. changes + (IF mutation.phase = "sent" THEN 1 ELSE 0) <= MaxChanges + moves
        BY DEF TypeInv, WritesInv
      <4>2. CASE mutation.phase = "sent"
        <5>1. changes + 1 <= MaxChanges + moves'
          BY <1>6, <4>1, <4>2
        <5>. QED BY <2>1, <4>2, <5>1
      <4>3. CASE mutation.phase # "sent"
        BY <1>7, <2>1, <4>3
      <4>. QED BY <4>2, <4>3
    <3>2. mutation'.phase = "sent" => moves' >= 1
      <4>1. mutation.phase = "sent" => moves >= 1
        BY DEF TypeInv, WritesInv
      <4>2. moves >= 1 => moves' >= 1
        BY <1>1
      <4>. QED BY <2>1, <4>1, <4>2
    <3>. QED BY <1>5, <2>1, <3>1, <3>2 DEF TypeInv, WritesInv
  <2>. QED BY <2>1
<1>10. view' \in Views \cup {"left"} /\ form' \in FormStates /\ rows' \in [Ids -> Versions]
       /\ changes' \in 0..(MaxChanges + MaxMoves) /\ reads' \in [Reads -> ReadStates]
  BY DEF TypeInv, PagesTypeOK
<1>. QED BY <1>2, <1>3, <1>4, <1>5, <1>8, <1>9, <1>10

LEMMA LoadingTypes ==
    ASSUME moves \in Nat, changes \in Nat, moves' \in Nat, changes' \in Nat,
           moves <= moves', changes <= changes', shown' = Loading
    PROVE  shown' \in Shown /\ ShownInv'
<1>1. NoAnswer \in Answers /\ AnswerInv(NoAnswer) /\ NoAnswer.total <= MaxRows
  BY NoReadInv, EmptyRecords, Limits DEF NoAnswer
<1>2. shown'.data = NoAnswer
  BY DEF Loading
<1>. QED BY <1>1, <1>2, ShownInvKept, EmptyRecords

\* What is shown is kept while the view is.
LEMMA ShownKept ==
    ASSUME TypeInv, moves' \in Nat, changes' \in Nat, moves <= moves', changes <= changes',
           view' = view, shown' = shown
    PROVE  shown' \in Shown /\ ShownInv'
<1>1. /\ moves \in Nat /\ changes \in Nat /\ shown \in Shown /\ shown.data \in Answers
      /\ AnswerInv(shown.data) /\ (view # "active" => shown.data.total <= MaxRows)
  BY TypeFacts DEF TypeInv, ShownInv
<1>. QED BY <1>1, ShownInvKept

\* The controls come to at most one page further than where the view has been.
LEMMA ControlsKept ==
    ASSUME TypeInv, view' = view, Reach <= Reach', Reach \in Nat, Reach' \in Nat,
           asked' \in Queries, asked'.page <= Reach', source' = source \/ source' = target,
           target \in Queries \/ source' = source,
           view = "active" => asked' = asked,
           target' \notin {NULL, Away} => view = "list" /\ target' \in Queries /\ target'.page <= Reach',
           mutation' = mutation \/ mutation' = NoMutation
    PROVE  ControlsInv'
<1>1. /\ source \in Queries /\ mutation \in Mutations
      /\ source.page <= Reach /\ mutation.page <= Reach
      /\ (target \notin {NULL, Away} => target.page <= Reach)
      /\ (mutation.phase # "none" => view \in {"list", "details"})
      /\ (view = "active" => asked = [page |-> 1, size |-> FixedSize])
      /\ (mutation.last => mutation.page > 1)
  BY TypeFacts DEF TypeInv, ControlsInv
<1>2. source'.page <= Reach'
  <2>1. source.page \in Nat /\ (target \in Queries => target.page \in Nat)
    BY <1>1, Ranges DEF Queries
  <2>2. target \in Queries => target \notin {NULL, Away}
    BY Targets
  <2>. QED BY <1>1, <2>1, <2>2
<1>3. mutation'.page <= Reach' /\ (mutation'.phase # "none" => view' \in {"list", "details"})
      /\ (mutation'.last => mutation'.page > 1)
  <2>1. mutation.page \in Nat
    BY <1>1, Ranges DEF Mutations
  <2>2. CASE mutation' = mutation
    BY <1>1, <2>1, <2>2
  <2>3. CASE mutation' = NoMutation
    <3>1. mutation'.page = 1 /\ mutation'.phase = "none" /\ mutation'.last = FALSE
      BY <2>3 DEF NoMutation
    <3>2. 1 <= Reach'
      <4>1. asked'.page \in Nat \ {0}
        BY Ranges DEF Queries
      <4>2. \A p \in Nat \ {0}, q \in Nat : p <= q => 1 <= q
        OBVIOUS
      <4>. QED BY <4>1, <4>2
    <3>. QED BY <3>1, <3>2
  <2>. QED BY <2>2, <2>3
<1>. QED BY <1>1, <1>2, <1>3 DEF ControlsInv

LEMMA RetryTypes ==
    ASSUME TypeInv, Retry
    PROVE  TypeInv'
<1>1. UNCHANGED <<view, target, form, asked, source, reads, rows, changes, moves, mutation>>
      /\ due' = TRUE /\ (shown' = shown \/ shown' = Loading)
  BY DEF Retry
<1>2. /\ reads' \in [Reads -> ReadStates] /\ (\A r \in Reads : ReadInv(reads[r])') /\ WritesInv'
      /\ moves' \in Nat /\ changes' \in Nat /\ moves <= moves' /\ changes <= changes'
  BY <1>1, MovedTypes
<1>3. shown' \in Shown /\ ShownInv'
  BY <1>1, <1>2, TypeFacts, LoadingTypes, ShownKept
<1>4. ControlsInv'
  BY <1>1 DEF TypeInv, ControlsInv, Reach
<1>5. PagesTypeOK'
  BY <1>1, <1>3 DEF TypeInv, PagesTypeOK
<1>. QED BY <1>2, <1>3, <1>4, <1>5 DEF TypeInv

\* A page the controls offer is at most one further.
LEMMA OfferedTypes ==
    ASSUME TypeInv, moves < MaxMoves, NEW page \in OfferedPages
    PROVE  page \in Queries /\ page.page <= Reach + 1
<1> DEFINE data == shown.data
           from == IF view = "checks" THEN asked.page ELSE data.page
           back == IF from = 1 THEN 1 ELSE from - 1
           next == IF view = "history" \/ from < data.pages THEN from + 1 ELSE data.pages
           size == IF view = "history" THEN data.size ELSE asked.size
<1>1. /\ moves \in Nat /\ asked \in Queries /\ data \in Answers
      /\ asked.page <= Reach /\ data.page <= Reach /\ Reach = MaxRows + moves
  BY TypeFacts, Horizon DEF TypeInv, ControlsInv, ShownInv, AnswerInv
<1>2. /\ asked.page \in Nat \ {0} /\ asked.size \in Sizes
      /\ data.page \in Nat \ {0} /\ data.pages \in 1..MaxRows
  BY <1>1, AnswerFields, Ranges DEF Queries
<1>3. from \in Nat \ {0} /\ from <= Reach
  BY <1>1, <1>2
<1> HIDE DEF from
<1>4. back \in 1..(Reach + 1) /\ next \in 1..(Reach + 1) /\ 1 \in 1..(Reach + 1)
  BY <1>1, <1>2, <1>3, Limits
<1>5. 1..(Reach + 1) \subseteq PageNumbers
  BY <1>1, Limits DEF PageNumbers
<1>6. page \in [page: (IF data.page = 1 THEN {} ELSE {back})
                        \cup (IF data.page = data.pages THEN {} ELSE {next}),
                size: {asked.size}]
      \/ page \in [page: {1}, size: PageSizes \ {size}]
  <2>1. OfferedPages = [page: (IF data.page = 1 THEN {} ELSE {back})
                        \cup (IF data.page = data.pages THEN {} ELSE {next}),
                size: {asked.size}]
        \cup (IF view = "checks" THEN {} ELSE [page: {1}, size: PageSizes \ {size}])
    BY DEF OfferedPages, from
  <2> HIDE DEF data, back, next, size
  <2>. QED BY <2>1
<1> HIDE DEF data, back, next, size
<1>7. page \in [page: 1..(Reach + 1), size: Sizes]
  BY <1>2, <1>4, <1>6, Ranges
<1>. QED BY <1>1, <1>5, <1>7 DEF Queries

LEMMA ChangePageTypes ==
    ASSUME TypeInv, ChangePage
    PROVE  TypeInv'
<1>1. /\ view \in {"list", "checks", "history"} /\ moves < MaxMoves /\ moves' = moves + 1
      /\ UNCHANGED <<view, form, source, reads, rows, changes, mutation>>
      /\ (shown' = shown \/ shown' = Loading)
  BY DEF ChangePage
<1>2. PICK page \in OfferedPages :
        /\ asked' = page /\ due' = (due \/ page # asked)
        /\ target' = IF view = "list" THEN page ELSE target
  BY DEF ChangePage
<1>3. page \in Queries /\ page.page <= Reach + 1
  BY <1>1, OfferedTypes
<1>4. /\ reads' \in [Reads -> ReadStates] /\ (\A r \in Reads : ReadInv(reads[r])') /\ WritesInv'
      /\ view' \in Views \cup {"left"} /\ form' \in FormStates
      /\ rows' \in [Ids -> Versions] /\ changes' \in 0..(MaxChanges + MaxMoves)
      /\ moves' \in 0..MaxMoves
      /\ moves' \in Nat /\ changes' \in Nat /\ moves <= moves' /\ changes <= changes'
      /\ Reach <= Reach' /\ Reach \in Nat /\ Reach' \in Nat
  BY <1>1, MovedTypes
<1>5. Reach' = Reach + 1
  <2>1. Reach' = MaxRows + (moves + 1) /\ Reach = MaxRows + moves
    BY <1>1 DEF Reach
  <2>. QED BY <2>1, TypeFacts, Limits
<1>6. shown' \in Shown /\ ShownInv'
  BY <1>1, <1>4, TypeFacts, LoadingTypes, ShownKept
<1>7. target' \in Queries \cup {Away, NULL} /\ due' \in BOOLEAN
  BY <1>2, <1>3, TypeFacts
<1>8. ControlsInv'
  <2>1. asked' \in Queries /\ asked'.page <= Reach'
    BY <1>2, <1>3, <1>5
  <2>2. target' \notin {NULL, Away} => view = "list" /\ target' \in Queries /\ target'.page <= Reach'
    <3>1. target \notin {NULL, Away} => view = "list"
      BY DEF TypeInv, ControlsInv
    <3>. QED BY <1>2, <1>3, <1>5, <3>1
  <2>3. view # "active"
    BY <1>1
  <2>. QED BY <1>1, <1>4, <2>1, <2>2, <2>3, ControlsKept
<1>9. PagesTypeOK'
  BY <1>1, <1>2, <1>3, <1>4, <1>6, <1>7 DEF TypeInv, PagesTypeOK
<1>. QED BY <1>4, <1>6, <1>8, <1>9 DEF TypeInv

LEMMA NavigateTypes ==
    ASSUME TypeInv, Navigate
    PROVE  TypeInv'
<1>1. /\ view = "list" /\ moves < MaxMoves /\ moves' = moves + 1
      /\ target' \in [page: 1..MaxRows, size: PageSizes]
      /\ UNCHANGED <<view, form, asked, source, shown, due, reads, rows, changes, mutation>>
  BY Rooms DEF Navigate
<1>2. /\ reads' \in [Reads -> ReadStates] /\ (\A r \in Reads : ReadInv(reads[r])') /\ WritesInv'
      /\ moves' \in 0..MaxMoves
      /\ moves' \in Nat /\ changes' \in Nat /\ moves <= moves' /\ changes <= changes'
      /\ Reach <= Reach' /\ Reach \in Nat /\ Reach' \in Nat
  BY <1>1, MovedTypes
<1>3. shown' \in Shown /\ ShownInv'
  BY <1>1, <1>2, ShownKept
<1>4. target' \in Queries /\ target'.page \in 1..MaxRows
  <2>1. 1..MaxRows \subseteq PageNumbers
    BY Limits DEF PageNumbers
  <2>. QED BY <1>1, <2>1, Ranges DEF Queries
<1>5. asked \in Queries /\ asked.page <= Reach /\ asked.page \in Nat
  BY TypeFacts, Ranges DEF TypeInv, ControlsInv, Queries
<1>6. target'.page <= Reach
  <2>1. Reach = MaxRows + moves /\ moves \in Nat
    BY TypeFacts DEF Reach
  <2>2. \A p \in 1..MaxRows : p <= Reach
    BY <2>1, Limits
  <2>. QED BY <1>4, <2>2
<1>7. asked'.page <= Reach' /\ target'.page <= Reach'
  <2>1. \A p \in Nat : p <= Reach => p <= Reach'
    BY <1>2
  <2>2. target'.page \in Nat
    BY <1>4
  <2>. QED BY <1>1, <1>5, <1>6, <2>1, <2>2
<1>8. ControlsInv'
  BY <1>1, <1>2, <1>4, <1>5, <1>7, ControlsKept
<1>9. PagesTypeOK'
  BY <1>1, <1>2, <1>3, <1>4 DEF TypeInv, PagesTypeOK
<1>. QED BY <1>2, <1>3, <1>8, <1>9 DEF TypeInv

LEMMA DeliverTypes ==
    ASSUME TypeInv, Deliver
    PROVE  TypeInv'
<1>0. /\ target # NULL /\ target' = NULL /\ UNCHANGED <<rows, changes, moves>>
      /\ moves \in Nat /\ changes \in Nat /\ moves <= moves /\ changes <= changes
      /\ Reach' = Reach /\ Latest' = Latest /\ Reach \in Nat \ {0}
  BY TypeFacts, Horizon DEF Deliver, Reach, Latest
<1>1. CASE target = Away
  <2>1. /\ view' = "left" /\ due' = FALSE /\ reads' = [r \in Reads |-> NoRead]
        /\ mutation' = NoMutation /\ form' = NewForm /\ shown' = Loading
        /\ UNCHANGED <<asked, source>>
    BY <1>1 DEF Deliver
  <2>2. shown' \in Shown /\ ShownInv'
    BY <1>0, <2>1, LoadingTypes
  <2>3. \A r \in Reads : ReadInv(reads[r])'
    <3>1. NoRead \in ReadStates /\ ReadInv(NoRead) /\ NoRead.taken = 0
      BY <1>0, EmptyRecords, NoReadInv DEF NoRead
    <3>2. \A r \in Reads : reads'[r] = NoRead
      BY <2>1
    <3>. QED BY <1>0, <2>1, <3>1, <3>2, ReadInvKept
  <2>4. PagesTypeOK'
    BY <1>0, <2>1, <2>2, EmptyRecords DEF TypeInv, PagesTypeOK
  <2>5. mutation'.phase = "none" /\ mutation'.page = 1 /\ mutation'.last = FALSE
    BY <2>1 DEF NoMutation
  <2>6. ControlsInv'
    BY <1>0, <2>1, <2>5 DEF TypeInv, ControlsInv
  <2>7. WritesInv'
    <3>1. changes + 0 <= MaxChanges + moves
      BY <1>0, Limits DEF TypeInv, WritesInv
    <3>. QED BY <1>0, <2>5, <3>1 DEF TypeInv, WritesInv
  <2>. QED BY <2>2, <2>3, <2>4, <2>6, <2>7 DEF TypeInv
<1>2. CASE target # Away
  <2>1. target \in Queries /\ view = "list" /\ target.page <= Reach
    BY <1>0, <1>2, TypeFacts DEF TypeInv, ControlsInv
  <2>2. /\ UNCHANGED <<view, form, reads>>
        /\ \/ UNCHANGED <<asked, source, shown, due, mutation>>
           \/ /\ source' = target /\ asked' = target /\ due' = (due \/ target # asked)
              /\ shown' = Loading /\ mutation' = NoMutation
    BY <1>2 DEF Deliver
  <2>3. /\ reads' \in [Reads -> ReadStates] /\ (\A r \in Reads : ReadInv(reads[r])')
        /\ (mutation'.phase = "none" => WritesInv') /\ (mutation' = mutation => WritesInv')
    BY <1>0, <2>2, MovedTypes
  <2>4. mutation' = mutation \/ mutation'.phase = "none"
    BY <2>2 DEF NoMutation
  <2>5. shown' \in Shown /\ ShownInv'
    BY <1>0, <2>2, LoadingTypes, ShownKept
  <2>6. asked' \in Queries /\ asked'.page <= Reach /\ source' \in Queries /\ due' \in BOOLEAN
        /\ mutation' \in Mutations
    BY <2>1, <2>2, TypeFacts, EmptyRecords DEF TypeInv, ControlsInv
  <2>7. ControlsInv'
    BY <1>0, <2>1, <2>2, <2>6, ControlsKept
  <2>8. PagesTypeOK'
    BY <1>0, <2>2, <2>3, <2>5, <2>6 DEF TypeInv, PagesTypeOK
  <2>. QED BY <2>3, <2>4, <2>5, <2>7, <2>8 DEF TypeInv
<1>. QED BY <1>1, <1>2

\* A write by anyone.
LEMMA WriteTypes ==
    ASSUME TypeInv, NEW row \in Ids, NEW version \in {0, changes + 2}, Write(row, version),
           UNCHANGED <<view, moves>>, changes + 1 <= MaxChanges + moves
    PROVE  /\ rows' \in [Ids -> Versions] /\ \A other \in Ids : rows'[other] <= Latest'
           /\ changes' = changes + 1 /\ Latest' = changes + 2
           /\ changes' \in 0..(MaxChanges + MaxMoves)
           /\ moves' \in Nat /\ changes' \in Nat /\ moves <= moves' /\ changes <= changes'
           /\ Reach' = Reach
           /\ reads' \in [Reads -> ReadStates] /\ \A r \in Reads : ReadInv(reads[r])'
<1>1. /\ moves \in Nat /\ changes \in Nat /\ moves <= MaxMoves
      /\ rows \in [Ids -> Versions] /\ (\A other \in Ids : rows[other] <= Latest)
      /\ reads \in [Reads -> ReadStates]
      /\ \A r \in Reads : reads[r] \in ReadStates /\ ReadInv(reads[r])
  BY TypeFacts DEF TypeInv, WritesInv
<1>2. changes' = changes + 1 /\ rows' = [rows EXCEPT ![row] = version]
      /\ reads' = [r \in Reads |->
                     IF view = "active" /\ Disturbs(row, version, reads[r])
                     THEN [reads[r] EXCEPT !.undisturbed = FALSE] ELSE reads[r]]
  BY DEF Write
<1>3. changes + 1 \in 0..(MaxChanges + MaxMoves) /\ changes + 2 \in Versions
      /\ changes + 1 \in Nat /\ changes <= changes + 1
  BY <1>1, Limits DEF Versions
<1>4. moves' \in Nat /\ changes' \in Nat /\ moves <= moves' /\ changes <= changes'
      /\ changes' \in 0..(MaxChanges + MaxMoves)
  BY <1>1, <1>2, <1>3
<1>5. Latest' = changes + 2 /\ Latest = changes + 1 /\ Reach' = Reach
  <2>1. Latest' = (changes + 1) + 1 /\ Latest = changes + 1
    BY <1>2 DEF Latest
  <2>2. (changes + 1) + 1 = changes + 2
    BY <1>1
  <2>. QED BY <2>1, <2>2 DEF Reach
<1>6. rows' \in [Ids -> Versions] /\ \A other \in Ids : rows'[other] <= changes + 2
  <2>1. version \in Versions /\ version <= changes + 2
    BY <1>1, <1>3, Ranges
  <2>2. \A other \in Ids : rows[other] \in Nat /\ rows[other] <= changes + 1
    BY <1>1, <1>5, Ranges
  <2>3. \A n \in Nat : n <= changes + 1 => n <= changes + 2
    BY <1>1
  <2>. QED BY <1>1, <1>2, <2>1, <2>2, <2>3
<1> DEFINE new == [r \in Reads |-> IF view = "active" /\ Disturbs(row, version, reads[r])
                                   THEN [reads[r] EXCEPT !.undisturbed = FALSE] ELSE reads[r]]
<1>7. ASSUME NEW r \in Reads
      PROVE  new[r] \in ReadStates /\ ReadInv(new[r])
  <2>1. CASE ~(view = "active" /\ Disturbs(row, version, reads[r]))
    BY <1>1, <2>1
  <2>2. CASE view = "active" /\ Disturbs(row, version, reads[r])
    <3> DEFINE read == [reads[r] EXCEPT !.undisturbed = FALSE]
    <3>1. new[r] = read
      BY <2>2
    <3>2. read \in ReadStates
      BY ZenonT(60), <1>1 DEF ReadStates
    <3>3. /\ read.phase = reads[r].phase /\ read.query = reads[r].query
          /\ read.answer = reads[r].answer /\ read.items = reads[r].items
          /\ read.taken = reads[r].taken /\ read.outcome = reads[r].outcome
          /\ read.aborted = reads[r].aborted
      BY <1>1 DEF ReadStates
    <3>4. reads[r].phase # "none"
      BY <2>2 DEF Disturbs
    <3> HIDE DEF read
    <3>5. ReadInv(read)
      BY <1>1, <3>3, <3>4 DEF ReadInv, TakenInv, PageInv
    <3> HIDE DEF new
    <3>. QED BY <3>1, <3>2, <3>5
  <2>. QED BY <2>1, <2>2
<1>8. reads' \in [Reads -> ReadStates] /\ \A r \in Reads : ReadInv(reads[r])'
  <2>1. reads' = new
    BY <1>2
  <2>2. new \in [Reads -> ReadStates]
    <3>1. \A r \in Reads : new[r] \in ReadStates
      BY <1>7
    <3>. QED BY <3>1
  <2> HIDE DEF new
  <2>3. ASSUME NEW r \in Reads PROVE ReadInv(reads[r])'
    <3>1. new[r] \in ReadStates /\ ReadInv(new[r]) /\ reads'[r] = new[r]
      BY <1>7, <2>1
    <3>. QED BY <1>1, <1>4, <3>1, ReadInvKept
  <2>. QED BY <2>1, <2>2, <2>3
<1>. QED BY <1>2, <1>4, <1>5, <1>6, <1>8

LEMMA OtherWritesTypes ==
    ASSUME TypeInv, OtherWrites
    PROVE  TypeInv'
<1>1. PICK row \in Ids, version \in {0, changes + 2} : Write(row, version)
  BY Rooms DEF OtherWrites
<1>2. changes < MaxChanges
      /\ UNCHANGED <<view, target, form, asked, source, shown, due, moves, mutation>>
  BY DEF OtherWrites
<1>3. moves \in Nat /\ changes \in Nat
  BY TypeFacts
<1>4. changes + 1 <= MaxChanges + moves
  BY <1>2, <1>3, Limits
<1>5. /\ rows' \in [Ids -> Versions] /\ (\A other \in Ids : rows'[other] <= Latest')
      /\ changes' = changes + 1 /\ Latest' = changes + 2 /\ changes' \in 0..(MaxChanges + MaxMoves)
      /\ moves' \in Nat /\ changes' \in Nat /\ moves <= moves' /\ changes <= changes'
      /\ Reach' = Reach
      /\ reads' \in [Reads -> ReadStates] /\ \A r \in Reads : ReadInv(reads[r])'
  BY <1>1, <1>2, <1>4, WriteTypes
<1>6. shown' \in Shown /\ ShownInv'
  BY <1>2, <1>5, ShownKept
<1>7. PagesTypeOK' /\ ControlsInv'
  BY <1>2, <1>5 DEF TypeInv, PagesTypeOK, ControlsInv
<1>8. WritesInv'
  <2>1. mutation.phase = "sent" => moves >= 1
    BY DEF TypeInv, WritesInv
  <2>2. (changes + 1) + (IF mutation.phase = "sent" THEN 1 ELSE 0) <= MaxChanges + moves
    BY <1>2, <1>3, <2>1, Limits
  <2>3. (mutation.phase = "answered" /\ mutation.outcome = "success" /\ mutation.kind = "change")
           => mutation.version <= changes + 2
    <3>1. mutation.version \in Nat
      BY TypeFacts, Ranges DEF Mutations
    <3>2. \A n \in Nat : n <= changes + 1 => n <= changes + 2
      BY <1>3
    <3>. QED BY <3>1, <3>2 DEF TypeInv, WritesInv, Latest
  <2>. QED BY <1>2, <1>5, <2>1, <2>2, <2>3 DEF WritesInv
<1>. QED BY <1>5, <1>6, <1>7, <1>8 DEF TypeInv

LEMMA BeginMutationTypes ==
    ASSUME TypeInv, BeginMutation
    PROVE  TypeInv'
<1>1. /\ view \in {"list", "details"} /\ moves < MaxMoves /\ moves' = moves + 1
      /\ UNCHANGED <<view, target, form, asked, source, shown, due, reads, rows, changes>>
  BY DEF BeginMutation
<1>2. PICK kind \in {"change", "delete"}, row \in Held(shown.data.items) :
        LET turns == kind = "delete" /\ Held(shown.data.items) = {row}
                     /\ shown.data.page > 1 IN
        mutation' = [NoMutation EXCEPT
            !.phase = "sent", !.kind = kind, !.row = row, !.last = turns,
            !.page = IF turns THEN shown.data.page ELSE 1]
  BY DEF BeginMutation
<1> DEFINE turns == kind = "delete" /\ Held(shown.data.items) = {row} /\ shown.data.page > 1
<1>3. /\ shown.data \in Answers /\ shown.data.page \in PageNumbers /\ shown.data.page \in Nat
      /\ shown.data.page <= Reach /\ moves \in Nat /\ changes \in Nat
      /\ Reach = MaxRows + moves
  BY TypeFacts, AnswerFields, Horizon DEF TypeInv, ShownInv, AnswerInv
<1>4. row \in Ids /\ turns \in BOOLEAN
  BY <1>2 DEF Held
<1> DEFINE page == IF turns THEN shown.data.page ELSE 1
<1>5. page \in PageNumbers /\ page \in Nat /\ page <= Reach /\ (turns => page > 1)
  BY <1>3, Ranges, Limits
<1> HIDE DEF turns
<1>6. mutation' = [NoMutation EXCEPT !.phase = "sent", !.kind = kind, !.row = row,
                                     !.last = turns, !.page = page]
  BY <1>2 DEF turns
<1> HIDE DEF page
<1>7. mutation' \in Mutations /\ mutation'.phase = "sent" /\ mutation'.page = page
      /\ mutation'.last = turns
  BY <1>4, <1>5, <1>6, EmptyRecords DEF Mutations
<1>8. /\ reads' \in [Reads -> ReadStates] /\ (\A r \in Reads : ReadInv(reads[r])')
      /\ moves' \in 0..MaxMoves
      /\ moves' \in Nat /\ changes' \in Nat /\ moves <= moves' /\ changes <= changes'
      /\ Reach <= Reach' /\ Reach \in Nat /\ Reach' \in Nat /\ Latest' = Latest
  BY <1>1, MovedTypes
<1>9. shown' \in Shown /\ ShownInv'
  BY <1>1, <1>8, ShownKept
<1>10. PagesTypeOK'
  BY <1>1, <1>7, <1>8, <1>9 DEF TypeInv, PagesTypeOK
<1>11. \A n \in Nat : n <= Reach => n <= Reach'
  BY <1>8
<1>12. ControlsInv'
  <2>1. asked.page \in Nat /\ source.page \in Nat /\ asked.page <= Reach /\ source.page <= Reach
    BY TypeFacts, Ranges DEF TypeInv, ControlsInv, Queries
  <2>2. target \notin {NULL, Away} => view = "list" /\ target.page \in Nat /\ target.page <= Reach
    <3>1. target \in Queries \cup {Away, NULL}
      BY TypeFacts
    <3>. QED BY <3>1, Ranges DEF TypeInv, ControlsInv, Queries
  <2>3. asked'.page <= Reach' /\ source'.page <= Reach' /\ mutation'.page <= Reach'
    BY <1>1, <1>5, <1>7, <1>11, <2>1
  <2>4. target' \notin {NULL, Away} => view' = "list" /\ target'.page <= Reach'
    BY <1>1, <1>11, <2>2
  <2>. QED BY <1>1, <1>5, <1>7, <2>3, <2>4 DEF ControlsInv
<1>13. WritesInv'
  <2>1. changes + 1 <= MaxChanges + (moves + 1) /\ moves + 1 >= 1
    <3>1. changes <= MaxChanges + moves
      BY <1>3, Limits DEF TypeInv, WritesInv
    <3>. QED BY <1>3, <3>1, Limits
  <2>. QED BY <1>1, <1>7, <1>8, <2>1 DEF TypeInv, WritesInv
<1>. QED BY <1>8, <1>9, <1>10, <1>12, <1>13 DEF TypeInv

\* What the backend makes of a button.
LEMMA ServedTypes ==
    ASSUME TypeInv,
           NEW exchange \in Faults \cup {IF rows[mutation.row] = 0 THEN Response(404)
                                          ELSE IF mutation.kind = "delete" THEN Response(204)
                                          ELSE Response(200)}
    PROVE  /\ DeleteOutcome(exchange) \in Outcomes /\ ChangeOutcome(exchange) \in Outcomes
           /\ ChangeOutcome(exchange) = "success" /\ mutation.kind # "delete"
                => ~(exchange \in NoResponse) /\ Ok(exchange.status)
<1>1. \A status \in {200, 204, 404} :
         /\ Response(status) \in Exchanges /\ Response(status).status = status
         /\ Response(status) \notin NoResponse
  BY DEF Response, Exchanges, Responses, StatusCodes, NoResponse
<1>2. exchange \in Faults \/ exchange \in {Response(200), Response(204), Response(404)}
  OBVIOUS
<1>3. exchange \in Exchanges
  <2>1. CASE exchange \in Faults
    BY <2>1, FaultsFail
  <2>2. CASE exchange \in {Response(200), Response(204), Response(404)}
    BY <1>1, <2>2
  <2>. QED BY <1>2, <2>1, <2>2
<1>4. DeleteOutcome(exchange) \in Outcomes /\ ChangeOutcome(exchange) \in Outcomes
  <2>1. TRUE \in BOOLEAN
    OBVIOUS
  <2>. QED BY Zenon, <1>3, <2>1, EveryExchangeHasAnOutcome
<1>5. ASSUME ChangeOutcome(exchange) = "success"
      PROVE  ~(exchange \in NoResponse) /\ Ok(exchange.status)
  <2>1. exchange \notin Faults
    BY <1>5, FaultsFail DEF ChangeOutcome
  <2>2. exchange # Response(404)
    <3>1. ReadOutcome(Response(404), FALSE) = ResponseFailure(404)
      BY <1>1 DEF ReadOutcome, Ok
    <3>2. ResponseFailure(404) = "not_found"
      BY DEF ResponseFailure
    <3>. QED BY ZenonT(30), <1>5, <3>1, <3>2 DEF ChangeOutcome
  <2>3. exchange \in {Response(200), Response(204)}
    BY <1>2, <2>1, <2>2
  <2>4. exchange.status \in {200, 204} /\ exchange \notin NoResponse
    BY <1>1, <2>3
  <2>. QED BY <2>4 DEF Ok
<1>. QED BY <1>4, <1>5

LEMMA ServeMutationTypes ==
    ASSUME TypeInv, ServeMutation
    PROVE  TypeInv'
<1>1. mutation.phase = "sent"
      /\ UNCHANGED <<view, target, form, asked, source, shown, due, moves>>
  BY DEF ServeMutation
<1> DEFINE version == IF mutation.kind = "delete" THEN 0 ELSE changes + 2
<1>2. PICK exchange \in Faults \cup {IF rows[mutation.row] = 0 THEN Response(404)
                                      ELSE IF mutation.kind = "delete" THEN Response(204)
                                      ELSE Response(200)} :
        /\ mutation' = [mutation EXCEPT
               !.phase = "answered", !.version = version,
               !.outcome = IF mutation.kind = "delete" THEN DeleteOutcome(exchange)
                           ELSE ChangeOutcome(exchange)]
        /\ \/ /\ rows[mutation.row] # 0
              /\ exchange \in NoResponse \/ Ok(exchange.status)
              /\ Write(mutation.row, version)
           \/ /\ exchange \in NoResponse \/ ~Ok(exchange.status)
              /\ UNCHANGED <<rows, changes, reads>>
  BY DEF ServeMutation
<1>3. /\ moves \in Nat /\ changes \in Nat /\ moves <= MaxMoves /\ mutation \in Mutations
      /\ changes + 1 <= MaxChanges + moves
  BY <1>1, TypeFacts DEF TypeInv, WritesInv
<1>4. version \in {0, changes + 2} /\ version \in Versions
  BY <1>3, Limits DEF Versions
<1>5. mutation.row \in Ids /\ mutation.page \in PageNumbers
  BY <1>3 DEF Mutations
<1> HIDE DEF version
<1> DEFINE outcome == IF mutation.kind = "delete" THEN DeleteOutcome(exchange)
                      ELSE ChangeOutcome(exchange)
<1>6. outcome \in Outcomes
  BY ServedTypes
<1> HIDE DEF outcome
<1>7. mutation' = [mutation EXCEPT !.phase = "answered", !.version = version, !.outcome = outcome]
  BY <1>2 DEF outcome
<1>8. /\ mutation' \in Mutations /\ mutation'.phase = "answered"
      /\ mutation'.outcome = outcome /\ mutation'.version = version
      /\ mutation'.kind = mutation.kind /\ mutation'.page = mutation.page
      /\ mutation'.last = mutation.last
  BY ZenonT(60), <1>3, <1>4, <1>6, <1>7 DEF Mutations
<1>9. Write(mutation.row, version) \/ UNCHANGED <<rows, changes, reads>>
  BY <1>2
<1>10. /\ rows' \in [Ids -> Versions] /\ (\A other \in Ids : rows'[other] <= Latest')
       /\ changes' \in 0..(MaxChanges + MaxMoves)
       /\ moves' \in Nat /\ changes' \in Nat /\ moves <= moves' /\ changes <= changes'
       /\ Reach' = Reach
       /\ reads' \in [Reads -> ReadStates] /\ \A r \in Reads : ReadInv(reads[r])'
  <2>1. CASE Write(mutation.row, version)
    BY <1>1, <1>3, <1>4, <1>5, <2>1, WriteTypes
  <2>2. CASE UNCHANGED <<rows, changes, reads>>
    <3>1. /\ reads' \in [Reads -> ReadStates] /\ (\A r \in Reads : ReadInv(reads[r])')
          /\ rows' \in [Ids -> Versions] /\ changes' \in 0..(MaxChanges + MaxMoves)
          /\ moves' \in Nat /\ changes' \in Nat /\ moves <= moves' /\ changes <= changes'
          /\ Latest' = Latest
      BY <1>1, <2>2, MovedTypes
    <3>. QED BY <1>1, <2>2, <3>1 DEF TypeInv, WritesInv, Reach
  <2>. QED BY <1>9, <2>1, <2>2
<1>11. shown' \in Shown /\ ShownInv'
  BY <1>1, <1>10, ShownKept
<1>12. PagesTypeOK'
  BY <1>1, <1>8, <1>10, <1>11 DEF TypeInv, PagesTypeOK
<1>13. ControlsInv'
  BY <1>1, <1>8, <1>10 DEF TypeInv, ControlsInv
<1>14. WritesInv'
  <2>1. changes' + 0 <= MaxChanges + moves
    <3>1. CASE Write(mutation.row, version)
      <4>1. changes' = changes + 1
        BY <3>1 DEF Write
      <4>2. (changes + 1) + 0 <= MaxChanges + moves
        BY <1>3
      <4>. QED BY <4>1, <4>2
    <3>2. CASE UNCHANGED <<rows, changes, reads>>
      <4>1. changes + 0 <= MaxChanges + moves
        BY <1>3, Limits
      <4>. QED BY <3>2, <4>1
    <3>. QED BY <1>9, <3>1, <3>2
  <2>2. ASSUME outcome = "success", mutation.kind = "change"
        PROVE  version <= Latest'
    <3>1. ChangeOutcome(exchange) = "success" /\ mutation.kind # "delete"
      BY <2>2 DEF outcome
    <3>2. Write(mutation.row, version)
      BY <1>2, <3>1, ServedTypes
    <3>3. Latest' = changes + 2
      BY <1>1, <1>3, <1>4, <1>5, <3>2, WriteTypes
    <3>4. version <= changes + 2
      BY <1>3, <1>4
    <3>. QED BY <3>3, <3>4
  <2>. QED BY <1>1, <1>8, <1>10, <2>1, <2>2 DEF WritesInv
<1>. QED BY <1>10, <1>11, <1>12, <1>13, <1>14 DEF TypeInv

LEMMA FinishMutationTypes ==
    ASSUME TypeInv, FinishMutation
    PROVE  TypeInv'
<1>0. /\ moves \in Nat /\ changes \in Nat /\ moves <= moves /\ changes <= changes
      /\ reads \in [Reads -> ReadStates] /\ mutation \in Mutations
      /\ shown \in Shown /\ shown.data \in Answers
      /\ \A r \in Reads : reads[r] \in ReadStates /\ ReadInv(reads[r])
  BY TypeFacts
<1>1. /\ mutation.phase = "answered"
      /\ UNCHANGED <<view, target, form, asked, source, due, rows, changes, moves>>
  BY DEF FinishMutation
<1>2. Reach' = Reach /\ Latest' = Latest /\ Reach \in Nat
  BY <1>0, <1>1, Horizon DEF Reach, Latest
<1>3. SUFFICES /\ reads' \in [Reads -> ReadStates] /\ (\A r \in Reads : ReadInv(reads[r])')
               /\ shown' \in Shown /\ ShownInv' /\ mutation' \in Mutations
               /\ mutation' = NoMutation \/ (/\ mutation'.phase = "closing"
                                             /\ mutation'.page = mutation.page
                                             /\ mutation'.last = mutation.last)
  <2>1. PagesTypeOK'
    BY <1>1, <1>3 DEF TypeInv, PagesTypeOK
  <2>2. ControlsInv'
    <3>1. CASE mutation' = NoMutation
      BY <1>0, <1>1, <1>2, <3>1, TypeFacts, ControlsKept DEF TypeInv, ControlsInv
    <3>2. CASE mutation'.phase = "closing" /\ mutation'.page = mutation.page
               /\ mutation'.last = mutation.last
      BY <1>1, <1>2, <3>2 DEF TypeInv, ControlsInv
    <3>. QED BY <1>3, <3>1, <3>2
  <2>3. WritesInv'
    <3>1. mutation'.phase \notin {"sent", "answered"}
      BY <1>3 DEF NoMutation
    <3>2. changes + 0 <= MaxChanges + moves
      BY <1>0, Limits DEF TypeInv, WritesInv
    <3>. QED BY <1>1, <1>2, <3>1, <3>2 DEF TypeInv, WritesInv
  <2>. QED BY <1>3, <2>1, <2>2, <2>3 DEF TypeInv
<1>4. CASE UNCHANGED <<shown, reads>>
  <2>1. mutation' = NoMutation \/ mutation' = [mutation EXCEPT !.phase = "closing", !.outcome = "none"]
    BY <1>4 DEF FinishMutation, ShowMutation
  <2>2. mutation' = NoMutation \/ (/\ mutation' \in Mutations /\ mutation'.phase = "closing"
                                   /\ mutation'.page = mutation.page
                                   /\ mutation'.last = mutation.last)
    BY <1>0, <2>1 DEF Mutations
  <2>3. shown' \in Shown /\ ShownInv'
    BY <1>0, <1>1, <1>4, ShownKept
  <2>4. reads' \in [Reads -> ReadStates] /\ \A r \in Reads : ReadInv(reads[r])'
    BY <1>0, <1>1, <1>4, ReadsKept
  <2>. QED BY <2>2, <2>3, <2>4, EmptyRecords
<1>5. CASE ~UNCHANGED <<shown, reads>>
  <2>1. mutation.outcome = "success" /\ mutation.kind # "delete"
    BY <1>1, <1>5 DEF FinishMutation, ShowMutation
  <2>2. /\ mutation' = NoMutation
        /\ shown' = [shown EXCEPT !.data.items[mutation.row] = mutation.version]
        /\ reads' = [r \in Reads |-> IF reads[r].phase = "none" THEN NoRead
                       ELSE [reads[r] EXCEPT !.undisturbed = FALSE]]
    BY <2>1 DEF FinishMutation, ShowMutation
  <2> DEFINE data == [shown.data EXCEPT !.items[mutation.row] = mutation.version]
  <2>3. mutation.row \in Ids /\ mutation.version \in Versions /\ mutation.kind = "change"
    BY <1>0, <2>1 DEF Mutations
  <2>4. mutation.version <= Latest
    BY <1>1, <2>1, <2>3 DEF TypeInv, WritesInv
  <2>5. AnswerInv(shown.data) /\ (view # "active" => shown.data.total <= MaxRows)
    BY DEF TypeInv, ShownInv
  <2>6. shown.data.items \in [Ids -> Versions]
    BY <1>0, AnswerFields
  <2>7. data \in Answers /\ data.page = shown.data.page /\ data.total = shown.data.total
        /\ data.items = [shown.data.items EXCEPT ![mutation.row] = mutation.version]
    BY <1>0, <2>3, <2>6 DEF Answers
  <2>8. shown' = [shown EXCEPT !.data = data]
    BY <1>0, <2>2 DEF Shown
  <2> HIDE DEF data
  <2>9. shown' \in Shown /\ shown'.data = data
    BY <1>0, <2>7, <2>8 DEF Shown
  <2>10. AnswerInv(data)
    BY <2>4, <2>5, <2>6, <2>7 DEF AnswerInv
  <2>11. ShownInv'
    BY <1>0, <1>1, <2>5, <2>7, <2>9, <2>10, ShownInvKept
  <2> DEFINE new == [r \in Reads |-> IF reads[r].phase = "none" THEN NoRead
                       ELSE [reads[r] EXCEPT !.undisturbed = FALSE]]
  <2>12. ASSUME NEW r \in Reads PROVE new[r] \in ReadStates /\ ReadInv(new[r])
    <3>1. CASE reads[r].phase = "none"
      BY <1>0, <3>1, EmptyRecords, NoReadInv
    <3>2. CASE reads[r].phase # "none"
      <4> DEFINE read == [reads[r] EXCEPT !.undisturbed = FALSE]
      <4>1. new[r] = read
        BY <3>2
      <4>2. read \in ReadStates
        BY ZenonT(60), <1>0 DEF ReadStates
      <4>3. /\ read.phase = reads[r].phase /\ read.query = reads[r].query
            /\ read.answer = reads[r].answer /\ read.items = reads[r].items
            /\ read.taken = reads[r].taken /\ read.outcome = reads[r].outcome
            /\ read.aborted = reads[r].aborted
        BY <1>0 DEF ReadStates
      <4> HIDE DEF read
      <4>4. ReadInv(read)
        BY <1>0, <3>2, <4>3 DEF ReadInv, TakenInv, PageInv
      <4> HIDE DEF new
      <4>. QED BY <4>1, <4>2, <4>4
    <3>. QED BY <3>1, <3>2
  <2>13. reads' = new /\ new \in [Reads -> ReadStates]
    <3>1. \A r \in Reads : new[r] \in ReadStates
      BY <2>12
    <3>. QED BY <2>2, <3>1
  <2> HIDE DEF new
  <2>14. reads' \in [Reads -> ReadStates] /\ \A r \in Reads : ReadInv(reads[r])'
    BY <1>1, <2>12, <2>13, ReadsKept
  <2>. QED BY <2>2, <2>9, <2>11, <2>14, EmptyRecords
<1>. QED BY <1>4, <1>5

LEMMA AnnounceDeletionTypes ==
    ASSUME TypeInv, AnnounceDeletion
    PROVE  TypeInv'
<1>0. /\ moves \in Nat /\ changes \in Nat /\ moves <= moves /\ changes <= changes
      /\ mutation \in Mutations /\ asked \in Queries /\ due \in BOOLEAN
      /\ shown \in Shown /\ shown.data \in Answers
  BY TypeFacts
<1>1. /\ mutation.phase = "closing" /\ mutation' = NoMutation
      /\ UNCHANGED <<view, form, source, reads, rows, changes, moves>>
  BY DEF AnnounceDeletion
<1>2. /\ reads' \in [Reads -> ReadStates] /\ (\A r \in Reads : ReadInv(reads[r])') /\ WritesInv'
  BY <1>1, MovedTypes DEF NoMutation
<1>3. Reach' = Reach /\ Reach \in Nat /\ view \in {"list", "details"}
  BY <1>0, <1>1, Horizon DEF Reach, TypeInv, ControlsInv
<1>4. SUFFICES /\ asked' \in Queries /\ asked'.page <= Reach /\ due' \in BOOLEAN
               /\ target' \in Queries \cup {Away, NULL}
               /\ target' \notin {NULL, Away} => view = "list" /\ target'.page <= Reach
               /\ shown' \in Shown /\ ShownInv'
  <2>1. PagesTypeOK'
    BY <1>1, <1>2, <1>4, EmptyRecords DEF TypeInv, PagesTypeOK
  <2>2. view # "active" /\ (target' \notin {NULL, Away} => target' \in Queries)
    BY <1>3, <1>4
  <2>3. ControlsInv'
    BY <1>1, <1>3, <1>4, <2>2, ControlsKept
  <2>. QED BY <1>2, <1>4, <2>1, <2>3 DEF TypeInv
<1>5. /\ asked.page <= Reach /\ (target \notin {NULL, Away} => view = "list" /\ target.page <= Reach)
      /\ target \in Queries \cup {Away, NULL}
  BY TypeFacts DEF TypeInv, ControlsInv
<1>6. CASE view = "details"
  <2>1. target' = Away /\ UNCHANGED <<asked, due, shown>>
    BY <1>6 DEF AnnounceDeletion
  <2>. QED BY <1>0, <1>1, <1>5, <2>1, ShownKept
<1>7. CASE view # "details" /\ mutation.last
  <2> DEFINE page == [asked EXCEPT !.page = mutation.page - 1]
  <2>1. asked' = page /\ target' = page /\ due' = (due \/ page # asked) /\ shown' = Loading
    BY <1>7 DEF AnnounceDeletion
  <2>2. mutation.page \in PageNumbers /\ mutation.page > 1 /\ mutation.page <= Reach
    BY <1>0, <1>7 DEF TypeInv, ControlsInv, Mutations
  <2>3. mutation.page - 1 \in PageNumbers /\ mutation.page - 1 <= Reach
    BY <1>3, <2>2, Limits DEF PageNumbers
  <2>4. page \in Queries /\ page.page <= Reach
    BY <1>0, <2>3 DEF Queries
  <2> HIDE DEF page
  <2>. QED BY <1>0, <1>1, <1>3, <1>7, <2>1, <2>4, LoadingTypes
<1>8. CASE view # "details" /\ ~mutation.last
  <2> DEFINE total == IF shown.data.total = 0 THEN 0 ELSE shown.data.total - 1
             data == [shown.data EXCEPT !.items[mutation.row] = 0, !.total = total,
                                        !.pages = Pages(total, shown.data.size)]
  <2>1. shown' = Ready(data) /\ UNCHANGED <<asked, due, target>>
    BY <1>8 DEF AnnounceDeletion
  <2>2. /\ shown.data.total \in Nat /\ shown.data.total <= MaxRows /\ shown.data.size \in Nat \ {0}
        /\ shown.data.items \in [Ids -> Versions] /\ AnswerInv(shown.data)
    BY <1>0, <1>3, AnswerFields DEF TypeInv, ShownInv
  <2>3. total \in 0..MaxRows /\ total \in 0..(MaxRows + FixedSize) /\ total <= MaxRows
    BY <2>2, Limits
  <2> HIDE DEF total
  <2>4. Pages(total, shown.data.size) \in 1..MaxRows
    BY <2>2, <2>3, PagesInRange
  <2>5. mutation.row \in Ids
    BY <1>0 DEF Mutations
  <2>6. data \in Answers /\ data.page = shown.data.page /\ data.total = total
        /\ data.items = [shown.data.items EXCEPT ![mutation.row] = 0]
    BY <1>0, <2>2, <2>3, <2>4, Ranges DEF Answers
  <2> HIDE DEF data
  <2>7. AnswerInv(data)
    <3>1. 0 <= Latest
      BY <1>0, Horizon
    <3>. QED BY <2>2, <2>6, <3>1 DEF AnswerInv
  <2>8. shown' \in Shown /\ shown'.data = data
    BY <2>1, <2>6 DEF Ready, Shown
  <2>9. ShownInv'
    BY <1>0, <1>1, <2>3, <2>6, <2>7, <2>8, ShownInvKept
  <2>. QED BY <1>0, <1>5, <2>1, <2>8, <2>9
<1>. QED BY <1>6, <1>7, <1>8

\* The form.
LEMMA SaveOutcomesTypes ==
    ASSUME NEW outcome \in SaveOutcomes
    PROVE  outcome \in Outcomes
<1>1. \A status \in {200, 201, 404, 422} : Response(status) \in Exchanges
  BY DEF Response, Exchanges, Responses, StatusCodes
<1>2. \E exchange \in Faults \cup {Response(200), Response(201), Response(404), Response(422)} :
         outcome \in {CreateOutcome(exchange), UpdateOutcome(exchange)}
  BY DEF SaveOutcomes
<1>3. PICK exchange \in Exchanges :
         outcome \in {CreateOutcome(exchange), UpdateOutcome(exchange)}
  <2>1. \A exchange \in Faults : exchange \in Exchanges
    BY FaultsFail
  <2>. QED BY <1>1, <1>2, <2>1
<1>4. CreateOutcome(exchange) \in Outcomes /\ UpdateOutcome(exchange) \in Outcomes
  <2>1. TRUE \in BOOLEAN
    OBVIOUS
  <2>. QED BY Zenon, <2>1, EveryExchangeHasAnOutcome
<1>. QED BY <1>3, <1>4

LEMMA FormTypes ==
    ASSUME form \in FormStates, FormStep
    PROVE  form' \in FormStates /\ (target' = target \/ target' = Away)
<1>1. CASE \E draft \in Drafts : Type(draft)
  BY <1>1 DEF Type, FormStates
<1>2. CASE Submit
  BY <1>2 DEF Submit, FormStates
<1>3. CASE AnswerSave
  <2>1. PICK outcome \in SaveOutcomes : form' = [form EXCEPT !.answer = outcome]
    BY <1>3 DEF AnswerSave
  <2>2. outcome \in Outcomes
    BY SaveOutcomesTypes
  <2>. QED BY <1>3, <2>1, <2>2 DEF AnswerSave, FormStates
<1>4. CASE FinishSave
  BY ZenonT(60), <1>4 DEF FinishSave, FormStates
<1>5. CASE FollowLink
  BY ZenonT(60), <1>5 DEF FollowLink, FormStates
<1>6. CASE KeepEditing
  BY <1>6 DEF KeepEditing, FormStates
<1>7. CASE DiscardChanges
  BY <1>7 DEF DiscardChanges, FormStates
<1>. QED BY <1>1, <1>2, <1>3, <1>4, <1>5, <1>6, <1>7 DEF FormStep

LEMMA UseFormTypes ==
    ASSUME TypeInv, UseForm
    PROVE  TypeInv'
<1>0. /\ moves \in Nat /\ changes \in Nat /\ moves <= moves /\ changes <= changes
      /\ form \in FormStates /\ target \in Queries \cup {Away, NULL}
  BY TypeFacts
<1>1. UNCHANGED <<view, asked, source, shown, due, reads, rows, changes, moves, mutation>>
  BY DEF UseForm
<1>2. form' \in FormStates /\ (target' = target \/ target' = Away)
  BY <1>0, FormTypes DEF UseForm
<1>3. PagesTypeOK'
  BY <1>0, <1>1, <1>2 DEF TypeInv, PagesTypeOK
<1>4. Reach' = Reach /\ Latest' = Latest
  BY <1>1 DEF Reach, Latest
<1>5. ControlsInv'
  BY <1>1, <1>2, <1>4 DEF TypeInv, ControlsInv
<1>6. WritesInv'
  BY <1>1, <1>4 DEF TypeInv, WritesInv
<1>7. shown' \in Shown /\ ShownInv'
  BY <1>0, <1>1, ShownKept
<1>8. \A r \in Reads : ReadInv(reads[r])'
  <2>1. reads \in [Reads -> ReadStates] /\ \A r \in Reads : ReadInv(reads[r])
    BY TypeFacts
  <2>. QED BY <1>1, <2>1, ReadsKept
<1>. QED BY <1>3, <1>5, <1>6, <1>7, <1>8 DEF TypeInv

LEMMA NextTypes ==
    ASSUME TypeInv, [Next]_vars
    PROVE  TypeInv'
<1>1. CASE UNCHANGED vars
  BY <1>1 DEF vars, TypeInv, PagesTypeOK, ControlsInv, WritesInv, ShownInv, AnswerInv,
              ReadInv, TakenInv, PageInv, Reach, Latest
<1>2. CASE Next
  BY <1>2, RunEffectTypes, ServeTypes, ContinueTypes, RetryTypes, ChangePageTypes,
     NavigateTypes, DeliverTypes, OtherWritesTypes, BeginMutationTypes, ServeMutationTypes,
     FinishMutationTypes, AnnounceDeletionTypes, UseFormTypes DEF Next
<1>. QED BY <1>1, <1>2

\* Whatever the sizes, the faults and the interleaving, the state of a view,
\* of its reads and of its buttons keeps its type: the page a view asks for
\* grows by one a move at most, and a collection never takes more rows than its
\* pages hold, though rows come and go between two of them.
THEOREM PagesTypes == Spec => []PagesTypeOK
<1>1. Init => TypeInv
  BY InitTypes
<1>2. TypeInv /\ [Next]_vars => TypeInv'
  BY NextTypes
<1>3. TypeInv => PagesTypeOK
  BY DEF TypeInv
<1>. QED BY <1>1, <1>2, <1>3, PTL DEF Spec

-----------------------------------------------------------------------------
(* What a view at rest shows *)

\* Reads that go on as they were.
LEMMA AskedKept ==
    ASSUME AskedInv,
           \A r \in Reads : /\ Waiting(r)' <=> Waiting(r)
                            /\ Waiting(r) /\ view # "active" => reads'[r].query = reads[r].query,
           UNCHANGED <<view, asked, due>>,
           shown'.type = shown.type, shown'.data.page = shown.data.page,
           shown'.data.size = shown.data.size,
           mutation'.phase # "none" => mutation.phase # "none" \/ shown.type = "ready"
    PROVE  AskedInv'
<1>1. (view # "active" /\ ~due => \A r \in Reads : Waiting(r) => reads[r].query = asked)'
  BY DEF AskedInv
<1>2. (\A r, q \in Reads : Waiting(r) /\ Waiting(q) => r = q)'
  BY DEF AskedInv
<1>3. SettledShowsAsked'
  BY DEF AskedInv, SettledShowsAsked
<1>4. (mutation.phase # "none" => shown.type = "ready")'
  BY DEF AskedInv
<1>. QED BY <1>1, <1>2, <1>3, <1>4 DEF AskedInv

\* A view that has nothing to show yet, and a read effect that has to run if
\* the view asks for anything new.
LEMMA AskedAnew ==
    ASSUME AskedInv, UNCHANGED <<view, reads>>, due' \in BOOLEAN, due \in BOOLEAN,
           ~due' => ~due /\ asked' = asked,
           shown'.type # "ready" \/ (shown' = shown /\ mutation' = mutation),
           shown'.type # "ready" => mutation'.phase = "none"
    PROVE  AskedInv'
<1>1. \A r \in Reads : Waiting(r)' <=> Waiting(r)
  BY DEF Waiting
<1>2. (view # "active" /\ ~due => \A r \in Reads : Waiting(r) => reads[r].query = asked)'
  BY <1>1 DEF AskedInv
<1>3. (\A r, q \in Reads : Waiting(r) /\ Waiting(q) => r = q)'
  BY <1>1 DEF AskedInv
<1>4. SettledShowsAsked'
  BY <1>1 DEF AskedInv, SettledShowsAsked
<1>5. (mutation.phase # "none" => shown.type = "ready")'
  BY DEF AskedInv
<1>. QED BY <1>2, <1>3, <1>4, <1>5 DEF AskedInv

\* What a write does to the reads.
LEMMA WrittenReads ==
    ASSUME TypeInv, NEW row, NEW version, Write(row, version), NEW r \in Reads
    PROVE  /\ reads'[r].phase = reads[r].phase /\ reads'[r].aborted = reads[r].aborted
           /\ reads'[r].attempt = reads[r].attempt
           /\ reads'[r].query = reads[r].query /\ reads'[r].total = reads[r].total
           /\ reads'[r].outcome = reads[r].outcome /\ reads'[r].answer = reads[r].answer
           /\ reads'[r].items = reads[r].items /\ reads'[r].taken = reads[r].taken
           /\ reads'[r].begun = reads[r].begun
           /\ reads'[r].undisturbed =
                (reads[r].undisturbed /\ ~(view = "active" /\ Disturbs(row, version, reads[r])))
           /\ Waiting(r)' = Waiting(r)
<1>1. reads[r] \in ReadStates
  BY TypeFacts
<1>2. reads'[r] = IF view = "active" /\ Disturbs(row, version, reads[r])
                  THEN [reads[r] EXCEPT !.undisturbed = FALSE] ELSE reads[r]
  BY DEF Write
<1>3. CASE view = "active" /\ Disturbs(row, version, reads[r])
  <2>1. reads'[r] = [reads[r] EXCEPT !.undisturbed = FALSE]
    BY <1>2, <1>3
  <2>2. reads'[r].undisturbed = FALSE
    BY <1>1, <2>1 DEF ReadStates
  <2>3. /\ reads'[r].phase = reads[r].phase /\ reads'[r].aborted = reads[r].aborted
        /\ reads'[r].attempt = reads[r].attempt
        /\ reads'[r].query = reads[r].query /\ reads'[r].total = reads[r].total
        /\ reads'[r].outcome = reads[r].outcome /\ reads'[r].answer = reads[r].answer
        /\ reads'[r].items = reads[r].items /\ reads'[r].taken = reads[r].taken
        /\ reads'[r].begun = reads[r].begun
    BY <1>1, <2>1 DEF ReadStates
  <2>4. Waiting(r)' = Waiting(r)
    BY <2>3 DEF Waiting
  <2>. QED BY <1>3, <2>2, <2>3, <2>4
<1>4. CASE ~(view = "active" /\ Disturbs(row, version, reads[r]))
  <2>1. reads'[r] = reads[r]
    BY <1>2, <1>4
  <2>2. Waiting(r)' = Waiting(r)
    BY <2>1 DEF Waiting
  <2>3. reads[r].undisturbed \in BOOLEAN
    BY <1>1, ReadFields
  <2>. QED BY <1>4, <2>1, <2>2, <2>3
<1>. QED BY <1>3, <1>4

LEMMA InitAsked == Init => AskedInv
<1> SUFFICES ASSUME Init PROVE AskedInv
  OBVIOUS
<1>1. \A r \in Reads : ~Waiting(r)
  BY DEF Init, Waiting, NoRead
<1>2. view \in {"list", "checks", "history"} => shown.type # "ready"
  BY DEF Init, Loading
<1>3. mutation.phase = "none"
  BY DEF Init, NoMutation
<1>. QED BY <1>1, <1>2, <1>3 DEF AskedInv, SettledShowsAsked

LEMMA AbortedIsNotWaiting ==
    ASSUME NEW read \in ReadStates
    PROVE  Aborted(read).phase = "none" \/ Aborted(read).aborted = TRUE
<1>1. CASE read.phase = "none"
  BY <1>1 DEF Aborted, NoRead
<1>2. CASE read.phase = "answered" /\ read.attempt = 2
  BY <1>2 DEF Aborted, ReadStates
<1>3. CASE read.phase # "none" /\ ~(read.phase = "answered" /\ read.attempt = 2)
  BY <1>3 DEF Aborted, NoRead
<1>. QED BY <1>1, <1>2, <1>3

LEMMA RunEffectAsked ==
    ASSUME TypeInv, AskedInv, RunEffect
    PROVE  AskedInv'
<1>1. UNCHANGED <<view, asked, shown, mutation>>
  BY DEF RunEffect
<1> DEFINE first == [NoRead EXCEPT !.phase = "sent", !.query = asked,
                                   !.begun = IF view = "active" THEN Stored ELSE {}]
<1>2. PICK r \in Reads :
        reads' = [other \in Reads |-> IF other = r THEN first ELSE Aborted(reads[other])]
  BY DEF RunEffect
<1>3. first.phase = "sent" /\ first.query = asked /\ first.aborted = FALSE
  BY DEF NoRead
<1> HIDE DEF first
<1>4. reads'[r].query = asked /\ Waiting(r)'
  BY <1>2, <1>3 DEF Waiting
<1>5. \A q \in Reads : q # r => ~Waiting(q)'
  <2>1. SUFFICES ASSUME NEW q \in Reads, q # r PROVE ~Waiting(q)'
    OBVIOUS
  <2>2. reads'[q] = Aborted(reads[q]) /\ reads[q] \in ReadStates
    BY <1>2, <2>1, TypeFacts
  <2>3. Aborted(reads[q]).phase = "none" \/ Aborted(reads[q]).aborted = TRUE
    BY <2>2, AbortedIsNotWaiting
  <2>. QED BY <2>2, <2>3 DEF Waiting
<1>. QED BY <1>1, <1>4, <1>5 DEF AskedInv, SettledShowsAsked

\* What the backend's part of a read does to it.
LEMMA ServedRead ==
    ASSUME TypeInv, NEW r \in Reads, Serve(r)
    PROVE  /\ \A q \in Reads : q # r => reads'[q] = reads[q]
           /\ reads[r].phase # "none"
           /\ reads'[r].aborted = reads[r].aborted /\ reads'[r].query = reads[r].query
           /\ reads'[r].items = reads[r].items /\ reads'[r].begun = reads[r].begun
           /\ reads'[r].undisturbed = reads[r].undisturbed
           /\ \/ /\ reads'[r].phase = "counted" /\ reads[r].phase = "sent" /\ view \in ListViews
                 /\ reads'[r].total = Cardinality(Stored)
                 /\ reads'[r].answer = reads[r].answer /\ reads'[r].outcome = reads[r].outcome
              \/ /\ reads'[r].phase = "answered" /\ reads'[r].outcome = "success"
                 /\ reads[r].phase = "counted"
                 /\ reads'[r].answer = Page(reads[r].query, reads[r].total)
              \/ /\ reads'[r].phase = "answered" /\ reads[r].phase = "sent"
                 /\ view \notin ListViews
                 /\ \A row \in Ids : reads'[r].answer.items[row] \in {0, rows[row]}
              \/ /\ reads'[r].phase = "answered" /\ reads'[r].outcome # "success"
                 /\ reads'[r].answer = NoAnswer
<1> DEFINE read == reads[r]
<1>0. reads \in [Reads -> ReadStates] /\ read \in ReadStates
  BY TypeFacts
<1>1. ASSUME NEW outcome, NEW answer, Answered(r, outcome, answer)
      PROVE  /\ \A q \in Reads : q # r => reads'[q] = reads[q]
             /\ reads'[r].aborted = read.aborted /\ reads'[r].query = read.query
             /\ reads'[r].items = read.items /\ reads'[r].begun = read.begun
             /\ reads'[r].undisturbed = read.undisturbed
             /\ reads'[r].phase = "answered" /\ reads'[r].outcome = outcome
             /\ reads'[r].answer = answer
  <2> DEFINE new == [read EXCEPT !.phase = "answered", !.outcome = outcome,
                                 !.answer = answer, !.total = 0]
  <2>1. reads' = [reads EXCEPT ![r] = new]
    BY <1>0, <1>1 DEF Answered
  <2>2. /\ new.aborted = read.aborted /\ new.query = read.query /\ new.items = read.items
        /\ new.begun = read.begun /\ new.undisturbed = read.undisturbed
        /\ new.phase = "answered" /\ new.outcome = outcome /\ new.answer = answer
    BY <1>0 DEF ReadStates
  <2> HIDE DEF new
  <2>. QED BY <1>0, <2>1, <2>2
<1>2. CASE Count(r)
  <2> DEFINE new == [read EXCEPT !.phase = "counted", !.total = Cardinality(Stored)]
  <2>1. reads' = [reads EXCEPT ![r] = new] /\ read.phase = "sent" /\ view \in ListViews
    BY <1>0, <1>2 DEF Count
  <2>2. /\ new.aborted = read.aborted /\ new.query = read.query /\ new.items = read.items
        /\ new.begun = read.begun /\ new.undisturbed = read.undisturbed
        /\ new.phase = "counted" /\ new.outcome = read.outcome /\ new.answer = read.answer
        /\ new.total = Cardinality(Stored)
    BY <1>0 DEF ReadStates
  <2> HIDE DEF new
  <2>. QED BY <1>0, <2>1, <2>2
<1>3. CASE SelectPage(r)
  <2>1. Answered(r, "success", Page(read.query, read.total)) /\ read.phase = "counted"
    BY <1>3 DEF SelectPage
  <2>. QED BY <1>1, <2>1
<1>4. CASE SelectRows(r)
  <2> DEFINE answer == [NoAnswer EXCEPT !.items = rows]
  <2>1. Answered(r, "success", answer) /\ read.phase = "sent" /\ view \notin ListViews
    BY <1>4 DEF SelectRows, SetViews, ListViews
  <2>2. \A row \in Ids : answer.items[row] \in {0, rows[row]}
    BY DEF NoAnswer
  <2> HIDE DEF answer
  <2>. QED BY <1>1, <2>1, <2>2
<1>5. CASE SelectRow(r)
  <2>1. read.phase = "sent" /\ view \notin ListViews
    BY <1>5 DEF SelectRow, RowViews, ListViews
  <2>2. CASE rows[1] # 0
    <3> DEFINE answer == [NoAnswer EXCEPT !.items = Items({1})]
    <3>1. Answered(r, "success", answer)
      BY <1>5, <2>2 DEF SelectRow
    <3>2. \A row \in Ids : answer.items[row] \in {0, rows[row]}
      BY DEF NoAnswer, Items
    <3> HIDE DEF answer
    <3>. QED BY <1>1, <2>1, <3>1, <3>2
  <2>3. CASE rows[1] = 0
    <3>1. Answered(r, "not_found", NoAnswer)
      BY <1>5, <2>3 DEF SelectRow
    <3>. QED BY <1>1, <2>1, <3>1
  <2>. QED BY <2>2, <2>3
<1>6. CASE Fail(r)
  <2>1. PICK exchange \in Faults :
          Answered(r, IF view \in IncidentViews THEN IncidentOutcome(exchange, FALSE)
                      ELSE ReadOutcome(exchange, FALSE), NoAnswer)
    BY <1>6 DEF Fail
  <2> DEFINE outcome == IF view \in IncidentViews THEN IncidentOutcome(exchange, FALSE)
                        ELSE ReadOutcome(exchange, FALSE)
  <2>2. outcome # "success"
    BY FaultsFail
  <2>3. Answered(r, outcome, NoAnswer) /\ read.phase # "none"
    BY <1>6, <2>1 DEF Fail
  <2> HIDE DEF outcome
  <2>. QED BY <1>1, <2>2, <2>3
<1>. QED BY <1>2, <1>3, <1>4, <1>5, <1>6 DEF Serve

LEMMA ServeAsked ==
    ASSUME TypeInv, AskedInv, NEW r \in Reads, Serve(r)
    PROVE  AskedInv'
<1>1. UNCHANGED <<view, asked, shown, due, mutation>>
  BY DEF Serve
<1>2. \A q \in Reads : q # r => reads'[q] = reads[q]
  BY ServedRead
<1>3. /\ reads'[r].aborted = reads[r].aborted /\ reads'[r].query = reads[r].query
      /\ reads'[r].phase \in {"counted", "answered"} /\ reads[r].phase # "none"
  BY ServedRead
<1>4. \A q \in Reads : /\ Waiting(q)' <=> Waiting(q)
                       /\ reads'[q].query = reads[q].query
  BY <1>2, <1>3 DEF Waiting
<1>. QED BY <1>1, <1>4, AskedKept

\* A read that is not ignored is the one the view waits for.
LEMMA BelievedReads ==
    ASSUME TypeInv, NEW r \in Reads, reads[r].phase = "answered"
    PROVE  Ignored(reads[r]) <=> ~Waiting(r)
<1>1. reads[r] \in ReadStates /\ ReadInv(reads[r])
  BY TypeFacts
<1>2. ~reads[r].aborted => reads[r].outcome # "cancelled"
  BY <1>1 DEF ReadInv
<1>. QED BY <1>2 DEF Ignored, Outcome, Waiting

LEMMA ContinueAsked ==
    ASSUME TypeInv, AskedInv, NEW r \in Reads, Continue(r)
    PROVE  AskedInv'
<1> DEFINE read == reads[r]
<1>0. /\ read \in ReadStates /\ ReadInv(read) /\ reads \in [Reads -> ReadStates]
      /\ due \in BOOLEAN /\ read.phase = "answered"
  BY TypeFacts DEF Continue
<1>1. UNCHANGED <<view>>
  BY DEF Continue
<1>2. CASE (Repeat(r) \/ NextPage(r)) /\ UNCHANGED <<asked, due, target, shown, mutation>>
  <2>1. \A q \in Reads : q # r => reads'[q] = reads[q]
    BY <1>0, <1>2 DEF Repeat, NextPage
  <2>2. CASE Repeat(r)
    <3>1. /\ reads'[r].aborted = read.aborted /\ reads'[r].query = read.query
          /\ reads'[r].phase = "sent"
      BY <1>0, <2>2 DEF Repeat, ReadStates
    <3>2. \A q \in Reads : (Waiting(q)' <=> Waiting(q)) /\ reads'[q].query = reads[q].query
      BY <1>0, <2>1, <3>1 DEF Waiting
    <3>. QED BY <1>1, <1>2, <3>2, AskedKept
  <2>3. CASE NextPage(r)
    <3>1. reads'[r].aborted = read.aborted /\ reads'[r].phase = "sent" /\ view = "active"
      BY <1>0, <2>3 DEF NextPage, ReadStates, Continues
    <3>2. \A q \in Reads : Waiting(q)' <=> Waiting(q)
      BY <1>0, <2>1, <3>1 DEF Waiting
    <3>. QED BY <1>1, <1>2, <3>1, <3>2, AskedKept
  <2>. QED BY <1>2, <2>2, <2>3
<1>3. CASE Finish(r)
  <2>1. reads' = [reads EXCEPT ![r] = NoRead]
    BY <1>3 DEF Finish
  <2>2. (\A q \in Reads : q # r => reads'[q] = reads[q]) /\ reads'[r] = NoRead
    BY <1>0, <2>1
  <2>3. (\A q \in Reads : q # r => (Waiting(q)' <=> Waiting(q))) /\ ~Waiting(r)'
    BY <2>2 DEF Waiting, NoRead
  <2>4. CASE Ignored(read)
    <3>1. UNCHANGED <<asked, due, target, shown, mutation>>
      BY <1>3, <2>4 DEF Finish
    <3>2. ~Waiting(r)
      BY <1>0, <2>4, BelievedReads
    <3>3. \A q \in Reads : /\ Waiting(q)' <=> Waiting(q)
                           /\ Waiting(q) => reads'[q].query = reads[q].query
      BY <2>2, <2>3, <3>2
    <3>. QED BY <1>1, <3>1, <3>3, AskedKept
  <2>5. CASE ~Ignored(read)
    <3>1. Present(read)
      BY <1>3, <2>5 DEF Finish
    <3>2. Waiting(r) /\ \A q \in Reads : ~Waiting(q)'
      <4>1. Waiting(r)
        BY <1>0, <2>5, BelievedReads
      <4>. QED BY <2>3, <4>1 DEF AskedInv
    <3>3. CASE BeyondLastPage(read)
      <4>1. shown'.type = "loading" /\ mutation'.phase = "none"
        BY <3>1, <3>3 DEF Present, Loading, NoMutation
      <4>. QED BY <3>2, <4>1 DEF AskedInv, SettledShowsAsked
    <3>4. CASE ~BeyondLastPage(read)
      <4>1. UNCHANGED <<asked, due, target>>
            /\ mutation' \in {NoMutation, mutation}
            /\ (mutation' # NoMutation => shown'.data.items[mutation.row] # 0)
        BY <3>1, <3>4 DEF Present, Unmounted
      <4>2. CASE Outcome(read) = "success"
        <5>1. shown' = Ready(IF view = "active" THEN Gathered(read) ELSE read.answer)
          BY <3>1, <3>4, <4>2 DEF Present
        <5>2. shown'.type = "ready" /\ (view # "active" => shown'.data = read.answer)
          BY <5>1 DEF Ready
        <5>3. ASSUME view \in {"list", "checks", "history"}, ~due
              PROVE  shown'.data.page = asked.page /\ shown'.data.size = asked.size
          <6>1. read.query = asked
            BY <3>2, <5>3 DEF AskedInv
          <6>2. PageInv(read)
            BY <1>0, <4>2, <5>3 DEF ReadInv, Outcome, ListViews
          <6>. QED BY <5>2, <5>3, <6>1, <6>2 DEF PageInv
        <5>. QED BY <1>1, <3>2, <4>1, <5>2, <5>3 DEF AskedInv, SettledShowsAsked
      <4>3. CASE Outcome(read) # "success"
        <5>1. shown'.type \in {"not_found", "error"} /\ shown'.data = NoAnswer
          BY <3>1, <3>4, <4>3 DEF Present, Loading
        <5>2. mutation' = NoMutation \/ mutation'.phase = "none"
          <6>1. mutation.row \in Ids
            BY TypeFacts DEF Mutations
          <6>2. shown'.data.items[mutation.row] = 0
            BY <5>1, <6>1 DEF NoAnswer, NoItems
          <6>. QED BY <4>1, <6>2
        <5>3. mutation'.phase = "none"
          BY <5>2 DEF NoMutation
        <5>. QED BY <3>2, <5>1, <5>3 DEF AskedInv, SettledShowsAsked
      <4>. QED BY <4>2, <4>3
    <3>. QED BY <3>3, <3>4
  <2>. QED BY <2>4, <2>5
<1>. QED BY <1>2, <1>3 DEF Continue

LEMMA WriteAsked ==
    ASSUME TypeInv, AskedInv, NEW row, NEW version, Write(row, version),
           UNCHANGED <<view, asked, shown, due>>,
           mutation'.phase # "none" => mutation.phase # "none"
    PROVE  AskedInv'
<1>1. \A r \in Reads : (Waiting(r)' <=> Waiting(r)) /\ reads'[r].query = reads[r].query
  BY WrittenReads
<1>. QED BY <1>1, AskedKept

LEMMA SameReadsAsked ==
    ASSUME AskedInv, UNCHANGED <<view, asked, due, reads>>,
           shown'.type = shown.type, shown'.data.page = shown.data.page,
           shown'.data.size = shown.data.size,
           mutation'.phase # "none" => mutation.phase # "none" \/ shown.type = "ready"
    PROVE  AskedInv'
<1>1. \A r \in Reads : (Waiting(r)' <=> Waiting(r)) /\ reads'[r].query = reads[r].query
  BY DEF Waiting
<1>. QED BY <1>1, AskedKept

LEMMA UserAsked ==
    ASSUME TypeInv, AskedInv, Retry \/ ChangePage \/ Navigate \/ Deliver
    PROVE  AskedInv'
<1>0. due \in BOOLEAN
  BY TypeFacts
<1>1. CASE Retry
  <2>1. /\ due' = TRUE /\ UNCHANGED <<view, reads, asked, mutation>> /\ shown.type = "error"
        /\ (shown' = shown \/ shown'.type = "loading")
    BY <1>1 DEF Retry, Loading
  <2>2. mutation'.phase = "none"
    BY <2>1 DEF AskedInv
  <2>. QED BY <1>0, <2>1, <2>2, AskedAnew
<1>2. CASE ChangePage
  <2>1. PICK page \in OfferedPages : asked' = page /\ due' = (due \/ page # asked)
    BY <1>2 DEF ChangePage
  <2>2. /\ UNCHANGED <<view, reads, mutation>> /\ mutation.phase = "none"
        /\ (shown' = shown \/ shown'.type = "loading")
    BY <1>2 DEF ChangePage, Loading
  <2>3. due' \in BOOLEAN /\ (~due' => ~due /\ asked' = asked)
    BY <1>0, <2>1
  <2>. QED BY <1>0, <2>2, <2>3, AskedAnew
<1>3. CASE Navigate
  BY <1>3, SameReadsAsked DEF Navigate
<1>4. CASE Deliver /\ target = Away
  <2>1. view' = "left" /\ shown'.type = "loading" /\ mutation'.phase = "none"
        /\ \A r \in Reads : reads'[r] = NoRead
    BY <1>4 DEF Deliver, Loading, NoMutation
  <2>2. \A r \in Reads : ~Waiting(r)'
    BY <2>1 DEF Waiting, NoRead
  <2>. QED BY <2>1, <2>2 DEF AskedInv, SettledShowsAsked
<1>5. CASE Deliver /\ target # Away
  <2>1. /\ UNCHANGED <<view, reads>>
        /\ \/ UNCHANGED <<asked, shown, due, mutation>>
           \/ /\ asked' = target /\ due' = (due \/ target # asked)
              /\ shown'.type = "loading" /\ mutation'.phase = "none"
    BY <1>5 DEF Deliver, Loading, NoMutation
  <2>2. CASE UNCHANGED <<asked, shown, due, mutation>>
    BY <2>1, <2>2, SameReadsAsked
  <2>3. CASE /\ asked' = target /\ due' = (due \/ target # asked)
             /\ shown'.type = "loading" /\ mutation'.phase = "none"
    <3>1. due' \in BOOLEAN /\ (~due' => ~due /\ asked' = asked)
      BY <1>0, <2>3
    <3>. QED BY <1>0, <2>1, <2>3, <3>1, AskedAnew
  <2>. QED BY <2>1, <2>2, <2>3
<1>. QED BY <1>1, <1>2, <1>3, <1>4, <1>5

LEMMA ButtonsAsked ==
    ASSUME TypeInv, AskedInv,
           BeginMutation \/ ServeMutation \/ FinishMutation \/ AnnounceDeletion
    PROVE  AskedInv'
<1>0. /\ due \in BOOLEAN /\ reads \in [Reads -> ReadStates] /\ mutation \in Mutations
      /\ shown \in Shown /\ shown.data \in Answers
      /\ \A r \in Reads : reads[r] \in ReadStates /\ ReadInv(reads[r])
  BY TypeFacts
<1>1. CASE BeginMutation
  <2>1. UNCHANGED <<view, asked, due, reads, shown>> /\ shown.type = "ready"
    BY <1>1 DEF BeginMutation
  <2>. QED BY <2>1, SameReadsAsked
<1>2. CASE ServeMutation
  <2>1. UNCHANGED <<view, asked, due, shown>> /\ mutation.phase = "sent"
        /\ (UNCHANGED reads \/ \E row, version : Write(row, version))
    BY <1>2 DEF ServeMutation
  <2>. QED BY <2>1, SameReadsAsked, WriteAsked
<1>3. CASE FinishMutation
  <2>1. UNCHANGED <<view, asked, due>> /\ mutation.phase = "answered"
    BY <1>3 DEF FinishMutation
  <2>2. CASE UNCHANGED <<shown, reads>>
    BY <2>1, <2>2, SameReadsAsked
  <2>3. CASE /\ shown' = [shown EXCEPT !.data.items[mutation.row] = mutation.version]
             /\ reads' = [r \in Reads |-> IF reads[r].phase = "none" THEN NoRead
                            ELSE [reads[r] EXCEPT !.undisturbed = FALSE]]
    <3>1. shown'.type = shown.type /\ shown'.data.page = shown.data.page
          /\ shown'.data.size = shown.data.size
      BY <1>0, <2>3 DEF Shown, Answers
    <3>2. ASSUME NEW r \in Reads
          PROVE  (Waiting(r)' <=> Waiting(r)) /\ (Waiting(r) => reads'[r].query = reads[r].query)
      <4>1. CASE reads[r].phase = "none"
        BY <2>3, <4>1 DEF Waiting, NoRead
      <4>2. CASE reads[r].phase # "none"
        <5>1. /\ reads'[r].phase = reads[r].phase /\ reads'[r].aborted = reads[r].aborted
              /\ reads'[r].query = reads[r].query
          BY <1>0, <2>3, <4>2 DEF ReadStates
        <5>. QED BY <5>1 DEF Waiting
      <4>. QED BY <4>1, <4>2
    <3>. QED BY <2>1, <3>1, <3>2, AskedKept
  <2>. QED BY <1>3, <2>2, <2>3 DEF FinishMutation, ShowMutation
<1>4. CASE AnnounceDeletion
  <2>1. UNCHANGED <<view, reads>> /\ mutation.phase = "closing" /\ mutation'.phase = "none"
    BY <1>4 DEF AnnounceDeletion, NoMutation
  <2>2. CASE view = "details"
    BY <1>4, <2>1, <2>2, SameReadsAsked DEF AnnounceDeletion
  <2>3. CASE view # "details" /\ mutation.last
    <3> DEFINE page == [asked EXCEPT !.page = mutation.page - 1]
    <3>1. asked' = page /\ due' = (due \/ page # asked) /\ shown'.type = "loading"
      BY <1>4, <2>3 DEF AnnounceDeletion, Loading
    <3> HIDE DEF page
    <3>2. due' \in BOOLEAN /\ (~due' => ~due /\ asked' = asked)
      BY <1>0, <3>1
    <3>. QED BY <1>0, <2>1, <3>1, <3>2, AskedAnew
  <2>4. CASE view # "details" /\ ~mutation.last
    <3>1. shown.type = "ready"
      BY <2>1 DEF AskedInv
    <3> DEFINE total == IF shown.data.total = 0 THEN 0 ELSE shown.data.total - 1
               data == [shown.data EXCEPT !.items[mutation.row] = 0, !.total = total,
                                          !.pages = Pages(total, shown.data.size)]
    <3>2. UNCHANGED <<asked, due>> /\ shown' = Ready(data)
      BY <1>4, <2>4 DEF AnnounceDeletion
    <3>3. data.page = shown.data.page /\ data.size = shown.data.size
      <4> HIDE DEF total
      <4>. QED BY <1>0 DEF Answers
    <3> HIDE DEF data
    <3>4. shown'.type = "ready"
          /\ shown'.data.page = shown.data.page /\ shown'.data.size = shown.data.size
      BY <3>2, <3>3 DEF Ready
    <3>. QED BY <2>1, <3>1, <3>2, <3>4, SameReadsAsked
  <2>. QED BY <2>2, <2>3, <2>4
<1>. QED BY <1>1, <1>2, <1>3, <1>4

LEMMA NextAsked ==
    ASSUME TypeInv, AskedInv, [Next]_vars
    PROVE  AskedInv'
<1>1. CASE UNCHANGED vars
  BY <1>1, SameReadsAsked DEF vars
<1>2. CASE OtherWrites
  BY <1>2, WriteAsked DEF OtherWrites
<1>3. CASE UseForm
  BY <1>3, SameReadsAsked DEF UseForm
<1>. QED BY <1>1, <1>2, <1>3, RunEffectAsked, ServeAsked, ContinueAsked, UserAsked,
        ButtonsAsked DEF Next

\* A view that has come to rest shows the page its controls ask for, however
\* many reads were overtaken, repeated or answered too late on the way: there is
\* at most one read that may be believed, it asks for what the view asks for
\* unless the effect is due again, and its answer names the page it was asked.
THEOREM SettledShowsAskedHolds == Spec => []SettledShowsAsked
<1>1. Init => TypeInv /\ AskedInv
  BY InitTypes, InitAsked
<1>2. TypeInv /\ AskedInv /\ [Next]_vars => TypeInv' /\ AskedInv'
  BY NextTypes, NextAsked
<1>3. AskedInv => SettledShowsAsked
  BY DEF AskedInv
<1>. QED BY <1>1, <1>2, <1>3, PTL DEF Spec

-----------------------------------------------------------------------------
(* What a collection finds *)

LEMMA PlacesStart ==
    ASSUME NEW row \in Stored
    PROVE  Place(row, Stored) \in Nat \ {0} /\ Place(row, Stored) <= Cardinality(Stored)
<1>1. Place(row, Stored) \in Nat /\ Place(row, Stored) <= Cardinality(Stored)
  BY StoredRows, PlacesRise
<1> DEFINE from == {other \in Stored : other >= row}
<1>2. from \in SUBSET Stored /\ IsFiniteSet(from)
  BY StoredRows, FS_Subset
<1>3. row \in from
  BY StoredRows
<1>4. Place(row, Stored) = Cardinality(from)
  BY DEF Place
<1> HIDE DEF from
<1>5. Cardinality(from) # 0
  BY <1>2, <1>3, FS_EmptySet
<1>. QED BY <1>1, <1>4, <1>5

LEMMA CollectionKept ==
    ASSUME NEW r \in Reads, NEW read, CollectionInv(read), reads'[r] = read,
           UNCHANGED <<view, rows>>
    PROVE  CollectionInv(reads[r])'
<1>1. Stored' = Stored
  BY DEF Stored
<1>. QED BY <1>1 DEF CollectionInv

LEMMA SameReadsCollection ==
    ASSUME TypeInv, \A r \in Reads : CollectionInv(reads[r]), UNCHANGED <<view, reads, rows>>
    PROVE  \A r \in Reads : CollectionInv(reads[r])'
<1>1. \A r \in Reads : reads'[r] = reads[r]
  OBVIOUS
<1>. QED BY <1>1, CollectionKept

LEMMA NoReadCollection == CollectionInv(NoRead)
BY DEF CollectionInv, NoRead

LEMMA RunEffectCollection ==
    ASSUME TypeInv, \A r \in Reads : CollectionInv(reads[r]), RunEffect
    PROVE  \A r \in Reads : CollectionInv(reads[r])'
<1> DEFINE first == [NoRead EXCEPT !.phase = "sent", !.query = asked,
                                   !.begun = IF view = "active" THEN Stored ELSE {}]
<1>1. PICK r \in Reads :
        reads' = [other \in Reads |-> IF other = r THEN first ELSE Aborted(reads[other])]
  BY DEF RunEffect
<1>2. UNCHANGED <<view, rows>>
  BY DEF RunEffect
<1>3. /\ first.phase = "sent" /\ first.query = asked
      /\ first.begun = IF view = "active" THEN Stored ELSE {}
  BY DEF NoRead
<1> HIDE DEF first
<1>4. CollectionInv(first)
  <2>1. SUFFICES ASSUME view = "active" PROVE CollectionInv(first)
    BY DEF CollectionInv
  <2>2. first.begun = Stored /\ first.query.page = 1 /\ first.query.size = FixedSize
    BY <1>3, <2>1 DEF TypeInv, ControlsInv
  <2>3. (first.query.page - 1) * first.query.size = 0
    <3>1. (1 - 1) * FixedSize = 0
      BY Limits
    <3>. QED BY <2>2, <3>1
  <2>4. \A row \in Stored : Place(row, Stored) > 0
    <3>1. \A row \in Stored : Place(row, Stored) \in Nat \ {0}
      BY PlacesStart
    <3>. QED BY <3>1
  <2>. QED BY <1>3, <2>2, <2>3, <2>4 DEF CollectionInv
<1>5. \A q \in Reads : CollectionInv(Aborted(reads[q]))
  <2>1. SUFFICES ASSUME NEW q \in Reads PROVE CollectionInv(Aborted(reads[q]))
    OBVIOUS
  <2> DEFINE read == reads[q]
  <2>2. read \in ReadStates /\ CollectionInv(read)
    BY TypeFacts
  <2>3. CASE read.phase = "none"
    BY <2>3, NoReadCollection DEF Aborted
  <2>4. CASE read.phase = "answered" /\ read.attempt = 2
    <3> DEFINE new == [read EXCEPT !.aborted = TRUE]
    <3>1. Aborted(read) = new
      BY <2>4 DEF Aborted
    <3>2. /\ new.phase = read.phase /\ new.query = read.query /\ new.answer = read.answer
          /\ new.items = read.items /\ new.begun = read.begun /\ new.outcome = read.outcome
          /\ new.undisturbed = read.undisturbed /\ new.total = read.total
      BY <2>2 DEF ReadStates
    <3> HIDE DEF new
    <3>3. CollectionInv(new)
      BY <2>2, <3>2 DEF CollectionInv
    <3>. QED BY <3>1, <3>3
  <2>5. CASE read.phase # "none" /\ ~(read.phase = "answered" /\ read.attempt = 2)
    <3> DEFINE new == [NoRead EXCEPT !.phase = "answered", !.attempt = read.attempt,
                                     !.aborted = TRUE,
                                     !.outcome = RequestFailure(TimedOut, TRUE)]
    <3>1. Aborted(read) = new
      BY <2>5 DEF Aborted
    <3>2. new.begun = {} /\ new.phase = "answered"
      BY DEF NoRead
    <3> HIDE DEF new
    <3>3. CollectionInv(new)
      BY <3>2 DEF CollectionInv
    <3>. QED BY <3>1, <3>3
  <2>. QED BY <2>3, <2>4, <2>5
<1>6. ASSUME NEW q \in Reads PROVE CollectionInv(reads[q])'
  <2>1. reads'[q] = first \/ reads'[q] = Aborted(reads[q])
    BY <1>1
  <2>. QED BY <1>2, <1>4, <1>5, <2>1, CollectionKept
<1>. QED BY <1>6

\* What a page leaves out comes on a later page.
LEMMA PageCollects ==
    ASSUME TypeInv, NEW query \in Queries, query.page <= Reach, NEW row \in Stored,
           Place(row, Stored) > (query.page - 1) * query.size
    PROVE  \/ Page(query, Cardinality(Stored)).items[row] # 0
           \/ /\ Place(row, Stored) > query.page * query.size
              /\ query.page < Pages(Cardinality(Stored), query.size)
<1> DEFINE low == (query.page - 1) * query.size
           high == query.page * query.size
           place == Place(row, Stored)
           total == Cardinality(Stored)
           pages == Pages(total, query.size)
<1>1. /\ query.page \in Nat \ {0} /\ query.size \in Nat \ {0}
      /\ total \in Nat /\ place \in Nat /\ place <= total
  <2>1. total \in Nat
    BY StoredRows, Limits
  <2>. QED BY <2>1, Ranges, PlacesStart DEF Queries
<1>2. low \in Int /\ high \in Nat
  BY <1>1
<1>3. CASE place <= high
  <2>1. place \in low + 1 .. high
    <3> HIDE DEF low, high, place
    <3>1. place > low
      BY DEF low, place
    <3>. QED BY <1>1, <1>2, <1>3, <3>1
  <2>2. row \in OnPage(Stored, query.page, query.size)
    BY <2>1 DEF OnPage
  <2>3. row \in Ids /\ rows[row] # 0
    BY DEF Stored
  <2>4. Page(query, total).items[row] = rows[row]
    BY <2>2, <2>3 DEF Page, Items
  <2>. QED BY <2>3, <2>4
<1>4. CASE place > high
  <2>1. pages \in Nat /\ total <= pages * query.size
    BY <1>1, PagesHoldEveryRow
  <2>2. ASSUME pages <= query.page PROVE FALSE
    <3>1. pages * query.size \in Nat /\ pages * query.size <= high
      BY <1>1, <2>1, <2>2, Scales
    <3> HIDE DEF pages, high, place, total
    <3>. QED BY <1>1, <1>2, <1>4, <2>1, <3>1
  <2>3. query.page < pages
    <3> HIDE DEF pages
    <3>. QED BY <1>1, <2>1, <2>2
  <2>. QED BY <1>4, <2>3
<1>. QED
  <2> HIDE DEF place, high
  <2>. QED BY <1>1, <1>2, <1>3, <1>4

LEMMA ServeCollection ==
    ASSUME TypeInv, \A r \in Reads : CollectionInv(reads[r]), NEW r \in Reads, Serve(r)
    PROVE  \A q \in Reads : CollectionInv(reads[q])'
<1> DEFINE read == reads[r]
<1>1. UNCHANGED <<view, rows>> /\ Stored' = Stored
  BY DEF Serve, Stored
<1>2. \A q \in Reads : q # r => reads'[q] = reads[q]
  BY ServedRead
<1>3. \A q \in Reads : q # r => CollectionInv(reads[q])'
  BY <1>1, <1>2, CollectionKept
<1>4. CollectionInv(reads[r])'
  <2>1. SUFFICES ASSUME view = "active", read.undisturbed PROVE CollectionInv(reads[r])'
    <3>1. reads'[r].undisturbed = read.undisturbed
      BY ServedRead
    <3>. QED BY <1>1, <2>1, <3>1 DEF CollectionInv
  <2>2. /\ read.phase # "none" /\ reads'[r].query = read.query /\ reads'[r].items = read.items
        /\ reads'[r].begun = read.begun
    BY ServedRead
  <2>3. /\ read.begun \subseteq Stored
        /\ read.phase = "counted" => read.total = Cardinality(Stored)
        /\ \A row \in read.begun :
             \/ read.items[row] # 0
             \/ Place(row, Stored) > (read.query.page - 1) * read.query.size
    BY <2>1, <2>2 DEF CollectionInv
  <2>4. "active" \in ListViews
    BY DEF ListViews
  <2>5. CASE reads'[r].phase = "counted" /\ reads'[r].total = Cardinality(Stored)
    BY <1>1, <2>2, <2>3, <2>5 DEF CollectionInv
  <2>6. CASE reads'[r].phase = "answered" /\ reads'[r].outcome # "success"
    BY <1>1, <2>2, <2>3, <2>6 DEF CollectionInv
  <2>7. CASE /\ reads'[r].phase = "answered" /\ read.phase = "counted"
             /\ reads'[r].answer = Page(read.query, read.total)
    <3> DEFINE answer == Page(read.query, Cardinality(Stored))
    <3>1. reads'[r].answer = answer
      BY <2>3, <2>7
    <3>2. read.query \in Queries /\ read.query.page <= Reach
      <4>1. read \in ReadStates /\ ReadInv(read)
        BY TypeFacts
      <4>. QED BY <4>1, ReadFields DEF ReadInv
    <3>3. answer.pages = Pages(Cardinality(Stored), read.query.size)
      BY DEF Page
    <3>4. \A row \in read.begun :
             \/ read.items[row] # 0 \/ answer.items[row] # 0
             \/ /\ Place(row, Stored) > read.query.page * read.query.size
                /\ read.query.page < answer.pages
      BY <2>3, <3>2, <3>3, PageCollects
    <3> HIDE DEF answer
    <3>. QED BY <1>1, <2>2, <2>3, <2>7, <3>1, <3>4 DEF CollectionInv
  <2>. QED BY <2>1, <2>4, <2>5, <2>6, <2>7, ServedRead
<1>. QED BY <1>3, <1>4

LEMMA ContinueCollection ==
    ASSUME TypeInv, \A r \in Reads : CollectionInv(reads[r]), NEW r \in Reads, Continue(r)
    PROVE  \A q \in Reads : CollectionInv(reads[q])'
<1> DEFINE read == reads[r]
<1>0. read \in ReadStates /\ reads \in [Reads -> ReadStates] /\ read.phase = "answered"
  BY TypeFacts DEF Continue
<1>1. UNCHANGED <<view, rows>>
  BY DEF Continue
<1>2. SUFFICES \E new : CollectionInv(new) /\ reads' = [reads EXCEPT ![r] = new]
  <2>1. PICK new : CollectionInv(new) /\ reads' = [reads EXCEPT ![r] = new]
    BY <1>2
  <2>2. \A q \in Reads : reads'[q] = IF q = r THEN new ELSE reads[q]
    BY <1>0, <2>1
  <2>. QED BY <1>1, <2>1, <2>2, CollectionKept
<1>3. CASE Repeat(r)
  <2> DEFINE new == [read EXCEPT !.phase = "sent", !.attempt = 2, !.outcome = "none"]
  <2>1. reads' = [reads EXCEPT ![r] = new]
    BY <1>0, <1>3 DEF Repeat
  <2>2. /\ new.phase = "sent" /\ new.query = read.query /\ new.items = read.items
        /\ new.begun = read.begun /\ new.undisturbed = read.undisturbed
    BY <1>0 DEF ReadStates
  <2> HIDE DEF new
  <2>3. CollectionInv(new)
    BY <1>0, <2>2 DEF CollectionInv
  <2>. QED BY <2>1, <2>3
<1>4. CASE NextPage(r)
  <2> DEFINE query == [page |-> read.query.page + 1, size |-> read.query.size]
             new == [read EXCEPT !.phase = "sent", !.attempt = 1, !.outcome = "none",
                                 !.answer = NoAnswer, !.query = query,
                                 !.items = Collected(read).items,
                                 !.taken = Collected(read).taken]
  <2>1. reads' = [reads EXCEPT ![r] = new] /\ view = "active" /\ read.outcome = "success"
    BY <1>0, <1>4 DEF NextPage, Continues, Outcome
  <2>2. /\ new.phase = "sent" /\ new.query.page = read.query.page + 1
        /\ new.query.size = read.query.size /\ new.items = Collected(read).items
        /\ new.begun = read.begun /\ new.undisturbed = read.undisturbed
    BY <1>0 DEF ReadStates
  <2> HIDE DEF new
  <2>3. (new.query.page - 1) * new.query.size = read.query.page * read.query.size
    <3>1. read.query.page \in Nat
      BY <1>0, ReadFields
    <3>2. new.query.page - 1 = read.query.page
      BY <2>2, <3>1
    <3>. QED BY <2>2, <3>2
  <2>4. ASSUME read.undisturbed PROVE CollectionInv(new)
    <3>1. read.begun \subseteq Stored
      BY <1>0, <2>1, <2>4 DEF CollectionInv
    <3>2. \A row \in read.begun :
             \/ read.items[row] # 0 \/ read.answer.items[row] # 0
             \/ Place(row, Stored) > read.query.page * read.query.size
      BY <1>0, <2>1, <2>4 DEF CollectionInv
    <3>3. \A row \in read.begun : read.items[row] # 0 \/ read.answer.items[row] # 0
                                   => new.items[row] # 0
      <4>1. read.begun \subseteq Ids
        BY <1>0, ReadFields
      <4>. QED BY <2>2, <4>1 DEF Collected
    <3>4. \A row \in new.begun :
             \/ new.items[row] # 0
             \/ Place(row, Stored) > (new.query.page - 1) * new.query.size
      BY <2>2, <2>3, <3>2, <3>3
    <3>. QED BY <2>2, <3>1, <3>4 DEF CollectionInv
  <2>5. CollectionInv(new)
    <3>1. ~read.undisturbed => CollectionInv(new)
      BY <2>2 DEF CollectionInv
    <3>. QED BY <2>4, <3>1
  <2>. QED BY <2>1, <2>5
<1>5. CASE Finish(r)
  BY <1>5, NoReadCollection DEF Finish
<1>. QED BY <1>3, <1>4, <1>5 DEF Continue

LEMMA WriteCollection ==
    ASSUME TypeInv, \A r \in Reads : CollectionInv(reads[r]),
           NEW row \in Ids, NEW version, Write(row, version), view' = view
    PROVE  \A r \in Reads : CollectionInv(reads[r])'
<1>0. SUFFICES ASSUME NEW r \in Reads, view = "active", reads'[r].undisturbed,
                      reads'[r].phase # "none"
               PROVE  CollectionInv(reads[r])'
  BY DEF CollectionInv
<1> DEFINE read == reads[r]
<1>1. /\ reads'[r].phase = read.phase /\ reads'[r].query = read.query
      /\ reads'[r].total = read.total
      /\ reads'[r].outcome = read.outcome /\ reads'[r].answer = read.answer
      /\ reads'[r].items = read.items /\ reads'[r].begun = read.begun
      /\ read.undisturbed /\ ~Disturbs(row, version, read)
  <2>1. reads'[r].undisturbed =
          (reads[r].undisturbed /\ ~(view = "active" /\ Disturbs(row, version, reads[r])))
    BY WrittenReads
  <2>2. read.undisturbed /\ ~Disturbs(row, version, read)
    BY <1>0, <2>1
  <2>. QED BY <2>2, WrittenReads
<1>2. version # 0 /\ (read.phase = "counted" => rows[row] # 0)
  BY <1>0, <1>1 DEF Disturbs
<1>3. rows \in [Ids -> Versions] /\ rows' = [rows EXCEPT ![row] = version]
  BY TypeFacts DEF Write
<1>4. Stored' = Stored \cup {row}
  BY <1>2, <1>3 DEF Stored
<1>5. Stored' \in SUBSET Int /\ IsFiniteSet(Stored') /\ Stored \in SUBSET Stored'
  <2>1. IsFiniteSet(Stored \cup {row}) /\ row \in Int
    BY StoredRows, FS_AddElement, Ranges
  <2>. QED BY <1>4, <2>1, StoredRows
<1>6. /\ read.begun \subseteq Stored
      /\ read.phase = "counted" => read.total = Cardinality(Stored)
      /\ \A other \in read.begun :
           \/ read.items[other] # 0
           \/ Place(other, Stored) > (read.query.page - 1) * read.query.size
      /\ read.phase = "answered" /\ read.outcome = "success" =>
           \A other \in read.begun :
             \/ read.items[other] # 0 \/ read.answer.items[other] # 0
             \/ /\ Place(other, Stored) > read.query.page * read.query.size
                /\ read.query.page < read.answer.pages
  BY <1>0, <1>1 DEF CollectionInv
<1>7. \A other \in read.begun, n \in Int : Place(other, Stored) > n => Place(other, Stored') > n
  <2>1. SUFFICES ASSUME NEW other \in read.begun, NEW n \in Int, Place(other, Stored) > n
                 PROVE  Place(other, Stored') > n
    OBVIOUS
  <2>2. other \in Stored /\ other \in Stored'
    BY <1>5, <1>6
  <2>3. Place(other, Stored) <= Place(other, Stored')
    BY <1>5, <2>2, PlacesGrow
  <2>4. Place(other, Stored) \in Nat
    BY <2>2, PlacesStart
  <2>5. Place(other, Stored') \in Nat
    BY <1>5, <2>2, PlacesRise
  <2>6. \A a, b \in Nat : a <= b /\ a > n => b > n
    OBVIOUS
  <2>. QED BY Zenon, <2>1, <2>3, <2>4, <2>5, <2>6
<1>8. (read.query.page - 1) * read.query.size \in Int
      /\ read.query.page * read.query.size \in Int
  <2>1. read.query.page \in Nat /\ read.query.size \in Nat
    BY TypeFacts, ReadFields
  <2>. QED BY <2>1
<1>9. \A other \in read.begun :
        \/ read.items[other] # 0
        \/ Place(other, Stored') > (read.query.page - 1) * read.query.size
  BY <1>6, <1>7, <1>8
<1>10. read.phase = "answered" /\ read.outcome = "success" =>
         \A other \in read.begun :
           \/ read.items[other] # 0 \/ read.answer.items[other] # 0
           \/ /\ Place(other, Stored') > read.query.page * read.query.size
              /\ read.query.page < read.answer.pages
  BY <1>6, <1>7, <1>8
<1>11. read.phase = "counted" => Stored' = Stored
  <2>1. rows[row] # 0 => row \in Stored
    BY DEF Stored
  <2>. QED BY <1>2, <1>4, <2>1
<1>12. read.begun \subseteq Stored' /\ (read.phase = "counted" => read.total = Cardinality(Stored'))
  BY <1>4, <1>6, <1>11
<1>. QED BY <1>1, <1>9, <1>10, <1>12 DEF CollectionInv

LEMMA NextCollection ==
    ASSUME TypeInv, \A r \in Reads : CollectionInv(reads[r]), [Next]_vars
    PROVE  \A r \in Reads : CollectionInv(reads[r])'
<1>1. CASE UNCHANGED <<view, reads, rows>>
  BY <1>1, SameReadsCollection
<1>2. CASE \E row \in Ids : \E version : Write(row, version) /\ view' = view
  BY <1>2, WriteCollection
<1>3. CASE Deliver
  <2>1. CASE target = Away
    <3>1. view' = "left"
      BY <1>3, <2>1 DEF Deliver
    <3>. QED BY <3>1 DEF CollectionInv
  <2>2. CASE target # Away
    BY <1>1, <1>3, <2>2 DEF Deliver
  <2>. QED BY <2>1, <2>2
<1>4. CASE FinishMutation
  <2>1. UNCHANGED <<view, rows>>
    BY <1>4 DEF FinishMutation
  <2>2. CASE UNCHANGED reads
    BY <1>1, <2>1, <2>2
  <2>3. CASE reads' = [r \in Reads |-> IF reads[r].phase = "none" THEN NoRead
                         ELSE [reads[r] EXCEPT !.undisturbed = FALSE]]
    <3>1. SUFFICES ASSUME NEW r \in Reads PROVE CollectionInv(reads[r])'
      OBVIOUS
    <3>2. CASE reads[r].phase = "none"
      <4>1. reads'[r] = NoRead
        BY <2>3, <3>2
      <4>. QED BY <2>1, <4>1, NoReadCollection, CollectionKept
    <3>3. CASE reads[r].phase # "none"
      <4>1. reads[r] \in ReadStates
        BY TypeFacts
      <4>2. reads'[r].undisturbed = FALSE
        BY <2>3, <3>3, <4>1 DEF ReadStates
      <4>. QED BY <4>2 DEF CollectionInv
    <3>. QED BY <3>2, <3>3
  <2>. QED BY <1>4, <2>2, <2>3 DEF FinishMutation, ShowMutation
<1>5. CASE ServeMutation
  <2>1. mutation.row \in Ids /\ view' = view
    BY <1>5, TypeFacts DEF Mutations, ServeMutation
  <2>. QED BY <1>1, <1>2, <1>5, <2>1 DEF ServeMutation
<1>6. CASE UNCHANGED vars
  BY <1>1, <1>6 DEF vars
<1>7. CASE Retry \/ ChangePage \/ Navigate \/ BeginMutation \/ AnnounceDeletion \/ UseForm
  BY <1>1, <1>7 DEF Retry, ChangePage, Navigate, BeginMutation, AnnounceDeletion, UseForm
<1>8. CASE OtherWrites
  BY <1>2, <1>8, Rooms DEF OtherWrites
<1>. QED BY <1>3, <1>4, <1>5, <1>6, <1>7, <1>8, RunEffectCollection, ServeCollection,
        ContinueCollection DEF Next

\* No incident that was active when the overview began to read is missing from
\* what it shows, with any number of incidents, pages and writes in between,
\* unless another one closes meanwhile or one opens between the count and the
\* page of one answer: listAllActiveIncidents has a row, or the row's place lies
\* behind the page it has asked for last.
THEOREM CollectionSkipsNothingHolds == Spec => []CollectionSkipsNothing
<1> DEFINE Inv == TypeInv /\ \A r \in Reads : CollectionInv(reads[r])
<1>1. Init => Inv
  <2>1. Init => \A r \in Reads : reads[r].phase = "none"
    BY DEF Init, NoRead
  <2>. QED BY <2>1, InitTypes DEF CollectionInv
<1>2. Inv /\ [Next]_vars => Inv'
  BY NextTypes, NextCollection
<1>3. Inv => CollectionSkipsNothing
  <2>1. SUFFICES ASSUME Inv, NEW r \in Reads, view = "active", reads[r].phase = "answered",
                        reads[r].outcome = "success", ~Ignored(reads[r]),
                        reads[r].undisturbed, ~Continues(reads[r])
                 PROVE  reads[r].begun \subseteq Held(Gathered(reads[r]).items)
    BY DEF CollectionSkipsNothing
  <2> DEFINE read == reads[r]
  <2>2. read \in ReadStates
    BY <2>1, TypeFacts
  <2>3. Outcome(read) = "success"
    BY <2>1 DEF Ignored, Outcome
  <2>4. ~(read.query.page < read.answer.pages)
    BY <2>1, <2>3 DEF Continues
  <2>5. \A row \in read.begun : read.items[row] # 0 \/ read.answer.items[row] # 0
    BY <2>1, <2>4 DEF CollectionInv
  <2>6. read.begun \in SUBSET Ids
    BY <2>2, ReadFields
  <2>. QED BY <2>5, <2>6 DEF Gathered, Collected, Held
<1> HIDE DEF Inv
<1>. QED BY <1>1, <1>2, <1>3, PTL DEF Spec

-----------------------------------------------------------------------------
(* Older and newer versions of a row *)

LEMMA NothingIsNotNewer ==
    ASSUME NEW items
    PROVE  NotNewer(NoItems, items) /\ NotNewer(items, NoItems)
BY DEF NotNewer, NoItems

\* What is stored is no newer than itself, and parts of it.
LEMMA StoredIsNotNewer ==
    ASSUME TypeInv, NEW answer, \A row \in Ids : answer[row] \in {0, rows[row]},
           NEW items, NotNewer(items, rows)
    PROVE  NotNewer(answer, rows) /\ NotNewer(items, answer)
<1>1. \A row \in Ids : rows[row] \in Nat
  BY TypeFacts, Ranges
<1>. QED BY <1>1 DEF NotNewer

LEMMA CollectedIsNotNewer ==
    ASSUME NEW read, NEW items
    PROVE  /\ NotNewer(read.items, items) /\ NotNewer(read.answer.items, items)
                => NotNewer(Collected(read).items, items)
           /\ NotNewer(items, read.items) /\ NotNewer(items, read.answer.items)
                => NotNewer(items, Collected(read).items)
BY DEF NotNewer, Collected

\* Reads that have what they had, or have not begun.
LEMMA VersionsKept ==
    ASSUME VersionsInv, UNCHANGED rows,
           \A r \in Reads : Waiting(r)' =>
             \/ /\ Waiting(r)
                /\ reads'[r].items = reads[r].items /\ reads'[r].answer = reads[r].answer
                /\ reads'[r].undisturbed = reads[r].undisturbed
             \/ reads'[r].items = NoItems /\ reads'[r].answer = NoAnswer,
           shown'.data.items \in {shown.data.items, NoItems},
           mutation' = mutation \/ mutation'.phase # "answered"
    PROVE  VersionsInv'
<1>1. NoAnswer.items = NoItems
  BY DEF NoAnswer
<1>2. NotNewer(shown.data.items, rows)'
  BY NothingIsNotNewer DEF VersionsInv
<1>3. ASSUME NEW r \in Reads, Waiting(r)'
      PROVE  /\ NotNewer(reads'[r].items, rows) /\ NotNewer(reads'[r].answer.items, rows)
             /\ reads'[r].undisturbed =>
                  /\ NotNewer(shown'.data.items, reads'[r].items)
                  /\ NotNewer(shown'.data.items, reads'[r].answer.items)
  <2>1. CASE /\ Waiting(r)
             /\ reads'[r].items = reads[r].items /\ reads'[r].answer = reads[r].answer
             /\ reads'[r].undisturbed = reads[r].undisturbed
    BY <2>1, NothingIsNotNewer DEF VersionsInv
  <2>2. CASE reads'[r].items = NoItems /\ reads'[r].answer = NoAnswer
    BY <1>1, <2>2, NothingIsNotNewer
  <2>. QED BY <1>3, <2>1, <2>2
<1>4. (mutation.phase = "answered" /\ mutation.outcome = "success" /\ mutation.kind = "change"
         => (rows[mutation.row] # 0 => mutation.version <= rows[mutation.row]))'
  BY DEF VersionsInv
<1>. QED BY <1>2, <1>3, <1>4 DEF VersionsInv

LEMMA InitVersions == Init => VersionsInv
<1> SUFFICES ASSUME Init PROVE VersionsInv
  OBVIOUS
<1>1. \A r \in Reads : ~Waiting(r)
  BY DEF Init, Waiting, NoRead
<1>2. shown.data.items = NoItems /\ mutation.phase = "none"
  BY DEF Init, Loading, Ready, NoAnswer, NoMutation
<1>. QED BY <1>1, <1>2, NothingIsNotNewer DEF VersionsInv

LEMMA RunEffectVersions ==
    ASSUME TypeInv, VersionsInv, RunEffect
    PROVE  VersionsInv'
<1>1. UNCHANGED <<shown, rows, mutation>>
  BY DEF RunEffect
<1> DEFINE first == [NoRead EXCEPT !.phase = "sent", !.query = asked,
                                   !.begun = IF view = "active" THEN Stored ELSE {}]
<1>2. PICK r \in Reads :
        reads' = [other \in Reads |-> IF other = r THEN first ELSE Aborted(reads[other])]
  BY DEF RunEffect
<1>3. first.items = NoItems /\ first.answer = NoAnswer
  BY DEF NoRead
<1> HIDE DEF first
<1>4. \A q \in Reads : Waiting(q)' => reads'[q].items = NoItems /\ reads'[q].answer = NoAnswer
  <2>1. SUFFICES ASSUME NEW q \in Reads, q # r PROVE ~Waiting(q)'
    BY <1>2, <1>3
  <2>2. reads'[q] = Aborted(reads[q]) /\ reads[q] \in ReadStates
    BY <1>2, <2>1, TypeFacts
  <2>3. Aborted(reads[q]).phase = "none" \/ Aborted(reads[q]).aborted = TRUE
    BY <2>2, AbortedIsNotWaiting
  <2>. QED BY <2>2, <2>3 DEF Waiting
<1>. QED BY <1>1, <1>4, VersionsKept

LEMMA ServeVersions ==
    ASSUME TypeInv, VersionsInv, NEW r \in Reads, Serve(r)
    PROVE  VersionsInv'
<1> DEFINE read == reads[r]
<1>1. UNCHANGED <<shown, rows, mutation>>
  BY DEF Serve
<1>2. /\ \A q \in Reads : q # r => reads'[q] = reads[q]
      /\ read.phase # "none" /\ reads'[r].aborted = read.aborted
      /\ reads'[r].items = read.items /\ reads'[r].undisturbed = read.undisturbed
  BY ServedRead
<1>3. Waiting(r)' => Waiting(r)
  BY <1>2 DEF Waiting
<1>4. NotNewer(shown.data.items, rows)
  BY DEF VersionsInv
<1>5. reads'[r].answer = read.answer
      \/ \A row \in Ids : reads'[r].answer.items[row] \in {0, rows[row]}
  <2>1. ASSUME reads'[r].answer = Page(read.query, read.total)
        PROVE  \A row \in Ids : reads'[r].answer.items[row] \in {0, rows[row]}
    BY <2>1 DEF Page, Items
  <2>2. \A row \in Ids : NoAnswer.items[row] = 0
    BY DEF NoAnswer, NoItems
  <2>. QED BY <2>1, <2>2, ServedRead
<1>6. ASSUME NEW q \in Reads, Waiting(q)'
      PROVE  /\ NotNewer(reads'[q].items, rows) /\ NotNewer(reads'[q].answer.items, rows)
             /\ reads'[q].undisturbed =>
                  /\ NotNewer(shown.data.items, reads'[q].items)
                  /\ NotNewer(shown.data.items, reads'[q].answer.items)
  <2>1. CASE q # r
    <3>1. reads'[q] = reads[q] /\ Waiting(q)
      BY <1>2, <1>6, <2>1 DEF Waiting
    <3>. QED BY <3>1 DEF VersionsInv
  <2>2. CASE q = r
    <3>1. Waiting(r)
      BY <1>3, <1>6, <2>2
    <3>2. /\ NotNewer(read.items, rows) /\ NotNewer(read.answer.items, rows)
          /\ read.undisturbed => /\ NotNewer(shown.data.items, read.items)
                                 /\ NotNewer(shown.data.items, read.answer.items)
      BY <3>1 DEF VersionsInv
    <3>3. CASE reads'[r].answer = read.answer
      BY <1>2, <2>2, <3>2, <3>3
    <3>4. CASE \A row \in Ids : reads'[r].answer.items[row] \in {0, rows[row]}
      <4>1. NotNewer(reads'[r].answer.items, rows)
            /\ NotNewer(shown.data.items, reads'[r].answer.items)
        BY <1>4, <3>4, StoredIsNotNewer
      <4>. QED BY <1>2, <2>2, <3>2, <4>1
    <3>. QED BY <1>5, <3>3, <3>4
  <2>. QED BY <2>1, <2>2
<1>. QED BY <1>1, <1>6 DEF VersionsInv

\* What is shown of a read that is believed.
LEMMA PresentedItems ==
    ASSUME NEW read, Present(read)
    PROVE  \/ shown'.data.items = NoItems
           \/ shown'.data.items = read.answer.items
           \/ shown'.data.items = Collected(read).items
<1>1. NoAnswer.items = NoItems
  BY DEF NoAnswer
<1>2. CASE BeyondLastPage(read)
  BY <1>1, <1>2 DEF Present, Loading
<1>3. CASE ~BeyondLastPage(read) /\ Outcome(read) = "success"
  BY <1>3 DEF Present, Ready, Gathered
<1>4. CASE ~BeyondLastPage(read) /\ Outcome(read) # "success"
  <2>1. shown'.data = NoAnswer
    BY <1>4 DEF Present, Loading
  <2>. QED BY <1>1, <2>1
<1>. QED BY <1>2, <1>3, <1>4

LEMMA ContinueVersions ==
    ASSUME TypeInv, AskedInv, VersionsInv, NEW r \in Reads, Continue(r)
    PROVE  VersionsInv'
<1> DEFINE read == reads[r]
<1>0. read \in ReadStates /\ reads \in [Reads -> ReadStates] /\ read.phase = "answered"
  BY TypeFacts DEF Continue
<1>1. UNCHANGED <<view, rows>>
  BY DEF Continue
<1>2. CASE Repeat(r) /\ UNCHANGED <<asked, due, target, shown, mutation>>
  <2>1. \A q \in Reads : q # r => reads'[q] = reads[q]
    BY <1>0, <1>2 DEF Repeat
  <2>2. /\ reads'[r].aborted = read.aborted /\ reads'[r].items = read.items
        /\ reads'[r].answer = read.answer /\ reads'[r].undisturbed = read.undisturbed
    BY <1>0, <1>2 DEF Repeat, ReadStates
  <2>3. \A q \in Reads : Waiting(q)' =>
          /\ Waiting(q)
          /\ reads'[q].items = reads[q].items /\ reads'[q].answer = reads[q].answer
          /\ reads'[q].undisturbed = reads[q].undisturbed
    BY <1>0, <2>1, <2>2 DEF Waiting
  <2>. QED BY <1>1, <1>2, <2>3, VersionsKept
<1>3. CASE NextPage(r) /\ UNCHANGED <<asked, due, target, shown, mutation>>
  <2>1. \A q \in Reads : q # r => reads'[q] = reads[q]
    BY <1>0, <1>3 DEF NextPage
  <2>2. /\ reads'[r].aborted = read.aborted /\ reads'[r].undisturbed = read.undisturbed
        /\ reads'[r].items = Collected(read).items /\ reads'[r].answer = NoAnswer
    BY <1>0, <1>3 DEF NextPage, ReadStates
  <2>3. NoAnswer.items = NoItems
    BY DEF NoAnswer
  <2>4. ASSUME NEW q \in Reads, Waiting(q)'
        PROVE  /\ NotNewer(reads'[q].items, rows) /\ NotNewer(reads'[q].answer.items, rows)
               /\ reads'[q].undisturbed =>
                    /\ NotNewer(shown.data.items, reads'[q].items)
                    /\ NotNewer(shown.data.items, reads'[q].answer.items)
    <3>1. Waiting(q)
      BY <1>0, <2>1, <2>2, <2>4 DEF Waiting
    <3>2. CASE q # r
      BY <2>1, <3>1, <3>2 DEF VersionsInv
    <3>3. CASE q = r
      <4>1. /\ NotNewer(read.items, rows) /\ NotNewer(read.answer.items, rows)
            /\ read.undisturbed => /\ NotNewer(shown.data.items, read.items)
                                   /\ NotNewer(shown.data.items, read.answer.items)
        BY <3>1, <3>3 DEF VersionsInv
      <4>. QED BY <2>2, <2>3, <3>3, <4>1, CollectedIsNotNewer, NothingIsNotNewer
    <3>. QED BY <3>2, <3>3
  <2>. QED BY <1>1, <1>3, <2>4 DEF VersionsInv
<1>4. CASE Finish(r)
  <2>1. reads' = [reads EXCEPT ![r] = NoRead]
    BY <1>4 DEF Finish
  <2>2. (\A q \in Reads : q # r => reads'[q] = reads[q]) /\ reads'[r] = NoRead
    BY <1>0, <2>1
  <2>3. (\A q \in Reads : q # r => (Waiting(q)' <=> Waiting(q))) /\ ~Waiting(r)'
    BY <2>2 DEF Waiting, NoRead
  <2>4. CASE Ignored(read)
    <3>1. UNCHANGED <<shown, mutation>>
      BY <1>4, <2>4 DEF Finish
    <3>2. \A q \in Reads : Waiting(q)' =>
            /\ Waiting(q)
            /\ reads'[q].items = reads[q].items /\ reads'[q].answer = reads[q].answer
            /\ reads'[q].undisturbed = reads[q].undisturbed
      BY <2>2, <2>3
    <3>. QED BY <1>1, <3>1, <3>2, VersionsKept
  <2>5. CASE ~Ignored(read)
    <3>1. Present(read)
      BY <1>4, <2>5 DEF Finish
    <3>2. Waiting(r) /\ \A q \in Reads : ~Waiting(q)'
      <4>1. Waiting(r)
        BY <1>0, <2>5, BelievedReads
      <4>. QED BY <2>3, <4>1 DEF AskedInv
    <3>3. NotNewer(shown'.data.items, rows)
      <4>1. NotNewer(read.items, rows) /\ NotNewer(read.answer.items, rows)
        BY <3>2 DEF VersionsInv
      <4>. QED BY <3>1, <4>1, PresentedItems, CollectedIsNotNewer, NothingIsNotNewer
    <3>4. mutation' = mutation \/ mutation'.phase = "none"
      BY <3>1 DEF Present, Unmounted, NoMutation
    <3>. QED BY <1>1, <3>2, <3>3, <3>4 DEF VersionsInv
  <2>. QED BY <2>4, <2>5
<1>. QED BY <1>2, <1>3, <1>4 DEF Continue

\* A write stores a version newer than all, or none.
LEMMA WriteVersions ==
    ASSUME TypeInv, VersionsInv, NEW row \in Ids, NEW version \in {0, changes + 2},
           Write(row, version), UNCHANGED <<view, shown>>
    PROVE  /\ NotNewer(shown.data.items, rows)'
           /\ \A r \in Reads : Waiting(r)' =>
                /\ NotNewer(reads'[r].items, rows') /\ NotNewer(reads'[r].answer.items, rows')
                /\ reads'[r].undisturbed =>
                     /\ NotNewer(shown'.data.items, reads'[r].items)
                     /\ NotNewer(shown'.data.items, reads'[r].answer.items)
           /\ rows'[row] = version
           /\ \A n \in Nat : n <= Latest /\ version # 0 => n <= version
           /\ \A other \in Ids : other # row => rows'[other] = rows[other]
<1>1. /\ changes \in Nat /\ rows \in [Ids -> Versions] /\ shown.data \in Answers
      /\ AnswerInv(shown.data)
      /\ \A r \in Reads : reads[r] \in ReadStates /\ ReadInv(reads[r])
  BY TypeFacts DEF TypeInv, ShownInv
<1>2. rows' = [rows EXCEPT ![row] = version]
  BY DEF Write
<1>3. rows'[row] = version /\ \A other \in Ids : other # row => rows'[other] = rows[other]
  BY <1>1, <1>2
<1>4. \A n \in Nat : n <= Latest /\ version # 0 => n <= version
  BY <1>1 DEF Latest
<1>5. ASSUME NEW items, \A other \in Ids : items[other] \in Nat /\ items[other] <= Latest,
             NotNewer(items, rows)
      PROVE  NotNewer(items, rows')
  BY <1>3, <1>4, <1>5 DEF NotNewer
<1>6. NotNewer(shown.data.items, rows')
  <2>1. \A other \in Ids : shown.data.items[other] \in Nat /\ shown.data.items[other] <= Latest
    BY <1>1, AnswerFields DEF AnswerInv
  <2>. QED BY <1>5, <2>1 DEF VersionsInv
<1>7. ASSUME NEW r \in Reads, Waiting(r)'
      PROVE  /\ NotNewer(reads'[r].items, rows') /\ NotNewer(reads'[r].answer.items, rows')
             /\ reads'[r].undisturbed =>
                  /\ NotNewer(shown'.data.items, reads'[r].items)
                  /\ NotNewer(shown'.data.items, reads'[r].answer.items)
  <2>1. /\ Waiting(r) /\ reads'[r].items = reads[r].items /\ reads'[r].answer = reads[r].answer
        /\ (reads'[r].undisturbed => reads[r].undisturbed)
    <3>1. Waiting(r)' = Waiting(r) /\ reads'[r].items = reads[r].items
          /\ reads'[r].answer = reads[r].answer
          /\ reads'[r].undisturbed =
                (reads[r].undisturbed /\ ~(view = "active" /\ Disturbs(row, version, reads[r])))
      BY WrittenReads
    <3>. QED BY <1>7, <3>1
  <2>2. /\ NotNewer(reads[r].items, rows) /\ NotNewer(reads[r].answer.items, rows)
        /\ reads[r].undisturbed => /\ NotNewer(shown.data.items, reads[r].items)
                                   /\ NotNewer(shown.data.items, reads[r].answer.items)
    BY <2>1 DEF VersionsInv
  <2>3. \A other \in Ids : reads[r].items[other] \in Nat /\ reads[r].items[other] <= Latest
    BY <1>1, ReadFields DEF ReadInv
  <2>4. \A other \in Ids : reads[r].answer.items[other] \in Nat
                           /\ reads[r].answer.items[other] <= Latest
    <3>1. reads[r].answer \in Answers /\ AnswerInv(reads[r].answer)
      BY <1>1, ReadFields DEF ReadInv
    <3>. QED BY <3>1, AnswerFields DEF AnswerInv
  <2>5. NotNewer(reads[r].items, rows') /\ NotNewer(reads[r].answer.items, rows')
    BY <1>5, <2>2, <2>3, <2>4
  <2>. QED BY <2>1, <2>2, <2>5
<1>. QED BY <1>3, <1>4, <1>6, <1>7

LEMMA OtherWritesVersions ==
    ASSUME TypeInv, VersionsInv, OtherWrites
    PROVE  VersionsInv'
<1>1. PICK row \in Ids, version \in {0, changes + 2} : Write(row, version)
  BY Rooms DEF OtherWrites
<1>2. UNCHANGED <<view, shown, mutation>>
  BY DEF OtherWrites
<1>3. (mutation.phase = "answered" /\ mutation.outcome = "success" /\ mutation.kind = "change")
         => (rows'[mutation.row] # 0 => mutation.version <= rows'[mutation.row])
  <2>1. mutation \in Mutations
    BY TypeFacts
  <2>2. mutation.version \in Nat /\ mutation.row \in Ids
    BY <2>1, Ranges DEF Mutations
  <2>3. ASSUME mutation.phase = "answered", mutation.outcome = "success",
               mutation.kind = "change", rows'[mutation.row] # 0
        PROVE  mutation.version <= rows'[mutation.row]
    <3>1. CASE mutation.row = row
      <4>1. mutation.version <= Latest
        BY <2>3 DEF TypeInv, WritesInv
      <4>. QED BY <1>1, <1>2, <2>2, <2>3, <3>1, <4>1, WriteVersions
    <3>2. CASE mutation.row # row
      <4>1. rows'[mutation.row] = rows[mutation.row]
        BY <1>1, <1>2, <2>2, <3>2, WriteVersions
      <4>. QED BY <2>3, <4>1 DEF VersionsInv
    <3>. QED BY <3>1, <3>2
  <2>. QED BY <2>3
<1>. QED BY <1>1, <1>2, <1>3, WriteVersions DEF VersionsInv

LEMMA ServeMutationVersions ==
    ASSUME TypeInv, VersionsInv, ServeMutation
    PROVE  VersionsInv'
<1>1. mutation.phase = "sent" /\ UNCHANGED <<view, shown>>
  BY DEF ServeMutation
<1> DEFINE version == IF mutation.kind = "delete" THEN 0 ELSE changes + 2
<1>2. PICK exchange \in Faults \cup {IF rows[mutation.row] = 0 THEN Response(404)
                                      ELSE IF mutation.kind = "delete" THEN Response(204)
                                      ELSE Response(200)} :
        /\ mutation' = [mutation EXCEPT
               !.phase = "answered", !.version = version,
               !.outcome = IF mutation.kind = "delete" THEN DeleteOutcome(exchange)
                           ELSE ChangeOutcome(exchange)]
        /\ \/ /\ rows[mutation.row] # 0
              /\ exchange \in NoResponse \/ Ok(exchange.status)
              /\ Write(mutation.row, version)
           \/ /\ exchange \in NoResponse \/ ~Ok(exchange.status)
              /\ UNCHANGED <<rows, changes, reads>>
  BY DEF ServeMutation
<1>3. changes \in Nat /\ mutation \in Mutations /\ mutation.row \in Ids
  <2>1. changes \in Nat /\ mutation \in Mutations
    BY TypeFacts
  <2>. QED BY <2>1 DEF Mutations
<1>4. version \in {0, changes + 2} /\ version \in Nat
  BY <1>3
<1> HIDE DEF version
<1> DEFINE outcome == IF mutation.kind = "delete" THEN DeleteOutcome(exchange)
                      ELSE ChangeOutcome(exchange)
<1>5. mutation' = [mutation EXCEPT !.phase = "answered", !.version = version,
                                   !.outcome = outcome]
  BY <1>2
<1>6. mutation.kind = "change" /\ outcome = "success" => Write(mutation.row, version)
  BY <1>2, ServedTypes
<1> HIDE DEF outcome
<1>7. /\ mutation'.phase = "answered" /\ mutation'.version = version
      /\ mutation'.outcome = outcome /\ mutation'.kind = mutation.kind
      /\ mutation'.row = mutation.row
  BY <1>3, <1>5 DEF Mutations
<1>8. (mutation.phase = "answered" /\ mutation.outcome = "success" /\ mutation.kind = "change"
         => (rows[mutation.row] # 0 => mutation.version <= rows[mutation.row]))'
  <2>1. Write(mutation.row, version) => rows'[mutation.row] = version
    BY <1>1, <1>3, <1>4, WriteVersions
  <2>2. version <= version
    BY <1>4
  <2>. QED BY <1>6, <1>7, <2>1, <2>2
<1>9. CASE Write(mutation.row, version)
  BY <1>1, <1>3, <1>4, <1>8, <1>9, WriteVersions DEF VersionsInv
<1>10. CASE UNCHANGED <<rows, reads>>
  BY <1>1, <1>8, <1>10 DEF VersionsInv, Waiting
<1>. QED BY <1>2, <1>9, <1>10

\* A button that has its answer is given back, or waits for the deletion's timer.
LEMMA FinishedMutation ==
    ASSUME TypeInv, FinishMutation
    PROVE  mutation.phase = "answered" /\ mutation'.phase \in {"none", "closing"}
<1>1. mutation \in Mutations
  BY TypeFacts
<1>2. mutation' = NoMutation \/ mutation' = [mutation EXCEPT !.phase = "closing", !.outcome = "none"]
  BY DEF FinishMutation, ShowMutation
<1>3. CASE mutation' = NoMutation
  BY <1>3 DEF FinishMutation, NoMutation
<1>4. CASE mutation' = [mutation EXCEPT !.phase = "closing", !.outcome = "none"]
  BY <1>1, <1>4 DEF FinishMutation, Mutations
<1>. QED BY <1>2, <1>3, <1>4

LEMMA FinishMutationVersions ==
    ASSUME TypeInv, VersionsInv, FinishMutation
    PROVE  VersionsInv'
<1>0. /\ mutation \in Mutations /\ shown \in Shown /\ shown.data \in Answers
      /\ \A r \in Reads : reads[r] \in ReadStates
  BY TypeFacts
<1>1. mutation.phase = "answered" /\ UNCHANGED <<view, rows>>
  BY DEF FinishMutation
<1>2. mutation'.phase \in {"none", "closing"}
  BY FinishedMutation
<1>3. CASE UNCHANGED <<shown, reads>>
  <2>1. \A r \in Reads : Waiting(r)' =>
          /\ Waiting(r)
          /\ reads'[r].items = reads[r].items /\ reads'[r].answer = reads[r].answer
          /\ reads'[r].undisturbed = reads[r].undisturbed
    BY <1>3 DEF Waiting
  <2>. QED BY <1>1, <1>2, <1>3, <2>1, VersionsKept
<1>4. CASE ~UNCHANGED <<shown, reads>>
  <2>1. /\ mutation.outcome = "success" /\ mutation.kind # "delete"
        /\ shown' = [shown EXCEPT !.data.items[mutation.row] = mutation.version]
        /\ reads' = [r \in Reads |-> IF reads[r].phase = "none" THEN NoRead
                       ELSE [reads[r] EXCEPT !.undisturbed = FALSE]]
    BY <1>4 DEF FinishMutation, ShowMutation
  <2>2. mutation.kind = "change" /\ mutation.row \in Ids
    BY <1>0, <2>1 DEF Mutations
  <2>3. rows[mutation.row] # 0 => mutation.version <= rows[mutation.row]
    BY <1>1, <2>1, <2>2 DEF VersionsInv
  <2>4. shown'.data.items = [shown.data.items EXCEPT ![mutation.row] = mutation.version]
        /\ shown.data.items \in [Ids -> Versions]
    BY <1>0, <2>1, AnswerFields DEF Shown, Answers
  <2>5. NotNewer(shown.data.items, rows)'
    <3>1. NotNewer(shown.data.items, rows)
      BY DEF VersionsInv
    <3>. QED BY <1>1, <2>2, <2>3, <2>4, <3>1 DEF NotNewer
  <2>6. ASSUME NEW r \in Reads, Waiting(r)'
        PROVE  /\ NotNewer(reads'[r].items, rows) /\ NotNewer(reads'[r].answer.items, rows)
               /\ ~reads'[r].undisturbed
    <3>1. reads[r].phase # "none"
      BY <2>1, <2>6 DEF Waiting, NoRead
    <3>2. /\ reads'[r].aborted = reads[r].aborted /\ reads'[r].items = reads[r].items
          /\ reads'[r].answer = reads[r].answer /\ reads'[r].undisturbed = FALSE
      BY <1>0, <2>1, <3>1 DEF ReadStates
    <3>3. Waiting(r)
      BY <2>6, <3>1, <3>2 DEF Waiting
    <3>. QED BY <3>2, <3>3 DEF VersionsInv
  <2>. QED BY <1>1, <1>2, <2>5, <2>6 DEF VersionsInv
<1>. QED BY <1>3, <1>4

LEMMA AnnouncedItems ==
    ASSUME TypeInv, AnnounceDeletion
    PROVE  \A row \in Ids : shown'.data.items[row] \in {0, shown.data.items[row]}
<1>0. shown.data \in Answers /\ shown.data.items \in [Ids -> Versions]
  BY TypeFacts, AnswerFields
<1>1. CASE view = "details"
  BY <1>1 DEF AnnounceDeletion
<1>2. CASE view # "details" /\ mutation.last
  BY <1>2 DEF AnnounceDeletion, Loading, NoAnswer, NoItems
<1>3. CASE view # "details" /\ ~mutation.last
  <2> DEFINE total == IF shown.data.total = 0 THEN 0 ELSE shown.data.total - 1
             data == [shown.data EXCEPT !.items[mutation.row] = 0, !.total = total,
                                        !.pages = Pages(total, shown.data.size)]
  <2>1. shown' = Ready(data)
    BY <1>3 DEF AnnounceDeletion
  <2>2. data.items = [shown.data.items EXCEPT ![mutation.row] = 0]
    <3> HIDE DEF total
    <3>. QED BY <1>0 DEF Answers
  <2> HIDE DEF data
  <2>3. shown'.data.items = [shown.data.items EXCEPT ![mutation.row] = 0]
    BY <2>1, <2>2 DEF Ready
  <2>. QED BY <1>0, <2>3
<1>. QED BY <1>1, <1>2, <1>3

LEMMA AnnounceDeletionVersions ==
    ASSUME TypeInv, VersionsInv, AnnounceDeletion
    PROVE  VersionsInv'
<1>1. UNCHANGED <<reads, rows>> /\ mutation'.phase = "none"
  BY DEF AnnounceDeletion, NoMutation
<1>2. \A row \in Ids : shown'.data.items[row] \in {0, shown.data.items[row]}
  BY AnnouncedItems
<1>3. \A items : NotNewer(shown.data.items, items) => NotNewer(shown'.data.items, items)
  BY <1>2 DEF NotNewer
<1>4. \A r \in Reads : Waiting(r)' = Waiting(r)
  BY <1>1 DEF Waiting
<1>. QED BY <1>1, <1>3, <1>4 DEF VersionsInv

LEMMA NextVersions ==
    ASSUME TypeInv, AskedInv, VersionsInv, [Next]_vars
    PROVE  VersionsInv'
<1>1. CASE /\ UNCHANGED <<reads, rows>> /\ shown'.data.items \in {shown.data.items, NoItems}
           /\ mutation' = mutation \/ mutation'.phase # "answered"
  <2>1. \A r \in Reads : Waiting(r)' = Waiting(r)
    BY <1>1 DEF Waiting
  <2>. QED BY <1>1, <2>1, VersionsKept
<1>2. CASE UNCHANGED vars
  BY <1>1, <1>2 DEF vars
<1>3. CASE Retry
  BY <1>1, <1>3 DEF Retry, Loading, NoAnswer
<1>4. CASE ChangePage
  BY <1>1, <1>4 DEF ChangePage, Loading, NoAnswer
<1>5. CASE Navigate \/ UseForm
  BY <1>1, <1>5 DEF Navigate, UseForm
<1>6. CASE Deliver
  <2>1. UNCHANGED rows /\ shown'.data.items \in {shown.data.items, NoItems}
        /\ (mutation' = mutation \/ mutation'.phase # "answered")
    BY <1>6 DEF Deliver, Loading, NoAnswer, NoMutation
  <2>2. \A r \in Reads : reads'[r] = reads[r] \/ reads'[r] = NoRead
    BY <1>6 DEF Deliver
  <2>3. \A r \in Reads : Waiting(r)' =>
          /\ Waiting(r)
          /\ reads'[r].items = reads[r].items /\ reads'[r].answer = reads[r].answer
          /\ reads'[r].undisturbed = reads[r].undisturbed
    BY <2>2 DEF Waiting, NoRead
  <2>. QED BY <2>1, <2>3, VersionsKept
<1>7. CASE BeginMutation
  <2>1. UNCHANGED <<reads, rows, shown>> /\ mutation'.phase = "sent"
    BY <1>7 DEF BeginMutation, NoMutation
  <2>. QED BY <1>1, <2>1
<1>. QED BY <1>2, <1>3, <1>4, <1>5, <1>6, <1>7, RunEffectVersions, ServeVersions,
        ContinueVersions, OtherWritesVersions, ServeMutationVersions,
        FinishMutationVersions, AnnounceDeletionVersions DEF Next

\* What is shown of a row never goes back to an older version, for any number
\* of reads, writes and rows, but for the two cases the code leaves open: a read
\* that was on its way when a button's answer was shown, and a button's answer
\* that was overtaken by another write.
THEOREM ShownNeverGoesBackHolds == Spec => ShownNeverGoesBack
<1> DEFINE Inv == TypeInv /\ AskedInv /\ VersionsInv
<1>1. Init => Inv
  BY InitTypes, InitAsked, InitVersions
<1>2. Inv /\ [Next]_vars => Inv'
  BY NextTypes, NextAsked, NextVersions
<1> DEFINE Forward ==
    (/\ shown.type = "ready" /\ shown'.type = "ready"
     /\ \A r \in Reads : reads'[r].phase = "none" => reads[r].undisturbed
     /\ ~(Overtaken /\ FinishMutation)) =>
      \A row \in Held(shown.data.items) :
         shown'.data.items[row] # 0 => shown'.data.items[row] >= shown.data.items[row]
<1>3. Inv /\ [Next]_vars => Forward
  <2>1. SUFFICES ASSUME Inv, [Next]_vars, shown'.type = "ready",
                        \A r \in Reads : reads'[r].phase = "none" => reads[r].undisturbed,
                        ~(Overtaken /\ FinishMutation),
                        NEW row \in Held(shown.data.items), shown'.data.items[row] # 0
                 PROVE  shown'.data.items[row] >= shown.data.items[row]
    OBVIOUS
  <2>2. /\ shown \in Shown /\ shown.data \in Answers /\ mutation \in Mutations
        /\ changes \in Nat /\ reads \in [Reads -> ReadStates] /\ AnswerInv(shown.data)
        /\ row \in Ids /\ shown.data.items[row] # 0
    BY <2>1, TypeFacts DEF Held, TypeInv, ShownInv
  <2>3. shown.data.items[row] \in Nat /\ shown.data.items[row] <= Latest
    BY <2>2, AnswerFields DEF AnswerInv
  <2>4. CASE shown'.data.items[row] \in {0, shown.data.items[row]}
    BY <2>1, <2>3, <2>4
  <2>5. CASE FinishMutation
    <3>1. mutation.phase = "answered" /\ ~(mutation.version <= changes)
      BY <2>1, <2>5 DEF Overtaken, FinishMutation
    <3>2. mutation.version \in Nat
      BY <2>2, Ranges DEF Mutations
    <3>3. mutation.version >= Latest
      BY <2>2, <3>1, <3>2 DEF Latest
    <3>4. shown'.data.items[row] \in {mutation.version, shown.data.items[row]}
      <4>1. CASE shown' = shown
        BY <4>1
      <4>2. CASE shown' = [shown EXCEPT !.data.items[mutation.row] = mutation.version]
        <5>1. shown'.data.items = [shown.data.items EXCEPT ![mutation.row] = mutation.version]
              /\ shown.data.items \in [Ids -> Versions]
          BY <2>2, <4>2, AnswerFields DEF Shown, Answers
        <5>. QED BY <2>2, <5>1
      <4>. QED BY <2>5, <4>1, <4>2 DEF FinishMutation, ShowMutation
    <3>5. mutation.version >= shown.data.items[row]
      <4>1. Latest \in Nat
        BY <2>2 DEF Latest
      <4>. QED BY <2>3, <3>2, <3>3, <4>1
    <3>. QED BY <2>4, <3>4, <3>5
  <2>6. ASSUME NEW r \in Reads, Continue(r)
        PROVE  shown'.data.items[row] >= shown.data.items[row]
    <3>1. CASE shown' = shown
      BY <2>4, <3>1
    <3>2. CASE shown' # shown
      <4>1. Finish(r) /\ ~Ignored(reads[r]) /\ Present(reads[r]) /\ reads[r].phase = "answered"
        BY <2>6, <3>2 DEF Continue, Finish
      <4>2. Waiting(r)
        BY <2>1, <4>1, BelievedReads
      <4>3. reads'[r].phase = "none"
        BY <2>2, <4>1 DEF Finish, NoRead
      <4>4. /\ NotNewer(shown.data.items, reads[r].items)
            /\ NotNewer(shown.data.items, reads[r].answer.items)
        BY <2>1, <4>2, <4>3 DEF VersionsInv
      <4>5. NotNewer(shown.data.items, shown'.data.items)
        BY <4>1, <4>4, PresentedItems, CollectedIsNotNewer, NothingIsNotNewer
      <4>6. shown.data.items[row] <= shown'.data.items[row]
        BY <2>1, <2>2, <4>5 DEF NotNewer
      <4>7. \A m, n : m <= n => n >= m
        OBVIOUS
      <4>. QED BY <4>6, <4>7
    <3>. QED BY <3>1, <3>2
  <2>7. CASE AnnounceDeletion
    BY <2>1, <2>2, <2>4, <2>7, AnnouncedItems
  <2>8. CASE shown' = shown \/ shown' = Loading
    <3>1. shown' = Loading => shown'.data.items[row] = 0
      BY <2>2 DEF Loading, NoAnswer, NoItems
    <3>. QED BY <2>4, <2>8, <3>1
  <2>9. CASE UNCHANGED vars
    BY <2>8, <2>9 DEF vars
  <2>. QED BY <2>1, <2>5, <2>6, <2>7, <2>8, <2>9 DEF Next, RunEffect, Serve, Retry, ChangePage,
          Navigate, Deliver, OtherWrites, BeginMutation, ServeMutation, UseForm
<1>4. Forward /\ [Next]_vars => [Forward]_vars
  OBVIOUS
<1> HIDE DEF Inv, Forward
<1>5. Spec => [][Forward]_vars
  BY <1>1, <1>2, <1>3, PTL DEF Spec
<1>. QED BY <1>5 DEF ShownNeverGoesBack, Forward

-----------------------------------------------------------------------------
(* Edits *)

\* A step of the form that does not leave sets the flag, or keeps it as it was.
LEMMA FormStepFlag ==
    ASSUME form \in FormStates, FlagInv, view = "edit", FormStep, target' # Away
    PROVE  form'.draft # 0 => form'.dirty
<1>1. CASE \E draft \in Drafts : Type(draft)
  <2>1. PICK draft \in Drafts :
          form' = [form EXCEPT !.draft = draft, !.dirty = (view = "edit" /\ draft # 0)]
    BY <1>1 DEF Type
  <2>. QED BY <2>1 DEF FormStates
<1>2. ASSUME target' = target, form'.draft = form.draft, form'.dirty = form.dirty
      PROVE  form'.draft # 0 => form'.dirty
  BY <1>2 DEF FlagInv
<1>3. CASE Submit \/ AnswerSave \/ FinishSave
  BY <1>2, <1>3 DEF Submit, AnswerSave, FinishSave, FormStates
<1>4. CASE FollowLink \/ KeepEditing \/ DiscardChanges
  BY <1>2, <1>4 DEF FollowLink, KeepEditing, DiscardChanges, FormStates
<1>. QED BY <1>1, <1>3, <1>4 DEF FormStep

LEMMA NextFlag ==
    ASSUME TypeInv, FlagInv, [Next]_vars
    PROVE  FlagInv'
<1>1. SUFFICES ASSUME view' = "edit", target' # Away PROVE form'.draft # 0 => form'.dirty
  BY DEF FlagInv
<1>2. CASE UseForm
  BY <1>1, <1>2, TypeFacts, FormStepFlag DEF UseForm
<1>3. CASE form' = form /\ view = "edit" /\ target # Away
  BY <1>3 DEF FlagInv
<1>4. CASE Deliver
  <2>1. target # Away /\ UNCHANGED <<view, form>>
    BY <1>1, <1>4 DEF Deliver
  <2>. QED BY <1>1, <1>3, <2>1
<1>5. CASE AnnounceDeletion
  <2>1. view = "edit" /\ mutation.phase # "none"
    BY <1>1, <1>5 DEF AnnounceDeletion
  <2>. QED BY <2>1 DEF TypeInv, ControlsInv
<1>6. CASE \E r \in Reads : Continue(r)
  <2>1. PICK r \in Reads : Continue(r)
    BY <1>6
  <2>2. UNCHANGED <<view, form>>
    BY <2>1 DEF Continue
  <2>3. target' = target
    BY <1>1, <2>1, <2>2 DEF Continue, Finish, Present, BeyondLastPage
  <2>. QED BY <1>1, <1>3, <2>2, <2>3
<1>7. CASE UNCHANGED vars
  BY <1>1, <1>3, <1>7 DEF vars
<1>8. CASE RunEffect \/ Retry \/ OtherWrites \/ BeginMutation \/ ServeMutation \/ FinishMutation
           \/ \E r \in Reads : Serve(r)
  BY <1>1, <1>3, <1>8 DEF RunEffect, Retry, OtherWrites, BeginMutation, ServeMutation,
     FinishMutation, Serve
<1>9. CASE ChangePage \/ Navigate
  BY <1>1, <1>3, <1>9 DEF ChangePage, Navigate
<1>. QED BY <1>2, <1>4, <1>5, <1>6, <1>7, <1>8, <1>9 DEF Next

\* A link that leaves the edit form without the question throws no edits away,
\* whatever may be typed, however saves fail and whatever the other views do.
THEOREM EditsSurviveLinksHolds == Spec => EditsSurviveLinks
<1> DEFINE Inv == TypeInv /\ FlagInv
<1>1. Init => Inv
  BY InitTypes DEF Init, FlagInv, NewForm
<1>2. Inv /\ [Next]_vars => Inv'
  BY NextTypes, NextFlag
<1> DEFINE Kept == view = "edit" /\ target = NULL /\ target' = Away /\ form'.exit = "link"
                   => form.draft = 0
<1>3. Inv /\ [Next]_vars => [Kept]_<<view, target, form>>
  <2>1. SUFFICES ASSUME Inv, [Next]_vars, view = "edit", target = NULL, target' = Away,
                        form'.exit = "link"
                 PROVE  form.draft = 0
    OBVIOUS
  <2>2. form \in FormStates /\ target # Away /\ target' # target
    BY <2>1, TypeFacts, Targets
  <2>3. CASE UseForm
    <3>1. FormStep
      BY <2>3 DEF UseForm
    <3>2. ~form.dirty
      BY <2>1, <2>2, <3>1 DEF FormStep, Type, Submit, AnswerSave, FinishSave, FollowLink,
         KeepEditing, DiscardChanges, FormStates
    <3>. QED BY <2>1, <2>2, <3>2 DEF FlagInv
  <2>4. CASE \E r \in Reads : Continue(r)
    BY <2>1, <2>2, <2>4 DEF Continue, Finish, Present, BeyondLastPage
  <2>5. CASE AnnounceDeletion
    BY <2>1, <2>5 DEF AnnounceDeletion, TypeInv, ControlsInv
  <2>6. CASE ChangePage \/ Navigate \/ Deliver
    BY <2>1, <2>2, <2>6 DEF ChangePage, Navigate, Deliver
  <2>. QED BY <2>1, <2>2, <2>3, <2>4, <2>5, <2>6 DEF Next, vars, RunEffect, Serve, Retry,
          OtherWrites, BeginMutation, ServeMutation, FinishMutation
<1> HIDE DEF Inv, Kept
<1>5. Spec => [][Kept]_<<view, target, form>>
  BY <1>1, <1>2, <1>3, PTL DEF Spec
<1>. QED BY <1>5 DEF EditsSurviveLinks, Kept

-----------------------------------------------------------------------------
(* Loading *)

LEMMA ServedIdle ==
    ASSUME TypeInv, AskedInv, LoadingElsewhere, NEW r \in Reads, Serve(r)
    PROVE  LoadingElsewhere'
<1>1. \A q \in Reads : Waiting(q) => Waiting(q)'
  <2>1. \A q \in Reads : q # r => reads'[q] = reads[q]
    BY ServedRead
  <2>2. reads'[r].aborted = reads[r].aborted /\ reads'[r].phase \in {"counted", "answered"}
    BY ServedRead
  <2>. QED BY <2>1, <2>2 DEF Waiting
<1>. QED BY <1>1 DEF Serve, LoadingElsewhere, LoadingIsReading

LEMMA ContinueIdle ==
    ASSUME TypeInv, AskedInv, LoadingElsewhere, NEW r \in Reads, Continue(r)
    PROVE  LoadingElsewhere'
<1> DEFINE read == reads[r]
<1>0. /\ read \in ReadStates /\ reads \in [Reads -> ReadStates]
      /\ read.phase = "answered" /\ view' = view
  BY TypeFacts DEF Continue
<1>1. CASE (Repeat(r) \/ NextPage(r)) /\ UNCHANGED <<asked, due, target, shown, mutation>>
  <2>1. \A q \in Reads : q # r => reads'[q] = reads[q]
    BY <1>0, <1>1 DEF Repeat, NextPage
  <2>2. reads'[r].aborted = read.aborted /\ reads'[r].phase = "sent"
    <3>1. CASE Repeat(r)
      BY <1>0, <3>1 DEF Repeat, ReadStates
    <3>2. CASE NextPage(r)
      BY <1>0, <3>2 DEF NextPage, ReadStates
    <3>. QED BY <1>1, <3>1, <3>2
  <2>3. \A q \in Reads : Waiting(q) => Waiting(q)'
    BY <2>1, <2>2 DEF Waiting
  <2>. QED BY <1>0, <1>1, <2>3 DEF LoadingElsewhere, LoadingIsReading
<1>2. CASE Finish(r) /\ Ignored(read)
  <2>1. UNCHANGED <<due, target, shown>> /\ reads' = [reads EXCEPT ![r] = NoRead]
    BY <1>2 DEF Finish
  <2>2. ~Waiting(r)
    BY <1>0, <1>2, BelievedReads
  <2>3. \A q \in Reads : Waiting(q) => Waiting(q)'
    BY <1>0, <2>1, <2>2 DEF Waiting
  <2>. QED BY <1>0, <2>1, <2>3 DEF LoadingElsewhere, LoadingIsReading
<1>3. CASE Finish(r) /\ ~Ignored(read)
  <2>1. Present(read)
    BY <1>3 DEF Finish
  <2>2. view # "list" => shown'.type # "loading"
    BY <2>1 DEF Present, BeyondLastPage, Ready, Loading
  <2>. QED BY <1>0, <2>2 DEF LoadingElsewhere, LoadingIsReading
<1>. QED BY <1>1, <1>2, <1>3 DEF Continue

\* The controls under the recent checks offer no page but another one.
LEMMA ChangePageIdle ==
    ASSUME TypeInv, AskedInv, LoadingElsewhere, ChangePage
    PROVE  LoadingElsewhere'
<1>0. /\ asked \in Queries /\ shown \in Shown /\ shown.data \in Answers /\ due \in BOOLEAN
      /\ asked.page \in Nat \ {0}
      /\ shown.data.page \in Nat \ {0} /\ shown.data.pages \in Nat \ {0}
  <2>1. asked \in Queries /\ shown \in Shown /\ shown.data \in Answers /\ due \in BOOLEAN
    BY TypeFacts
  <2>. QED BY <2>1, AnswerFields, Ranges DEF Queries
<1>1. UNCHANGED <<view, reads>> /\ shown.type = "ready"
  BY DEF ChangePage
<1>2. \A r \in Reads : Waiting(r)' = Waiting(r)
  BY <1>1 DEF Waiting
<1>3. CASE view # "checks"
  BY <1>1, <1>3 DEF ChangePage, LoadingElsewhere, LoadingIsReading
<1>4. CASE view = "checks" /\ (due \/ \E r \in Reads : Waiting(r))
  BY <1>1, <1>2, <1>4 DEF ChangePage, LoadingElsewhere, LoadingIsReading
<1>5. CASE view = "checks" /\ ~due /\ \A r \in Reads : ~Waiting(r)
  <2>1. shown.data.page = asked.page
    BY <1>1, <1>5 DEF AskedInv, SettledShowsAsked
  <2>2. PICK page \in OfferedPages : asked' = page /\ due' = (due \/ page # asked)
    BY DEF ChangePage
  <2> DEFINE from == asked.page
             back == IF from = 1 THEN 1 ELSE from - 1
             next == IF from < shown.data.pages THEN from + 1 ELSE shown.data.pages
  <2>3. page.page \in (IF shown.data.page = 1 THEN {} ELSE {back})
                       \cup (IF shown.data.page = shown.data.pages THEN {} ELSE {next})
    BY <1>5, <2>2 DEF OfferedPages
  <2>4. page.page # from
    BY <1>0, <2>1, <2>3
  <2>5. due'
    BY <2>2, <2>4
  <2>. QED BY <1>1, <2>5 DEF LoadingElsewhere, LoadingIsReading
<1>. QED BY <1>3, <1>4, <1>5

LEMMA NextIdle ==
    ASSUME TypeInv, AskedInv, LoadingElsewhere, [Next]_vars
    PROVE  LoadingElsewhere'
<1>1. ASSUME view' = view, shown'.type = "loading" => shown.type = "loading",
             due => due', target # NULL => target' # NULL,
             \A r \in Reads : Waiting(r) => Waiting(r)'
      PROVE  LoadingElsewhere'
  BY <1>1 DEF LoadingElsewhere, LoadingIsReading
<1>2. ASSUME reads' = reads PROVE \A r \in Reads : Waiting(r) => Waiting(r)'
  BY <1>2 DEF Waiting
<1>3. CASE UNCHANGED vars
  BY <1>1, <1>2, <1>3 DEF vars
<1>4. CASE RunEffect
  <2>1. PICK r \in Reads : reads'[r].phase = "sent" /\ reads'[r].aborted = FALSE
    BY <1>4 DEF RunEffect, NoRead
  <2>. QED BY <2>1 DEF LoadingElsewhere, LoadingIsReading, Waiting
<1>5. CASE Retry
  BY <1>5 DEF Retry, LoadingElsewhere, LoadingIsReading
<1>6. CASE Navigate
  BY <1>6 DEF Navigate, LoadingElsewhere
<1>7. CASE Deliver
  <2>1. target \notin {NULL, Away} => view = "list"
    BY DEF TypeInv, ControlsInv
  <2>. QED BY <1>7, <2>1 DEF Deliver, LoadingElsewhere, LoadingIsReading
<1>8. CASE OtherWrites
  <2>1. \A r \in Reads : Waiting(r)' = Waiting(r)
    BY <1>8, WrittenReads DEF OtherWrites
  <2>. QED BY <1>1, <1>8, <2>1 DEF OtherWrites
<1>9. CASE BeginMutation
  BY <1>1, <1>2, <1>9 DEF BeginMutation
<1>10. CASE ServeMutation
  <2>1. UNCHANGED <<view, target, shown, due>>
    BY <1>10 DEF ServeMutation
  <2>2. reads' = reads \/ \E version : Write(mutation.row, version)
    BY <1>10 DEF ServeMutation
  <2>3. \A r \in Reads : Waiting(r) => Waiting(r)'
    BY <1>2, <2>2, WrittenReads
  <2>. QED BY <1>1, <2>1, <2>3
<1>11. CASE FinishMutation
  <2>1. shown.type = "ready" /\ shown \in Shown
    BY <1>11, TypeFacts DEF FinishMutation, AskedInv
  <2>2. shown'.type = "ready"
    BY <1>11, <2>1 DEF FinishMutation, ShowMutation, Shown
  <2>. QED BY <2>2 DEF LoadingElsewhere, LoadingIsReading
<1>12. CASE AnnounceDeletion
  <2>1. view \in {"list", "details"} /\ view' = view /\ shown.type = "ready"
    BY <1>12 DEF AnnounceDeletion, TypeInv, ControlsInv, AskedInv
  <2>2. view = "details" => shown' = shown
    BY <1>12 DEF AnnounceDeletion
  <2>. QED BY <2>1, <2>2 DEF LoadingElsewhere, LoadingIsReading
<1>13. CASE UseForm
  <2>1. shown.type = "ready" /\ UNCHANGED shown
    BY <1>13 DEF UseForm, FormMounted
  <2>. QED BY <2>1 DEF LoadingElsewhere, LoadingIsReading
<1>. QED BY <1>3, <1>4, <1>5, <1>6, <1>7, <1>8, <1>9, <1>10, <1>11, <1>12, <1>13,
        ServedIdle, ContinueIdle, ChangePageIdle DEF Next

\* No view but the list says that it is loading with neither a read due or on
\* its way nor an address about to be delivered: LoadingIsReading, which a run
\* refutes, fails in the list alone, which starts again when an address comes.
THEOREM OnlyTheListLoadsIdly == Spec => []LoadingElsewhere
<1> DEFINE Inv == TypeInv /\ AskedInv /\ LoadingElsewhere
<1>1. Init => Inv
  <2>1. ASSUME Init PROVE (view = "create" /\ shown.type = "ready") \/ due
    <3>1. CASE view = "create"
      BY <2>1, <3>1 DEF Init, Ready
    <3>2. CASE view # "create"
      <4>1. due = (view # "create")
        BY <2>1 DEF Init
      <4>. QED BY <3>2, <4>1
    <3>. QED BY <3>1, <3>2
  <2>. QED BY <2>1, InitTypes, InitAsked DEF LoadingElsewhere, LoadingIsReading
<1>2. Inv /\ [Next]_vars => Inv'
  BY NextTypes, NextAsked, NextIdle
<1> HIDE DEF Inv
<1>3. Spec => []Inv
  BY <1>1, <1>2, PTL DEF Spec
<1>4. Inv => LoadingElsewhere
  BY DEF Inv
<1>. QED BY <1>3, <1>4, PTL
=============================================================================
