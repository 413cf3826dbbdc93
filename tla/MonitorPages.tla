---------------------------- MODULE MonitorPages ----------------------------
(***************************************************************************)
(* The views of the web application that read monitors, checks and         *)
(* incidents: the effect that starts a read, the read with its one         *)
(* repetition, the answer that arrives when the view may want another page *)
(* by now, the buttons that change or delete a row, and the router.        *)
(*                                                                         *)
(* The model follows one mounted view.  The rows belong to the backend and *)
(* change on their own account as well (workers, another tab).  A version  *)
(* of a row is the number of the write that stored it; 0 stands for no row.*)
(***************************************************************************)
EXTENDS MonitorForm, Paging

CONSTANTS
    Views,            \* the views that may be mounted
    Reads,            \* reads of the view that may be in flight at once
    MaxRows,          \* rows that may exist
    FewRows,          \* rows that may exist behind a view that is not Crowded
    Crowded,          \* the views whose rows may be as many as MaxRows
    PageSizes,        \* sizes the list and the incident history offer
    FixedSize,        \* the size of a page where the code fixes it
    MaxChanges,       \* writes of others
    MaxMoves          \* page changes, navigations and mutations of the user

ListViews == {"list", "checks", "history", "recent", "active"}
SetViews == {"chart", "summary"}
RowViews == {"details", "edit", "incident"}
IncidentViews == {"active", "history", "incident"}

ASSUME PagesAssumption ==
    /\ Views \subseteq ListViews \cup SetViews \cup RowViews \cup {"create"}
    /\ MaxRows \in Nat \ {0} /\ FewRows \in 1..MaxRows
    /\ MaxChanges \in Nat /\ MaxMoves \in Nat
    /\ PageSizes \subseteq Nat \ {0} /\ PageSizes # {}
    /\ FixedSize \in Nat \ {0}
    /\ Reads \subseteq Nat /\ IsFiniteSet(Reads)

VARIABLES
    asked,      \* the page the view's state asks for
    source,     \* the list's copy of the page its props named last
    shown,      \* what the view shows
    due,        \* whether the read effect has to run
    reads,      \* the reads that have not come to their end
    rows,       \* the backend's rows
    changes,    \* writes so far
    moves,      \* moves so far
    mutation    \* the pause, resume or delete button at work

vars == <<view, target, form, asked, source, shown, due, reads, rows,
          changes, moves, mutation>>

Ids == 1..MaxRows

\* The bound on the rows behind a view.
Room(v) == IF v \in Crowded THEN MaxRows ELSE FewRows

Versions == 0..(MaxChanges + MaxMoves + 1)
Sizes == PageSizes \cup {FixedSize}
PageNumbers == 1..(MaxRows + MaxMoves)
Queries == [page: PageNumbers, size: Sizes]
Stored == {row \in Ids : rows[row] # 0}

NoItems == [row \in Ids |-> 0]
Items(ids) == [row \in Ids |-> IF row \in ids THEN rows[row] ELSE 0]
Held(items) == {row \in Ids : items[row] # 0}

Answers ==
    [items: [Ids -> Versions], page: PageNumbers, size: Sizes,
     total: 0..(MaxRows + FixedSize), pages: 1..MaxRows]

NoAnswer == [items |-> NoItems, page |-> 1, size |-> FixedSize, total |-> 0, pages |-> 1]

Shown == [type: {"loading", "ready", "not_found", "error"}, data: Answers]

Loading == [type |-> "loading", data |-> NoAnswer]
Ready(answer) == [type |-> "ready", data |-> answer]

\* A read: its place in readWithOneRetry, and what listAllActiveIncidents has
\* collected before the page it asks for.  begun and undisturbed are history:
\* the rows there were when the collection began, and whether since then no row
\* has gone and none has come between the two statements of one answer.
NoRead ==
    [phase |-> "none", attempt |-> 1, aborted |-> FALSE,
     query |-> [page |-> 1, size |-> FixedSize], total |-> 0,
     outcome |-> "none", answer |-> NoAnswer,
     items |-> NoItems, taken |-> 0, begun |-> {}, undisturbed |-> TRUE]

ReadStates ==
    [phase: {"none", "sent", "counted", "answered"}, attempt: {1, 2},
     aborted: BOOLEAN, query: Queries, total: 0..MaxRows,
     outcome: Outcomes \cup {"none"}, answer: Answers,
     items: [Ids -> Versions], taken: 0..(MaxRows + FixedSize),
     begun: SUBSET Ids, undisturbed: BOOLEAN]

NoMutation ==
    [phase |-> "none", kind |-> "change", row |-> 1, last |-> FALSE, page |-> 1,
     outcome |-> "none", version |-> 0]

Mutations ==
    [phase: {"none", "sent", "answered", "closing"}, kind: {"change", "delete"},
     row: Ids, last: BOOLEAN, page: PageNumbers,
     outcome: Outcomes \cup {"none"}, version: Versions]

\* The default sizes of the list and of the incident history, the fixed ones.
FirstSizes(v) == IF v \in {"list", "history"} THEN {CHOOSE size \in PageSizes : TRUE}
                 ELSE {FixedSize}

Init ==
    /\ view \in Views
    /\ \E n \in 0..Room(view) : rows = [row \in Ids |-> IF row <= n THEN 1 ELSE 0]
    /\ asked \in {q \in [page: 1..Room(view), size: FirstSizes(view)] :
                    view # "list" => q.page = 1}
    /\ source = asked /\ target = NULL
    /\ shown = IF view = "create" THEN Ready(NoAnswer) ELSE Loading
    /\ due = (view # "create")
    /\ reads = [r \in Reads |-> NoRead]
    /\ changes = 0 /\ moves = 0
    /\ mutation = NoMutation /\ form = NewForm

-----------------------------------------------------------------------------
(* One read *)

\* A request that is aborted on its way rejects.  One that has its answer has
\* only its signal changed: the first one's answer is dropped for that, the
\* second one's is returned all the same.
Aborted(read) ==
    CASE read.phase = "none" -> NoRead
      [] read.phase = "answered" /\ read.attempt = 2 -> [read EXCEPT !.aborted = TRUE]
      [] OTHER -> [NoRead EXCEPT !.phase = "answered", !.attempt = read.attempt,
                                 !.aborted = TRUE,
                                 !.outcome = RequestFailure(TimedOut, TRUE)]

\* The effect's cleanup aborts the read before; the effect starts the next.
\* (That a read is not the latest, which the list, the details and the edit
\* form test, and that its signal is aborted are one thing while mounted.)
RunEffect ==
    /\ due
    /\ \E r \in Reads :
         /\ reads[r].phase = "none"
         /\ \A other \in Reads : reads[other].phase = "none" => r <= other
         /\ reads' = [other \in Reads |->
                        IF other = r
                        THEN [NoRead EXCEPT !.phase = "sent", !.query = asked,
                                            !.begun = IF view = "active" THEN Stored ELSE {}]
                        ELSE Aborted(reads[other])]
    /\ due' = FALSE
    /\ UNCHANGED <<view, target, form, asked, source, shown, rows, changes,
                   moves, mutation>>

\* The backend counts the rows and selects the page in two statements.
Count(r) ==
    /\ view \in ListViews /\ reads[r].phase = "sent"
    /\ reads' = [reads EXCEPT ![r].phase = "counted",
                              ![r].total = Cardinality(Stored)]

Page(query, total) ==
    [items |-> Items(OnPage(Stored, query.page, query.size)),
     page |-> query.page, size |-> query.size,
     total |-> total, pages |-> Pages(total, query.size)]

Answered(r, outcome, answer) ==
    reads' = [reads EXCEPT ![r].phase = "answered", ![r].outcome = outcome,
                           ![r].answer = answer, ![r].total = 0]

SelectPage(r) ==
    /\ reads[r].phase = "counted"
    /\ Answered(r, "success", Page(reads[r].query, reads[r].total))

SelectRows(r) ==
    /\ view \in SetViews /\ reads[r].phase = "sent"
    /\ Answered(r, "success", [NoAnswer EXCEPT !.items = rows])

SelectRow(r) ==
    /\ view \in RowViews /\ reads[r].phase = "sent"
    /\ IF rows[1] # 0 THEN Answered(r, "success", [NoAnswer EXCEPT !.items = Items({1})])
       ELSE Answered(r, "not_found", NoAnswer)

\* The exchange fails; the signal is the timeout's own, not the caller's.
Fail(r) ==
    /\ reads[r].phase \in {"sent", "counted"}
    /\ \E exchange \in Faults :
         Answered(r, IF view \in IncidentViews THEN IncidentOutcome(exchange, FALSE)
                     ELSE ReadOutcome(exchange, FALSE), NoAnswer)

Serve(r) ==
    /\ Count(r) \/ SelectPage(r) \/ SelectRows(r) \/ SelectRow(r) \/ Fail(r)
    /\ UNCHANGED <<view, target, form, asked, source, shown, due, rows, changes,
                   moves, mutation>>

\* readWithOneRetry: an answer to the first request counts only if the caller
\* still waits; the second one's is returned as it is.
Repeats(read) == read.attempt = 1 /\ ~read.aborted /\ read.outcome \in Transient

Outcome(read) == IF read.attempt = 1 /\ read.aborted THEN "cancelled" ELSE read.outcome

\* Mutant of Continues: a page that brings nothing new is taken for the last one.
ContinuesWhileNew(read) ==
    /\ view = "active" /\ Outcome(read) = "success"
    /\ read.query.page < read.answer.pages
    /\ ~(Held(read.answer.items) \subseteq Held(read.items))

\* listAllActiveIncidents goes on while there are pages.
Continues(read) ==
    view = "active" /\ Outcome(read) = "success" /\ read.query.page < read.answer.pages

\* Mutant of Ignored: a read that was overtaken is believed unless it says it was cancelled.
IgnoredIfCancelled(read) == Outcome(read) = "cancelled"

\* What the callback of a read tests first.
Ignored(read) == read.aborted \/ Outcome(read) = "cancelled"

Repeat(r) ==
    /\ Repeats(reads[r])
    /\ reads' = [reads EXCEPT ![r].phase = "sent", ![r].attempt = 2,
                              ![r].outcome = "none"]

Collected(read) ==
    [items |-> [row \in Ids |-> IF read.answer.items[row] # 0 THEN read.answer.items[row]
                                ELSE read.items[row]],
     taken |-> read.taken + Cardinality(Held(read.answer.items))]

NextPage(r) ==
    LET read == reads[r] IN
    /\ ~Repeats(read) /\ Continues(read)
    /\ reads' = [reads EXCEPT ![r] =
                   [read EXCEPT !.phase = "sent", !.attempt = 1, !.outcome = "none",
                                !.answer = NoAnswer,
                                !.query = [page |-> read.query.page + 1,
                                           size |-> read.query.size],
                                !.items = Collected(read).items,
                                !.taken = Collected(read).taken]]

\* The answer of the whole collection: one page that holds everything.
Gathered(read) ==
    [items |-> Collected(read).items, page |-> 1, size |-> FixedSize,
     total |-> Collected(read).taken, pages |-> 1]

Unmounted(items) ==
    IF items[mutation.row] = 0 THEN NoMutation ELSE mutation

\* What the callback makes of an outcome; the list corrects a page that has
\* gone, and asks the router for the address of the page it reads instead.
BeyondLastPage(read) ==
    view = "list" /\ Outcome(read) = "success" /\ read.query.page > read.answer.pages

\* Mutant of Present: failures, and pages that have gone, are left for the user to notice.
PresentForgetting(read) ==
    /\ shown' = IF Outcome(read) = "success" /\ ~BeyondLastPage(read)
                THEN Ready(read.answer) ELSE Loading
    /\ mutation' = Unmounted(shown'.data.items)
    /\ UNCHANGED <<asked, due, target>>

Present(read) ==
    IF BeyondLastPage(read)
    THEN LET page == [page |-> read.answer.pages, size |-> read.query.size]
         IN  /\ asked' = [asked EXCEPT !.page = read.answer.pages]
             /\ due' = (due \/ asked' # asked)
             /\ target' = page
             /\ shown' = Loading /\ mutation' = NoMutation
    ELSE /\ shown' = CASE Outcome(read) = "success" ->
                            Ready(IF view = "active" THEN Gathered(read) ELSE read.answer)
                       [] Outcome(read) = "not_found" /\ view \in RowViews ->
                            [Loading EXCEPT !.type = "not_found"]
                       [] OTHER -> [Loading EXCEPT !.type = "error"]
         /\ mutation' = Unmounted(shown'.data.items)
         /\ UNCHANGED <<asked, due, target>>

Finish(r) ==
    LET read == reads[r] IN
    /\ ~Repeats(read) /\ ~Continues(read)
    /\ reads' = [reads EXCEPT ![r] = NoRead]
    /\ IF Ignored(read) THEN UNCHANGED <<asked, due, target, shown, mutation>>
       ELSE Present(read)

Continue(r) ==
    /\ reads[r].phase = "answered"
    /\ \/ (Repeat(r) \/ NextPage(r)) /\ UNCHANGED <<asked, due, target, shown, mutation>>
       \/ Finish(r)
    /\ UNCHANGED <<view, form, source, rows, changes, moves>>

-----------------------------------------------------------------------------
(* The user and the router *)

\* "Try again".  Three views show the error until the new answer comes.
Retry ==
    /\ shown.type = "error" /\ ~due
    /\ shown' = IF view \in IncidentViews THEN shown ELSE Loading
    /\ due' = TRUE
    /\ UNCHANGED <<view, target, form, asked, source, reads, rows, changes,
                   moves, mutation>>

\* The controls under a page: previous, next and, where offered, the size.
\* The recent checks step from the page they ask for, the others from the page
\* they show; only the incident history steps past a last page that moved.
OfferedPages ==
    LET data == shown.data
        from == IF view = "checks" THEN asked.page ELSE data.page
        back == IF from = 1 THEN 1 ELSE from - 1
        next == IF view = "history" \/ from < data.pages THEN from + 1 ELSE data.pages
        size == IF view = "history" THEN data.size ELSE asked.size
    IN  [page: (IF data.page = 1 THEN {} ELSE {back})
                 \cup (IF data.page = data.pages THEN {} ELSE {next}),
         size: {asked.size}]
        \cup (IF view = "checks" THEN {} ELSE [page: {1}, size: PageSizes \ {size}])

ChangePage ==
    /\ view \in {"list", "checks", "history"} /\ shown.type = "ready"
    /\ view = "history" \/ shown.data.total > 0
    /\ mutation.phase = "none" /\ moves < MaxMoves
    /\ \E page \in OfferedPages :
         /\ asked' = page
         /\ due' = (due \/ page # asked)
         /\ target' = IF view = "list" THEN page ELSE target
    /\ shown' = IF view = "history" THEN shown ELSE Loading
    /\ moves' = moves + 1
    /\ UNCHANGED <<view, form, source, reads, rows, changes, mutation>>

\* Back, forward, or a link to another page of the list.
Navigate ==
    /\ view = "list" /\ moves < MaxMoves
    /\ target' \in [page: 1..Room(view), size: PageSizes] /\ target' # target
    /\ moves' = moves + 1
    /\ UNCHANGED <<view, form, asked, source, shown, due, reads, rows, changes, mutation>>

\* The router delivers: the list is rendered with new props, and starts again
\* if they differ from those it saw last; any other address unmounts the view.
Deliver ==
    /\ target # NULL
    /\ target' = NULL
    /\ IF target = Away
       THEN /\ view' = "left" /\ due' = FALSE
            /\ reads' = [r \in Reads |-> NoRead]
            /\ mutation' = NoMutation /\ form' = NewForm /\ shown' = Loading
            /\ UNCHANGED <<asked, source>>
       ELSE /\ UNCHANGED <<view, form, reads>>
            /\ IF target = source
               THEN UNCHANGED <<asked, source, shown, due, mutation>>
               ELSE /\ source' = target /\ asked' = target
                    /\ due' = (due \/ target # asked)
                    /\ shown' = Loading /\ mutation' = NoMutation
    /\ UNCHANGED <<rows, changes, moves>>

-----------------------------------------------------------------------------
(* Writes *)

Disturbs(row, version, read) ==
    \/ version = 0 /\ read.phase # "none"
    \/ rows[row] = 0 /\ read.phase = "counted"

Write(row, version) ==
    /\ rows' = [rows EXCEPT ![row] = version]
    /\ changes' = changes + 1
    /\ reads' = [r \in Reads |->
                   IF view = "active" /\ Disturbs(row, version, reads[r])
                   THEN [reads[r] EXCEPT !.undisturbed = FALSE] ELSE reads[r]]

\* Another tab or a worker creates, changes or removes a row.
OtherWrites ==
    /\ changes < MaxChanges
    /\ \E row \in 1..Room(view), version \in {0, changes + 2} :
         /\ rows[row] = 0 => version # 0 /\ \A other \in Stored : other < row
         /\ Write(row, version)
    /\ UNCHANGED <<view, target, form, asked, source, shown, due, moves, mutation>>

\* changeState and remove: one button of one row is at work at a time.  What
\* removeMonitor will look at is what was rendered when the button was pressed.
BeginMutation ==
    /\ view \in {"list", "details"} /\ shown.type = "ready"
    /\ mutation.phase = "none" /\ moves < MaxMoves
    /\ \E kind \in {"change", "delete"}, row \in Held(shown.data.items) :
         LET turns == kind = "delete" /\ Held(shown.data.items) = {row}
                      /\ shown.data.page > 1 IN
         mutation' = [NoMutation EXCEPT
             !.phase = "sent", !.kind = kind, !.row = row, !.last = turns,
             !.page = IF turns THEN shown.data.page ELSE 1]
    /\ moves' = moves + 1
    /\ UNCHANGED <<view, target, form, asked, source, shown, due, reads, rows, changes>>

\* The backend's part; an exchange that fails may have written before.
ServeMutation ==
    /\ mutation.phase = "sent"
    /\ \E exchange \in Faults \cup {IF rows[mutation.row] = 0 THEN Response(404)
                                     ELSE IF mutation.kind = "delete" THEN Response(204)
                                     ELSE Response(200)} :
         LET version == IF mutation.kind = "delete" THEN 0 ELSE changes + 2 IN
         /\ mutation' = [mutation EXCEPT
                !.phase = "answered", !.version = version,
                !.outcome = IF mutation.kind = "delete" THEN DeleteOutcome(exchange)
                            ELSE ChangeOutcome(exchange)]
         /\ \/ /\ rows[mutation.row] # 0
               /\ exchange \in NoResponse \/ Ok(exchange.status)
               /\ Write(mutation.row, version)
            \/ /\ exchange \in NoResponse \/ ~Ok(exchange.status)
               /\ UNCHANGED <<rows, changes, reads>>
    /\ UNCHANGED <<view, target, form, asked, source, shown, due, moves>>

\* The rest of changeState or remove after the await: the answered row replaces
\* the one shown; a deletion is announced half a second later.
ShowMutation ==
    IF mutation.kind = "delete"
    THEN /\ mutation' = [mutation EXCEPT !.phase = "closing", !.outcome = "none"]
         /\ UNCHANGED <<shown, reads>>
    ELSE /\ mutation' = NoMutation
         /\ shown' = [shown EXCEPT !.data.items[mutation.row] = mutation.version]
         /\ reads' = [r \in Reads |-> IF reads[r].phase = "none" THEN NoRead
                       ELSE [reads[r] EXCEPT !.undisturbed = FALSE]]

\* Mutant of FinishMutation: a failure does not give the button back.
FinishMutationOnSuccess ==
    /\ mutation.phase = "answered" /\ mutation.outcome = "success"
    /\ ShowMutation
    /\ UNCHANGED <<view, target, form, asked, source, due, rows, changes, moves>>

FinishMutation ==
    /\ mutation.phase = "answered"
    /\ IF mutation.outcome # "success"
       THEN mutation' = NoMutation /\ UNCHANGED <<shown, reads>>
       ELSE ShowMutation
    /\ UNCHANGED <<view, target, form, asked, source, due, rows, changes, moves>>

\* The timer fires: the details leave for the list; the list takes the row out,
\* or turns back a page when the row was the last one on its page.
AnnounceDeletion ==
    /\ mutation.phase = "closing"
    /\ mutation' = NoMutation
    /\ IF view = "details"
       THEN target' = Away /\ UNCHANGED <<asked, due, shown>>
       ELSE IF mutation.last
       THEN LET page == [asked EXCEPT !.page = mutation.page - 1] IN
            /\ asked' = page /\ target' = page
            /\ due' = (due \/ page # asked)
            /\ shown' = Loading
       ELSE LET data == shown.data
                total == IF data.total = 0 THEN 0 ELSE data.total - 1 IN
            /\ shown' = Ready([data EXCEPT !.items[mutation.row] = 0, !.total = total,
                                          !.pages = Pages(total, data.size)])
            /\ UNCHANGED <<asked, due, target>>
    /\ UNCHANGED <<view, form, source, reads, rows, changes, moves>>

\* The form is mounted in the create view, and in the edit view once read.
FormMounted == view \in {"create", "edit"} /\ shown.type = "ready"

UseForm ==
    /\ FormMounted /\ FormStep
    /\ UNCHANGED <<view, asked, source, shown, due, reads, rows, changes, moves, mutation>>

Next ==
    \/ RunEffect
    \/ \E r \in Reads : Serve(r) \/ Continue(r)
    \/ Retry \/ ChangePage \/ Navigate \/ Deliver
    \/ OtherWrites
    \/ BeginMutation \/ ServeMutation \/ FinishMutation \/ AnnounceDeletion
    \/ UseForm

Spec == Init /\ [][Next]_vars

\* React runs due effects, a request is answered or times out, a promise's
\* callback runs, the router delivers, a timer fires.  (The steps joined here
\* are never enabled together.)  Users owe nothing.
Fairness ==
    /\ WF_vars(RunEffect) /\ WF_vars(Deliver)
    /\ \A r \in Reads : WF_vars(Serve(r) \/ Continue(r))
    /\ WF_vars(ServeMutation \/ FinishMutation \/ AnnounceDeletion)
    /\ WF_vars(UseForm /\ (AnswerSave \/ FinishSave))

LiveSpec == Spec /\ Fairness

-----------------------------------------------------------------------------
(* Properties *)

\* The types of the view's state, its reads and its mutation.
PagesTypeOK ==
    /\ view \in Views \cup {"left"}
    /\ asked \in Queries /\ source \in Queries
    /\ target \in Queries \cup {Away, NULL}
    /\ shown \in Shown /\ due \in BOOLEAN
    /\ reads \in [Reads -> ReadStates]
    /\ rows \in [Ids -> Versions]
    /\ changes \in 0..(MaxChanges + MaxMoves) /\ moves \in 0..MaxMoves
    /\ mutation \in Mutations /\ form \in FormStates

Waiting(r) == reads[r].phase # "none" /\ ~reads[r].aborted

\* A view that has come to rest shows the page its controls ask for: answers
\* of reads that were overtaken, repeated or too late leave no trace.
SettledShowsAsked ==
    (/\ view \in {"list", "checks", "history"} /\ shown.type = "ready"
     /\ ~due /\ \A r \in Reads : ~Waiting(r))
    => shown.data.page = asked.page /\ shown.data.size = asked.size

\* The button's answer is older than another write to the backend's rows.
Overtaken == mutation.phase = "answered" /\ mutation.version <= changes

\* What is shown of a row never goes back to an older version, whether the
\* newer one came with a read or as the answer of a pause or resume.
\* (replaceMonitor compares nothing: a read that was on its way when the
\* button's answer was shown may take it back, and the answer may take back
\* what a read has shown of a write after it.)
ShownNeverGoesBack ==
    [][(/\ shown.type = "ready" /\ shown'.type = "ready"
        /\ \A r \in Reads : reads'[r].phase = "none" => reads[r].undisturbed
        /\ ~(Overtaken /\ FinishMutation)) =>
         \A row \in Held(shown.data.items) :
            shown'.data.items[row] # 0 =>
                shown'.data.items[row] >= shown.data.items[row]]_vars

\* listAllActiveIncidents asks for one offset after the other: incidents that
\* open in between are seen twice, but none that was active from the start is
\* missed unless another one closes meanwhile or opens within one answer.
CollectionSkipsNothing ==
    \A r \in Reads :
        LET read == reads[r] IN
        (/\ view = "active" /\ read.phase = "answered" /\ read.outcome = "success"
         /\ ~Ignored(read) /\ read.undisturbed /\ ~Continues(read))
        => read.begun \subseteq Held(Gathered(read).items)

\* No view stays at "Loading": it comes to show something or is left.  Of the
\* list this is said while a read is on its way; see LoadingIsReading.
ViewsSettle ==
    (/\ shown.type = "loading" /\ view # "left"
     /\ view = "list" => due \/ \E r \in Reads : Waiting(r))
    ~> (shown.type # "loading" \/ view = "left")

\* A button or form that waits for its answer becomes usable again, or its
\* view is gone.
SavesSettle ==
    (mutation.phase # "none" \/ form.pending) ~> (mutation.phase = "none" /\ ~form.pending)

\* "Loading" stands for a read that is due or on its way, or a navigation that
\* is about to be delivered.
LoadingIsReading ==
    shown.type = "loading" /\ view # "left"
    => due \/ target # NULL \/ \E r \in Reads : Waiting(r)
=============================================================================
