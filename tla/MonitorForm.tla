---------------------------- MODULE MonitorForm ----------------------------
(***************************************************************************)
(* The form that creates or edits a monitor (app/monitors/new/             *)
(* monitor-form.tsx): what is typed, the request that saves it, and the    *)
(* guard that asks before a link throws unsaved edits away.                *)
(*                                                                         *)
(* What the inputs hold is a number: 0 is what the form was rendered with  *)
(* (the stored configuration, or the defaults of a new monitor).           *)
(***************************************************************************)
EXTENDS ApiClient

CONSTANTS
    Drafts,           \* contents of the inputs; 0 is one of them
    RefusedDrafts,    \* those validateMonitorPayload finds errors in
    Faults,           \* exchanges that fail, whatever the request
    NULL              \* no navigation

ASSUME FormAssumption ==
    /\ 0 \in Drafts /\ RefusedDrafts \subseteq Drafts
    /\ Faults \subseteq Responses \cup NoResponse
    /\ NULL \notin [page: Nat, size: Nat]
    /\ \A exchange \in Faults \ NoResponse :
         ~Ok(exchange.status) \/ exchange.body = "malformed"

VARIABLES
    view,     \* the mounted view, or "left"
    target,   \* what the router has been asked for and has not delivered
    form      \* the state of MonitorForm

Away == [page |-> 0, size |-> 0]     \* another address than the mounted view's

FormStates ==
    [draft: Drafts,                     \* what the inputs hold
     dirty: BOOLEAN,                    \* dirtyRef
     pending: BOOLEAN,                  \* requestPendingRef, isSubmitting
     answer: Outcomes \cup {"none"},    \* of the request that is pending
     sent: Drafts,                      \* what the last request carries
     errors: BOOLEAN,                   \* whether the error summary is shown
     warning: BOOLEAN,                  \* pendingHref: the dialog is open
     exit: {"none", "link", "saved", "discarded"}]   \* history: why it leaves

NewForm ==
    [draft |-> 0, dirty |-> FALSE, pending |-> FALSE, answer |-> "none",
     sent |-> 0, errors |-> FALSE, warning |-> FALSE, exit |-> "none"]

Refused(draft) == draft \in RefusedDrafts \/ (view = "create" /\ draft = 0)

\* A change of an input; trackDirtyForm compares only what is being edited.
Type(draft) ==
    /\ ~form.warning /\ draft # form.draft
    /\ form' = [form EXCEPT !.draft = draft,
                            !.dirty = (view = "edit" /\ draft # 0)]
    /\ UNCHANGED target

\* Mutant of Submit: what is sent counts as saved.
SubmitForgetting ==
    /\ ~form.warning /\ ~form.pending
    /\ form' = IF Refused(form.draft) THEN [form EXCEPT !.errors = TRUE]
               ELSE [form EXCEPT !.pending = TRUE, !.sent = form.draft,
                                 !.errors = FALSE, !.dirty = FALSE]
    /\ UNCHANGED target

Submit ==
    /\ ~form.warning /\ ~form.pending
    /\ form' = IF Refused(form.draft) THEN [form EXCEPT !.errors = TRUE]
               ELSE [form EXCEPT !.pending = TRUE, !.sent = form.draft,
                                 !.errors = FALSE]
    /\ UNCHANGED target

\* The backend's answer, or none within the ten seconds of the timeout.
SaveOutcomes ==
    IF view = "create"
    THEN {CreateOutcome(exchange) : exchange \in Faults \cup {Response(201), Response(422)}}
    ELSE {UpdateOutcome(exchange) :
              exchange \in Faults \cup {Response(200), Response(404), Response(422)}}

AnswerSave ==
    /\ form.pending /\ form.answer = "none"
    /\ \E outcome \in SaveOutcomes : form' = [form EXCEPT !.answer = outcome]
    /\ UNCHANGED target

\* The rest of submitMonitor after its await.
FinishSave ==
    /\ form.answer # "none"
    /\ IF form.answer = "success"
       THEN /\ form' = [form EXCEPT !.pending = FALSE, !.answer = "none",
                                    !.dirty = FALSE, !.exit = "saved"]
            /\ target' = Away
       ELSE /\ form' = [form EXCEPT !.pending = FALSE, !.answer = "none",
                                    !.errors = TRUE]
            /\ UNCHANGED target

\* guardInternalLink: a plain click on a link of this origin.
FollowLink ==
    /\ ~form.warning
    /\ IF view = "edit" /\ form.dirty
       THEN form' = [form EXCEPT !.warning = TRUE] /\ UNCHANGED target
       ELSE form' = [form EXCEPT !.exit = "link"] /\ target' = Away

KeepEditing ==
    /\ form.warning
    /\ form' = [form EXCEPT !.warning = FALSE]
    /\ UNCHANGED target

DiscardChanges ==
    /\ form.warning
    /\ form' = [form EXCEPT !.dirty = FALSE, !.warning = FALSE, !.exit = "discarded"]
    /\ target' = Away

FormStep ==
    \/ \E draft \in Drafts : Type(draft)
    \/ Submit \/ AnswerSave \/ FinishSave
    \/ FollowLink \/ KeepEditing \/ DiscardChanges

-----------------------------------------------------------------------------
\* A link that leaves the edit form without the question throws no edits away,
\* also after saves that failed: the guard reads a flag that typing, saving and
\* discarding all write.
EditsSurviveLinks ==
    [][view = "edit" /\ target = NULL /\ target' = Away /\ form'.exit = "link"
         => form.draft = 0]_<<view, target, form>>
=============================================================================
