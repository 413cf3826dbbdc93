# Verification of the API monitoring platform

The platform checks HTTP endpoints on a schedule, opens an incident after a
number of failures in a row, closes it after a number of successes, and emails
the owner. It consists of a FastAPI backend, Celery workers with a Redis broker,
a PostgreSQL database and a Next.js client. This directory holds TLA+ modules of
its core, TLC configurations that check them on small instances, and TLAPS
proofs for arbitrary ones. Paths below are relative to `src/apps/backend/app`,
and those that begin with `web/` to `src/apps/`.

## Inventory

| Component | State | Operations | Hard behaviour | What makes it correct |
|---|---|---|---|---|
| Monitor API (`routes/monitors.py`) | row of `monitors` | create, pause, resume, update, delete | rows are read without a lock and written column by column; PUT awaits DNS in between | status and `is_enabled` agree; no result is overwritten; deletion is final |
| State machine (`monitoring/state.py`) | streak counters, status | `apply_monitor_result`, eligibility | thresholds, interrupted streaks | incidents open and close only after full streaks |
| Scheduler (`monitoring/scheduler.py`) | `monitor_runs`, `next_check_at`, `enqueued_at` | one cycle: create due runs, send pending ones | overlapping cycles, SKIP LOCKED, message sent before its commit | one run per slot, no slot skipped, no run marked sent that was not |
| Worker (`monitoring/worker.py`) | `monitor_runs`, `monitor_checks`, `monitors`, `incidents`, `incident_events`, `notification_deliveries` | claim, second look, request, completion, publication | redelivered and lost messages, crashes, stale clock, monitor paused or deleted meanwhile | one check per run; one active incident; down means an incident |
| Email (`notifications/`) | `notification_deliveries`, email queue | claim, send, record, retry | late acknowledgement, redelivery, crash around SMTP, retry published after commit | no second acknowledged email, growing delays, an end |
| Celery (`celery_app.py`) | two queues | beat, countdown, acknowledgement | early acknowledgement of runs, late of emails | (assumption of the above) |
| Sessions (`security/sessions.py`, `routes/auth.py`) | Redis keys, `users` | register, login, verify and renew, logout | read, check and renewal are separate commands; the session is stored before the account is committed | a session that has ended stays ended; no cookie without an account |
| Web API clients (`web/lib`) | none | one function per endpoint | timeouts, malformed answers, refused fields | every exchange has an outcome its caller handles |
| Web views (`web/app/monitors`, `web/app/dashboard`) | React state, address | reads, paging, pause, resume and delete buttons | answers out of order, one repetition, the page kept in state and address | what is shown belongs to what is asked; nothing loads for ever |
| Monitor form (`monitor-form.tsx`) | React state | type, save, leave | link guard against saving and typing | unsaved edits are not dropped unasked |
| Web sign-in (`proxy.ts`, `app-shell.tsx`, `auth-form.tsx`, `logout-button.tsx`) | cookie, React state | navigate, sign in, count down, log out | redirects while sessions end, late answers with cookies | live cookies are kept; everything comes to rest |
| Rate limits (`security/rate_limits.py`) | Redis counters | consume | fixed windows, several keys | (not modelled) |
| Destinations, passwords, migrations, configuration, health, logging, interface elements | none, or one library call | | | (not modelled) |

The API and the scheduler meet the worker only in database rows; the scheduler
and the worker meet in the execution queue, the worker and the email sender in
the `notification_deliveries` rows and the email queue. Beat starts scheduler
cycles periodically and does not wait for the cycle before. The web application
meets the backend in HTTP exchanges only; its proxy verifies the session for
every page, its shell once more after mounting.

`PROJECT.json` lists under "hazards" where this code is hard to test, line by
line, with the properties that watch each place.

## Modules

| Module | Models |
|---|---|
| `MonitorRow` | the monitor row; the functions of `monitoring/state.py`; the assignments of each handler; SQLAlchemy's column-wise UPDATE (`Flush`) |
| `MonitorApi` | the handlers as read / (DNS) / commit against one row, with the scheduler and workers as locked writers (`ScheduleDue`, `RecordResult`) |
| `CheckExecution` | extends `MonitorApi`: replaces those two by the real transactions, adds runs, checks, incidents, deliveries, workers and crashes |
| `RunDispatch` | overlapping scheduler cycles, the execution queue, early acknowledgement, row locks |
| `RunLifecycle` | what a run promises; `RunDispatch` implements it |
| `EmailDelivery` | the email queue, workers, SMTP outcomes, retries and faults |
| `DeliveryLifecycle` | `ALLOWED_TRANSITIONS` and the attempt bound; `EmailDelivery` implements it |
| `Sessions` | the handlers of `routes/auth.py`, one step per Redis command, query or commit |
| `ApiClient` | what an HTTP exchange comes to in `web/lib/*-api.ts`, field errors, retry delays |
| `SignIn` | extends `Sessions` and `ApiClient`: one browser tab with its cookie, the proxy, the shell, the forms and the logout button |
| `Paging` | page counts, the parameters of an address, redirects between list addresses |
| `MonitorForm` | the form's edits, its saving and the guard of its links |
| `MonitorPages` | extends `MonitorForm` and `Paging`: one mounted view, its reads, buttons and router |
| `MC*` | instances for TLC: sets of tokens, reads and faults, symmetry sets, a bound on streaks |
| `MonitorApiProofs`, `CheckExecutionProofs`, `RunDispatchProofs`, `EmailDeliveryProofs`, `SignInProofs`, `WebClientProofs`, `MonitorPagesProofs`, `QueueLemmas` | theorems and lemmas |

`MonitorApi` serves as the abstract specification of `CheckExecution`: its
`ApiSpec` is checked as a property of the one and proved of it.

How state and actions correspond to the code:

- A tick of the clock stands for any amount of time; intervals, delays and
  expiries count ticks.
- A monitor handler is two or three steps: `Begin*` (SELECT and assignments on the
  loaded object; both copies are kept in `request`), `ValidateDestination` for PUT,
  and `Commit*`. `Flush` writes only the columns whose value differs from the loaded
  one, which is what the ORM emits. A commit that fails is `CommitFails`.
- A transaction that takes its row locks with FOR UPDATE is one step when its
  reads and writes are covered by those locks. In `RunDispatch`, where the
  lock is what matters (a message is sent while it is held), locking and
  committing are separate steps.
- `_complete_run` reads its clock before it locks: `ReceiveAnswer` takes
  `completed_at`, `CompleteRun` uses it, and anything may happen in between. The
  check constraint on `resolved_at` is `ResolvedInOrder`; when it fails the whole
  transaction is rolled back (`RejectCompletion`).
- The HTTP request of a check is its outcome, success or failure; the SMTP call is
  accepted, refused for a time or for ever, or broken off after the handover.
- Runs are named by their slot (`scheduled_for`), unique per monitor; incidents by
  the slot of the check that triggered them. Monitors share no row, so
  `CheckExecution` has one. Deleting it cascades to its runs, checks, incidents
  and deliveries.
- An auth handler goes from phase to phase of its record in `requests`. A Redis
  command may raise, having taken effect or not; a commit that raises may be
  committed; a handler may be killed between any two steps (`Crash`), which also
  stands for an answer of 500. What the handler read is kept in its record, so
  renewal works on the session as it was. The rate limiter is an answer of 429 or
  503 that any request may get.
- A client deadline is `GiveUp`: the tab goes on, the handler does too, and its late
  answer still sets or expires the cookie (`TakeCookie`), as a browser does.
- A component waits for one request (`waiting`); an answer nobody waits for any more
  only reaches the cookie. `Arrive` is a document or new props: the shell outlives
  its pages, a form does not.
- A read of a view remembers the page it asks for and whether it was cancelled or
  overtaken (`Ignored`). Its first failed attempt is repeated if the failure is
  transient (`Repeats`). The address is `target` until the router delivers it.
- Rows of the backend have a version, the number of the write that stored it; pages
  are offsets into the rows at the moment the backend answers.
- `harmed`, `lost`, `faults`, `handed`, `unclear`, `history`, `undisturbed` and `begun` are
  ghosts: no guard reads them except the bound on faults.

Definitions named in a comment "Mutant of ..." are plausible mistakes in the code
they follow. No specification uses them; each shows that a property notices
such a mistake.

## Runs

| Run | Shows | Bounds |
|---|---|---|
| `api_races` | what overlapping requests cannot break | 2 requests, 2 intervals, 3 instants, streaks of 1 |
| `api_resume_race` (violation) | overlapping requests may leave an enabled monitor without a next check | 3 requests |
| `check_workers` | consistency of runs, checks, incidents and deliveries under crashes and redelivery; refinement of `ApiSpec` | 2 workers, 1 client, 4 slots, thresholds 1 |
| `check_thresholds` | streaks before opening and resolution | thresholds 2, 5 slots, 1 worker, 1 client |
| `check_clock_race` (violation) | two reliable workers may leave a run unsettled | 2 workers, 3 slots |
| `email_faults` | handovers, delays, lifecycle, settlement | 1 delivery, 2 workers, 3 attempts, delays 1 and 2 (capped), any 2 faults, 4 instants |
| `email_lost_retry` (violation) | a lost worker may lose a retry | 1 worker, 1 fault |
| `dispatch_cycles` | overlapping cycles: no slot skipped, no run lost or repeated | 2 cycles, 2 monitors, 2 slots, 1 worker, 1 fault |
| `dispatch_progress` | due monitors are scheduled, queued runs start | 2 cycles, 1 monitor, 2 slots, 1 fault |
| `web_pages` | every view shows what it asks for, and comes to rest | 3 rows (2 behind the list and the history), pages of 1 and 2, 2 reads in flight, 1 foreign write, 2 moves |
| `web_list_loading` (violation) | the monitor list may stand at "Loading monitors" | the list alone, 1 move |
| `web_session` | sessions, cookies and redirects | 1 account, 2 tokens, 2 requests at once, idle expiry 2 and absolute 3, 3 instants, 2 moves |

Why the bounds suffice: races over one row need two actors between a read and a write,
and three where one must undo another (resume). Streaks interact with thresholds at
the boundary, which two reaches from both sides; four or five slots allow an incident
to open, be resolved and open again. Three attempts exercise the first delay, the
capped delay and exhaustion; the real schedule (60 to 480 seconds within five
attempts) never reaches its cap of 3600. Two faults allow a crash together with a
redelivery. Two rows and pages of one make a first and a last page, one of which can
go. The collection of active incidents needs a third: two are there when it begins,
and one may open after the first page was answered, so that the second page repeats it
and the last page is a later one than the first answer said. Two reads are the
overtaken and the overtaking one, two moves a page change and a button. Two tokens are
the session and its successor; with a verification and a logout, or a verification and
a login, two requests overlap. What these bounds cannot tell is left to the proofs,
where the numbers of actors are arbitrary. One case lies beyond the bounds of
`web_pages`: a button's answer overtaken by another write takes a second foreign
write, with which TLC needs more than the minutes a run should take for the liveness
properties. It was found when the invariant was checked at larger bounds;
`ShownNeverGoesBack` exempts it and is proved for all of them.

The runs of emails, pages and sign-in disable the deadlock check: there the model
stops when the clock's or the moves' bound is reached and nothing is under way.
In the others some action is always possible.

### Findings

1. `routes/monitors.py:305`: overlapping pause, resume and update may leave an
   enabled monitor with `next_check_at` NULL (`EnabledHasNextCheck`). It is shown as
   enabled and is never checked until someone resumes it again. In the same way a
   PUT may give a monitor that was paused meanwhile a next check; checks do not
   resume, since the scheduler also tests `is_enabled`.
2. `monitoring/worker.py:476`: `completed_at` precedes the locks. Out-of-order
   commits may make a resolution earlier than its opening, which the database
   refuses; the run stays `running`, without a check (`RunsSettle`).
3. `notifications/email.py:311`: a worker lost between storing `retrying` and
   publishing the retry loses the retry: the redelivered message is too early and
   is acknowledged (`RetryIsScheduled`).
4. `web/app/monitors/monitor-list.tsx:157`: the page is set in the state and asked of
   the router. When the page's read is answered before the router delivers the
   address, reconciling the two sets the state to loading, but changes nothing the
   read effect depends on: the list loads for ever (`LoadingIsReading`).

Six weaknesses are listed as hazards without a property, or with one that
exempts them, since no text of the repository speaks against them: a late answer about
an older token expires a newer cookie; a logout overtaken by a late verification
leaves the button at "Logging out"; a shell whose redirect is overtaken by a late login
shows its skeleton and asks no more; a read that was on its way takes the answer of a
pause or resume back until the next read; that answer takes back what a read has shown
of a later write; edits typed while a save is under way
are lost when it succeeds.

## Fairness

- `CheckExecution!LiveSpec`: no crash and no database failure (`Reliable`), and weak
  fairness of each worker: a Celery worker keeps taking messages and a coroutine
  that is not killed goes on. With crashes runs do not settle in this code:
  messages are acknowledged early and nothing sweeps running runs.
- `EmailDelivery!Fairness`: the clock, the broker handing out due messages, and
  each worker's task. Faults are finite in number (`MaxFaults`); a worker that is
  lost on every attempt would never finish. A delivery hit by a fault that the
  code leaves to reconciliation is in `harmed` and excluded.
- `RunDispatch!Fairness`: weak fairness of each scheduler process (beat restarts
  cycles) and of message delivery, strong fairness of a worker, because a
  claim waits in PostgreSQL's lock queue, which is first come, first served.
- `MonitorPages!Fairness`: React runs a due effect, the router delivers, every read
  and every button's request is answered or times out and its promise is
  continued, and so for the form (each client function has a deadline). The user
  and other writers owe nothing.
- `SignIn!Fairness`: a request is handled and its answer taken (the deadlines of the
  client functions and of the proxy), navigation departs, effects and the
  countdown run. Crashes, deadlines and the user owe nothing.

## Proofs

All theorems hold for arbitrary sets of requests, workers, monitors, cycles,
deliveries, accounts and tokens, any intervals, thresholds, delays and attempts,
and any bound of the clock. The only assumptions are those the modules declare
about their constants (`IntervalsAssumption`, `ThresholdsAssumption`,
`NullAssumption`, `BoundsAssumption` and the like), which TLC evaluates in the runs.

`MonitorApiProofs`, of `ApiSpec`:

- `ApiTyping`: the type invariant.
- `PausedIffDisabledHolds`: `status = "paused"` exactly while `is_enabled` is false.
  That is not inductive: a commit writes columns of an old row into a new one.
  `PauseInv` adds that the loaded and edited rows in memory satisfy it, and that an
  edit that changes the status changes `is_enabled` with it (`PairedEdit`): then a
  commit writes both columns or neither, whatever the row holds by then.
- `NextCheckWithinHorizonHolds`: by `HorizonInv`, which bounds the instants in the
  requests' memory by the same horizon; it moves only forward.
- `ResultsSurviveRequestsHolds`: an action property, from `EditsInv`: edits leave
  the streaks alone and set the status to paused or unknown only.
- `DeletionIsFinalHolds`: an action property, from `BusyInv`: a request that is being
  served has no answer yet, so that a commit that finds the row gone gives its own.

`CheckExecutionProofs`, of `CheckExecution!Spec`:

- `ExecTyping`, and `ImplementsApi`: every step is an `ApiSpec` step or leaves its
  variables alone, so that the theorems above carry over (`ExecPausedIffDisabled`).
- `OneActiveIncidentHolds`, `DownHasIncidentHolds`, `OneCheckPerRunHolds` and
  `ExclusiveRunHolds`, from one inductive invariant
  `ExecIInv == ApiTypeOK /\ ExecTypeOK /\ EditsInv /\ ExecInv`. They need each other: a
  completion may open an incident only because its run is still running
  (`RunInHand`), and a resumed monitor leaves the status down only towards unknown
  (`EditsInv`). `RowsFollowMonitor` covers deletion. The partial unique index on
  active incidents is deliberately not in the model: the theorem shows that the
  lock on the monitor makes it redundant.
- `PausedIncidentsFrozenHolds`, `RecoveryClosesIncidentHolds`: action properties.

- `IncidentHistoryHolds`, `PublishedAreStoredHolds`, `OpeningIsJustifiedHolds` and
  `ResolutionIsJustifiedHolds`, from `IncidentInv` on top of `ExecIInv`: what is about to be published is
  stored as well (`AnnouncedAreStored`), a slot without an incident has no deliveries,
  and the counters of the row never exceed the streak at the end of the checks that
  were committed (`StreaksAreChecked`). The last needs that no request writes a
  counter (`EditsInv`), and gives opening and resolution at every threshold.

`RunDispatchProofs`, of `RunDispatch!Safety`: `DispatchTypes`, `CyclesKeepApart`,
`EnqueuedRunsAreOnTheirWay`, `CyclesSkipNoSlot` and the refinement
`DispatchFollowsLifecycle`. The invariant adds that locked monitors are still due,
that locked runs are pending and held once, that a run in execution is running and
in one worker's hands, and that a message sent before its commit is still on its
way while the lock is held.

`EmailDeliveryProofs`, of `EmailDelivery!Spec`: `EmailTypes`,
`OneHandoverIsAcknowledged`, `RetriesWait` and the refinement
`EmailFollowsLifecycle`. The invariant adds what a row says of its attempts, that a
worker between claim and record is alone with its delivery, and where each
handover was made.

`SignInProofs`, of `SignIn!Spec`: `SessionTypes`, `CookiesHaveUsers`, `RevocationHolds`,
`LiveCookiesAreKept`. `SessionInv` adds what a handler may rely on between two of its
commands: what it read is still what is stored, if anything is; a token being
created is known to nobody else; an account being inserted is inserted once.

`WebClientProofs` proves facts of the operators of `ApiClient` and `Paging` for every
exchange, payload and address: each exchange has exactly an outcome its caller knows,
only failures that repeating may change are repeated, every refused save marks
something, of what the form accepts the schema refuses at most the address
(`monitor-form.tsx:310` says that the form checks basic syntax only; the texts are
those that JavaScript's `trim` and Python's `strip` cut alike), and the form shows the
refusal at the address, the countdown is between a second and an hour, pages hold
every row, and the list redirects at most once.
`QueueLemmas` are facts of bags used for both queues.

`MonitorPagesProofs`, of `MonitorPages!Spec`, which is `LiveSpec` without its fairness:

- `PagesTypes`. Types alone are not inductive: a page number grows with moves and a
  version with writes. `TypeInv` adds how far they can have come (`Reach`, `Latest`),
  that a button's request is counted as the move that sent it (`WritesInv`), what a
  successful answer says of itself (`PageInv`), that a collection has taken no
  more than the pages before the one it asks for (`TakenInv`), and which views
  have addresses, buttons and pages (`ControlsInv`).
- `SettledShowsAskedHolds`, from `AskedInv`: at most one read may still be believed, it
  asks for what the view asks for unless a new one is due, and a button is at work
  only on rows that are shown. An answer that is believed is then the one that was
  asked for.
- `CollectionSkipsNothingHolds`, from `CollectionInv`: every row that was active at the
  start is collected, in the answer at hand, or has its place on a page yet to be
  read. Places are counted from the newest row, so rows that come only push
  others back (`PlacesGrow`); that the rows of a page fit between two offsets is
  shown with the pigeonhole principle, without induction.
- `ShownNeverGoesBackHolds`, from `VersionsInv`: of rows in both, what is shown is no
  newer than what is stored, nor than what the read that may be believed has
  collected or been answered. `NotNewer` compares common rows only and is not
  transitive, so each of these is part of the invariant.
- `EditsSurviveLinksHolds`, from `FlagInv`: while the edit form is not being left, the
  flag the guard reads is up whenever something differs from what is stored.
- `OnlyTheListLoadsIdly`: what finding 4 shows of the list holds of no other view.

Only model-checked: liveness and everything with fairness, which is out of the
prover's reach (`DeliveriesSettle`, `DueIsScheduled`, `RunsStart`, `ViewsSettle`,
`SavesSettle`, `AuthSettles`, and the refuted `RunsSettle`). Every invariant and action
property that a run checks and does not refute is also proved.

## What the web properties exempt

- `ShownNeverGoesBack` exempts reads that were on their way when a button's answer
  was shown (`replaceMonitor` does not overtake them), and a button's answer to which
  another write has been added since (`Overtaken`): the code compares no versions.
- `CollectionSkipsNothing` exempts collections during which an incident closed, or
  opened between the count and the page of one answer: rows that move up by an
  offset are skipped by this code.
- `LiveCookieIsKept` exempts answers to logouts and to requests with older tokens.
- `EditsSurviveLinks` is about links; a save that succeeds navigates away from what
  was typed meanwhile.
- `ViewsSettle` says of the list only that reads end; finding 4 is the rest.

## Not modelled

- Rate limits: the counters belong to one Lua script; its verdicts are answers of
  `Sessions`. Destination validation and password hashing: pure functions, their
  verdict is an input. Migrations at start: one library call under one advisory
  lock. Configuration, health, logging, layout, focus: no state of interest.
- The request of a check (redirects, size limit, certificate, error categories) and
  the texts of emails: their results are inputs of the models.
- Waiting for single row locks in `CheckExecution`; a deadlock that PostgreSQL
  resolves (DELETE against a completion) is a failed transaction.
- `_expire_run`, which nothing calls; the status `acknowledged` of incidents and
  `failed` of runs, which nothing writes; an owner that is missing, which the
  foreign key excludes.
- The read-only routes of monitors and incidents, except the count and the page as
  two statements, as the views see them; the ownership filter.
- Sign-in: typed addresses, further tabs and prefetches (a tab follows links only),
  the cookie's own expiry, the check of the Origin header, the parsing of
  redirect targets. Views: the scroll position, the search within shown incidents;
  the incident history's active and resolved panels are one, and the chart's
  "not found" is one of its errors.

## Plan

Done: `MonitorRow`, `MonitorApi`, `CheckExecution`, `EmailDelivery`, `RunDispatch`,
`Sessions` and `SignIn`, `MonitorPages`, each with its proofs.

Left, most important first:

1. Rate-limit windows as a component of their own, composed with `Sessions`.
2. Several tabs with one cookie in `SignIn`.
3. The redirects and size limit of the check's request, with the shared deadline.
