------------------------------- MODULE SignIn -------------------------------
(***************************************************************************)
(* A browser tab that signs in and out: its cookie, the proxy that checks  *)
(* the session before a page is rendered (proxy.ts), the shell that asks   *)
(* for the user (components/app-shell.tsx), the forms                      *)
(* (components/auth-form.tsx) and the logout button                        *)
(* (components/logout-button.tsx), with the backend of Sessions.           *)
(*                                                                         *)
(* Requests overlap: an answer that arrives late still sets or expires the *)
(* cookie, whatever has become of the component that asked.                *)
(***************************************************************************)
EXTENDS Sessions, ApiClient

CONSTANT MaxMoves       \* links followed, forms submitted, logouts pressed

ASSUME MaxMovesAssumption == MaxMoves \in Nat

VARIABLES
    cookie,     \* the browser's session cookie: a token or NULL
    tab,        \* the page shown and the state of its components
    waiting,    \* the request each mounted component waits for; 0 is none
    moves

tabVars == <<cookie, tab, waiting, moves>>
vars == <<sessionVars, tabVars>>

AuthPages == {"login", "register"}
TabPages == AuthPages \cup {"app", "unavailable"}

Tabs ==
    [page: TabPages,
     going: TabPages \cup {"none"},   \* what the router has been asked for
     due: BOOLEAN,                    \* the shell's effect has to run
     user: BOOLEAN,                   \* the shell knows its user
     limited: BOOLEAN,                \* the form counts down after a 429
     leaving: BOOLEAN]                \* the logout button, once confirmed

Waiters == {"page", "me", "form", "logout"}

Fresh(page) ==
    [page |-> page, going |-> "none", due |-> page = "app", user |-> FALSE,
     limited |-> FALSE, leaving |-> FALSE]

Init ==
    /\ InitSessions
    /\ IF issued = {}
       THEN cookie = NULL /\ tab \in {Fresh(page) : page \in AuthPages}
       ELSE cookie \in issued /\ tab = Fresh("app")
    /\ waiting = [w \in Waiters |-> 0]
    /\ moves = 0

\* Mutant of TakeCookie: an answer without the header expires the cookie it does not name.
TakeCookieBlindly(r) == cookie' = requests[r].cookie

\* The browser stores what Set-Cookie says, whoever reads the answer.
TakeCookie(r) ==
    cookie' = IF requests[r].cookie = Keep THEN cookie ELSE requests[r].cookie

Exchange(r) == IF requests[r].status = 0 THEN TimedOut ELSE Response(requests[r].status)

-----------------------------------------------------------------------------
(* Navigation *)

\* A new document, or new props for the one that is mounted: the shell outlives
\* its pages, a form does not outlive its own.
Arrive(page) ==
    IF page = tab.page
    THEN /\ tab' = [tab EXCEPT !.going = "none"]
         /\ waiting' = [waiting EXCEPT !["page"] = 0]
    ELSE /\ tab' = Fresh(page)
         /\ waiting' = [w \in Waiters |-> 0]

\* router.push or router.replace: what was under way is not waited for.
Going(page) == [tab EXCEPT !.going = page]

\* The links each page has.
Links(page) ==
    CASE page = "app" -> {"app"}
      [] page = "login" -> {"register"}
      [] page = "register" -> {"login"}
      [] OTHER -> {"app", "login"}

Visit ==
    /\ tab.going = "none" /\ moves < MaxMoves
    /\ \E page \in Links(tab.page) : tab' = Going(page)
    /\ moves' = moves + 1
    /\ UNCHANGED <<sessionVars, cookie, waiting>>

\* Mutant of Matched: the proxy guards every page.
MatchedAlways(page) == page = page

\* The matcher of the proxy leaves the unavailable page out.
Matched(page) == page # "unavailable"

\* proxy: a request without a cookie is decided at once, one with a cookie is
\* verified.
Depart ==
    /\ tab.going # "none" /\ waiting["page"] = 0
    /\ CASE ~Matched(tab.going) -> Arrive(tab.going) /\ UNCHANGED requests
         [] Matched(tab.going) /\ cookie = NULL ->
              /\ UNCHANGED requests
              /\ IF tab.going \in AuthPages THEN Arrive(tab.going)
                 ELSE tab' = Going("login") /\ UNCHANGED waiting
         [] OTHER ->
              \E r \in Requests :
                 /\ Send(r, "page", cookie, NULL)
                 /\ waiting' = [waiting EXCEPT !["page"] = r]
                 /\ UNCHANGED tab
    /\ UNCHANGED <<now, users, store, issued, cookie, moves>>

\* What the proxy makes of the verification's status, 0 for none.
Decide(status) ==
    CASE Ok(status) /\ tab.going \in AuthPages ->
           tab' = Going("app") /\ waiting' = [waiting EXCEPT !["page"] = 0]
      [] (Ok(status) /\ tab.going \notin AuthPages)
         \/ (status = 401 /\ tab.going \in AuthPages) -> Arrive(tab.going)
      [] status = 401 /\ tab.going \notin AuthPages ->
           tab' = Going("login") /\ waiting' = [waiting EXCEPT !["page"] = 0]
      [] OTHER ->
           tab' = Going("unavailable") /\ waiting' = [waiting EXCEPT !["page"] = 0]

-----------------------------------------------------------------------------
(* Components: what each does with the outcome of its request.  Forms and  *)
(* the button go on after their await even when they are gone.             *)

\* A navigation asked for by a component: it overtakes the one under way.
Redirect(page, done, state) ==
    /\ tab' = [state EXCEPT !.going = page]
    /\ waiting' = [w \in Waiters |-> IF w \in {"page", done} THEN 0 ELSE waiting[w]]

Rest(done, state) ==
    tab' = state /\ waiting' = [waiting EXCEPT ![done] = 0]

\* AuthenticatedShell's effect and its callback, which a gone shell ignores.
AskUser ==
    /\ tab.due
    /\ \E r \in Requests :
         /\ Send(r, "me", cookie, NULL)
         /\ waiting' = [waiting EXCEPT !["me"] = r]
    /\ tab' = [tab EXCEPT !.due = FALSE]
    /\ UNCHANGED <<now, users, store, issued, cookie, moves>>

HearUser(r, exchange) ==
    IF waiting["me"] # r THEN UNCHANGED <<tab, waiting>>
    ELSE CASE CurrentUserOutcome(exchange) = "success" ->
                Rest("me", [tab EXCEPT !.user = TRUE])
           [] CurrentUserOutcome(exchange) = "unauthenticated" ->
                Redirect("login", "me", tab)
           [] OTHER -> Redirect("unavailable", "me", tab)

\* handleSubmit; tokens are counted so that a login finds one.
Submit ==
    /\ tab.page \in AuthPages /\ waiting["form"] = 0 /\ ~tab.limited
    /\ moves < MaxMoves
    /\ Cardinality({r \in Requests : requests[r].kind \in Credentials})
         < Cardinality(Tokens \ issued)
    /\ \E r \in Requests, user \in Users :
         /\ Send(r, tab.page, cookie, user)
         /\ waiting' = [waiting EXCEPT !["form"] = r]
    /\ moves' = moves + 1
    /\ UNCHANGED <<now, users, store, issued, cookie, tab>>

HearForm(r, exchange) ==
    LET outcome == CredentialsOutcome(requests[r].kind, exchange)
        mounted == waiting["form"] = r IN
    CASE outcome = "success" ->
           Redirect("app", IF mounted THEN "form" ELSE "page", tab)
      [] outcome # "success" /\ mounted ->
           Rest("form", [tab EXCEPT !.limited = (outcome = "rate_limited")])
      [] OTHER -> UNCHANGED <<tab, waiting>>

CountDown ==
    /\ tab.limited
    /\ tab' = [tab EXCEPT !.limited = FALSE]
    /\ UNCHANGED <<sessionVars, cookie, waiting, moves>>

\* handleLogout
PressLogout ==
    /\ tab.page = "app" /\ waiting["logout"] = 0 /\ ~tab.leaving
    /\ moves < MaxMoves
    /\ \E r \in Requests :
         /\ Send(r, "logout", cookie, NULL)
         /\ waiting' = [waiting EXCEPT !["logout"] = r]
    /\ moves' = moves + 1
    /\ UNCHANGED <<now, users, store, issued, cookie, tab>>

HearLogout(r, exchange) ==
    LET confirmed == LogoutOutcome(exchange) \in {"success", "cleared", "unauthenticated"}
        mounted == waiting["logout"] = r IN
    CASE confirmed ->
           Redirect("login", IF mounted THEN "logout" ELSE "page",
                    [tab EXCEPT !.leaving = tab.leaving \/ mounted])
      [] ~confirmed /\ mounted -> Rest("logout", tab)
      [] OTHER -> UNCHANGED <<tab, waiting>>

Hear(r, exchange) ==
    CASE requests[r].kind = "page" ->
           IF waiting["page"] = r THEN Decide(exchange.status)
           ELSE UNCHANGED <<tab, waiting>>
      [] requests[r].kind = "me" -> HearUser(r, exchange)
      [] requests[r].kind \in Credentials -> HearForm(r, exchange)
      [] OTHER -> HearLogout(r, exchange)

TakeAnswer(r) ==
    /\ requests[r].phase = "answered"
    /\ Hear(r, Exchange(r))
    /\ TakeCookie(r)
    /\ requests' = [requests EXCEPT ![r] = NoRequest]
    /\ UNCHANGED <<now, users, store, issued, moves>>

\* The deadline of a request passes; the backend goes on with it.
GiveUp(r) ==
    /\ requests[r].open /\ requests[r].phase # "answered"
    /\ Hear(r, TimedOut)
    /\ requests' = [requests EXCEPT ![r] = [requests[r] EXCEPT !.open = FALSE]]
    /\ UNCHANGED <<now, users, store, issued, cookie, moves>>

Next ==
    \/ BackendStep /\ UNCHANGED tabVars
    \/ Visit \/ Depart \/ AskUser \/ Submit \/ CountDown \/ PressLogout
    \/ \E r \in Requests : TakeAnswer(r) \/ GiveUp(r)

Spec == Init /\ [][Next]_vars

\* A handler goes on and its answer is taken; the browser runs due effects and
\* timers and the proxy answers.  Deadlines, crashes and users owe nothing.
Fairness ==
    /\ \A r \in Requests : WF_vars((Handle(r) /\ UNCHANGED tabVars) \/ TakeAnswer(r))
    /\ WF_vars(Depart) /\ WF_vars(AskUser \/ CountDown)

LiveSpec == Spec /\ Fairness

-----------------------------------------------------------------------------
(* Properties *)

\* The types of the sessions, the requests and the tab.
SessionTypeOK ==
    /\ now \in 0..MaxTime /\ issued \subseteq Tokens
    /\ users \in [Users -> {"none", "active", "disabled"}]
    /\ store \in [Tokens -> Session \cup {NULL}]
    /\ requests \in [Requests -> RequestStates]
    /\ cookie \in Tokens \cup {NULL}
    /\ tab \in Tabs /\ waiting \in [Waiters -> Requests \cup {0}]
    /\ moves \in 0..MaxMoves

\* A token the browser has, or is being sent, never stands for an account that
\* was not committed: the session of a registration is stored first, and its
\* commit, its clean-up or the process itself may fail.
CookieHasUser ==
    \A token \in Tokens :
        (/\ store[token] # NULL
         /\ \/ cookie = token
            \/ \E r \in Requests : requests[r].phase = "answered"
                                   /\ requests[r].cookie = token)
        => users[store[token].user] # "none"

\* The cookie of a live session is lost to nothing but a logout, or an answer
\* to a request that carried an older one: failures of Redis, of the database
\* and of the network preserve it, and no verification of it expires it.
LiveCookieIsKept ==
    [][Live(cookie) /\ cookie' = NULL =>
         \E r \in Requests :
            /\ requests[r].phase = "answered" /\ requests'[r].phase = "none"
            /\ requests[r].kind = "logout" \/ requests[r].token # cookie]_vars

Busy ==
    tab.going # "none" \/ tab.due \/ tab.limited \/ \E w \in Waiters : waiting[w] # 0

\* Every navigation, form and logout comes to an end, whatever fails: redirects
\* do not go round, deadlines settle, and the controls become usable again.
AuthSettles == Busy ~> ~Busy
=============================================================================
