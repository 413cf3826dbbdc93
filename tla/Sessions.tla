------------------------------ MODULE Sessions ------------------------------
(***************************************************************************)
(* Accounts and sessions of the backend (app/routes/auth.py,               *)
(* app/security/sessions.py): users in PostgreSQL, sessions in Redis under *)
(* unguessable tokens, and the four requests that work on them, each a     *)
(* sequence of commands between which the others go on.                    *)
(*                                                                         *)
(* A request arrives with the token of the browser's cookie and ends with  *)
(* a status and what its Set-Cookie header says: a token, NULL (the cookie *)
(* is expired) or Keep (no header).  SignIn sends the requests and takes   *)
(* the answers.                                                            *)
(***************************************************************************)
EXTENDS Integers, FiniteSets

CONSTANTS
    Users,          \* accounts, by their address
    Tokens,         \* session tokens
    Requests,       \* requests that may be in flight at once
    Ttl,            \* idle time after which a session ends
    AbsoluteTtl,    \* time after which it ends anyway
    MaxTime,        \* bound of the clock
    NULL, Keep

ASSUME SessionsAssumption ==
    /\ Ttl \in Nat \ {0} /\ AbsoluteTtl \in Nat \ {0} /\ MaxTime \in Nat
    /\ Requests \subseteq Nat \ {0}
    /\ NULL \notin Tokens /\ Keep \notin Tokens \cup {NULL}

VARIABLES
    now,        \* the clock, in whole units
    users,      \* accounts: none, active or disabled
    store,      \* Redis: the session under a token, or NULL
    issued,     \* tokens that have been generated
    requests    \* the requests in flight

sessionVars == <<now, users, store, issued, requests>>

Session == [user: Users, idle: Nat, absolute: Nat]

Verifications == {"page", "me"}     \* GET /auth/me, by the proxy or the shell
Credentials == {"login", "register"}
Kinds == Verifications \cup Credentials \cup {"logout"}

\* Where a handler stands; "answered" waits for the browser.
Phases ==
    {"none", "sent", "read", "stale", "renewed", "inactive", "found", "flushed",
     "stored", "failed", "answered"}

Codes == 0..599                          \* 0: no response

RequestStates ==
    [kind: Kinds \cup {"none"}, phase: Phases,
     token: Tokens \cup {NULL},               \* the cookie it carries
     user: Users \cup {NULL},                 \* of the form, or of the session read
     idle: Nat,                               \* the deadline to store
     open: BOOLEAN,                           \* whether someone waits for it
     status: Codes,
     cookie: Tokens \cup {NULL, Keep}]        \* Set-Cookie, or the token created

NoRequest ==
    [kind |-> "none", phase |-> "none", token |-> NULL, user |-> NULL,
     idle |-> 0, open |-> FALSE, status |-> 0, cookie |-> Keep]

Least(m, n) == IF m <= n THEN m ELSE n

Expired(token) == now >= store[token].idle \/ now >= store[token].absolute

\* A session that get_session accepts for a user require_authenticated_session
\* accepts.
Live(token) ==
    /\ token \in Tokens /\ store[token] # NULL
    /\ ~Expired(token) /\ users[store[token].user] = "active"

\* Requests are numbered as they come; a number is used again.
Send(r, kind, token, user) ==
    /\ requests[r].phase = "none"
    /\ \A other \in Requests : requests[other].phase = "none" => r <= other
    /\ requests' = [requests EXCEPT ![r] =
           [kind |-> kind, phase |-> "sent", token |-> token, user |-> user,
            idle |-> 0, open |-> TRUE, status |-> 0, cookie |-> Keep]]

\* Nobody receives the answer of a request that was given up.
Answer(r, status, cookie) ==
    requests' = [requests EXCEPT ![r] =
        IF requests[r].open
        THEN [kind |-> requests[r].kind, phase |-> "answered",
              token |-> requests[r].token, user |-> NULL, idle |-> 0,
              open |-> TRUE, status |-> status, cookie |-> cookie]
        ELSE NoRequest]

Proceed(r, phase) ==
    requests' = [requests EXCEPT ![r] = [requests[r] EXCEPT !.phase = phase]]

-----------------------------------------------------------------------------
(* get_session and require_authenticated_session.  A Redis command that    *)
(* raises may have been carried out all the same.                          *)

ReadSession(r) ==
    LET request == requests[r] IN
    /\ request.kind \in Verifications /\ request.phase = "sent"
    /\ \/ request.token = NULL /\ Answer(r, 401, Keep)
       \/ request.token # NULL /\ Answer(r, 503, Keep)
       \/ /\ request.token # NULL
          /\ CASE store[request.token] = NULL -> Answer(r, 401, NULL)
               [] store[request.token] # NULL /\ Expired(request.token) ->
                    Proceed(r, "stale")
               [] OTHER ->
                    LET session == store[request.token] IN
                    requests' = [requests EXCEPT ![r] = [request EXCEPT
                        !.phase = "read", !.user = session.user,
                        !.idle = Least(now + Ttl, session.absolute)]]
    /\ UNCHANGED <<now, users, store, issued>>

\* Mutant of Renew: the renewal creates the key when it is gone.
RenewAlways(r) ==
    LET request == requests[r] IN
    /\ request.phase = "read"
    /\ store' = [store EXCEPT ![request.token] =
                     [user |-> request.user, idle |-> request.idle, absolute |-> request.idle]]
    /\ Proceed(r, "renewed")
    /\ UNCHANGED <<now, users, issued>>

\* SET key value EX ... XX
Renew(r) ==
    LET request == requests[r]
        token == request.token
        renewed == IF store[token] = NULL THEN NULL
                   ELSE [store[token] EXCEPT !.idle = request.idle] IN
    /\ request.phase = "read"
    /\ \/ /\ store' = [store EXCEPT ![token] = renewed]
          /\ IF store[token] = NULL THEN Answer(r, 401, NULL) ELSE Proceed(r, "renewed")
       \/ /\ store' \in {store, [store EXCEPT ![token] = renewed]}
          /\ Answer(r, 503, Keep)
    /\ UNCHANGED <<now, users, issued>>

\* Mutant of FindUser: a database that fails to answer counts as a user that is gone.
FindUserOrEnd(r) ==
    LET request == requests[r] IN
    /\ request.phase = "renewed"
    /\ \/ users[request.user] = "active" /\ Answer(r, 200, request.token)
       \/ Proceed(r, "inactive")
    /\ UNCHANGED <<now, users, store, issued>>

FindUser(r) ==
    LET request == requests[r] IN
    /\ request.phase = "renewed"
    /\ \/ users[request.user] = "active" /\ Answer(r, 200, request.token)
       \/ users[request.user] # "active" /\ Proceed(r, "inactive")
       \/ Answer(r, 500, Keep)
    /\ UNCHANGED <<now, users, store, issued>>

\* What is answered once a session has been deleted: an expired one, one whose
\* user is gone, one of a registration that failed, one that is logged out.
\* The second and third deletion ignore a failure.  (The constraint of users is
\* checked by the flush, so that the commit's own 409 never happens.)
Deletes(request) ==
    request.phase \in {"stale", "inactive", "failed"}
    \/ (request.kind = "logout" /\ request.phase = "sent" /\ request.token # NULL)

Deleted(request) == IF request.phase = "failed" THEN request.cookie ELSE request.token

DeleteAnswer(r, fails) ==
    CASE requests[r].phase = "stale" ->
           IF fails THEN Answer(r, 503, Keep) ELSE Answer(r, 401, NULL)
      [] requests[r].phase = "inactive" -> Answer(r, 401, NULL)
      [] requests[r].phase = "failed" -> Answer(r, 503, Keep)
      [] OTHER -> IF fails THEN Answer(r, 503, NULL) ELSE Answer(r, 204, NULL)

DeleteSession(r) ==
    /\ Deletes(requests[r])
    /\ \E fails \in BOOLEAN :
         /\ \/ store' = [store EXCEPT ![Deleted(requests[r])] = NULL]
            \/ fails /\ store' = store
         /\ DeleteAnswer(r, fails)
    /\ UNCHANGED <<now, users, issued>>

\* logout_user without a cookie has nothing to delete.
LogoutNothing(r) ==
    /\ requests[r].kind = "logout" /\ requests[r].phase = "sent"
    /\ requests[r].token = NULL
    /\ Answer(r, 204, NULL)
    /\ UNCHANGED <<now, users, store, issued>>

-----------------------------------------------------------------------------
(* login_user and register_user *)

\* The schema and the rate limit, then the account: the address must be free to
\* register, and the password must match to log in.
FindAccount(r) ==
    LET request == requests[r] IN
    /\ request.kind \in Credentials /\ request.phase = "sent"
    /\ \/ \E status \in {422, 429, 503} : Answer(r, status, Keep)
       \/ request.kind = "login" /\ Answer(r, 401, Keep)
       \/ request.kind = "login" /\ users[request.user] = "active" /\ Proceed(r, "found")
       \/ request.kind = "register" /\ users[request.user] # "none" /\ Answer(r, 409, Keep)
       \/ request.kind = "register" /\ users[request.user] = "none" /\ Proceed(r, "found")
    /\ UNCHANGED <<now, users, store, issued>>

\* INSERT waits for another transaction that has inserted the same address.
Inserting(user) ==
    \E r \in Requests : requests[r].kind = "register" /\ requests[r].user = user
                        /\ requests[r].phase \in {"flushed", "stored"}

FlushUser(r) ==
    LET request == requests[r] IN
    /\ request.kind = "register" /\ request.phase = "found"
    /\ ~Inserting(request.user)
    /\ IF users[request.user] # "none" THEN Answer(r, 409, Keep) ELSE Proceed(r, "flushed")
    /\ UNCHANGED <<now, users, store, issued>>

NewSession(user) ==
    [user |-> user, idle |-> Least(now + Ttl, now + AbsoluteTtl),
     absolute |-> now + AbsoluteTtl]

\* create_session under a token nobody has seen (which one makes no difference);
\* a registration that fails here is rolled back.
CreateSession(r) ==
    LET request == requests[r] IN
    /\ \/ request.kind = "login" /\ request.phase = "found"
       \/ request.phase = "flushed"
    /\ issued # Tokens
    /\ LET token == CHOOSE t \in Tokens : t \notin issued
           created == [store EXCEPT ![token] = NewSession(request.user)] IN
         /\ issued' = issued \cup {token}
         /\ \/ /\ store' = created
               /\ IF request.kind = "login" THEN Answer(r, 200, token)
                  ELSE requests' = [requests EXCEPT ![r] =
                           [request EXCEPT !.phase = "stored", !.cookie = token]]
            \/ store' \in {store, created} /\ Answer(r, 503, Keep)
    /\ UNCHANGED <<now, users>>

\* Mutant of CommitUser: the cookie is sent before the account is committed.
AnswerUncommitted(r) ==
    LET request == requests[r] IN
    /\ request.phase = "stored"
    /\ \/ /\ users' = [users EXCEPT ![request.user] = "active"]
          /\ Answer(r, 201, request.cookie)
       \/ users' = users /\ Answer(r, 201, request.cookie)
    /\ UNCHANGED <<now, store, issued>>

\* session.commit(); when it raises the transaction may be committed.
CommitUser(r) ==
    LET request == requests[r]
        committed == [users EXCEPT ![request.user] = "active"] IN
    /\ request.phase = "stored"
    /\ \/ users' = committed /\ Answer(r, 201, request.cookie)
       \/ users' \in {users, committed} /\ Proceed(r, "failed")
    /\ UNCHANGED <<now, store, issued>>

Handle(r) ==
    \/ ReadSession(r) \/ Renew(r) \/ FindUser(r)
    \/ DeleteSession(r) \/ LogoutNothing(r)
    \/ FindAccount(r) \/ FlushUser(r) \/ CreateSession(r) \/ CommitUser(r)

-----------------------------------------------------------------------------
\* The process dies, or the connection, also with the answer on its way: whoever
\* waits sees no response.  (An exception nobody handles, a 500, comes to the
\* same for the forms and the button.)
Crash(r) ==
    /\ requests[r].phase # "none"
    /\ Answer(r, 0, Keep)
    /\ UNCHANGED <<now, users, store, issued>>

Tick ==
    /\ now < MaxTime
    /\ now' = now + 1
    /\ UNCHANGED <<users, store, issued, requests>>

\* Redis lets an expired key go.
Expire(token) ==
    /\ store[token] # NULL /\ now >= store[token].idle
    /\ store' = [store EXCEPT ![token] = NULL]
    /\ UNCHANGED <<now, users, issued, requests>>

\* An operator disables an account; nothing in the application does.
DisableUser(user) ==
    /\ users[user] = "active"
    /\ users' = [users EXCEPT ![user] = "disabled"]
    /\ UNCHANGED <<now, store, issued, requests>>

\* Nobody is signed in, or one user is.
InitSessions ==
    /\ now = 0
    /\ users \in [Users -> {"none", "active"}]
    /\ \/ store = [token \in Tokens |-> NULL] /\ issued = {}
       \/ \E user \in Users : \E token \in Tokens :
            /\ users[user] = "active" /\ issued = {token}
            /\ token = CHOOSE t \in Tokens : TRUE
            /\ store = [t \in Tokens |-> IF t = token THEN NewSession(user) ELSE NULL]
    /\ requests = [r \in Requests |-> NoRequest]

BackendStep ==
    \/ \E r \in Requests : Handle(r) \/ Crash(r)
    \/ Tick
    \/ \E token \in Tokens : Expire(token)
    \/ \E user \in Users : DisableUser(user)

-----------------------------------------------------------------------------
(* Properties *)

\* A session that has ended, by logout, expiry or a disabled account, does not
\* come back: a verification that read it before cannot store it again, and
\* nothing moves its absolute deadline.
RevokedStaysRevoked ==
    [][\A token \in issued :
         /\ store[token] = NULL => store'[token] = NULL
         /\ store'[token] # NULL =>
              /\ store'[token].user = store[token].user
              /\ store'[token].absolute = store[token].absolute
              /\ store'[token].idle <= store'[token].absolute]_sessionVars
=============================================================================
