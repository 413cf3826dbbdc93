---------------------------- MODULE SignInProofs ----------------------------
(***************************************************************************)
(* The sessions of SignIn for any number of accounts, tokens and requests: *)
(* the types, that a session that has ended stays ended, that no token in  *)
(* the browser's reach stands for an account that was not committed, and   *)
(* that the cookie of a live session is lost only to a logout or to the    *)
(* answer of an older request.                                             *)
(*                                                                         *)
(* None of the last three is inductive.  SessionInv adds what each handler *)
(* may rely on between two of its commands: what it read is still what is  *)
(* stored, if anything is; a token being created is known to nobody else;  *)
(* an account being inserted is inserted once.                             *)
(***************************************************************************)
EXTENDS SignIn, TLAPS

Inserts == {"flushed", "stored"}        \* the account is in an open transaction
Creates == {"stored", "failed"}         \* the token is in the store, not answered
Verifying == {"read", "renewed", "inactive"}

\* The browser has the token, or sends it, or is being sent it.
Known(token) ==
    \/ cookie = token
    \/ \E r \in Requests : requests[r].token = token
    \/ \E r \in Requests : requests[r].phase = "answered" /\ requests[r].cookie = token

StoreInv ==
    \A token \in Tokens : store[token] # NULL =>
        token \in issued /\ store[token].idle <= store[token].absolute

KnownInv ==
    \A token \in Tokens : Known(token) =>
        /\ token \in issued
        /\ store[token] # NULL => users[store[token].user] # "none"

VerificationInv(r) ==
    LET request == requests[r] IN
    /\ request.phase \in Verifying \cup {"stale"} => request.token \in issued
    /\ request.phase \in Verifying =>
         /\ request.user \in Users /\ users[request.user] # "none"
         /\ store[request.token] # NULL => store[request.token].user = request.user
    /\ request.phase = "read" /\ store[request.token] # NULL =>
         request.idle <= store[request.token].absolute
    /\ request.phase = "inactive" => users[request.user] = "disabled"

CredentialsInv(r) ==
    LET request == requests[r] IN
    /\ request.kind \in Credentials => request.user \in Users \/ request.phase = "answered"
    /\ request.phase \in Inserts \cup Creates \cup {"found"} => request.user \in Users
    /\ request.phase = "found" /\ request.kind = "login" => users[request.user] # "none"
    /\ request.phase \in Inserts =>
         request.kind = "register" /\ users[request.user] = "none"
    /\ request.phase \in Creates =>
         /\ request.cookie \in issued /\ ~Known(request.cookie)
         /\ store[request.cookie] # NULL => store[request.cookie].user = request.user

\* An answer that expires the cookie of the verification's own token comes when
\* the session is gone or its user is disabled.
ExpiryInv(r) ==
    LET request == requests[r] IN
    (/\ request.phase = "answered" /\ request.cookie = NULL
     /\ request.kind # "logout" /\ request.token # NULL)
    => \/ store[request.token] = NULL
       \/ users[store[request.token].user] = "disabled"

RequestInv(r) == VerificationInv(r) /\ CredentialsInv(r) /\ ExpiryInv(r)

Distinct(r, q) ==
    /\ requests[r].phase \in Inserts /\ requests[q].phase \in Inserts =>
         requests[r].user # requests[q].user
    /\ requests[r].phase \in Creates /\ requests[q].phase \in Creates =>
         requests[r].cookie # requests[q].cookie

SessionInv ==
    /\ SessionTypeOK /\ StoreInv /\ KnownInv
    /\ \A r \in Requests : RequestInv(r)
    /\ \A r, q \in Requests : r # q => Distinct(r, q)

-----------------------------------------------------------------------------
(* What the requests' own operators do *)

\* The codes the handlers and the browser know.
LEMMA CodesAnswered ==
  /\ 0 \in Codes /\ 200 \in Codes /\ 201 \in Codes /\ 204 \in Codes
  /\ 401 \in Codes /\ 409 \in Codes /\ 422 \in Codes /\ 429 \in Codes
  /\ 500 \in Codes /\ 503 \in Codes
BY DEF Codes

LEMMA NoRequestType == NoRequest \in RequestStates
BY CodesAnswered DEF NoRequest, RequestStates, Kinds, Verifications, Credentials, Phases

\* An answer reaches the request it belongs to, or nobody waits for it.
LEMMA AnswerEffect ==
  ASSUME NEW r \in Requests, NEW status \in Codes, NEW value \in Tokens \cup {NULL, Keep},
         requests \in [Requests -> RequestStates], Answer(r, status, value)
  PROVE  /\ requests' \in [Requests -> RequestStates]
         /\ \A q \in Requests : q # r => requests'[q] = requests[q]
         /\ \/ requests'[r] = NoRequest
            \/ /\ requests'[r].phase = "answered"
               /\ requests'[r].kind = requests[r].kind
               /\ requests'[r].token = requests[r].token
               /\ requests'[r].user = NULL
               /\ requests'[r].cookie = value
<1> DEFINE answered == [kind |-> requests[r].kind, phase |-> "answered",
              token |-> requests[r].token, user |-> NULL, idle |-> 0,
              open |-> TRUE, status |-> status, cookie |-> value]
<1>1. requests[r] \in RequestStates
  OBVIOUS
<1>2. /\ answered.phase = "answered" /\ answered.kind = requests[r].kind
      /\ answered.token = requests[r].token /\ answered.user = NULL
      /\ answered.cookie = value
  OBVIOUS
<1>3. answered \in RequestStates
  BY <1>1 DEF RequestStates, Phases
<1>4. requests' = [requests EXCEPT ![r] = IF requests[r].open THEN answered ELSE NoRequest]
  BY DEF Answer
<1> HIDE DEF answered
<1>5. requests'[r] \in {answered, NoRequest}
  BY <1>4
<1>6. requests' \in [Requests -> RequestStates]
  BY <1>3, <1>4, NoRequestType
<1> QED BY <1>2, <1>4, <1>5, <1>6

LEMMA ProceedEffect ==
  ASSUME NEW r \in Requests, NEW phase \in Phases,
         requests \in [Requests -> RequestStates], Proceed(r, phase)
  PROVE  /\ requests' \in [Requests -> RequestStates]
         /\ \A q \in Requests : q # r => requests'[q] = requests[q]
         /\ requests'[r].phase = phase
         /\ requests'[r].kind = requests[r].kind
         /\ requests'[r].token = requests[r].token
         /\ requests'[r].user = requests[r].user
         /\ requests'[r].idle = requests[r].idle
         /\ requests'[r].cookie = requests[r].cookie
<1> DEFINE next == [requests[r] EXCEPT !.phase = phase]
<1>1. requests[r] \in RequestStates
  OBVIOUS
<1>2. /\ next \in RequestStates
      /\ next.phase = phase /\ next.kind = requests[r].kind
      /\ next.token = requests[r].token /\ next.user = requests[r].user
      /\ next.idle = requests[r].idle /\ next.cookie = requests[r].cookie
  BY <1>1 DEF RequestStates
<1>3. requests' = [requests EXCEPT ![r] = next]
  BY DEF Proceed
<1> HIDE DEF next
<1> QED BY <1>2, <1>3

LEMMA SendEffect ==
  ASSUME NEW r \in Requests, NEW kind \in Kinds, NEW token \in Tokens \cup {NULL},
         NEW user \in Users \cup {NULL},
         requests \in [Requests -> RequestStates], Send(r, kind, token, user)
  PROVE  /\ requests' \in [Requests -> RequestStates]
         /\ \A q \in Requests : q # r => requests'[q] = requests[q]
         /\ requests'[r].phase = "sent" /\ requests'[r].kind = kind
         /\ requests'[r].token = token /\ requests'[r].user = user
         /\ requests'[r].cookie = Keep
<1> DEFINE sent == [kind |-> kind, phase |-> "sent", token |-> token, user |-> user,
                    idle |-> 0, open |-> TRUE, status |-> 0, cookie |-> Keep]
<1>1. /\ sent.phase = "sent" /\ sent.kind = kind /\ sent.token = token
      /\ sent.user = user /\ sent.cookie = Keep
  OBVIOUS
<1>2. sent \in RequestStates
  BY CodesAnswered DEF RequestStates, Phases
<1>3. requests' = [requests EXCEPT ![r] = sent]
  BY DEF Send
<1> HIDE DEF sent
<1> QED BY <1>1, <1>2, <1>3

-----------------------------------------------------------------------------
(* How the accounts and the store may change while a handler waits: tokens *)
(* are added, sessions end or are renewed, accounts are committed and      *)
(* disabled.                                                               *)

WorldStep ==
    /\ now' \in 0..MaxTime /\ issued' \subseteq Tokens /\ issued \subseteq issued'
    /\ users' \in [Users -> {"none", "active", "disabled"}]
    /\ store' \in [Tokens -> Session \cup {NULL}]
    /\ StoreInv'
    /\ \A token \in issued : store'[token] # NULL =>
         /\ store[token] # NULL
         /\ store'[token].user = store[token].user
         /\ store'[token].absolute = store[token].absolute
    /\ \A user \in Users :
         /\ users[user] # "none" => users'[user] # "none"
         /\ users[user] = "disabled" => users'[user] = "disabled"

LEMMA WorldUnchanged ==
  ASSUME SessionInv, UNCHANGED <<now, users, store, issued>>
  PROVE  WorldStep
BY DEF SessionInv, SessionTypeOK, StoreInv, WorldStep

LEMMA WorldDeletes ==
  ASSUME SessionInv, NEW token \in Tokens, UNCHANGED <<now, users, issued>>,
         store' \in {store, [store EXCEPT ![token] = NULL]}
  PROVE  WorldStep
<1>1. store \in [Tokens -> Session \cup {NULL}] /\ StoreInv /\ issued \subseteq Tokens
  BY DEF SessionInv, SessionTypeOK
<1>2. store' \in [Tokens -> Session \cup {NULL}]
  BY <1>1
<1>3. \A t \in Tokens : store'[t] \in {store[t], NULL}
  BY <1>1
<1>4. StoreInv'
  BY <1>1, <1>3 DEF StoreInv
<1> QED BY <1>1, <1>2, <1>3, <1>4 DEF SessionInv, SessionTypeOK, WorldStep

\* What a request that is not worked on relies on, the others preserve.
LEMMA OthersStable ==
  ASSUME SessionInv, WorldStep, NEW q \in Requests, requests'[q] = requests[q],
         requests[q].phase \in Inserts => users'[requests[q].user] = "none",
         requests[q].phase \in Creates => ~Known(requests[q].cookie)'
  PROVE  RequestInv(q)'
<1> DEFINE request == requests[q]
<1>1. request \in RequestStates /\ RequestInv(q)
  BY DEF SessionInv, SessionTypeOK
<1>2. issued \subseteq Tokens /\ store \in [Tokens -> Session \cup {NULL}] /\ issued \subseteq issued'
  BY DEF SessionInv, SessionTypeOK, WorldStep
<1>3. request.token \in Tokens => request.token \in issued
  BY DEF SessionInv, KnownInv, Known
<1>4. \A token \in issued : store'[token] # NULL =>
        /\ store[token] # NULL
        /\ store'[token].user = store[token].user
        /\ store'[token].absolute = store[token].absolute
  BY DEF WorldStep
<1>5. \A user \in Users :
         /\ users[user] # "none" => users'[user] # "none"
         /\ users[user] = "disabled" => users'[user] = "disabled"
  BY DEF WorldStep
<1>6. VerificationInv(q)'
  BY <1>1, <1>2, <1>4, <1>5 DEF RequestInv, VerificationInv, Verifying
<1>7. CredentialsInv(q)'
  BY <1>1, <1>2, <1>4, <1>5 DEF RequestInv, CredentialsInv, Inserts, Creates
<1>8. ExpiryInv(q)'
  <2>1. SUFFICES ASSUME request.phase = "answered", request.cookie = NULL,
                        request.kind # "logout", request.token # NULL,
                        store'[request.token] # NULL
                 PROVE  users'[store'[request.token].user] = "disabled"
    BY DEF ExpiryInv
  <2>2. request.token \in issued
    BY <1>1, <1>3, <2>1 DEF RequestStates
  <2>3. store[request.token] # NULL /\ store'[request.token].user = store[request.token].user
    BY <1>4, <2>1, <2>2
  <2>4. users[store[request.token].user] = "disabled"
    BY <1>1, <2>1, <2>3 DEF RequestInv, ExpiryInv
  <2>5. store[request.token].user \in Users
    BY <1>2, <2>2, <2>3 DEF Session
  <2> QED BY <1>5, <2>3, <2>4, <2>5
<1> QED BY <1>6, <1>7, <1>8 DEF RequestInv

\* A token that was known and stands for an account goes on to.
LEMMA KnownStable ==
  ASSUME SessionInv, WorldStep, NEW token \in Tokens, Known(token)
  PROVE  /\ token \in issued'
         /\ store'[token] # NULL => users'[store'[token].user] # "none"
<1>1. token \in issued /\ (store[token] # NULL => users[store[token].user] # "none")
  BY DEF SessionInv, KnownInv
<1>2. store[token] # NULL => store[token].user \in Users
  BY DEF SessionInv, SessionTypeOK, Session
<1> QED BY <1>1, <1>2 DEF WorldStep

-----------------------------------------------------------------------------
(* The two ways a step of a handler ends: with an answer, or at its next   *)
(* command.                                                                *)

LEMMA TypesKept ==
  ASSUME SessionInv, WorldStep, UNCHANGED tabVars, requests' \in [Requests -> RequestStates]
  PROVE  SessionTypeOK'
BY DEF SessionInv, SessionTypeOK, WorldStep, tabVars

LEMMA Answering ==
  ASSUME SessionInv, WorldStep, UNCHANGED tabVars,
         NEW r \in Requests, NEW status \in Codes, NEW value \in Tokens \cup {NULL, Keep},
         Answer(r, status, value),
         \A q \in Requests : q # r /\ requests[q].phase \in Inserts =>
             users'[requests[q].user] = "none",
         value \in Tokens =>
             /\ value \in issued'
             /\ store'[value] # NULL => users'[store'[value].user] # "none"
             /\ \A q \in Requests : q # r /\ requests[q].phase \in Creates =>
                    requests[q].cookie # value,
         value = NULL /\ requests[r].kind # "logout" /\ requests[r].token # NULL =>
             \/ store'[requests[r].token] = NULL
             \/ users'[store'[requests[r].token].user] = "disabled"
  PROVE  SessionInv'
<1>1. requests \in [Requests -> RequestStates]
  BY DEF SessionInv, SessionTypeOK
<1>2. /\ requests' \in [Requests -> RequestStates]
      /\ \A q \in Requests : q # r => requests'[q] = requests[q]
      /\ \/ requests'[r] = NoRequest
         \/ /\ requests'[r].phase = "answered"
            /\ requests'[r].kind = requests[r].kind
            /\ requests'[r].token = requests[r].token
            /\ requests'[r].user = NULL
            /\ requests'[r].cookie = value
  BY <1>1, AnswerEffect
<1>3. NULL \notin Tokens /\ Keep \notin Tokens /\ Keep # NULL
  BY SessionsAssumption
<1>4. \A token \in Tokens : Known(token)' =>
        Known(token) \/ (requests'[r].phase = "answered" /\ value = token)
  <2> SUFFICES ASSUME NEW token \in Tokens, Known(token)', ~Known(token)
               PROVE  requests'[r].phase = "answered" /\ value = token
    OBVIOUS
  <2>1. cookie' = cookie
    BY DEF tabVars
  <2>2. NoRequest.token = NULL /\ NoRequest.phase = "none"
    BY DEF NoRequest
  <2>3. requests'[r].token # token
    BY <1>2, <1>3, <2>2 DEF Known
  <2> QED BY <1>2, <2>1, <2>2, <2>3 DEF Known
<1>5. SessionTypeOK'
  BY <1>2, TypesKept
<1>6. KnownInv'
  <2> SUFFICES ASSUME NEW token \in Tokens, Known(token)'
               PROVE  /\ token \in issued'
                      /\ store'[token] # NULL => users'[store'[token].user] # "none"
    BY DEF KnownInv
  <2>1. CASE Known(token)
    BY <2>1, KnownStable
  <2>2. CASE value = token
    BY <2>2
  <2> QED BY <1>4, <2>1, <2>2
<1>7. \A q \in Requests : q # r => RequestInv(q)'
  <2> SUFFICES ASSUME NEW q \in Requests, q # r PROVE RequestInv(q)'
    OBVIOUS
  <2>1. requests'[q] = requests[q]
    BY <1>2
  <2>2. requests[q].phase \in Creates => ~Known(requests[q].cookie)'
    <3> DEFINE token == requests[q].cookie
    <3> SUFFICES ASSUME requests[q].phase \in Creates PROVE ~Known(token)'
      BY <2>1
    <3>1. token \in issued /\ ~Known(token)
      BY DEF SessionInv, RequestInv, CredentialsInv
    <3>2. token \in Tokens
      BY <3>1 DEF SessionInv, SessionTypeOK
    <3>3. token # value
      BY <3>2
    <3> QED BY <1>4, <2>1, <3>1, <3>2, <3>3
  <2> QED BY <2>1, <2>2, OthersStable
<1>8. RequestInv(r)'
  <2>1. CASE requests'[r] = NoRequest
    BY <2>1 DEF RequestInv, VerificationInv, CredentialsInv, ExpiryInv, NoRequest,
                Verifying, Inserts, Creates, Credentials
  <2>2. CASE requests'[r] # NoRequest
    BY <1>2, <2>2 DEF RequestInv, VerificationInv, CredentialsInv, ExpiryInv,
                      Verifying, Inserts, Creates
  <2> QED BY <2>1, <2>2
<1>9. \A p, q \in Requests : p # q => Distinct(p, q)'
  <2>1. requests'[r].phase \notin Inserts \cup Creates
    BY <1>2 DEF Inserts, Creates, NoRequest
  <2> QED BY <1>2, <2>1 DEF SessionInv, Distinct
<1>10. StoreInv'
  BY DEF WorldStep
<1> QED BY <1>5, <1>6, <1>7, <1>8, <1>9, <1>10 DEF SessionInv

LEMMA Proceeding ==
  ASSUME SessionInv, WorldStep, UNCHANGED tabVars,
         NEW r \in Requests, requests' \in [Requests -> RequestStates],
         \A q \in Requests : q # r => requests'[q] = requests[q],
         requests'[r].phase # "answered",
         requests'[r].token = requests[r].token,
         \A q \in Requests : q # r /\ requests[q].phase \in Inserts =>
             users'[requests[q].user] = "none",
         VerificationInv(r)',
         requests'[r].kind \in Credentials => requests'[r].user \in Users,
         requests'[r].phase \in Inserts \cup Creates \cup {"found"} =>
             requests'[r].user \in Users,
         requests'[r].phase = "found" /\ requests'[r].kind = "login" =>
             users'[requests'[r].user] # "none",
         requests'[r].phase \in Inserts =>
             /\ requests'[r].kind = "register" /\ users'[requests'[r].user] = "none"
             /\ \A q \in Requests : q # r /\ requests[q].phase \in Inserts =>
                    requests[q].user # requests'[r].user,
         requests'[r].phase \in Creates =>
             /\ requests'[r].cookie \in issued'
             /\ ~Known(requests'[r].cookie)
             /\ store'[requests'[r].cookie] # NULL =>
                    store'[requests'[r].cookie].user = requests'[r].user
             /\ \A q \in Requests : q # r /\ requests[q].phase \in Creates =>
                    requests[q].cookie # requests'[r].cookie
  PROVE  SessionInv'
<1>1. \A token : Known(token)' => Known(token)
  BY DEF Known, tabVars
<1>2. SessionTypeOK'
  BY TypesKept
<1>3. KnownInv'
  BY <1>1, KnownStable DEF KnownInv
<1>4. \A q \in Requests : q # r => RequestInv(q)'
  <2> SUFFICES ASSUME NEW q \in Requests, q # r PROVE RequestInv(q)'
    OBVIOUS
  <2>1. requests'[q] = requests[q]
    OBVIOUS
  <2>2. requests[q].phase \in Creates => ~Known(requests[q].cookie)
    BY DEF SessionInv, RequestInv, CredentialsInv
  <2>3. requests[q].phase \in Creates => ~Known(requests[q].cookie)'
    BY <1>1, <2>1, <2>2
  <2> QED BY <2>1, <2>3, OthersStable
<1>5. RequestInv(r)'
  <2>1. CredentialsInv(r)'
    BY <1>1 DEF CredentialsInv
  <2>2. ExpiryInv(r)'
    BY DEF ExpiryInv
  <2> QED BY <2>1, <2>2 DEF RequestInv
<1>6. \A p, q \in Requests : p # q => Distinct(p, q)'
  <2> SUFFICES ASSUME NEW p \in Requests, NEW q \in Requests, p # q PROVE Distinct(p, q)'
    OBVIOUS
  <2>1. CASE p # r /\ q # r
    BY <2>1 DEF SessionInv, Distinct
  <2>2. CASE p = r
    BY <2>2 DEF Distinct
  <2>3. CASE q = r
    BY <2>3 DEF Distinct
  <2> QED BY <2>1, <2>2, <2>3
<1>7. StoreInv'
  BY DEF WorldStep
<1> QED BY <1>2, <1>3, <1>4, <1>5, <1>6, <1>7 DEF SessionInv

-----------------------------------------------------------------------------
(* The handlers *)

\* An answer that says nothing of the cookie, from a step that changes nothing
\* else, or only ends a session.
LEMMA AnsweringKeep ==
  ASSUME SessionInv, WorldStep, UNCHANGED tabVars, users' = users,
         NEW r \in Requests, NEW status \in Codes, Answer(r, status, Keep)
  PROVE  SessionInv'
<1>1. Keep \notin Tokens /\ Keep # NULL
  BY SessionsAssumption
<1>2. \A q \in Requests : q # r /\ requests[q].phase \in Inserts =>
        users'[requests[q].user] = "none"
  BY DEF SessionInv, RequestInv, CredentialsInv
<1> QED BY <1>1, <1>2, Answering

LEMMA AnsweringExpiry ==
  ASSUME SessionInv, WorldStep, UNCHANGED tabVars, users' = users,
         NEW r \in Requests, NEW status \in Codes, Answer(r, status, NULL),
         requests[r].kind # "logout" /\ requests[r].token # NULL =>
             \/ store'[requests[r].token] = NULL
             \/ users[store'[requests[r].token].user] = "disabled"
  PROVE  SessionInv'
<1>1. NULL \notin Tokens
  BY SessionsAssumption
<1>2. \A q \in Requests : q # r /\ requests[q].phase \in Inserts =>
        users'[requests[q].user] = "none"
  BY DEF SessionInv, RequestInv, CredentialsInv
<1> QED BY <1>1, <1>2, Answering

LEMMA InsertsKept ==
  ASSUME SessionInv, users' = users
  PROVE  \A q \in Requests : requests[q].phase \in Inserts => users'[requests[q].user] = "none"
BY DEF SessionInv, RequestInv, CredentialsInv

LEMMA RequestType ==
  ASSUME SessionInv, NEW r \in Requests
  PROVE  requests \in [Requests -> RequestStates] /\ requests[r] \in RequestStates
BY DEF SessionInv, SessionTypeOK

LEMMA StoredType ==
  ASSUME SessionInv, NEW token \in Tokens, store[token] # NULL
  PROVE  store[token] \in Session
BY DEF SessionInv, SessionTypeOK

LEMMA LeastBound ==
  ASSUME NEW m \in Nat, NEW n \in Nat
  PROVE  Least(m, n) \in Nat /\ Least(m, n) <= m /\ Least(m, n) <= n
BY DEF Least

LEMMA ReadSessionKeeps ==
  ASSUME SessionInv, NEW r \in Requests, ReadSession(r), UNCHANGED tabVars
  PROVE  SessionInv' /\ WorldStep
<1> DEFINE request == requests[r]
<1>1. UNCHANGED <<now, users, store, issued>> /\ request.kind \in Verifications
  BY DEF ReadSession
<1>2. WorldStep
  BY <1>1, WorldUnchanged
<1>3. CASE \E status \in Codes : Answer(r, status, Keep)
  BY <1>1, <1>2, <1>3, AnsweringKeep
<1>4. CASE request.token # NULL /\ store[request.token] = NULL /\ Answer(r, 401, NULL)
  <2>1. store'[request.token] = NULL /\ users' = users /\ 401 \in Codes
    BY <1>1, <1>4, CodesAnswered
  <2> QED BY <1>2, <1>4, <2>1, AnsweringExpiry
<1>5. request.token # NULL => request.token \in Tokens /\ request.token \in issued
  BY RequestType DEF RequestStates, SessionInv, KnownInv, Known
<1>6. CASE request.token # NULL /\ Proceed(r, "stale")
  <2>1. requests \in [Requests -> RequestStates] /\ "stale" \in Phases
    BY RequestType DEF Phases
  <2>2. /\ requests' \in [Requests -> RequestStates]
        /\ \A q \in Requests : q # r => requests'[q] = requests[q]
        /\ requests'[r].phase = "stale"
        /\ requests'[r].kind = requests[r].kind
        /\ requests'[r].token = requests[r].token
    BY <1>6, <2>1, ProceedEffect
  <2>3. VerificationInv(r)'
    BY <1>1, <1>5, <1>6, <2>2 DEF VerificationInv, Verifying
  <2>4. requests'[r].kind \notin Credentials
    BY <1>1, <2>2 DEF Credentials, Verifications
  <2>5. requests'[r].phase \notin Inserts \cup Creates \cup {"found"}
    BY <2>2 DEF Inserts, Creates
  <2> QED BY <1>1, <1>2, <2>2, <2>3, <2>4, <2>5, InsertsKept, Proceeding
<1>7. CASE /\ request.token # NULL /\ store[request.token] # NULL
           /\ requests' = [requests EXCEPT ![r] = [request EXCEPT
                  !.phase = "read", !.user = store[request.token].user,
                  !.idle = Least(now + Ttl, store[request.token].absolute)]]
  <2> DEFINE session == store[request.token]
             idle == Least(now + Ttl, session.absolute)
             next == [request EXCEPT !.phase = "read", !.user = session.user, !.idle = idle]
  <2>1. request \in RequestStates /\ requests \in [Requests -> RequestStates]
    BY RequestType
  <2>2. session \in Session
    BY <1>5, <1>7, StoredType
  <2>3. session.user \in Users /\ session.absolute \in Nat
    BY <2>2 DEF Session
  <2>4. now + Ttl \in Nat
    BY SessionsAssumption DEF SessionInv, SessionTypeOK
  <2>5. idle \in Nat /\ idle <= session.absolute
    BY <2>3, <2>4, LeastBound
  <2> HIDE DEF idle, session
  <2>6. /\ next \in RequestStates
        /\ next.phase = "read" /\ next.kind = request.kind /\ next.token = request.token
        /\ next.user = session.user /\ next.idle = idle
    <3>1. next.phase = "read" /\ next.kind = request.kind /\ next.token = request.token
      BY <2>1 DEF RequestStates
    <3>2. next.user = session.user
      BY <2>1 DEF RequestStates
    <3>3. next.idle = idle
      BY <2>1 DEF RequestStates
    <3>4. next \in RequestStates
      BY <2>1, <2>3, <2>5 DEF RequestStates, Phases
    <3> QED BY <3>1, <3>2, <3>3, <3>4
  <2>7. requests' = [requests EXCEPT ![r] = next]
    BY <1>7 DEF idle, session
  <2> HIDE DEF next
  <2>8. /\ requests' \in [Requests -> RequestStates]
        /\ \A q \in Requests : q # r => requests'[q] = requests[q]
        /\ requests'[r].phase = "read" /\ requests'[r].kind = request.kind
        /\ requests'[r].token = request.token
        /\ requests'[r].user = session.user /\ requests'[r].idle = idle
    BY <2>1, <2>6, <2>7
  <2>9. users[session.user] # "none"
    BY <1>5, <1>7 DEF SessionInv, KnownInv, Known, session
  <2>10. VerificationInv(r)'
    BY <1>1, <1>5, <1>7, <2>3, <2>5, <2>8, <2>9 DEF VerificationInv, Verifying, session
  <2>11. requests'[r].kind \notin Credentials
    BY <1>1, <2>8 DEF Credentials, Verifications
  <2>12. requests'[r].phase \notin Inserts \cup Creates \cup {"found"}
    BY <2>8 DEF Inserts, Creates
  <2> QED BY <1>1, <1>2, <2>8, <2>10, <2>11, <2>12, InsertsKept, Proceeding
<1> QED BY <1>3, <1>4, <1>6, <1>7, CodesAnswered DEF ReadSession

LEMMA RenewKeeps ==
  ASSUME SessionInv, NEW r \in Requests, Renew(r), UNCHANGED tabVars
  PROVE  SessionInv' /\ WorldStep
<1> DEFINE request == requests[r]
           token == request.token
           session == store[token]
           renewed == IF session = NULL THEN NULL ELSE [session EXCEPT !.idle = request.idle]
<1>1. UNCHANGED <<now, users, issued>> /\ request.phase = "read"
  BY DEF Renew
<1>2. token \in issued /\ token \in Tokens /\ request.user \in Users /\ users[request.user] # "none"
      /\ (session # NULL => session.user = request.user /\ request.idle <= session.absolute)
  BY <1>1 DEF SessionInv, SessionTypeOK, RequestInv, VerificationInv, Verifying
<1>3. request.idle \in Nat
  BY RequestType DEF RequestStates
<1>4. renewed # NULL => session # NULL
  OBVIOUS
<1>5. session # NULL => /\ renewed \in Session
                        /\ renewed.user = session.user /\ renewed.absolute = session.absolute
                        /\ renewed.idle = request.idle
  BY <1>2, <1>3, StoredType DEF Session
<1>6. session = NULL => renewed = NULL
  OBVIOUS
<1>7. store' \in {store, [store EXCEPT ![token] = renewed]}
  BY DEF Renew
<1> HIDE DEF renewed
<1>8. store \in [Tokens -> Session \cup {NULL}] /\ StoreInv /\ issued \subseteq Tokens
      /\ now \in 0..MaxTime /\ users \in [Users -> {"none", "active", "disabled"}]
  BY DEF SessionInv, SessionTypeOK
<1>9. store' \in [Tokens -> Session \cup {NULL}]
  BY <1>2, <1>5, <1>6, <1>7, <1>8
<1>10. \A t \in Tokens : t # token => store'[t] = store[t]
  BY <1>7, <1>8
<1>11. store'[token] \in {session, renewed}
  BY <1>2, <1>7, <1>8
<1>12. StoreInv'
  BY <1>1, <1>2, <1>4, <1>5, <1>8, <1>10, <1>11 DEF StoreInv
<1>13. \A t \in issued : store'[t] # NULL =>
         store[t] # NULL /\ store'[t].user = store[t].user /\ store'[t].absolute = store[t].absolute
  BY <1>4, <1>5, <1>8, <1>10, <1>11
<1>14. WorldStep
  BY <1>1, <1>8, <1>9, <1>12, <1>13 DEF WorldStep
<1>15. CASE Answer(r, 503, Keep)
  BY <1>1, <1>14, <1>15, AnsweringKeep, CodesAnswered
<1>16. CASE store' = [store EXCEPT ![token] = renewed] /\ session = NULL /\ Answer(r, 401, NULL)
  <2>1. store'[request.token] = NULL /\ users' = users /\ 401 \in Codes
    BY <1>1, <1>2, <1>6, <1>8, <1>16, CodesAnswered
  <2> QED BY <1>14, <1>16, <2>1, AnsweringExpiry
<1>17. CASE Proceed(r, "renewed")
  <2>1. requests \in [Requests -> RequestStates] /\ "renewed" \in Phases
    BY RequestType DEF Phases
  <2>2. /\ requests' \in [Requests -> RequestStates]
        /\ \A q \in Requests : q # r => requests'[q] = requests[q]
        /\ requests'[r].phase = "renewed"
        /\ requests'[r].kind = requests[r].kind
        /\ requests'[r].token = requests[r].token
        /\ requests'[r].user = requests[r].user
    BY <1>17, <2>1, ProceedEffect
  <2>3. VerificationInv(r)'
    BY <1>1, <1>2, <1>4, <1>5, <1>11, <2>2 DEF VerificationInv, Verifying
  <2>4. requests'[r].phase \notin Inserts \cup Creates \cup {"found"}
    BY <2>2 DEF Inserts, Creates
  <2> QED BY <1>1, <1>2, <1>14, <2>2, <2>3, <2>4, InsertsKept, Proceeding
<1> QED BY <1>15, <1>16, <1>17 DEF Renew, renewed

LEMMA FindUserKeeps ==
  ASSUME SessionInv, NEW r \in Requests, FindUser(r), UNCHANGED tabVars
  PROVE  SessionInv' /\ WorldStep
<1> DEFINE request == requests[r]
<1>1. UNCHANGED <<now, users, store, issued>> /\ request.phase = "renewed"
  BY DEF FindUser
<1>2. WorldStep
  BY <1>1, WorldUnchanged
<1>3. /\ request.token \in issued /\ request.token \in Tokens
      /\ request.user \in Users /\ users[request.user] # "none"
      /\ store[request.token] # NULL => store[request.token].user = request.user
  BY <1>1 DEF SessionInv, SessionTypeOK, RequestInv, VerificationInv, Verifying
<1>4. NULL \notin Tokens
  BY SessionsAssumption
<1>5. CASE Answer(r, 500, Keep)
  BY <1>1, <1>2, <1>5, AnsweringKeep, CodesAnswered
<1>6. CASE Answer(r, 200, request.token)
  <2>1. Known(request.token)
    BY DEF Known
  <2>2. \A q \in Requests : requests[q].phase \in Creates => requests[q].cookie # request.token
    BY <2>1 DEF SessionInv, RequestInv, CredentialsInv
  <2>3. request.token # NULL
    BY <1>3, <1>4
  <2>4. \A q \in Requests : q # r /\ requests[q].phase \in Inserts =>
          users'[requests[q].user] = "none"
    BY <1>1, InsertsKept
  <2>5. /\ request.token \in issued'
        /\ store'[request.token] # NULL => users'[store'[request.token].user] # "none"
    BY <1>1, <1>3
  <2>6. 200 \in Codes /\ request.token \in Tokens \cup {NULL, Keep}
    BY <1>3, CodesAnswered
  <2> QED BY <1>2, <1>6, <2>2, <2>3, <2>4, <2>5, <2>6, Answering
<1>7. CASE users[request.user] # "active" /\ Proceed(r, "inactive")
  <2>1. requests \in [Requests -> RequestStates] /\ "inactive" \in Phases
    BY RequestType DEF Phases
  <2>2. /\ requests' \in [Requests -> RequestStates]
        /\ \A q \in Requests : q # r => requests'[q] = requests[q]
        /\ requests'[r].phase = "inactive"
        /\ requests'[r].kind = requests[r].kind
        /\ requests'[r].token = requests[r].token
        /\ requests'[r].user = requests[r].user
    BY <1>7, <2>1, ProceedEffect
  <2>3. users[request.user] = "disabled"
    BY <1>3, <1>7 DEF SessionInv, SessionTypeOK
  <2>4. VerificationInv(r)'
    BY <1>1, <1>3, <2>2, <2>3 DEF VerificationInv, Verifying
  <2>5. requests'[r].phase \notin Inserts \cup Creates \cup {"found"}
    BY <2>2 DEF Inserts, Creates
  <2> QED BY <1>1, <1>2, <1>3, <2>2, <2>4, <2>5, InsertsKept, Proceeding
<1> QED BY <1>5, <1>6, <1>7 DEF FindUser

LEMMA DeleteSessionKeeps ==
  ASSUME SessionInv, NEW r \in Requests, DeleteSession(r), UNCHANGED tabVars
  PROVE  SessionInv' /\ WorldStep
<1> DEFINE request == requests[r]
           token == Deleted(request)
<1>1. UNCHANGED <<now, users, issued>> /\ Deletes(request)
  BY DEF DeleteSession
<1>2. PICK fails \in BOOLEAN :
        /\ store' = [store EXCEPT ![token] = NULL] \/ (fails /\ store' = store)
        /\ DeleteAnswer(r, fails)
  BY DEF DeleteSession
<1>3. /\ request.phase \in {"stale", "inactive"} =>
           request.token \in issued /\ request.token \in Tokens
      /\ request.phase = "inactive" =>
           /\ request.user \in Users /\ users[request.user] = "disabled"
           /\ store[request.token] # NULL => store[request.token].user = request.user
      /\ request.phase = "failed" => request.cookie \in issued /\ request.cookie \in Tokens
  BY DEF SessionInv, SessionTypeOK, RequestInv, VerificationInv, CredentialsInv,
         Verifying, Creates
<1>4. request.token \in Tokens \cup {NULL}
  BY RequestType DEF RequestStates
<1>5. token \in Tokens
  BY <1>1, <1>3, <1>4 DEF Deletes, Deleted
<1>6. store' \in {store, [store EXCEPT ![token] = NULL]}
  BY <1>2
<1>7. WorldStep
  BY <1>1, <1>5, <1>6, WorldDeletes
<1>8. store \in [Tokens -> Session \cup {NULL}]
  BY DEF SessionInv, SessionTypeOK
<1>9. CASE request.phase = "stale"
  <2>1. CASE fails
    <3>1. Answer(r, 503, Keep)
      BY <1>2, <1>9, <2>1 DEF DeleteAnswer
    <3> QED BY <1>1, <1>7, <3>1, AnsweringKeep, CodesAnswered
  <2>2. CASE ~fails
    <3>1. Answer(r, 401, NULL)
      BY <1>2, <1>9, <2>2 DEF DeleteAnswer
    <3>2. store'[request.token] = NULL
      BY <1>2, <1>5, <1>8, <1>9, <2>2 DEF Deleted
    <3>3. 401 \in Codes /\ users' = users
      BY <1>1, CodesAnswered
    <3> QED BY <1>7, <3>1, <3>2, <3>3, AnsweringExpiry
  <2> QED BY <2>1, <2>2
<1>10. CASE request.phase = "inactive"
  <2>1. Answer(r, 401, NULL) /\ 401 \in Codes /\ users' = users
    BY <1>1, <1>2, <1>10, CodesAnswered DEF DeleteAnswer
  <2>2. store'[request.token] = NULL \/ store'[request.token] = store[request.token]
    BY <1>3, <1>6, <1>8, <1>10
  <2>3. store'[request.token] = NULL \/ users[store'[request.token].user] = "disabled"
    BY <1>3, <1>10, <2>2
  <2> QED BY <1>7, <2>1, <2>3, AnsweringExpiry
<1>11. CASE request.phase = "failed"
  <2>1. Answer(r, 503, Keep)
    BY <1>2, <1>11 DEF DeleteAnswer
  <2> QED BY <1>1, <1>7, <2>1, AnsweringKeep, CodesAnswered
<1>12. CASE request.kind = "logout" /\ request.phase = "sent"
  <2>1. \E status \in Codes : Answer(r, status, NULL)
    <3>1. CASE fails
      <4>1. Answer(r, 503, NULL)
        BY <1>2, <1>12, <3>1 DEF DeleteAnswer
      <4> QED BY <4>1, CodesAnswered
    <3>2. CASE ~fails
      <4>1. Answer(r, 204, NULL)
        BY <1>2, <1>12, <3>2 DEF DeleteAnswer
      <4> QED BY <4>1, CodesAnswered
    <3> QED BY <3>1, <3>2
  <2> QED BY <1>1, <1>7, <1>12, <2>1, AnsweringExpiry
<1> QED BY <1>1, <1>9, <1>10, <1>11, <1>12 DEF Deletes

LEMMA LogoutNothingKeeps ==
  ASSUME SessionInv, NEW r \in Requests, LogoutNothing(r), UNCHANGED tabVars
  PROVE  SessionInv' /\ WorldStep
<1>1. /\ UNCHANGED <<now, users, store, issued>> /\ requests[r].token = NULL
      /\ Answer(r, 204, NULL) /\ 204 \in Codes
  BY CodesAnswered DEF LogoutNothing
<1>2. WorldStep
  BY <1>1, WorldUnchanged
<1> QED BY <1>1, <1>2, AnsweringExpiry

LEMMA FindAccountKeeps ==
  ASSUME SessionInv, NEW r \in Requests, FindAccount(r), UNCHANGED tabVars
  PROVE  SessionInv' /\ WorldStep
<1> DEFINE request == requests[r]
<1>1. /\ UNCHANGED <<now, users, store, issued>>
      /\ request.kind \in Credentials /\ request.phase = "sent"
  BY DEF FindAccount
<1>2. WorldStep
  BY <1>1, WorldUnchanged
<1>3. CASE \E status \in Codes : Answer(r, status, Keep)
  BY <1>1, <1>2, <1>3, AnsweringKeep
<1>4. CASE Proceed(r, "found") /\ (request.kind = "login" => users[request.user] = "active")
  <2>1. requests \in [Requests -> RequestStates] /\ "found" \in Phases
    BY RequestType DEF Phases
  <2>2. /\ requests' \in [Requests -> RequestStates]
        /\ \A q \in Requests : q # r => requests'[q] = requests[q]
        /\ requests'[r].phase = "found"
        /\ requests'[r].kind = request.kind
        /\ requests'[r].token = request.token
        /\ requests'[r].user = request.user
    BY <1>4, <2>1, ProceedEffect
  <2>3. request.user \in Users
    BY <1>1 DEF SessionInv, RequestInv, CredentialsInv
  <2>4. VerificationInv(r)'
    BY <2>2 DEF VerificationInv, Verifying
  <2>5. requests'[r].phase \notin Inserts \cup Creates
    BY <2>2 DEF Inserts, Creates
  <2>6. requests'[r].phase = "found" /\ requests'[r].kind = "login" =>
          users'[requests'[r].user] # "none"
    BY <1>1, <1>4, <2>2
  <2> QED BY <1>1, <1>2, <2>2, <2>3, <2>4, <2>5, <2>6, InsertsKept, Proceeding
<1>5. 401 \in Codes /\ 409 \in Codes /\ {422, 429, 503} \subseteq Codes
  BY CodesAnswered
<1> QED BY <1>1, <1>3, <1>4, <1>5 DEF FindAccount

LEMMA FlushUserKeeps ==
  ASSUME SessionInv, NEW r \in Requests, FlushUser(r), UNCHANGED tabVars
  PROVE  SessionInv' /\ WorldStep
<1> DEFINE request == requests[r]
<1>1. /\ UNCHANGED <<now, users, store, issued>>
      /\ request.kind = "register" /\ request.phase = "found" /\ ~Inserting(request.user)
  BY DEF FlushUser
<1>2. WorldStep
  BY <1>1, WorldUnchanged
<1>3. CASE Answer(r, 409, Keep)
  BY <1>1, <1>2, <1>3, AnsweringKeep, CodesAnswered
<1>4. CASE Proceed(r, "flushed") /\ users[request.user] = "none"
  <2>1. requests \in [Requests -> RequestStates] /\ "flushed" \in Phases
    BY RequestType DEF Phases
  <2>2. /\ requests' \in [Requests -> RequestStates]
        /\ \A q \in Requests : q # r => requests'[q] = requests[q]
        /\ requests'[r].phase = "flushed"
        /\ requests'[r].kind = request.kind
        /\ requests'[r].token = request.token
        /\ requests'[r].user = request.user
    BY <1>4, <2>1, ProceedEffect
  <2>3. request.user \in Users
    BY <1>1 DEF SessionInv, RequestInv, CredentialsInv
  <2>4. VerificationInv(r)'
    BY <2>2 DEF VerificationInv, Verifying
  <2>5. requests'[r].phase \notin Creates \cup {"found"}
    BY <2>2 DEF Creates
  <2>6. \A q \in Requests : requests[q].phase \in Inserts => requests[q].user # request.user
    <3>1. \A q \in Requests : requests[q].phase \in Inserts => requests[q].kind = "register"
      BY DEF SessionInv, RequestInv, CredentialsInv
    <3> QED BY <1>1, <3>1 DEF Inserting, Inserts
  <2>7. users'[request.user] = "none"
    BY <1>1, <1>4
  <2> QED BY <1>1, <1>2, <2>2, <2>3, <2>4, <2>5, <2>6, <2>7, InsertsKept, Proceeding
<1> QED BY <1>3, <1>4 DEF FlushUser

LEMMA NewSessionType ==
  ASSUME SessionInv, NEW user \in Users
  PROVE  /\ NewSession(user) \in Session /\ NewSession(user).user = user
         /\ NewSession(user).idle <= NewSession(user).absolute
<1>1. now + Ttl \in Nat /\ now + AbsoluteTtl \in Nat
  BY SessionsAssumption DEF SessionInv, SessionTypeOK
<1>2. Least(now + Ttl, now + AbsoluteTtl) \in Nat
      /\ Least(now + Ttl, now + AbsoluteTtl) <= now + AbsoluteTtl
  BY <1>1, LeastBound
<1> QED BY <1>1, <1>2 DEF NewSession, Session

LEMMA CreateSessionKeeps ==
  ASSUME SessionInv, NEW r \in Requests, CreateSession(r), UNCHANGED tabVars
  PROVE  SessionInv' /\ WorldStep
<1> DEFINE request == requests[r]
           token == CHOOSE t \in Tokens : t \notin issued
           session == NewSession(request.user)
           created == [store EXCEPT ![token] = session]
<1>1. /\ UNCHANGED <<now, users>> /\ issued # Tokens /\ issued' = issued \cup {token}
      /\ store' \in {store, created}
      /\ (request.kind = "login" /\ request.phase = "found") \/ request.phase = "flushed"
  BY DEF CreateSession
<1>2. /\ store \in [Tokens -> Session \cup {NULL}] /\ StoreInv /\ issued \subseteq Tokens
      /\ now \in 0..MaxTime /\ users \in [Users -> {"none", "active", "disabled"}]
  BY DEF SessionInv, SessionTypeOK
<1>3. token \in Tokens /\ token \notin issued
  BY <1>1, <1>2
<1>4. request.user \in Users
  BY <1>1 DEF SessionInv, RequestInv, CredentialsInv, Inserts
<1>5. session \in Session /\ session.user = request.user /\ session.idle <= session.absolute
  BY <1>4, NewSessionType
<1> HIDE DEF token, session
<1>6. store' \in [Tokens -> Session \cup {NULL}]
  BY <1>1, <1>2, <1>3, <1>5
<1>7. \A t \in Tokens : t # token => store'[t] = store[t]
  BY <1>1, <1>2
<1>8. store[token] = NULL /\ store'[token] \in {NULL, session}
  BY <1>1, <1>2, <1>3 DEF StoreInv
<1>9. StoreInv'
  BY <1>1, <1>2, <1>5, <1>7, <1>8 DEF StoreInv
<1>10. \A t \in issued : store'[t] = store[t]
  BY <1>2, <1>3, <1>7
<1>11. WorldStep
  BY <1>1, <1>2, <1>3, <1>6, <1>9, <1>10 DEF WorldStep
<1>12. ~Known(token) /\ \A q \in Requests : requests[q].phase \in Creates => requests[q].cookie # token
  BY <1>3 DEF SessionInv, KnownInv, RequestInv, CredentialsInv
<1>13. CASE Answer(r, 503, Keep)
  BY <1>1, <1>11, <1>13, AnsweringKeep, CodesAnswered
<1>14. CASE request.kind = "login" /\ Answer(r, 200, token)
  <2>1. request.phase # "flushed"
    BY <1>14 DEF SessionInv, RequestInv, CredentialsInv, Inserts
  <2>2. users[request.user] # "none"
    BY <1>1, <1>14, <2>1 DEF SessionInv, RequestInv, CredentialsInv
  <2>3. token # NULL /\ token \in Tokens \cup {NULL, Keep} /\ 200 \in Codes
    BY <1>3, SessionsAssumption, CodesAnswered
  <2>4. \A q \in Requests : q # r /\ requests[q].phase \in Inserts =>
          users'[requests[q].user] = "none"
    BY <1>1, InsertsKept
  <2>5. token \in issued' /\ (store'[token] # NULL => users'[store'[token].user] # "none")
    BY <1>1, <1>5, <1>8, <2>2
  <2> QED BY <1>11, <1>12, <1>14, <2>3, <2>4, <2>5, Answering
<1>15. CASE /\ request.kind # "login" /\ store' = created
            /\ requests' = [requests EXCEPT ![r] =
                              [request EXCEPT !.phase = "stored", !.cookie = token]]
  <2> DEFINE next == [request EXCEPT !.phase = "stored", !.cookie = token]
  <2>1. requests \in [Requests -> RequestStates] /\ request \in RequestStates
    BY RequestType
  <2>2. next.phase = "stored" /\ next.kind = request.kind /\ next.token = request.token
        /\ next.user = request.user
    BY <2>1 DEF RequestStates
  <2>3. next.cookie = token
    BY <2>1 DEF RequestStates
  <2>4. next \in RequestStates
    BY <1>3, <2>1 DEF RequestStates, Phases
  <2> HIDE DEF next
  <2>5. requests' = [requests EXCEPT ![r] = next]
    BY <1>15 DEF next
  <2>6. /\ requests' \in [Requests -> RequestStates]
        /\ \A q \in Requests : q # r => requests'[q] = requests[q]
        /\ requests'[r] = next
    BY <2>1, <2>4, <2>5
  <2>7. request.phase = "flushed"
    BY <1>1, <1>15
  <2>8. users[request.user] = "none" /\ request.kind = "register"
    BY <2>7 DEF SessionInv, RequestInv, CredentialsInv, Inserts
  <2>9. \A q \in Requests : q # r /\ requests[q].phase \in Inserts =>
          requests[q].user # request.user
    BY <2>7 DEF SessionInv, Distinct, Inserts
  <2>10. VerificationInv(r)'
    BY <2>2, <2>6 DEF VerificationInv, Verifying
  <2>11. requests'[r].phase # "found"
    BY <2>2, <2>6
  <2>12. token \in issued' /\ (store'[token] # NULL => store'[token].user = request.user)
    BY <1>1, <1>5, <1>8
  <2>13. \A q \in Requests : q # r /\ requests[q].phase \in Inserts =>
           users'[requests[q].user] = "none"
    BY <1>1, InsertsKept
  <2>14. requests'[r].phase \in Inserts =>
             /\ requests'[r].kind = "register" /\ users'[requests'[r].user] = "none"
             /\ \A q \in Requests : q # r /\ requests[q].phase \in Inserts =>
                    requests[q].user # requests'[r].user
    BY <1>1, <2>2, <2>6, <2>8, <2>9
  <2>15. requests'[r].phase \in Creates =>
             /\ requests'[r].cookie \in issued'
             /\ ~Known(requests'[r].cookie)
             /\ store'[requests'[r].cookie] # NULL =>
                    store'[requests'[r].cookie].user = requests'[r].user
             /\ \A q \in Requests : q # r /\ requests[q].phase \in Creates =>
                    requests[q].cookie # requests'[r].cookie
    BY <1>12, <2>2, <2>3, <2>6, <2>12
  <2>16. /\ requests'[r].phase # "answered" /\ requests'[r].token = requests[r].token
         /\ requests'[r].user \in Users
    BY <1>4, <2>2, <2>6
  <2> QED BY <1>11, <2>6, <2>10, <2>11, <2>13, <2>14, <2>15, <2>16, Proceeding
<1> QED BY <1>13, <1>14, <1>15 DEF CreateSession, token, session

LEMMA CommitUserKeeps ==
  ASSUME SessionInv, NEW r \in Requests, CommitUser(r), UNCHANGED tabVars
  PROVE  SessionInv' /\ WorldStep
<1> DEFINE request == requests[r]
           committed == [users EXCEPT ![request.user] = "active"]
<1>1. /\ UNCHANGED <<now, store, issued>> /\ request.phase = "stored"
      /\ users' \in {users, committed}
  BY DEF CommitUser
<1>2. /\ store \in [Tokens -> Session \cup {NULL}] /\ StoreInv /\ issued \subseteq Tokens
      /\ now \in 0..MaxTime /\ users \in [Users -> {"none", "active", "disabled"}]
  BY DEF SessionInv, SessionTypeOK
<1>3. /\ request.user \in Users /\ users[request.user] = "none"
      /\ request.cookie \in issued /\ ~Known(request.cookie)
      /\ store[request.cookie] # NULL => store[request.cookie].user = request.user
  BY <1>1 DEF SessionInv, RequestInv, CredentialsInv, Inserts, Creates
<1>4. users' \in [Users -> {"none", "active", "disabled"}]
  BY <1>1, <1>2
<1>5. \A user \in Users : user # request.user => users'[user] = users[user]
  BY <1>1, <1>2
<1>6. StoreInv'
  BY <1>1, <1>2 DEF StoreInv
<1>7. WorldStep
  BY <1>1, <1>2, <1>3, <1>4, <1>5, <1>6 DEF WorldStep
<1>8. \A q \in Requests : q # r /\ requests[q].phase \in Inserts =>
        users'[requests[q].user] = "none"
  <2> SUFFICES ASSUME NEW q \in Requests, q # r, requests[q].phase \in Inserts
               PROVE  users'[requests[q].user] = "none"
    OBVIOUS
  <2>1. requests[q].user # request.user
    BY <1>1 DEF SessionInv, Distinct, Inserts
  <2>2. requests[q].user \in Users /\ users[requests[q].user] = "none"
    BY DEF SessionInv, RequestInv, CredentialsInv
  <2> QED BY <1>5, <2>1, <2>2
<1>9. \A q \in Requests : q # r /\ requests[q].phase \in Creates =>
        requests[q].cookie # request.cookie
  BY <1>1 DEF SessionInv, Distinct, Creates
<1>10. CASE users' = committed /\ Answer(r, 201, request.cookie)
  <2>1. users'[request.user] = "active"
    BY <1>2, <1>3, <1>10
  <2>2. /\ request.cookie \in Tokens \cup {NULL, Keep} /\ request.cookie # NULL
        /\ 201 \in Codes
    BY <1>2, <1>3, SessionsAssumption, CodesAnswered
  <2>3. /\ request.cookie \in issued'
        /\ store'[request.cookie] # NULL => users'[store'[request.cookie].user] # "none"
    BY <1>1, <1>3, <2>1
  <2> QED BY <1>7, <1>8, <1>9, <1>10, <2>2, <2>3, Answering
<1>11. CASE Proceed(r, "failed")
  <2>1. requests \in [Requests -> RequestStates] /\ "failed" \in Phases
    BY RequestType DEF Phases
  <2>2. /\ requests' \in [Requests -> RequestStates]
        /\ \A q \in Requests : q # r => requests'[q] = requests[q]
        /\ requests'[r].phase = "failed"
        /\ requests'[r].kind = request.kind
        /\ requests'[r].token = request.token
        /\ requests'[r].user = request.user
        /\ requests'[r].cookie = request.cookie
    BY <1>11, <2>1, ProceedEffect
  <2>3. VerificationInv(r)'
    BY <2>2 DEF VerificationInv, Verifying
  <2>4. requests'[r].phase \notin Inserts \cup {"found"}
    BY <2>2 DEF Inserts
  <2>5. requests'[r].phase \in Creates =>
             /\ requests'[r].cookie \in issued'
             /\ ~Known(requests'[r].cookie)
             /\ store'[requests'[r].cookie] # NULL =>
                    store'[requests'[r].cookie].user = requests'[r].user
             /\ \A q \in Requests : q # r /\ requests[q].phase \in Creates =>
                    requests[q].cookie # requests'[r].cookie
    BY <1>1, <1>3, <1>9, <2>2
  <2> QED BY <1>3, <1>7, <1>8, <2>2, <2>3, <2>4, <2>5, Proceeding
<1> QED BY <1>10, <1>11 DEF CommitUser

LEMMA CrashKeeps ==
  ASSUME SessionInv, NEW r \in Requests, Crash(r), UNCHANGED tabVars
  PROVE  SessionInv' /\ WorldStep
<1>1. UNCHANGED <<now, users, store, issued>> /\ Answer(r, 0, Keep) /\ 0 \in Codes
  BY CodesAnswered DEF Crash
<1>2. WorldStep
  BY <1>1, WorldUnchanged
<1> QED BY <1>1, <1>2, AnsweringKeep

LEMMA HandleKeeps ==
  ASSUME SessionInv, NEW r \in Requests, Handle(r) \/ Crash(r), UNCHANGED tabVars
  PROVE  SessionInv' /\ WorldStep
BY ReadSessionKeeps, RenewKeeps, FindUserKeeps, DeleteSessionKeeps, LogoutNothingKeeps,
   FindAccountKeeps, FlushUserKeeps, CreateSessionKeeps, CommitUserKeeps, CrashKeeps DEF Handle

\* The world goes on while nothing is handled.
LEMMA QuietKeeps ==
  ASSUME SessionInv, WorldStep, UNCHANGED <<requests, tabVars>>,
         \A q \in Requests : requests[q].phase \in Inserts => users'[requests[q].user] = "none"
  PROVE  SessionInv'
<1>1. \A token : Known(token)' = Known(token)
  BY DEF Known, tabVars
<1>2. SessionTypeOK'
  <2>1. requests' \in [Requests -> RequestStates] /\ UNCHANGED tabVars
    BY DEF SessionInv, SessionTypeOK
  <2> QED BY <2>1, TypesKept
<1>3. KnownInv'
  BY <1>1, KnownStable DEF KnownInv
<1>4. \A q \in Requests : RequestInv(q)'
  <2> SUFFICES ASSUME NEW q \in Requests PROVE RequestInv(q)'
    OBVIOUS
  <2>1. requests'[q] = requests[q]
    OBVIOUS
  <2>2. requests[q].phase \in Creates => ~Known(requests[q].cookie)
    BY DEF SessionInv, RequestInv, CredentialsInv
  <2>3. requests[q].phase \in Creates => ~Known(requests[q].cookie)'
    BY <1>1, <2>1, <2>2
  <2> QED BY <2>1, <2>3, OthersStable
<1>5. \A p, q \in Requests : p # q => Distinct(p, q)'
  BY DEF SessionInv, Distinct
<1>6. StoreInv'
  BY DEF WorldStep
<1> QED BY <1>2, <1>3, <1>4, <1>5, <1>6 DEF SessionInv

LEMMA BackendKeeps ==
  ASSUME SessionInv, BackendStep, UNCHANGED tabVars
  PROVE  SessionInv' /\ WorldStep
<1>1. ASSUME NEW r \in Requests, Handle(r) \/ Crash(r) PROVE SessionInv' /\ WorldStep
  BY <1>1, HandleKeeps
<1>2. CASE Tick
  <2>1. now' \in 0..MaxTime
    BY <1>2, SessionsAssumption DEF Tick, SessionInv, SessionTypeOK
  <2>2. UNCHANGED <<users, store, issued, requests>>
    BY <1>2 DEF Tick
  <2>3. WorldStep
    BY <2>1, <2>2 DEF SessionInv, SessionTypeOK, StoreInv, WorldStep
  <2> QED BY <2>2, <2>3, InsertsKept, QuietKeeps
<1>3. ASSUME NEW token \in Tokens, Expire(token) PROVE SessionInv' /\ WorldStep
  <2>1. /\ UNCHANGED <<now, users, issued, requests>>
        /\ store' = [store EXCEPT ![token] = NULL]
    BY <1>3 DEF Expire
  <2>2. WorldStep
    BY <2>1, WorldDeletes
  <2> QED BY <2>1, <2>2, InsertsKept, QuietKeeps
<1>4. ASSUME NEW user \in Users, DisableUser(user) PROVE SessionInv' /\ WorldStep
  <2>1. /\ UNCHANGED <<now, store, issued, requests>> /\ users[user] = "active"
        /\ users' = [users EXCEPT ![user] = "disabled"]
    BY <1>4 DEF DisableUser
  <2>2. users \in [Users -> {"none", "active", "disabled"}]
    BY DEF SessionInv, SessionTypeOK
  <2>3. \A u \in Users : IF u = user THEN users'[u] = "disabled" ELSE users'[u] = users[u]
    BY <2>1, <2>2
  <2>4. users' \in [Users -> {"none", "active", "disabled"}]
    BY <2>1, <2>2
  <2>5. WorldStep
    BY <2>1, <2>3, <2>4 DEF SessionInv, SessionTypeOK, StoreInv, WorldStep
  <2>6. \A q \in Requests : requests[q].phase \in Inserts =>
          requests[q].user \in Users /\ users[requests[q].user] = "none"
    BY DEF SessionInv, RequestInv, CredentialsInv
  <2>7. \A q \in Requests : requests[q].phase \in Inserts => users'[requests[q].user] = "none"
    BY <2>1, <2>3, <2>6
  <2> QED BY <2>1, <2>5, <2>7, QuietKeeps
<1> QED BY <1>1, <1>2, <1>3, <1>4 DEF BackendStep

-----------------------------------------------------------------------------
(* The browser *)

LEMMA TabStepKeeps ==
  ASSUME SessionInv, UNCHANGED <<now, users, store, issued>>, SessionTypeOK',
         \A token \in Tokens : Known(token)' => Known(token),
         NEW r \in Requests,
         \A q \in Requests : q # r => requests'[q] = requests[q],
         \/ /\ requests'[r].phase \in {"none", "sent"}
            /\ requests'[r].kind \in Credentials => requests'[r].user \in Users
         \/ /\ requests'[r].kind = requests[r].kind /\ requests'[r].phase = requests[r].phase
            /\ requests'[r].token = requests[r].token /\ requests'[r].user = requests[r].user
            /\ requests'[r].idle = requests[r].idle /\ requests'[r].cookie = requests[r].cookie
  PROVE  SessionInv'
<1>1. WorldStep
  BY WorldUnchanged
<1>2. KnownInv'
  BY <1>1, KnownStable DEF KnownInv
<1>3. \A q \in Requests : requests[q].phase \in Creates =>
        requests[q].cookie \in Tokens /\ ~Known(requests[q].cookie)
  BY DEF SessionInv, SessionTypeOK, RequestInv, CredentialsInv
<1>4. \A q \in Requests : q # r => RequestInv(q)'
  <2> SUFFICES ASSUME NEW q \in Requests, q # r PROVE RequestInv(q)'
    OBVIOUS
  <2>1. requests'[q] = requests[q]
    OBVIOUS
  <2>2. requests[q].phase \in Creates => ~Known(requests[q].cookie)'
    BY <1>3, <2>1
  <2>3. requests[q].phase \in Inserts => users'[requests[q].user] = "none"
    BY InsertsKept
  <2> QED BY <1>1, <2>1, <2>2, <2>3, OthersStable
<1>5. RequestInv(r)'
  <2>1. CASE /\ requests'[r].phase \in {"none", "sent"}
             /\ requests'[r].kind \in Credentials => requests'[r].user \in Users
    BY <2>1 DEF RequestInv, VerificationInv, CredentialsInv, ExpiryInv,
                Verifying, Inserts, Creates
  <2>2. CASE /\ requests'[r].kind = requests[r].kind /\ requests'[r].phase = requests[r].phase
             /\ requests'[r].token = requests[r].token /\ requests'[r].user = requests[r].user
             /\ requests'[r].idle = requests[r].idle /\ requests'[r].cookie = requests[r].cookie
    <3>1. RequestInv(r)
      BY DEF SessionInv
    <3>2. VerificationInv(r)'
      BY <2>2, <3>1 DEF RequestInv, VerificationInv
    <3>3. ExpiryInv(r)'
      BY <2>2, <3>1 DEF RequestInv, ExpiryInv
    <3>4. requests[r].phase \in Creates => ~Known(requests[r].cookie)'
      BY <1>3, <2>2
    <3>5. CredentialsInv(r)'
      BY <2>2, <3>1, <3>4 DEF RequestInv, CredentialsInv
    <3> QED BY <3>2, <3>3, <3>5 DEF RequestInv
  <2> QED BY <2>1, <2>2
<1>6. \A p, q \in Requests : p # q => Distinct(p, q)'
  <2>1. \/ requests'[r].phase \notin Inserts \cup Creates
        \/ /\ requests'[r].phase = requests[r].phase /\ requests'[r].user = requests[r].user
           /\ requests'[r].cookie = requests[r].cookie
    BY DEF Inserts, Creates
  <2> QED BY <2>1 DEF SessionInv, Distinct
<1>7. StoreInv'
  BY <1>1 DEF WorldStep
<1> QED BY <1>2, <1>4, <1>5, <1>6, <1>7 DEF SessionInv

TabType ==
    /\ tab \in Tabs /\ waiting \in [Waiters -> Requests \cup {0}]
    /\ waiting["page"] # 0 => tab.going \in TabPages

LEMMA FreshType ==
  ASSUME NEW page \in TabPages
  PROVE  Fresh(page) \in Tabs
BY DEF Fresh, Tabs

LEMMA WaitersPage == "page" \in Waiters
BY DEF Waiters

LEMMA ArriveType ==
  ASSUME TabType, NEW page \in TabPages, Arrive(page)
  PROVE  TabType'
<1>1. CASE page = tab.page
  <2>1. tab' \in Tabs
    BY <1>1 DEF Arrive, TabType, Tabs
  <2>2. waiting' \in [Waiters -> Requests \cup {0}] /\ waiting'["page"] = 0
    BY <1>1, WaitersPage DEF Arrive, TabType
  <2> QED BY <2>1, <2>2 DEF TabType
<1>2. CASE page # tab.page
  <2>1. waiting' = [w \in Waiters |-> 0] /\ tab' = Fresh(page)
    BY <1>2 DEF Arrive
  <2>2. waiting' \in [Waiters -> Requests \cup {0}] /\ waiting'["page"] = 0
    BY <2>1, WaitersPage
  <2> QED BY <2>1, <2>2, FreshType DEF TabType
<1> QED BY <1>1, <1>2

LEMMA GoingType ==
  ASSUME TabType, NEW page \in TabPages
  PROVE  Going(page) \in Tabs /\ Going(page).going = page
BY DEF TabType, Going, Tabs

LEMMA RedirectType ==
  ASSUME TabType, NEW page \in TabPages, NEW done, NEW state \in Tabs,
         Redirect(page, done, state)
  PROVE  TabType'
<1>1. tab' \in Tabs
  BY DEF Redirect, Tabs
<1>2. waiting' \in [Waiters -> Requests \cup {0}] /\ waiting'["page"] = 0
  BY WaitersPage DEF Redirect, TabType
<1> QED BY <1>1, <1>2 DEF TabType

LEMMA RestType ==
  ASSUME TabType, NEW done, NEW state \in Tabs, state.going = tab.going, Rest(done, state)
  PROVE  TabType'
<1>1. tab' = state /\ waiting' = [waiting EXCEPT ![done] = 0]
  BY DEF Rest
<1>2. waiting' \in [Waiters -> Requests \cup {0}]
  BY <1>1 DEF TabType
<1>3. waiting'["page"] # 0 => waiting["page"] # 0
  BY <1>1, WaitersPage DEF TabType
<1> QED BY <1>1, <1>2, <1>3 DEF TabType

LEMMA DecideType ==
  ASSUME TabType, NEW status, tab.going \in TabPages, Decide(status)
  PROVE  TabType'
<1>1. ASSUME NEW page \in TabPages,
             tab' = Going(page) /\ waiting' = [waiting EXCEPT !["page"] = 0]
      PROVE  TabType'
  BY <1>1, GoingType, WaitersPage DEF TabType
<1>2. "app" \in TabPages /\ "login" \in TabPages /\ "unavailable" \in TabPages
  BY DEF TabPages, AuthPages
<1>3. \/ tab' = Going("app") /\ waiting' = [waiting EXCEPT !["page"] = 0]
      \/ Arrive(tab.going)
      \/ tab' = Going("login") /\ waiting' = [waiting EXCEPT !["page"] = 0]
      \/ tab' = Going("unavailable") /\ waiting' = [waiting EXCEPT !["page"] = 0]
  BY Zenon DEF Decide
<1> QED BY <1>1, <1>2, <1>3, ArriveType

LEMMA HearType ==
  ASSUME TabType, NEW r \in Requests, NEW exchange, Hear(r, exchange)
  PROVE  TabType'
<1>1. "app" \in TabPages /\ "login" \in TabPages /\ "unavailable" \in TabPages
  BY DEF TabPages, AuthPages
<1>2. ASSUME UNCHANGED <<tab, waiting>> PROVE TabType'
  BY <1>2 DEF TabType
<1>3. tab \in Tabs
  BY DEF TabType
<1>4. waiting["page"] = r => tab.going \in TabPages
  BY SessionsAssumption DEF TabType
<1>5. ASSUME HearUser(r, exchange) PROVE TabType'
  <2>1. [tab EXCEPT !.user = TRUE] \in Tabs /\ [tab EXCEPT !.user = TRUE].going = tab.going
    BY <1>3 DEF Tabs
  <2>2. \/ Rest("me", [tab EXCEPT !.user = TRUE]) \/ Redirect("login", "me", tab)
        \/ Redirect("unavailable", "me", tab) \/ UNCHANGED <<tab, waiting>>
    BY <1>5, Zenon DEF HearUser
  <2> QED BY <1>1, <1>2, <1>3, <2>1, <2>2, RedirectType, RestType
<1>6. ASSUME HearForm(r, exchange) PROVE TabType'
  <2> DEFINE limited == CredentialsOutcome(requests[r].kind, exchange) = "rate_limited"
  <2>1. limited \in BOOLEAN
    OBVIOUS
  <2>2. \/ \E done : Redirect("app", done, tab)
        \/ Rest("form", [tab EXCEPT !.limited = limited])
        \/ UNCHANGED <<tab, waiting>>
    BY <1>6 DEF HearForm
  <2> HIDE DEF limited
  <2>3. [tab EXCEPT !.limited = limited] \in Tabs
        /\ [tab EXCEPT !.limited = limited].going = tab.going
    BY <1>3, <2>1 DEF Tabs
  <2> QED BY <1>1, <1>2, <1>3, <2>2, <2>3, RedirectType, RestType
<1>7. ASSUME HearLogout(r, exchange) PROVE TabType'
  <2> DEFINE leaving == tab.leaving \/ waiting["logout"] = r
  <2>1. leaving \in BOOLEAN
    OBVIOUS
  <2>2. \/ \E done : Redirect("login", done, [tab EXCEPT !.leaving = leaving])
        \/ Rest("logout", tab)
        \/ UNCHANGED <<tab, waiting>>
    BY <1>7 DEF HearLogout
  <2> HIDE DEF leaving
  <2>3. [tab EXCEPT !.leaving = leaving] \in Tabs
    BY <1>3, <2>1 DEF Tabs
  <2> QED BY <1>1, <1>2, <1>3, <2>2, <2>3, RedirectType, RestType
<1>8. \/ (waiting["page"] = r /\ Decide(exchange.status)) \/ UNCHANGED <<tab, waiting>>
      \/ HearUser(r, exchange) \/ HearForm(r, exchange) \/ HearLogout(r, exchange)
  BY Zenon DEF Hear
<1> QED BY <1>2, <1>4, <1>5, <1>6, <1>7, <1>8, DecideType

IInv == SessionInv /\ TabType

\* A step of the browser that sends nothing and hears nothing.
LEMMA LocalStepKeeps ==
  ASSUME IInv, TabType', UNCHANGED <<sessionVars, cookie>>, moves' \in 0..MaxMoves
  PROVE  IInv'
<1>1. SessionTypeOK'
  BY DEF IInv, SessionInv, SessionTypeOK, TabType, sessionVars
<1>2. \A token : Known(token)' = Known(token)
  BY DEF Known, sessionVars
<1>3. StoreInv' /\ KnownInv'
  BY <1>2 DEF IInv, SessionInv, StoreInv, KnownInv, sessionVars
<1>4. \A r \in Requests : RequestInv(r)'
  <2> SUFFICES ASSUME NEW r \in Requests PROVE RequestInv(r)'
    OBVIOUS
  <2>1. RequestInv(r)
    BY DEF IInv, SessionInv
  <2>2. VerificationInv(r)' /\ ExpiryInv(r)'
    BY <2>1 DEF RequestInv, VerificationInv, ExpiryInv, sessionVars
  <2>3. Known(requests[r].cookie)' = Known(requests[r].cookie)
    BY <1>2 DEF sessionVars
  <2>4. CredentialsInv(r)'
    BY <2>1, <2>3 DEF RequestInv, CredentialsInv, sessionVars
  <2> QED BY <2>2, <2>4 DEF RequestInv
<1>5. \A r, q \in Requests : r # q => Distinct(r, q)'
  BY DEF IInv, SessionInv, Distinct, sessionVars
<1> QED BY <1>1, <1>3, <1>4, <1>5 DEF IInv, SessionInv

\* A step of the browser that sends a request with its cookie.
LEMMA SendingKeeps ==
  ASSUME IInv, TabType', UNCHANGED <<now, users, store, issued, cookie>>, moves' \in 0..MaxMoves,
         NEW r \in Requests, NEW kind \in Kinds, NEW user \in Users \cup {NULL},
         kind \in Credentials => user \in Users,
         Send(r, kind, cookie, user)
  PROVE  IInv'
<1>1. requests \in [Requests -> RequestStates] /\ cookie \in Tokens \cup {NULL}
  BY DEF IInv, SessionInv, SessionTypeOK
<1>2. /\ requests' \in [Requests -> RequestStates]
      /\ \A q \in Requests : q # r => requests'[q] = requests[q]
      /\ requests'[r].phase = "sent" /\ requests'[r].kind = kind
      /\ requests'[r].token = cookie /\ requests'[r].user = user
  BY ZenonT(30), <1>1, SendEffect
<1>3. SessionTypeOK'
  BY <1>2 DEF IInv, SessionInv, SessionTypeOK, TabType
<1>4. \A token \in Tokens : Known(token)' => Known(token)
  BY <1>2 DEF Known
<1>5. SessionInv'
  BY <1>2, <1>3, <1>4, TabStepKeeps DEF IInv
<1> QED BY <1>5 DEF IInv

LEMMA MovesCount ==
  ASSUME IInv
  PROVE  /\ moves \in 0..MaxMoves
         /\ moves < MaxMoves => moves + 1 \in 0..MaxMoves
<1>1. moves \in 0..MaxMoves
  BY DEF IInv, SessionInv, SessionTypeOK
<1> QED BY <1>1, MaxMovesAssumption

LEMMA VisitKeeps ==
  ASSUME IInv, Visit
  PROVE  IInv'
<1>1. moves' \in 0..MaxMoves /\ UNCHANGED <<sessionVars, cookie, waiting>>
  BY MovesCount DEF Visit
<1>2. PICK page \in Links(tab.page) : tab' = Going(page)
  BY DEF Visit
<1>3. page \in TabPages
  BY DEF Links, TabPages, AuthPages
<1>4. TabType'
  BY <1>1, <1>2, <1>3, GoingType DEF IInv, TabType
<1> QED BY <1>1, <1>4, LocalStepKeeps

LEMMA DepartKeeps ==
  ASSUME IInv, Depart
  PROVE  IInv'
<1>1. /\ tab.going # "none" /\ waiting["page"] = 0
      /\ UNCHANGED <<now, users, store, issued, cookie, moves>>
  BY DEF Depart
<1>2. tab.going \in TabPages /\ "login" \in TabPages
  BY <1>1 DEF IInv, TabType, Tabs, TabPages, AuthPages
<1>3. moves' \in 0..MaxMoves
  BY <1>1, MovesCount
<1>4. CASE UNCHANGED requests /\ Arrive(tab.going)
  <2>1. TabType'
    BY <1>2, <1>4, ArriveType DEF IInv
  <2> QED BY <1>1, <1>3, <1>4, <2>1, LocalStepKeeps DEF sessionVars
<1>5. CASE UNCHANGED requests /\ tab' = Going("login") /\ UNCHANGED waiting
  <2>1. TabType'
    BY <1>2, <1>5, GoingType DEF IInv, TabType
  <2> QED BY <1>1, <1>3, <1>5, <2>1, LocalStepKeeps DEF sessionVars
<1>6. ASSUME NEW r \in Requests, Send(r, "page", cookie, NULL),
             waiting' = [waiting EXCEPT !["page"] = r], UNCHANGED tab
      PROVE  IInv'
  <2>1. TabType'
    BY <1>2, <1>6 DEF IInv, TabType
  <2>2. "page" \in Kinds /\ "page" \notin Credentials /\ NULL \in Users \cup {NULL}
    BY DEF Kinds, Verifications, Credentials
  <2> QED BY <1>1, <1>3, <1>6, <2>1, <2>2, SendingKeeps
<1> QED BY <1>4, <1>5, <1>6, Zenon DEF Depart

LEMMA AskUserKeeps ==
  ASSUME IInv, AskUser
  PROVE  IInv'
<1>1. PICK r \in Requests :
        Send(r, "me", cookie, NULL) /\ waiting' = [waiting EXCEPT !["me"] = r]
  BY DEF AskUser
<1>2. tab' = [tab EXCEPT !.due = FALSE] /\ UNCHANGED <<now, users, store, issued, cookie, moves>>
  BY DEF AskUser
<1>3. moves' \in 0..MaxMoves
  BY <1>2, MovesCount
<1>4. tab' \in Tabs /\ tab'.going = tab.going
  BY <1>2 DEF IInv, TabType, Tabs
<1>5. waiting' \in [Waiters -> Requests \cup {0}] /\ waiting'["page"] = waiting["page"]
  BY <1>1, WaitersPage DEF IInv, TabType
<1>6. TabType'
  BY <1>4, <1>5 DEF IInv, TabType
<1>7. "me" \in Kinds /\ "me" \notin Credentials /\ NULL \in Users \cup {NULL}
  BY DEF Kinds, Verifications, Credentials
<1> QED BY <1>1, <1>2, <1>3, <1>6, <1>7, SendingKeeps

LEMMA SubmitKeeps ==
  ASSUME IInv, Submit
  PROVE  IInv'
<1>1. /\ tab.page \in AuthPages /\ moves' \in 0..MaxMoves
      /\ UNCHANGED <<now, users, store, issued, cookie, tab>>
  BY MovesCount DEF Submit
<1>2. PICK r \in Requests, user \in Users :
        Send(r, tab.page, cookie, user) /\ waiting' = [waiting EXCEPT !["form"] = r]
  BY DEF Submit
<1>3. waiting' \in [Waiters -> Requests \cup {0}] /\ waiting'["page"] = waiting["page"]
  BY <1>2, WaitersPage DEF IInv, TabType
<1>4. TabType'
  BY <1>1, <1>3 DEF IInv, TabType
<1>5. tab.page \in Kinds
  BY <1>1 DEF AuthPages, Kinds, Credentials
<1> QED BY <1>1, <1>2, <1>4, <1>5, SendingKeeps

LEMMA CountDownKeeps ==
  ASSUME IInv, CountDown
  PROVE  IInv'
<1>1. tab' = [tab EXCEPT !.limited = FALSE] /\ UNCHANGED <<sessionVars, cookie, waiting, moves>>
  BY DEF CountDown
<1>2. tab' \in Tabs /\ tab'.going = tab.going
  BY <1>1 DEF IInv, TabType, Tabs
<1>3. TabType'
  BY <1>1, <1>2 DEF IInv, TabType
<1>4. moves' \in 0..MaxMoves
  BY <1>1, MovesCount
<1> QED BY <1>1, <1>3, <1>4, LocalStepKeeps

LEMMA PressLogoutKeeps ==
  ASSUME IInv, PressLogout
  PROVE  IInv'
<1>1. moves' \in 0..MaxMoves /\ UNCHANGED <<now, users, store, issued, cookie, tab>>
  BY MovesCount DEF PressLogout
<1>2. PICK r \in Requests :
        Send(r, "logout", cookie, NULL) /\ waiting' = [waiting EXCEPT !["logout"] = r]
  BY DEF PressLogout
<1>3. waiting' \in [Waiters -> Requests \cup {0}] /\ waiting'["page"] = waiting["page"]
  BY <1>2, WaitersPage DEF IInv, TabType
<1>4. TabType'
  BY <1>1, <1>3 DEF IInv, TabType
<1>5. "logout" \in Kinds /\ "logout" \notin Credentials /\ NULL \in Users \cup {NULL}
  BY DEF Kinds, Credentials
<1> QED BY <1>1, <1>2, <1>4, <1>5, SendingKeeps

LEMMA TakeAnswerKeeps ==
  ASSUME IInv, NEW r \in Requests, TakeAnswer(r)
  PROVE  IInv'
<1>1. /\ requests[r].phase = "answered" /\ Hear(r, Exchange(r)) /\ TakeCookie(r)
      /\ requests' = [requests EXCEPT ![r] = NoRequest]
      /\ UNCHANGED <<now, users, store, issued, moves>>
  BY DEF TakeAnswer
<1>2. TabType'
  BY <1>1, HearType DEF IInv
<1>3. requests \in [Requests -> RequestStates] /\ requests[r] \in RequestStates
  BY RequestType DEF IInv
<1>4. /\ requests' \in [Requests -> RequestStates]
      /\ \A q \in Requests : q # r => requests'[q] = requests[q]
      /\ requests'[r] = NoRequest
  BY <1>1, <1>3, NoRequestType
<1>5. cookie' \in {cookie, requests[r].cookie} /\ cookie' \in Tokens \cup {NULL}
  BY <1>1, <1>3 DEF TakeCookie, RequestStates, IInv, SessionInv, SessionTypeOK
<1>6. SessionTypeOK'
  BY <1>1, <1>2, <1>4, <1>5 DEF IInv, SessionInv, SessionTypeOK, TabType
<1>7. \A token \in Tokens : Known(token)' => Known(token)
  <2>1. NoRequest.token = NULL /\ NoRequest.phase = "none" /\ NULL \notin Tokens
    BY SessionsAssumption DEF NoRequest
  <2> QED BY <1>1, <1>4, <1>5, <2>1 DEF Known
<1>8. requests'[r].phase \in {"none", "sent"} /\ requests'[r].kind \notin Credentials
  BY <1>4 DEF NoRequest, Credentials
<1>9. SessionInv'
  BY <1>1, <1>4, <1>6, <1>7, <1>8, TabStepKeeps DEF IInv
<1> QED BY <1>2, <1>9 DEF IInv

LEMMA GiveUpKeeps ==
  ASSUME IInv, NEW r \in Requests, GiveUp(r)
  PROVE  IInv'
<1>1. /\ Hear(r, TimedOut)
      /\ requests' = [requests EXCEPT ![r] = [requests[r] EXCEPT !.open = FALSE]]
      /\ UNCHANGED <<now, users, store, issued, cookie, moves>>
  BY DEF GiveUp
<1>2. TabType'
  BY <1>1, HearType DEF IInv
<1>3. requests \in [Requests -> RequestStates] /\ requests[r] \in RequestStates
  BY RequestType DEF IInv
<1> DEFINE next == [requests[r] EXCEPT !.open = FALSE]
<1>4. /\ next \in RequestStates
      /\ next.kind = requests[r].kind /\ next.phase = requests[r].phase
      /\ next.token = requests[r].token /\ next.user = requests[r].user
      /\ next.idle = requests[r].idle /\ next.cookie = requests[r].cookie
  <2>1. next.kind = requests[r].kind /\ next.phase = requests[r].phase
        /\ next.token = requests[r].token
    BY <1>3 DEF RequestStates
  <2>2. next.user = requests[r].user /\ next.idle = requests[r].idle
        /\ next.cookie = requests[r].cookie
    BY <1>3 DEF RequestStates
  <2>3. next \in RequestStates
    BY <1>3 DEF RequestStates
  <2> QED BY <2>1, <2>2, <2>3
<1>5. requests' = [requests EXCEPT ![r] = next]
  BY <1>1
<1> HIDE DEF next
<1>6. /\ requests' \in [Requests -> RequestStates]
      /\ \A q \in Requests : q # r => requests'[q] = requests[q]
      /\ requests'[r] = next
  BY <1>3, <1>4, <1>5
<1>7. SessionTypeOK'
  BY <1>1, <1>2, <1>6 DEF IInv, SessionInv, SessionTypeOK, TabType
<1>8. \A token \in Tokens : Known(token)' => Known(token)
  BY <1>1, <1>4, <1>6 DEF Known
<1>9. SessionInv'
  BY <1>1, <1>4, <1>6, <1>7, <1>8, TabStepKeeps DEF IInv
<1> QED BY <1>2, <1>9 DEF IInv

-----------------------------------------------------------------------------
(* The theorems *)

LEMMA InitIInv == Init => IInv
<1> SUFFICES ASSUME Init PROVE IInv
  OBVIOUS
<1>1. /\ now = 0 /\ users \in [Users -> {"none", "active"}]
      /\ requests = [r \in Requests |-> NoRequest]
      /\ moves = 0 /\ waiting = [w \in Waiters |-> 0]
  BY DEF Init, InitSessions
<1>2. requests \in [Requests -> RequestStates] /\ \A r \in Requests : requests[r] = NoRequest
  BY <1>1, NoRequestType
<1>3. \A r \in Requests : RequestInv(r)
  BY <1>2 DEF RequestInv, VerificationInv, CredentialsInv, ExpiryInv, NoRequest,
              Verifying, Inserts, Creates, Credentials
<1>4. \A r, q \in Requests : r # q => Distinct(r, q)
  BY <1>2 DEF Distinct, NoRequest, Inserts, Creates
<1>5. \A token \in Tokens : Known(token) => cookie = token
  <2>1. NoRequest.token \notin Tokens /\ NoRequest.phase # "answered"
    BY SessionsAssumption DEF NoRequest
  <2> QED BY <1>2, <2>1 DEF Known
<1>6. waiting \in [Waiters -> Requests \cup {0}] /\ waiting["page"] = 0
  BY <1>1, WaitersPage
<1>7. 0 \in 0..MaxTime /\ 0 \in 0..MaxMoves
  BY SessionsAssumption, MaxMovesAssumption
<1>8. users \in [Users -> {"none", "active", "disabled"}]
  BY <1>1
<1>9. CASE store = [token \in Tokens |-> NULL] /\ issued = {}
  <2>1. cookie = NULL /\ \E page \in AuthPages : tab = Fresh(page)
    BY <1>9 DEF Init
  <2>2. tab \in Tabs
    BY <2>1, FreshType DEF TabPages
  <2>3. store \in [Tokens -> Session \cup {NULL}] /\ \A token \in Tokens : store[token] = NULL
    BY <1>9
  <2>4. SessionTypeOK
    BY <1>1, <1>2, <1>6, <1>7, <1>8, <1>9, <2>1, <2>2, <2>3 DEF SessionTypeOK
  <2>5. StoreInv
    BY <2>3 DEF StoreInv
  <2>6. KnownInv
    BY <1>5, <2>1, SessionsAssumption DEF KnownInv
  <2> QED BY <1>3, <1>4, <1>6, <2>2, <2>4, <2>5, <2>6 DEF IInv, SessionInv, TabType
<1>10. ASSUME NEW user \in Users, NEW token \in Tokens,
              users[user] = "active", issued = {token},
              store = [t \in Tokens |-> IF t = token THEN NewSession(user) ELSE NULL]
       PROVE  IInv
  <2>1. cookie \in issued /\ tab = Fresh("app")
    BY <1>10 DEF Init
  <2>2. tab \in Tabs
    BY <2>1, FreshType DEF TabPages
  <2>3. /\ NewSession(user) \in Session /\ NewSession(user).user = user
        /\ NewSession(user).idle <= NewSession(user).absolute
    <3>1. now + Ttl \in Nat /\ now + AbsoluteTtl \in Nat
      BY <1>1, SessionsAssumption
    <3>2. Least(now + Ttl, now + AbsoluteTtl) \in Nat
          /\ Least(now + Ttl, now + AbsoluteTtl) <= now + AbsoluteTtl
      BY <3>1, LeastBound
    <3> QED BY <3>1, <3>2 DEF NewSession, Session
  <2> DEFINE session == NewSession(user)
  <2> HIDE DEF session
  <2>4. /\ store \in [Tokens -> Session \cup {NULL}] /\ store[token] = session
        /\ \A t \in Tokens : t # token => store[t] = NULL
    BY <1>10, <2>3 DEF session
  <2>5. SessionTypeOK
    BY <1>1, <1>2, <1>6, <1>7, <1>8, <1>10, <2>1, <2>2, <2>4 DEF SessionTypeOK
  <2>6. StoreInv
    BY <1>10, <2>3, <2>4 DEF StoreInv, session
  <2>7. KnownInv
    BY <1>5, <1>10, <2>1, <2>3, <2>4 DEF KnownInv, session
  <2> QED BY <1>3, <1>4, <1>6, <2>2, <2>5, <2>6, <2>7 DEF IInv, SessionInv, TabType
<1>11. \/ store = [token \in Tokens |-> NULL] /\ issued = {}
       \/ \E user \in Users : \E token \in Tokens :
            /\ users[user] = "active" /\ issued = {token}
            /\ store = [t \in Tokens |-> IF t = token THEN NewSession(user) ELSE NULL]
  BY DEF Init, InitSessions
<1> QED BY <1>9, <1>10, <1>11

LEMMA StepIInv == IInv /\ [Next]_vars => IInv'
<1> SUFFICES ASSUME IInv, [Next]_vars PROVE IInv'
  OBVIOUS
<1>1. CASE BackendStep /\ UNCHANGED tabVars
  <2>1. SessionInv'
    BY <1>1, BackendKeeps DEF IInv
  <2>2. TabType'
    BY <1>1 DEF IInv, TabType, tabVars
  <2> QED BY <2>1, <2>2 DEF IInv
<1>2. CASE UNCHANGED vars
  <2>1. TabType' /\ UNCHANGED <<sessionVars, cookie>> /\ moves' \in 0..MaxMoves
    BY <1>2, MovesCount DEF vars, tabVars, IInv, TabType
  <2> QED BY <2>1, LocalStepKeeps
<1>3. CASE \E r \in Requests : TakeAnswer(r) \/ GiveUp(r)
  BY <1>3, TakeAnswerKeeps, GiveUpKeeps
<1>4. CASE Visit \/ Depart \/ AskUser \/ Submit \/ CountDown \/ PressLogout
  BY <1>4, VisitKeeps, DepartKeeps, AskUserKeeps, SubmitKeeps, CountDownKeeps, PressLogoutKeeps
<1> QED BY <1>1, <1>2, <1>3, <1>4 DEF Next

LEMMA IInvHolds == Spec => []IInv
BY InitIInv, StepIInv, PTL DEF Spec

\* The types, for any number of accounts, tokens and requests in flight.
THEOREM SessionTypes == Spec => []SessionTypeOK
<1>1. IInv => SessionTypeOK
  BY DEF IInv, SessionInv
<1> QED BY <1>1, IInvHolds, PTL

\* A token the browser has or is being sent never stands for an account that
\* was not committed, wherever a registration of app/routes/auth.py fails.
THEOREM CookiesHaveUsers == Spec => []CookieHasUser
<1>1. IInv => CookieHasUser
  BY DEF IInv, SessionInv, KnownInv, Known, CookieHasUser
<1> QED BY <1>1, IInvHolds, PTL

\* A session that has ended stays ended, and the absolute deadline of one that
\* goes on does not move: renewals, creations and failures included.
THEOREM RevocationHolds == Spec => RevokedStaysRevoked
<1>1. ASSUME IInv, [Next]_vars
      PROVE  [\A token \in issued :
                 /\ store[token] = NULL => store'[token] = NULL
                 /\ store'[token] # NULL =>
                      /\ store'[token].user = store[token].user
                      /\ store'[token].absolute = store[token].absolute
                      /\ store'[token].idle <= store'[token].absolute]_sessionVars
  <2>1. issued \subseteq Tokens /\ StoreInv
    BY <1>1 DEF IInv, SessionInv, SessionTypeOK
  <2>2. CASE BackendStep /\ UNCHANGED tabVars
    <3>1. WorldStep
      BY <1>1, <2>2, BackendKeeps DEF IInv
    <3> QED BY <2>1, <3>1 DEF WorldStep, StoreInv
  <2>3. CASE UNCHANGED store
    BY <2>1, <2>3 DEF StoreInv
  <2>4. CASE Visit \/ CountDown \/ UNCHANGED vars
    BY <2>3, <2>4 DEF Visit, CountDown, vars, sessionVars
  <2>5. CASE Depart \/ AskUser \/ Submit \/ PressLogout
    BY <2>3, <2>5 DEF Depart, AskUser, Submit, PressLogout
  <2>6. CASE \E r \in Requests : TakeAnswer(r) \/ GiveUp(r)
    BY <2>3, <2>6 DEF TakeAnswer, GiveUp
  <2> QED BY <1>1, <2>2, <2>4, <2>5, <2>6 DEF Next
<1>2. IInv /\ [Next]_vars =>
        [\A token \in issued :
           /\ store[token] = NULL => store'[token] = NULL
           /\ store'[token] # NULL =>
                /\ store'[token].user = store[token].user
                /\ store'[token].absolute = store[token].absolute
                /\ store'[token].idle <= store'[token].absolute]_sessionVars
  BY <1>1
<1> QED BY <1>2, IInvHolds, PTL DEF Spec, RevokedStaysRevoked

\* The cookie of a live session is expired only by the answer of a logout, or
\* of a request that carried another token: no failure loses it.
THEOREM LiveCookiesAreKept == Spec => LiveCookieIsKept
<1>1. ASSUME IInv, [Next]_vars, Live(cookie), cookie' = NULL
      PROVE  \E r \in Requests :
               /\ requests[r].phase = "answered" /\ requests'[r].phase = "none"
               /\ requests[r].kind = "logout" \/ requests[r].token # cookie
  <2>1. /\ cookie \in Tokens /\ store[cookie] # NULL
        /\ users[store[cookie].user] = "active" /\ cookie # NULL
    BY <1>1, SessionsAssumption DEF Live
  <2>2. PICK r \in Requests : TakeAnswer(r)
    <3>1. CASE BackendStep /\ UNCHANGED tabVars
      BY <1>1, <2>1, <3>1 DEF tabVars
    <3>2. CASE Visit \/ CountDown \/ Depart \/ AskUser \/ Submit \/ PressLogout
      BY <1>1, <2>1, <3>2 DEF Visit, CountDown, Depart, AskUser, Submit, PressLogout
    <3>3. CASE UNCHANGED vars
      BY <1>1, <2>1, <3>3 DEF vars, tabVars
    <3>4. CASE \E r \in Requests : GiveUp(r)
      BY <1>1, <2>1, <3>4 DEF GiveUp
    <3> QED BY <1>1, <3>1, <3>2, <3>3, <3>4 DEF Next
  <2>3. /\ requests[r].phase = "answered" /\ TakeCookie(r)
        /\ requests' = [requests EXCEPT ![r] = NoRequest]
    BY <2>2 DEF TakeAnswer
  <2>4. requests[r].cookie = NULL
    BY <1>1, <2>1, <2>3 DEF TakeCookie
  <2>5. requests \in [Requests -> RequestStates]
    BY <1>1, RequestType DEF IInv
  <2>6. requests'[r].phase = "none"
    BY <2>3, <2>5 DEF NoRequest
  <2>7. requests[r].kind = "logout" \/ requests[r].token # cookie
    BY <1>1, <2>1, <2>3, <2>4 DEF IInv, SessionInv, RequestInv, ExpiryInv
  <2> QED BY <2>3, <2>6, <2>7
<1>2. IInv /\ [Next]_vars =>
        [Live(cookie) /\ cookie' = NULL =>
           \E r \in Requests :
              /\ requests[r].phase = "answered" /\ requests'[r].phase = "none"
              /\ requests[r].kind = "logout" \/ requests[r].token # cookie]_vars
  BY <1>1
<1> QED BY <1>2, IInvHolds, PTL DEF Spec, LiveCookieIsKept
=============================================================================
