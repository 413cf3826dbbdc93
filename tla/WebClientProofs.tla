-------------------------- MODULE WebClientProofs --------------------------
(***************************************************************************)
(* What holds of the web client's decisions for every exchange, every      *)
(* payload and every address: the outcomes are the ones their callers      *)
(* branch on, the form is at least as strict as the API, and no redirect   *)
(* of the monitor list goes round.  MonitorPages and SignIn use the same   *)
(* definitions for the few exchanges their runs enumerate.                 *)
(***************************************************************************)
EXTENDS ApiClient, Paging, TLAPS

Exchanges == Responses \cup NoResponse

-----------------------------------------------------------------------------
(* Outcomes *)

LEMMA FailureIsOutcome ==
  ASSUME NEW status \in Nat
  PROVE  /\ ResponseFailure(status) \in Outcomes \ {"success"}
         /\ IncidentResponseFailure(status) \in Outcomes \ {"success"}
<1>1. ResponseFailure(status) \in Outcomes \ {"success"}
  <2>1. CASE status < 500
    BY <2>1 DEF ResponseFailure, Outcomes
  <2>2. CASE status >= 500
    BY <2>2 DEF ResponseFailure, Outcomes
  <2> QED BY <2>1, <2>2
<1>2. IncidentResponseFailure(status) \in Outcomes \ {"success"}
  BY DEF IncidentResponseFailure, Outcomes
<1> QED BY <1>1, <1>2

LEMMA ExchangeKinds ==
  ASSUME NEW exchange \in Exchanges
  PROVE  /\ exchange.status \in Nat
         /\ exchange \in NoResponse =>
              exchange.status = 0 /\ exchange.body \in {"timeout", "network_error"}
         /\ exchange \notin NoResponse =>
              exchange.status \in StatusCodes
              /\ exchange.body \in {"well_formed", "malformed"}
BY DEF Exchanges, Responses, NoResponse, StatusCodes

\* Whatever an exchange comes to, each function of the API clients returns one
\* of the outcomes its callers branch on: no status code and no body falls
\* through the chains of returns in monitor-api.ts and incident-api.ts.
THEOREM EveryExchangeHasAnOutcome ==
  ASSUME NEW exchange \in Exchanges, NEW aborted \in BOOLEAN
  PROVE  /\ ReadOutcome(exchange, aborted) \in Outcomes
         /\ IncidentOutcome(exchange, aborted) \in Outcomes
         /\ CreateOutcome(exchange) \in Outcomes
         /\ UpdateOutcome(exchange) \in Outcomes
         /\ ChangeOutcome(exchange) \in Outcomes
         /\ DeleteOutcome(exchange) \in Outcomes
<1>1. exchange.status \in Nat
  BY ExchangeKinds
<1>2. exchange \in NoResponse => exchange.body \in {"timeout", "network_error"}
  BY ExchangeKinds
<1>3. ResponseFailure(exchange.status) \in Outcomes
      /\ IncidentResponseFailure(exchange.status) \in Outcomes
  BY <1>1, FailureIsOutcome
<1>4. Parsed(exchange) \in Outcomes
  BY DEF Parsed, Outcomes
<1>5. \A gone \in BOOLEAN : exchange \in NoResponse => RequestFailure(exchange, gone) \in Outcomes
  BY <1>2 DEF RequestFailure, Outcomes
<1>6. \A gone \in BOOLEAN : ReadOutcome(exchange, gone) \in Outcomes
  BY <1>3, <1>4, <1>5 DEF ReadOutcome
<1>7. IncidentOutcome(exchange, aborted) \in Outcomes
  BY <1>3, <1>4, <1>5 DEF IncidentOutcome
<1>8. \A success : SaveOutcome(exchange, success) \in Outcomes
  BY <1>2, <1>3, <1>4 DEF SaveOutcome, Outcomes
<1>9. DeleteOutcome(exchange) \in Outcomes
  BY <1>2, <1>3 DEF DeleteOutcome, Outcomes
<1> QED BY <1>6, <1>7, <1>8, <1>9 DEF CreateOutcome, UpdateOutcome, ChangeOutcome

\* The same for auth-api.ts; "cleared" is what a logout makes of the 503 that
\* expired the cookie all the same.
THEOREM EveryAuthExchangeHasAnOutcome ==
  ASSUME NEW exchange \in Exchanges, NEW endpoint \in {"login", "register"}
  PROVE  /\ CredentialsOutcome(endpoint, exchange) \in AuthOutcomes
         /\ CurrentUserOutcome(exchange) \in AuthOutcomes
         /\ LogoutOutcome(exchange) \in AuthOutcomes \cup {"cleared"}
<1>1. exchange \in NoResponse => exchange.body \in {"timeout", "network_error"}
  BY ExchangeKinds
<1>2. Parsed(exchange) \in AuthOutcomes
  BY DEF Parsed, AuthOutcomes
<1>3. CredentialsOutcome(endpoint, exchange) \in AuthOutcomes
  <2>1. CASE exchange \in NoResponse
    BY <1>1, <2>1 DEF CredentialsOutcome, AuthOutcomes
  <2>2. CASE exchange \notin NoResponse /\ Ok(exchange.status)
    <3>1. exchange.status \in 200..299
      BY <2>2 DEF Ok
    <3> QED BY <1>2, <2>2, <3>1 DEF CredentialsOutcome
  <2>3. CASE exchange \notin NoResponse /\ ~Ok(exchange.status)
    BY <2>3 DEF CredentialsOutcome, AuthOutcomes
  <2> QED BY <2>1, <2>2, <2>3
<1>4. CurrentUserOutcome(exchange) \in AuthOutcomes
  BY <1>1, <1>2 DEF CurrentUserOutcome, AuthOutcomes
<1>5. LogoutOutcome(exchange) \in AuthOutcomes \cup {"cleared"}
  BY <1>1 DEF LogoutOutcome, AuthOutcomes
<1> QED BY <1>3, <1>4, <1>5

\* A read is never repeated for an answer that repeating cannot change: an
\* exchange whose outcome is transient had no response, or a gateway's status.
THEOREM OnlyTransientFailuresAreRepeated ==
  ASSUME NEW exchange \in Exchanges, NEW aborted \in BOOLEAN,
         ReadOutcome(exchange, aborted) \in Transient
  PROVE  /\ exchange \in NoResponse \/ exchange.status \in {502, 503, 504}
         /\ exchange \in NoResponse => ~aborted
<1>1. CASE exchange \in NoResponse
  BY <1>1 DEF ReadOutcome, RequestFailure, Transient
<1>2. CASE exchange \notin NoResponse
  <2>1. ~Ok(exchange.status)
    BY <1>2 DEF ReadOutcome, Parsed, Transient
  <2>2. ResponseFailure(exchange.status) \in Transient
    BY <1>2, <2>1 DEF ReadOutcome
  <2>3. exchange.status \in Nat
    BY ExchangeKinds
  <2>4. exchange.status \in {502, 503, 504}
    BY <2>2, <2>3 DEF ResponseFailure, Transient
  <2> QED BY <1>2, <2>4
<1> QED BY <1>1, <1>2

-----------------------------------------------------------------------------
(* The monitor form *)

LEMMA SomeFieldIsInvalid ==
  ASSUME NEW code, NEW fields
  PROVE  ValidationFields(code, fields) # {}
BY DEF ValidationFields

\* A save that did not succeed always shows the user something: an error at a
\* field or a general one (adaptMonitorFormFailure), also for an error answer
\* that names no field, or none the form has.
THEOREM FailedSaveShowsAnError ==
  ASSUME NEW exchange \in Exchanges, NEW code, NEW fields, NEW outcome,
         outcome # "success"
  PROVE  LET shown == FormErrors(outcome, ValidationFields(code, fields))
         IN  shown.fields # {} \/ shown.general = TRUE
<1> DEFINE invalid == ValidationFields(code, fields)
<1>1. invalid # {}
  BY SomeFieldIsInvalid
<1> HIDE DEF invalid
<1>2. CASE outcome = "validation"
  <2>1. FormErrors(outcome, invalid) =
          [fields |-> invalid \ {"form"}, general |-> "form" \in invalid]
    BY <1>2 DEF FormErrors
  <2>2. invalid \ {"form"} # {} \/ "form" \in invalid
    BY <1>1
  <2>3. CASE "form" \in invalid
    <3>1. ("form" \in invalid) = TRUE
      BY <2>3
    <3>2. FormErrors(outcome, invalid) = [fields |-> invalid \ {"form"}, general |-> TRUE]
      BY Zenon, <2>1, <3>1
    <3> QED BY <3>2 DEF invalid
  <2>4. CASE "form" \notin invalid
    BY <2>1, <2>2, <2>4 DEF invalid
  <2> QED BY <2>3, <2>4
<1>3. CASE outcome # "validation"
  BY <1>3 DEF FormErrors, invalid
<1> QED BY <1>2, <1>3

\* A text of 1 to n units has 1 to n code points.
LEMMA PointsAreWithin ==
  ASSUME NEW text \in Texts, NEW n \in Nat, text.units \in 1..n
  PROVE  text.points \in 1..n
<1>1. text.units \in Nat /\ text.points \in Nat
      /\ text.points <= text.units /\ text.units <= 2 * text.points
  BY DEF Texts
<1> DEFINE u == text.units
           p == text.points
<1>2. u \in 1..n /\ p \in Nat /\ p <= u /\ u <= 2 * p
  BY <1>1
<1> HIDE DEF u, p
<1>3. p \in 1..n
  BY <1>2
<1> QED BY <1>3 DEF p

\* Of what validateMonitorPayload lets through, the schema of POST /monitors
\* can refuse the address only, and does so just when normalize_monitor_url
\* does: the form counts UTF-16 units where the API counts code points, and has
\* the same bounds.  The form leaves the finer rules for addresses to the API;
\* their refusal appears at the address and never as a general message.
THEOREM OnlyTheAddressIsRefused ==
  ASSUME NEW payload \in FormPayloads, NEW code,
         NEW urlParses \in BOOLEAN, NEW urlNormalizes \in BOOLEAN,
         ClientInvalidFields(payload, urlParses) = {}
  PROVE  LET refused == SchemaInvalidFields(payload, urlNormalizes) IN
         /\ refused = IF urlNormalizes THEN {} ELSE {"url"}
         /\ refused # {} =>
              FormErrors("validation", ValidationFields(code, refused))
                = [fields |-> {"url"}, general |-> FALSE]
<1> DEFINE names == 1..200
           urls == 1..2048
           numbers == {f \in NumericFields : ~WithinRule(payload, f)}
           least == payload.numbers["expected_status_min"]
           most == payload.numbers["expected_status_max"]
           within == /\ WithinRule(payload, "expected_status_min")
                     /\ WithinRule(payload, "expected_status_max")
<1>1. payload.name \in Texts /\ payload.url \in Texts
  BY DEF FormPayloads
<1>2. /\ payload.name.units \in names
      /\ payload.url.units \in urls /\ urlParses
      /\ numbers = {}
      /\ ~(within /\ least > most)
  <2> DEFINE refused == ClientInvalidFields(payload, urlParses)
  <2>1. payload.name.units \notin names => "name" \in refused
    BY Zenon DEF ClientInvalidFields
  <2>2. ~(payload.url.units \in urls /\ urlParses) => "url" \in refused
    BY Zenon DEF ClientInvalidFields
  <2>3. \A f \in numbers : f \in refused
    BY Zenon DEF ClientInvalidFields
  <2>4. within /\ least > most => "expected_status_min" \in refused
    BY Zenon DEF ClientInvalidFields
  <2>5. refused = {}
    OBVIOUS
  <2> HIDE DEF names, urls, numbers, within, least, most, refused
  <2> QED BY <2>1, <2>2, <2>3, <2>4, <2>5
<1>3. SchemaInvalidFields(payload, urlNormalizes) =
        (IF payload.name.points \in names THEN {} ELSE {"name"})
        \cup (IF payload.url.points \in urls /\ urlNormalizes THEN {} ELSE {"url"})
        \cup numbers
        \cup (IF within /\ most < least THEN {"expected_status_max"} ELSE {})
  BY DEF SchemaInvalidFields
<1>4. \A text \in Texts : /\ text.units \in names => text.points \in names
                          /\ text.units \in urls => text.points \in urls
  <2> DEFINE nameBound == 200
             urlBound == 2048
  <2>1. nameBound \in Nat /\ urlBound \in Nat
    OBVIOUS
  <2> HIDE DEF nameBound, urlBound
  <2>2. \A text \in Texts : /\ text.units \in 1..nameBound => text.points \in 1..nameBound
                            /\ text.units \in 1..urlBound => text.points \in 1..urlBound
    BY <2>1, PointsAreWithin
  <2> QED BY Zenon, <2>2 DEF nameBound, urlBound
<1> HIDE DEF names, urls, numbers
<1>5. payload.name.points \in names /\ payload.url.points \in urls
  BY <1>1, <1>4, <1>2
<1>6. ~(within /\ most < least)
  <2>1. SUFFICES ASSUME within PROVE ~(most < least)
    OBVIOUS
  <2>2. least \in Int /\ most \in Int
    BY <2>1 DEF WithinRule
  <2> HIDE DEF least, most
  <2> QED BY <1>2, <2>1, <2>2
<1> HIDE DEF within, least, most
<1>7. SchemaInvalidFields(payload, urlNormalizes) = IF urlNormalizes THEN {} ELSE {"url"}
  BY <1>3, <1>2, <1>5, <1>6
<1>8. FormErrors("validation", ValidationFields(code, {"url"}))
        = [fields |-> {"url"}, general |-> FALSE]
  <2>1. ValidationFields(code, {"url"}) = {"url"}
    BY DEF ValidationFields, NormalizedField, MonitorFields
  <2>2. {"url"} \ {"form"} = {"url"} /\ ("form" \in {"url"}) = FALSE
    OBVIOUS
  <2> QED BY Zenon, <2>1, <2>2 DEF FormErrors
<1> QED BY <1>7, <1>8

\* The form never counts down for longer than an hour or for no time at all,
\* whatever Retry-After says, a date in the past included.
THEOREM RetryAfterIsBounded ==
  ASSUME NEW kind, NEW seconds \in Int
  PROVE  RetryAfterSeconds(kind, seconds) \in 1..MaxRetryAfter
<1>1. CASE kind = "seconds" /\ seconds >= 0
  <2>1. RetryAfterSeconds(kind, seconds) =
          IF seconds < 1 THEN 1 ELSE IF seconds > MaxRetryAfter THEN MaxRetryAfter ELSE seconds
    BY <1>1 DEF RetryAfterSeconds
  <2> QED BY <2>1 DEF MaxRetryAfter
<1>2. CASE kind = "date"
  <2>1. RetryAfterSeconds(kind, seconds) =
          IF seconds < 1 THEN 1 ELSE IF seconds > MaxRetryAfter THEN MaxRetryAfter ELSE seconds
    BY <1>2 DEF RetryAfterSeconds
  <2> QED BY <2>1 DEF MaxRetryAfter
<1>3. CASE kind # "date" /\ ~(kind = "seconds" /\ seconds >= 0)
  BY <1>3 DEF RetryAfterSeconds, MaxRetryAfter, DefaultRetryAfter
<1> QED BY <1>1, <1>2, <1>3

-----------------------------------------------------------------------------
(* Paging *)

\* The highest page a caller may be sent back to exists: there is one page even
\* when there are no rows, every row is on a page up to the last, and the last
\* page is empty only when there are no rows.
THEOREM PagesHoldEveryRow ==
  ASSUME NEW total \in Nat, NEW size \in Nat \ {0}
  PROVE  /\ Pages(total, size) \in Nat \ {0}
         /\ total <= Pages(total, size) * size
         /\ (Pages(total, size) - 1) * size <= total
         /\ total # 0 => (Pages(total, size) - 1) * size < total
<1>1. CASE total = 0
  BY <1>1 DEF Pages
<1>2. CASE total # 0
  <2> DEFINE n == total + size - 1
             q == n \div size
             r == n % size
  <2>1. n \in Nat /\ n >= size
    BY <1>2
  <2>2. q \in Int /\ r \in 0..(size - 1) /\ n = size * q + r
    BY <2>1
  <2>3. Pages(total, size) = q
    BY <1>2 DEF Pages
  <2> HIDE DEF n, q, r
  <2>4. total = size * q + r + 1 - size
    BY <2>2 DEF n
  <2>5. q > 0
    <3>1. SUFFICES ASSUME q <= 0 PROVE FALSE
      BY <2>2
    <3>2. size * q <= 0
      BY <2>2, <3>1
    <3> QED BY <2>1, <2>2, <3>2
  <2>6. total <= q * size
    BY <2>2, <2>4
  <2>7. (q - 1) * size < total
    <3>1. (q - 1) * size = size * q - size
      BY <2>2
    <3> QED BY <2>2, <2>4, <3>1
  <2> QED BY <2>2, <2>3, <2>5, <2>6, <2>7
<1> QED BY <1>1, <1>2

LEMMA ParsedInRange ==
  ASSUME NEW search \in [page: Parameters, size: Parameters]
  PROVE  /\ ParsedSearch(search).page \in 1..MaxSafeInteger \cup {DefaultPage}
         /\ ParsedSearch(search).size \in MonitorPageSizes
<1>1. ParsedSearch(search).page \in 1..MaxSafeInteger \cup {DefaultPage}
  BY DEF ParsedSearch, PositiveInteger
<1>2. ParsedSearch(search).size \in MonitorPageSizes
  BY DEF ParsedSearch, DefaultPageSize, MonitorPageSizes
<1> QED BY <1>1, <1>2

LEMMA SafeIntegersReachTheSizes ==
  MaxSafeInteger \in Nat /\ 25 <= MaxSafeInteger
BY DEF MaxSafeInteger

\* Whatever the address says, the one the list redirects to is not redirected
\* again, and the one a form returns to is the list's own (monitorListHref is
\* a fixed point of parseMonitorListSearch).
THEOREM ListRedirectsOnce ==
  ASSUME NEW search \in [page: Parameters, size: Parameters], NEW ownPath \in BOOLEAN
  PROVE  /\ ~Redirected(ListHref(ParsedSearch(search).page, ParsedSearch(search).size))
         /\ ~Redirected(SafeReturn(ownPath, search))
<1>1. \A page \in 1..MaxSafeInteger \cup {DefaultPage}, size \in MonitorPageSizes :
         ~Redirected(ListHref(page, size))
  <2> SUFFICES ASSUME NEW page \in 1..MaxSafeInteger \cup {DefaultPage},
                      NEW size \in MonitorPageSizes
               PROVE  ~Redirected(ListHref(page, size))
    OBVIOUS
  <2>1. page \in 1..MaxSafeInteger
    BY SafeIntegersReachTheSizes DEF DefaultPage
  <2>2. size \in 1..MaxSafeInteger
    BY SafeIntegersReachTheSizes DEF MonitorPageSizes
  <2>3. ParsedSearch(ListHref(page, size)) = [page |-> page, size |-> size]
    BY <2>1, <2>2 DEF ParsedSearch, ListHref, PositiveInteger
  <2> QED BY <2>3 DEF Redirected, ListHref
<1>2. DefaultPage \in 1..MaxSafeInteger \cup {DefaultPage} /\ DefaultPageSize \in MonitorPageSizes
  BY DEF DefaultPageSize, MonitorPageSizes
<1> QED BY <1>1, <1>2, ParsedInRange DEF SafeReturn
=============================================================================
