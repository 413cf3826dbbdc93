----------------------------- MODULE ApiClient -----------------------------
(***************************************************************************)
(* What the web application's API clients (lib/monitor-api.ts,             *)
(* lib/incident-api.ts, lib/auth-api.ts) make of one exchange with the     *)
(* backend: the outcome their callers branch on.  Nothing here has state;  *)
(* MonitorPages and SignIn use the outcomes, WebClientProofs states what   *)
(* holds of them for every exchange.                                       *)
(*                                                                         *)
(* An exchange ends with a response, of which the status code and whether  *)
(* the body has the shape its reader tests for matter, or without one:     *)
(* the timeout signal fires, or the network fails.                         *)
(***************************************************************************)
EXTENDS Integers, Sequences

StatusCodes == 200..599

Responses == [status: StatusCodes, body: {"well_formed", "malformed"}]

\* No response: status 0, and why.
NoResponse == [status: {0}, body: {"timeout", "network_error"}]

Response(status) == [status |-> status, body |-> "well_formed"]

TimedOut == [status |-> 0, body |-> "timeout"]

Ok(status) == status \in 200..299

Outcomes ==
    {"success", "validation", "unauthenticated", "forbidden", "not_found",
     "conflict", "rate_limited", "unavailable", "internal_error", "timeout",
     "network_error", "cancelled", "unexpected_response"}

-----------------------------------------------------------------------------
(* lib/monitor-api.ts *)

\* A request without an answer: requestSignal combines the caller's signal
\* with the timeout, and requestFailure looks at the caller's signal first.
RequestFailure(exchange, aborted) ==
    IF aborted THEN "cancelled" ELSE exchange.body

ResponseFailure(status) ==
    CASE status = 401 -> "unauthenticated"
      [] status = 403 -> "forbidden"
      [] status = 404 -> "not_found"
      [] status = 409 -> "conflict"
      [] status = 429 -> "rate_limited"
      [] status \in {502, 503, 504} -> "unavailable"
      [] status >= 500 /\ status \notin {502, 503, 504} -> "internal_error"
      [] OTHER -> "unexpected_response"

\* readMonitor and its siblings: the body has the tested shape or is null.
Parsed(response) ==
    IF response.body = "well_formed" THEN "success" ELSE "unexpected_response"

\* listMonitors, getMonitorSummary, listRecentChecks, getMonitorResponseTimes
\* and getMonitor: one request of a read.
ReadOutcome(exchange, aborted) ==
    IF exchange \in NoResponse THEN RequestFailure(exchange, aborted)
    ELSE IF Ok(exchange.status) THEN Parsed(exchange)
    ELSE ResponseFailure(exchange.status)

\* isTransientReadFailure: the outcomes a read is repeated for, once.
Transient == {"network_error", "timeout", "unavailable"}

\* createMonitor and updateMonitor; created is the status that means success.
SaveOutcome(exchange, success) ==
    IF exchange \in NoResponse THEN exchange.body
    ELSE IF exchange.status \in success THEN Parsed(exchange)
    ELSE IF exchange.status = 422 THEN "validation"
    ELSE ResponseFailure(exchange.status)

CreateOutcome(exchange) == SaveOutcome(exchange, {201})

UpdateOutcome(exchange) == SaveOutcome(exchange, 200..299)

\* pauseMonitor and resumeMonitor.
ChangeOutcome(exchange) == ReadOutcome(exchange, FALSE)

\* deleteMonitor: only 204, whose body is not read, is a success.
DeleteOutcome(exchange) ==
    IF exchange \in NoResponse THEN exchange.body
    ELSE IF exchange.status = 204 THEN "success"
    ELSE ResponseFailure(exchange.status)

-----------------------------------------------------------------------------
(* lib/incident-api.ts: the same reads with fewer failures told apart *)

IncidentResponseFailure(status) ==
    CASE status = 401 -> "unauthenticated"
      [] status = 404 -> "not_found"
      [] status \in {502, 503, 504} -> "unavailable"
      [] OTHER -> "unexpected_response"

IncidentOutcome(exchange, aborted) ==
    IF exchange \in NoResponse THEN RequestFailure(exchange, aborted)
    ELSE IF Ok(exchange.status) THEN Parsed(exchange)
    ELSE IncidentResponseFailure(exchange.status)

-----------------------------------------------------------------------------
(* The errors of the monitor form (lib/monitor-form-errors.ts) *)

MonitorFields ==
    {"name", "url", "http_method", "interval_seconds", "timeout_seconds",
     "expected_status_min", "expected_status_max", "failure_threshold",
     "recovery_threshold"}

\* normalizeField: what the form has no field for belongs to the form.
NormalizedField(field) == IF field \in MonitorFields THEN field ELSE "form"

\* readValidationErrors: the fields of the answer, else the URL for the
\* destination's own error code, else the form as a whole.
ValidationFields(code, fields) ==
    IF fields # {} THEN {NormalizedField(f) : f \in fields}
    ELSE IF code = "unsafe_monitor_destination" THEN {"url"}
    ELSE {"form"}

\* adaptMonitorFormFailure: what the form shows at its fields, and whether it
\* shows a general message.
FormErrors(outcome, invalid) ==
    IF outcome = "validation"
    THEN [fields |-> invalid \ {"form"}, general |-> "form" \in invalid]
    ELSE [fields |-> {}, general |-> TRUE]

\* validateMonitorPayload.  A text is its length after trimming, in UTF-16
\* units (what the form counts) and in code points (what the API counts): a
\* text that trim() and strip() cut alike, as they do unless it begins or ends
\* with U+FEFF, U+0085 or one of U+001C to U+001F.  A number field that holds
\* no whole number reads as NotAnInteger.
CONSTANT NotAnInteger

ASSUME NotAnIntegerAssumption == NotAnInteger \notin Int

NumericFields ==
    {"interval_seconds", "timeout_seconds", "expected_status_min",
     "expected_status_max", "failure_threshold", "recovery_threshold"}

Minimum(field) ==
    IF field \in {"expected_status_min", "expected_status_max"} THEN 100 ELSE 1

Maximum(field) ==
    CASE field = "interval_seconds" -> 86400
      [] field = "timeout_seconds" -> 300
      [] field \in {"expected_status_min", "expected_status_max"} -> 599
      [] OTHER -> 100

Texts == {t \in [units: Nat, points: Nat] :
            t.points <= t.units /\ t.units <= 2 * t.points}

FormPayloads ==
    [name: Texts, url: Texts, http_method: {"GET", "HEAD"},
     numbers: [NumericFields -> Int \cup {NotAnInteger}]]

WithinRule(payload, field) ==
    /\ payload.numbers[field] \in Int
    /\ payload.numbers[field] \in Minimum(field)..Maximum(field)

\* urlParses: new URL() takes the address, and its protocol is http or https.
ClientInvalidFields(payload, urlParses) ==
    (IF payload.name.units \in 1..200 THEN {} ELSE {"name"})
    \cup (IF payload.url.units \in 1..2048 /\ urlParses THEN {} ELSE {"url"})
    \cup {f \in NumericFields : ~WithinRule(payload, f)}
    \cup (IF /\ WithinRule(payload, "expected_status_min")
             /\ WithinRule(payload, "expected_status_max")
             /\ payload.numbers["expected_status_min"]
                  > payload.numbers["expected_status_max"]
          THEN {"expected_status_min", "expected_status_max"} ELSE {})

\* MonitorCreate on the other side of the wire.  urlNormalizes is a verdict of
\* its own: normalize_monitor_url also refuses credentials, white space, an empty
\* port, hostnames it finds malformed, and what gets too long by normalization.
SchemaInvalidFields(payload, urlNormalizes) ==
    (IF payload.name.points \in 1..200 THEN {} ELSE {"name"})
    \cup (IF payload.url.points \in 1..2048 /\ urlNormalizes THEN {} ELSE {"url"})
    \cup {f \in NumericFields : ~WithinRule(payload, f)}
    \cup (IF /\ WithinRule(payload, "expected_status_min")
             /\ WithinRule(payload, "expected_status_max")
             /\ payload.numbers["expected_status_max"]
                  < payload.numbers["expected_status_min"]
          THEN {"expected_status_max"} ELSE {})

-----------------------------------------------------------------------------
(* lib/auth-api.ts *)

AuthOutcomes ==
    {"success", "validation", "invalid_credentials", "conflict", "rate_limited",
     "unauthenticated", "unavailable", "timeout", "network_error",
     "unexpected_response"}

\* submitCredentials of loginUser and registerUser.
CredentialsOutcome(endpoint, exchange) ==
    CASE exchange \in NoResponse -> exchange.body
      [] exchange \notin NoResponse /\ Ok(exchange.status) -> Parsed(exchange)
      [] exchange \notin NoResponse /\ exchange.status = 422 -> "validation"
      [] exchange \notin NoResponse /\ exchange.status = 429 -> "rate_limited"
      [] exchange \notin NoResponse /\ exchange.status = 503 -> "unavailable"
      [] /\ exchange \notin NoResponse
         /\ endpoint = "login" /\ exchange.status = 401 -> "invalid_credentials"
      [] /\ exchange \notin NoResponse
         /\ endpoint = "register" /\ exchange.status = 409 -> "conflict"
      [] OTHER -> "unexpected_response"

\* getCurrentUser
CurrentUserOutcome(exchange) ==
    IF exchange \in NoResponse THEN exchange.body
    ELSE IF Ok(exchange.status) THEN Parsed(exchange)
    ELSE IF exchange.status = 401 THEN "unauthenticated"
    ELSE IF exchange.status = 503 THEN "unavailable"
    ELSE "unexpected_response"

\* logoutUser: the controlled 503 has expired the browser's cookie as well.
LogoutOutcome(exchange) ==
    IF exchange \in NoResponse THEN exchange.body
    ELSE IF exchange.status = 204 THEN "success"
    ELSE IF exchange.status = 401 THEN "unauthenticated"
    ELSE IF exchange.status = 503 THEN "cleared"
    ELSE "unexpected_response"

DefaultRetryAfter == 60
MaxRetryAfter == 3600

\* retryAfterSeconds: a header of whole seconds or a date, given as the
\* seconds that remain until it; anything else is the default.
RetryAfterSeconds(kind, seconds) ==
    LET bounded(s) == IF s < 1 THEN 1 ELSE IF s > MaxRetryAfter THEN MaxRetryAfter ELSE s
    IN  CASE kind = "seconds" /\ seconds >= 0 -> bounded(seconds)
          [] kind = "date" -> bounded(seconds)
          [] OTHER -> DefaultRetryAfter
=============================================================================
