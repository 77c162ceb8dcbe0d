----------------------------- MODULE WebhookGate -----------------------------
(***************************************************************************)
(* One request at the HTTP edge, from the environment the process booted   *)
(* with (validateEnv) to the job the worker takes or the telemetry row     *)
(* that is inserted.  A field of a body is a kind of value: what the       *)
(* parsers tell apart.  Requests differ from a complete, authentic one in  *)
(* one field of the body and one header.                                   *)
(***************************************************************************)
EXTENDS Integers

CONSTANTS Offsets  \* sender's clock against ours, in seconds

ASSUME GateAssumption == Offsets \subseteq Int /\ 0 \in Offsets

VARIABLES
  settings,  \* the environment of the process
  process,   \* "starting", "up" or "refused" by validateEnv
  request,
  reply,     \* "none" until the request is answered
  work       \* what became of the job or the row: "none", "done", "failed"

gateVars == <<settings, process, request, reply, work>>

Routes == {"billing", "preflight", "telemetry", "test"}
BillingEvents == {"payment_paid", "plan_changed", "subscription_cancel",
                  "device_activated"}   \* one of each shape validateEvent knows

RequiredText == {"eventId", "externalUserId", "externalSubscriptionId", "email"}
OptionalText == {"externalOrderId", "externalPaymentId", "externalPlanId",
                 "deviceId", "installId", "status"}
NumberFields == {"nodePort", "latencyMs"}
EnumFields == {"eventType", "result", "classification"}

(* The kinds of value a sender may put in a field; "object" stands for     *)
(* every value of a wrong type.                                            *)
KindsOf(f) ==
  CASE f = "event" -> BillingEvents \cup {"unknown", "empty", "absent", "object"}
    [] f \in {"expiresAt", "observedAt"} -> {"date", "text", "empty", "absent", "object"}
    [] f = "status" -> {"paid", "text", "empty", "absent", "object"}
    [] f = "deviceLimit" \/ f \in NumberFields ->
         {"count", "numeral", "negative", "fraction", "text", "empty", "absent", "object"}
    [] f = "details" -> {"object", "text", "absent"}
    [] f \in EnumFields -> {"known", "unknown", "empty", "absent", "object"}
    [] OTHER -> {"text", "blank", "empty", "absent", "object"}

Fields == RequiredText \cup OptionalText \cup NumberFields \cup EnumFields \cup
          {"event", "deviceLimit", "expiresAt", "observedAt", "details"}

CompleteBody(event) ==
  [f \in Fields |->
    CASE f = "event" -> event
      [] f \in {"expiresAt", "observedAt"} -> "date"
      [] f = "status" -> "paid"
      [] f = "deviceLimit" \/ f \in NumberFields -> "count"
      [] f = "details" -> "object"
      [] f \in EnumFields -> "known"
      [] OTHER -> "text"]

Bodies == UNION {{[CompleteBody(event) EXCEPT ![f] = kind] : kind \in KindsOf(f)} :
                 event \in BillingEvents, f \in Fields}

(* key is x-api-key, or x-admin-api-key on the test route.                 *)
GoodHeaders == [key |-> "right", clock |-> "number", offset |-> 0,
                signature |-> "right", rawBody |-> TRUE]
Headers ==
  {[GoodHeaders EXCEPT !.key = k] : k \in {"right", "wrong", "absent"}} \cup
  {[GoodHeaders EXCEPT !.clock = c] : c \in {"text", "absent"}} \cup
  {[GoodHeaders EXCEPT !.offset = o] : o \in Offsets} \cup
  {[GoodHeaders EXCEPT !.signature = s] : s \in {"wrong", "absent"}} \cup
  {[GoodHeaders EXCEPT !.rawBody = FALSE]}

GoodSettings == [node |-> "production", testMode |-> FALSE, vpn |-> "3x-ui",
                 apiKey |-> "own", secret |-> "own", adminKey |-> "own",
                 tolerance |-> "unset"]
SettingsRange ==
  {[GoodSettings EXCEPT ![k] = v] : k \in {"apiKey", "secret", "adminKey"},
                                    v \in {"own", "development", "blank", "unset"}} \cup
  {[GoodSettings EXCEPT !.node = n, !.testMode = t, !.vpn = v] :
     n \in {"production", "development"}, t \in BOOLEAN, v \in {"3x-ui", "noop"}} \cup
  {[GoodSettings EXCEPT !.tolerance = t] : t \in {"unset", "zero", "sixty", "text"}}

GateTypeOK ==
  /\ settings \in SettingsRange
  /\ process \in {"starting", "up", "refused"}
  /\ reply \in {"none", "ok", "queued", "recorded", "invalid payload", "invalid key",
                "invalid signature", "forbidden", "internal error"}
  /\ work \in {"none", "done", "failed"}

GateInit ==
  /\ \E r \in Routes, b \in Bodies, h \in Headers, w \in BOOLEAN :
        /\ h = GoodHeaders \/ b = CompleteBody("payment_paid")
        /\ w \/ b = CompleteBody("payment_paid")
        /\ request = [route |-> r, body |-> b, headers |-> h, isRecord |-> w]
  /\ \/ settings = GoodSettings
     \/ /\ settings \in SettingsRange
        /\ request.body = CompleteBody("payment_paid")
  /\ process = "starting" /\ reply = "none" /\ work = "none"
-----------------------------------------------------------------------------
(* Faulty variants of definitions below, for mutation of the runs.         *)
LimitUnchecked(body) ==
  CASE body.event = "payment_paid" ->
         {body.externalPaymentId, body.externalPlanId} \cap {"absent", "empty"} = {}
    [] body.event = "plan_changed" -> body.externalPlanId \notin {"absent", "empty"}
    [] body.event = "device_activated" ->
         {body.deviceId, body.installId} \cap {"absent", "empty"} = {}
    [] OTHER -> TRUE
-----------------------------------------------------------------------------
(* validateEnv, for what the edge reads; the defaults are set first.       *)
ValidSettings(s) ==
  /\ {s.apiKey, s.secret, s.adminKey} \cap {"unset", "blank"} = {}
  /\ s.tolerance \notin {"zero", "text"}
  /\ s.testMode => s.vpn = "noop"
  /\ s.node = "production" =>
       /\ ~s.testMode
       /\ "development" \notin {s.apiKey, s.secret, s.adminKey}

Boot ==
  /\ process = "starting"
  /\ process' = IF ValidSettings(settings) THEN "up" ELSE "refused"
  /\ UNCHANGED <<settings, request, reply, work>>

Tolerance == IF settings.tolerance = "sixty" THEN 60 ELSE 300

(* getString, getOptionalString, getOptionalNumber.                        *)
GivenText(v) == v \notin {"absent", "object", "empty"}
OptionalTextOK(v) == v # "object"
OptionalNumberOK(v) == v \in {"count", "numeral", "negative", "fraction", "absent"}

(* validateEvent: what each event must bring.                              *)
HasWhatEventNeeds(body) ==
  CASE body.event = "payment_paid" ->
         /\ {body.externalPaymentId, body.externalPlanId} \cap {"absent", "empty"} = {}
         /\ body.deviceLimit # "absent"
    [] body.event = "plan_changed" ->
         body.externalPlanId \notin {"absent", "empty"} /\ body.deviceLimit # "absent"
    [] body.event = "device_activated" ->
         {body.deviceId, body.installId} \cap {"absent", "empty"} = {}
    [] OTHER -> TRUE

(* parsePayload and validateEvent, which all refuse with one code.         *)
BillingPayload ==
  LET body == request.body IN
  IF /\ request.isRecord
     /\ body.event \in BillingEvents
     /\ \A f \in RequiredText : GivenText(body[f])
     /\ \A f \in OptionalText \cup {"expiresAt"} : OptionalTextOK(body[f])
     /\ OptionalNumberOK(body.deviceLimit)
     /\ HasWhatEventNeeds(body)
     /\ body.expiresAt # "text"
     /\ body.deviceLimit \notin {"negative", "fraction"}
  THEN "passed" ELSE "invalid payload"

(* parseTelemetryPayload; observedAt may be any string.                    *)
TelemetryPayload ==
  LET body == request.body IN
  IF /\ request.isRecord
     /\ body.eventType = "known" /\ body.result = "known"
     /\ body.classification \in {"known", "empty", "absent"}
     /\ \A f \in NumberFields : OptionalNumberOK(body[f]) /\ body[f] # "fraction"
     /\ body.details \in {"object", "absent"}
     /\ \A f \in {"installId", "observedAt"} : OptionalTextOK(body[f])
  THEN "passed" ELSE "invalid payload"

ApiKey ==
  IF settings.apiKey = "unset" THEN "internal error"
  ELSE IF request.headers.key = "right" THEN "passed"
  ELSE "invalid key"

(* Number('') of a missing header is 0, decades away; Number('text') NaN.  *)
Timestamp ==
  IF /\ request.headers.clock = "number"
     /\ request.headers.offset \in -Tolerance .. Tolerance
  THEN "passed" ELSE "invalid signature"

Signature ==
  IF settings.secret = "unset" THEN "internal error"
  ELSE IF request.headers.rawBody /\ request.headers.signature = "right" THEN "passed"
  ELSE "invalid signature"

(* AdminApiKeyGuard, before the test route.                                *)
AdminKey ==
  IF settings.adminKey = "unset" THEN "internal error"
  ELSE IF request.headers.key = "right" THEN "passed"
  ELSE IF request.headers.key = "absent" THEN "invalid key"
  ELSE "forbidden"

(* The answer of a handler that makes these checks in this order.          *)
AnswerAfter(checks, accepted) ==
  LET failed == {i \in DOMAIN checks : checks[i] # "passed"} IN
  IF failed = {} THEN accepted
  ELSE checks[CHOOSE i \in failed : \A j \in failed : i <= j]

Answers(route, checks, accepted) ==
  /\ process = "up" /\ reply = "none" /\ request.route = route
  /\ reply' = AnswerAfter(checks, accepted)
  /\ UNCHANGED <<settings, process, request, work>>

(* handle, handlePreflight, handleTelemetry, and handleTrusted.            *)
HandleBilling == Answers("billing", <<BillingPayload, ApiKey, Timestamp, Signature>>, "queued")
HandlePreflight == Answers("preflight", <<ApiKey, Timestamp, Signature>>, "ok")
HandleTelemetry ==
  Answers("telemetry", <<ApiKey, Timestamp, Signature, TelemetryPayload>>, "recorded")
HandleTest == Answers("test", <<AdminKey, BillingPayload>>, "queued")

(* What the handlers of the worker throw for: ensurePaid,                  *)
(* resolveByExternalPlanId, requireBillingDeviceLimit, requireDeviceId.    *)
WorkFails(body) ==
  CASE body.event = "payment_paid" ->
         \/ body.status # "paid" \/ ~GivenText(body.externalPlanId)
         \/ body.deviceLimit \notin {"count", "numeral"}
    [] body.event = "plan_changed" ->
         ~GivenText(body.externalPlanId) \/ body.deviceLimit \notin {"count", "numeral"}
    [] body.event = "device_activated" -> body.deviceId \in {"absent", "empty", "blank"}
    [] OTHER -> FALSE

RunJob ==
  /\ reply = "queued" /\ work = "none"
  /\ work' = IF WorkFails(request.body) THEN "failed" ELSE "done"
  /\ UNCHANGED <<settings, process, request, reply>>

(* record: an observedAt that is no date makes a row no insert takes.      *)
InsertReport ==
  /\ reply = "recorded" /\ work = "none"
  /\ work' = IF request.body.observedAt = "text" THEN "failed" ELSE "done"
  /\ UNCHANGED <<settings, process, request, reply>>

GateNext ==
  \/ Boot
  \/ HandleBilling \/ HandlePreflight \/ HandleTelemetry \/ HandleTest
  \/ RunJob \/ InsertReport

GateSpec == GateInit /\ [][GateNext]_gateVars
-----------------------------------------------------------------------------
(* What the edge lets in came with the right key, a fresh timestamp and a  *)
(* right signature, or from an administrator; the worker never has to      *)
(* fail it for a missing field, except for what the edge does not look at: *)
(* the status of a payment, a device id of blanks and the date of a        *)
(* report.  A complete authentic request is let in, and a process that     *)
(* booted never refuses one for want of its own configuration              *)
(* (webhook.service.ts, validate-env.ts, provisioning.service.ts).         *)
LetInIsServable ==
  LET body == request.body  headers == request.headers IN
  /\ reply \in {"ok", "queued", "recorded"} =>
       /\ headers.key = "right"
       /\ request.route # "test" =>
            /\ headers.clock = "number" /\ headers.offset \in -Tolerance .. Tolerance
            /\ headers.signature = "right" /\ headers.rawBody
  /\ work = "failed" =>
       \/ body.event = "payment_paid" /\ body.status # "paid"
       \/ body.deviceId = "blank"
       \/ body.observedAt = "text"
  /\ reply \notin {"none", "ok", "queued", "recorded"} =>
       \/ headers # GoodHeaders \/ ~request.isRecord
       \/ \A event \in BillingEvents : body # CompleteBody(event)
  /\ reply # "internal error"
=============================================================================
