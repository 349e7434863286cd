---------------------------- MODULE FailureClass ----------------------------
(***************************************************************************)
(* What a failure means (transport/classify.rs, transport/body.rs,         *)
(* codecs/errors.rs, types/error.rs): the kind of an error and whether the *)
(* same call may be repeated.                                              *)
(*                                                                         *)
(* A provider's error body is the set of the fields it fills.  A code is   *)
(* its normalized spelling and the rule that the spelling meets, a message *)
(* the phrases it contains, a status its number.  An instant is a day      *)
(* since the epoch and a second of it.                                     *)
(***************************************************************************)
EXTENDS Integers, SequencesExt

Absent == "Absent"

ErrorKinds ==
    {"Authentication", "AccessDenied", "NotFound", "InvalidRequest", "ContextLength",
     "ContentFilter", "RateLimit", "QuotaExceeded", "Timeout", "Network", "Server",
     "Provider", "StreamDecode", "ResponseDecode", "ResourceLimit", "Configuration",
     "Middleware", "Cancelled", "ModelSelection"}

\* RetryClassification; After is a wait the provider advised.
Retries == {"Safe", "After", "Never"}

\* The hint is kept on every kind: provider_retry_after.
Error(kind, retry, hint) == [type |-> "Error", kind |-> kind, retry |-> retry, hint |-> hint]

\* Error::new, for a failure that nothing classifies further.
Final(kind) == Error(kind, "Never", FALSE)
Repeatable(kind) == Error(kind, "Safe", FALSE)

IsError(x) == x.type = "Error"
IsRetryable(e) == e.retry # "Never"

----------------------------------------------------------------------------
(* Codes and messages *)

\* A code: its spelling and the ending or beginning that a rule looks for.
Code(name, rule) == [name |-> name, rule |-> rule]
NoCode == Code(Absent, Absent)
SpentQuotaCode == Code("insufficient_quota", Absent)
NoStatus == 0
NoMessage == {}

\* The tables, in the order in which they are looked through.
CodeTables ==
    <<[kind |-> "QuotaExceeded",
       codes |-> {"insufficient_quota", "billing_hard_limit_reached", "exceeded_current_quota_error",
                  "service_quota_exceeded_exception", "quota_exceeded"}],
      [kind |-> "RateLimit",
       codes |-> {"rate_limit_error", "rate_limit_exceeded", "rate_limit_reached_error",
                  "too_many_requests", "throttling_exception", "resource_exhausted"}],
      [kind |-> "Authentication",
       codes |-> {"authentication_error", "invalid_api_key", "invalid_authentication", "unauthenticated",
                  "unrecognized_client_exception", "expired_token_exception"}],
      [kind |-> "AccessDenied",
       codes |-> {"access_denied", "access_denied_exception", "account_deactivated", "permission_denied",
                  "permission_error", "precondition_failed"}],
      [kind |-> "ContextLength",
       codes |-> {"context_length_exceeded", "request_too_large", "prompt_too_long"}],
      [kind |-> "ContentFilter",
       codes |-> {"content_filter", "content_policy_violation", "content_filtered", "refusal"}],
      [kind |-> "Server",
       codes |-> {"server_error", "internal_error", "internal", "unavailable", "service_unavailable",
                  "service_unavailable_exception", "model_not_ready_exception",
                  "model_stream_error_exception", "engine_overloaded", "overloaded_error"}],
      [kind |-> "Timeout", codes |-> {"deadline_exceeded"}],
      [kind |-> "NotFound", codes |-> {"not_found_error", "not_found", "resource_not_found_exception"}],
      [kind |-> "InvalidRequest",
       codes |-> {"invalid_request_error", "invalid_argument", "validation_exception"}]>>

Listed(name) ==
    LET listing == {i \in DOMAIN CodeTables : name \in CodeTables[i].codes}
    IN  IF listing = {} THEN Absent
        ELSE CodeTables[CHOOSE i \in listing : \A j \in listing : i <= j].kind

RuleKind ==
    [quota_exceeded |-> "QuotaExceeded", not_found |-> "NotFound",
     invalid |-> "InvalidRequest", unsupported |-> "InvalidRequest",
     too_large |-> "InvalidRequest", too_long |-> "InvalidRequest"]

\* kind_from_code: `_quota_exceeded` before any table, the rest behind them.
KindFromCode(code) ==
    IF code.rule # Absent /\ (code.rule = "quota_exceeded" \/ Listed(code.name) = Absent)
    THEN RuleKind[code.rule] ELSE Listed(code.name)

\* The order in which phrases are looked for.
PhraseOrder == <<"NotFound", "Authentication", "RateLimit", "ContextLength", "ContentFilter">>

KindFromMessage(message) ==
    LET named == {i \in DOMAIN PhraseOrder : PhraseOrder[i] \in message}
    IN  IF named = {} THEN Absent
        ELSE PhraseOrder[CHOOSE i \in named : \A j \in named : i <= j]

\* Mutant: a 429 is throttling whatever it says.
AnyThrottling(message) == FALSE

NamesSpentQuota(message) == "SpentQuota" \in message

\* extract: the first field that is filled gives the message and the code.
\* `type` is read only when it is not the tag of an envelope.
MessageFields ==
    <<"error.message", "error", "message", "Message", "detail",
      "detail.message", "detail.msg", "body">>
CodeFields ==
    <<"error.code", "error.type", "error.status", "__type", "code", "type",
      "detail.error_type", "detail.type">>

FirstField(body, fields, none) ==
    LET filled == SelectSeq(fields, LAMBDA f : f \in DOMAIN body)
    IN IF filled = <<>> THEN none ELSE body[Head(filled)]

\* A body that was lost or is empty has no fields.
NoBody == [f \in {} |-> NoCode]

----------------------------------------------------------------------------
(* The wait a provider advises *)

\* A `retry-after` header: a number of seconds, a date, or any other text;
\* no header is like a text.
SecondsHeader(seconds) == [form |-> "Seconds", seconds |-> seconds]
DateHeader(year, month, day, hour, minute, second) ==
    [form |-> "Date", year |-> year, month |-> month, day |-> day,
     hour |-> hour, minute |-> minute, second |-> second]
TextHeader == [form |-> "Text"]

\* Mutant: January and February are not counted to the year before.
DaysFromJanuary(year, month, day) ==
    LET era == year \div 400
        yearOfEra == year - era * 400
    IN  era * 146097 + yearOfEra * 365 + yearOfEra \div 4 - yearOfEra \div 100
        + (153 * (IF month > 2 THEN month - 3 ELSE month + 9) + 2) \div 5 + day - 1 - 719468

\* Years begin with March.
DaysFromCivil(year, month, day) ==
    LET shifted == IF month <= 2 THEN year - 1 ELSE year
        era == shifted \div 400
        yearOfEra == shifted - era * 400
        dayOfYear == (153 * (IF month > 2 THEN month - 3 ELSE month + 9) + 2) \div 5 + day - 1
    IN  era * 146097 + yearOfEra * 365 + yearOfEra \div 4 - yearOfEra \div 100
        + dayOfYear - 719468

\* parse_http_date
InstantOf(d) ==
    IF d.day \notin 1..31 \/ d.year < 1970 \/ d.hour > 23 \/ d.minute > 59 \/ d.second > 60 THEN {}
    ELSE {[day |-> DaysFromCivil(d.year, d.month, d.day),
           second |-> d.hour * 3600 + d.minute * 60 + d.second]}

\* The seconds from one instant to another.
SecondsBetween(from, to) == (to.day - from.day) * 86400 + (to.second - from.second)

\* parse_retry_after: the wait, at most one.
ParseRetryAfter(header, now) ==
    {wait \in CASE header.form = "Seconds" -> {header.seconds}
                [] header.form = "Date" -> {SecondsBetween(now, t) : t \in InstantOf(header)}
                [] header.form = "Text" -> {} :
        IF header.form = "Seconds" THEN wait >= 0 ELSE wait > 0}

----------------------------------------------------------------------------
(* classify *)

Otherwise(first, second, last) ==
    IF first # Absent THEN first ELSE IF second # Absent THEN second ELSE last

KindOfStatus ==
    [s \in {401, 403, 404, 408, 412, 413, 429} |->
        CASE s = 401 -> "Authentication" [] s \in {403, 412} -> "AccessDenied"
          [] s = 404 -> "NotFound" [] s = 408 -> "Timeout"
          [] s = 413 -> "ContextLength" [] s = 429 -> "RateLimit"]

\* Before spent quota is told from throttling.  No status: a failure inside
\* a stream.
ReportedKind(status, code, message) ==
    LET c == KindFromCode(code)
        m == KindFromMessage(message)
    IN  CASE status = NoStatus -> Otherwise(c, m, "Server")
          [] status \in DOMAIN KindOfStatus -> KindOfStatus[status]
          [] status \in {400, 422} ->
                IF m = "Authentication" THEN m ELSE Otherwise(c, m, "InvalidRequest")
          [] status >= 500 ->
                IF Otherwise(c, m, Absent) = "Timeout" THEN "Timeout" ELSE "Server"
          [] OTHER -> Otherwise(c, m, "Provider")

\* `wait` is what parse_retry_after made of the header, if anything.
Classify(status, code, message, wait) ==
    LET reported == ReportedKind(status, code, message)
        kind == IF reported = "RateLimit"
                   /\ (KindFromCode(code) = "QuotaExceeded" \/ NamesSpentQuota(message))
                THEN "QuotaExceeded" ELSE reported
        advised == wait # {}
    IN  Error(kind,
              IF kind \notin {"RateLimit", "Server"} THEN "Never"
              ELSE IF advised THEN "After" ELSE "Safe",
              \E seconds \in wait : seconds > 0)

\* provider_error: of an error response and of an error inside a stream.
ProviderError(status, body, wait) ==
    Classify(status, FirstField(body, CodeFields, NoCode),
             FirstField(body, MessageFields, NoMessage), wait)

----------------------------------------------------------------------------
(* Failures of the transport *)

\* finish: what a request that got no response means.  A connection that
\* timed out is a network failure.
SendError(timedOut, connecting, onTimeout) ==
    IF timedOut /\ ~connecting THEN Error("Timeout", onTimeout, FALSE) ELSE Repeatable("Network")

\* bounded_body of a success: longer than the limit, cut by the request's
\* timeout, or lost.
BodyError(cause) ==
    CASE cause = "TooLong" -> Final("ResourceLimit")
      [] cause = "TimedOut" -> Final("Timeout")
      [] cause = "Lost" -> Repeatable("ResponseDecode")
      [] cause = "NotJson" -> Repeatable("ResponseDecode")     \* json_response

\* http_error: only an oversized error body hides what the provider said.
HttpError(status, cause, body, wait) ==
    IF cause = "TooLong" THEN Final("ResourceLimit")
    ELSE ProviderError(status, IF cause = Absent THEN body ELSE NoBody, wait)

\* chunk_error, with_idle_timeout, and the end of a stream without Ended.
ChunkError(cause) ==
    CASE cause = "TimedOut" -> Final("Timeout")
      [] cause = "Lost" -> Repeatable("Network")
      [] cause = "Idle" -> Repeatable("Timeout")
      [] cause = "Cut" -> Repeatable("StreamDecode")

\* The codecs' own failures: a refusal of the model, and a payload that does
\* not match the protocol.
Refusal == Final("ContentFilter")
MalformedSuccess == Repeatable("ResponseDecode")
MalformedStream == Repeatable("StreamDecode")
UnsupportedCapability == Final("InvalidRequest")

=============================================================================
