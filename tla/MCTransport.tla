---------------------------- MODULE MCTransport -----------------------------
(***************************************************************************)
(* Model-checking values for three parts of the transport that share no    *)
(* state: requests to one provider that are authenticated, and the two     *)
(* framers that read one body, of server-sent events or of an AWS event    *)
(* stream, through the shared pipeline.  A behaviour is about one of them; *)
(* the variables of the others stay as they are.                           *)
(*                                                                         *)
(* Requests are authenticated for every scheme and both adapters, with two *)
(* secrets, and header names that several sources use.                     *)
(***************************************************************************)
EXTENDS EventStreamFraming, Authentication

CONSTANTS Alphabets, SseLimits, SseMaxBytes

ASSUME SseAssumption == \A l \in SseLimits : l.frame \in Nat /\ l.output \in Nat

VARIABLES part, alphabet, policy, sseFramer

Sse == INSTANCE SseFraming
         WITH framer <- sseFramer, Limits <- SseLimits, MaxBytes <- SseMaxBytes

transportVars == <<part, vars, alphabet, policy, sseFramer, authVars>>

NoAlphabet == alphabet = {} /\ policy = "none" /\ sseFramer = <<>>
NoRequest ==
    /\ AuthInit
    /\ row = CHOOSE r \in Served : TRUE
    /\ store = CHOOSE s \in Stores : TRUE
NoBody == AwsInit /\ limits = CHOOSE l \in Limits : TRUE

Init ==
    \/ part = "Sse" /\ Sse!SseInit /\ framer = <<>> /\ NoRequest
    \/ part = "AwsEventStream" /\ AwsInit /\ NoAlphabet /\ NoRequest
    \/ part = "Request" /\ AuthInit /\ NoBody /\ NoAlphabet

\* One step of a server-sent-event body, of an event-stream body, or of a
\* request.
SseStep == part = "Sse" /\ Sse!SseNext /\ UNCHANGED <<part, framer, authVars>>
AwsStep == part = "AwsEventStream" /\ AwsNext /\ UNCHANGED <<part, alphabet, policy, sseFramer, authVars>>
RequestStep == part = "Request" /\ AuthNext /\ UNCHANGED <<part, vars, alphabet, policy, sseFramer>>

Next == SseStep \/ AwsStep \/ RequestStep

Spec == Init /\ [][Next]_transportVars

----------------------------------------------------------------------------

\* However a body was split into chunks, the decoder gets the events that the
\* whole body has, up to the first error, whichever framer reads it.
SplitInvisible ==
    IF part = "Sse" THEN Sse!ChunkingInvisible ELSE ChunkingInvisible

\* What the SSE framer holds between two chunks fits the frame limit, and the
\* events that reach a decoder fit the output limit together.
WithinLimits ==
    /\ part = "Sse" => Sse!HeldWithinLimit
    /\ DeliveredWithinLimit

----------------------------------------------------------------------------

MCAlphabets == {{"data:", "x", "CR", "LF"}, {"data:", "event:", "x", "LF"},
                {"data:", "bom", "bad", "LF"}}

MCSseLimits == {[frame |-> 8, output |-> 100], [frame |-> 100, output |-> 3]}

\* A whole frame with a payload of one unit.
Good == [preludeOk |-> TRUE, total |-> 4, headers |-> 0, crcOk |-> TRUE, decodes |-> TRUE,
         failure |-> FALSE, size |-> 1]

\* Each way a frame can be wrong, and a larger one.
MCFrames ==
    {Good,
     [Good EXCEPT !.total = 5, !.headers = 1, !.size = 2],
     [Good EXCEPT !.preludeOk = FALSE],
     [Good EXCEPT !.preludeOk = FALSE, !.total = 99],
     [Good EXCEPT !.total = 1],
     [Good EXCEPT !.total = 7],
     [Good EXCEPT !.total = 99],
     [Good EXCEPT !.headers = 2],
     [Good EXCEPT !.crcOk = FALSE],
     [Good EXCEPT !.decodes = FALSE],
     [Good EXCEPT !.failure = TRUE]}

MCLimits == {[frame |-> 6, output |-> 100], [frame |-> 100, output |-> 2]}

----------------------------------------------------------------------------

Registration(method, header, secret, in) ==
    [method |-> method, header |-> header, secret |-> secret, region |-> in]
MCRegistrations ==
    {Registration("bearer", NoName, "k1", NoName), Registration("header", "x-more", "k2", NoName),
     Registration("bearer_header", "x-key", "k2", NoName),
     Registration("or_header", "x-more", "k1", NoName), Registration("or_bearer", NoName, "k2", NoName),
     Registration("aws_default_chain", NoName, NoName, "r1"),
     Registration("or_aws_default_chain", NoName, NoName, NoName),
     Registration("bedrock_bearer", NoName, "k1", NoName), Registration("or_bedrock_bearer", NoName, "k2", NoName)}

\* The secrets of a store: both, or only one that no header can carry.
Store(first, second) == [k \in {"k1", "k2"} |-> IF k = "k1" THEN first ELSE second]
MCStores == {Store("v1", "v2"), Store(Absent, Unfit)}

MCChains == {[region |-> "r3", provider |-> TRUE], [region |-> NoName, provider |-> TRUE],
             [region |-> "r3", provider |-> FALSE]}

To(scheme, host) == [parses |-> TRUE, scheme |-> scheme, host |-> host]
Bearing ==
    [adapter |-> "http", scheme |-> "Bearer", header |-> "authorization", prefix |-> "Bearer",
     region |-> NoName, endpoint |-> NoName, derived |-> "k1", url |-> To("https", "other"),
     identify |-> FALSE, client |-> <<<<"x-more", <<"client">> >>, <<"x-codec", <<"client">> >> >>,
     codec |-> <<<<"x-codec", <<"codec">> >> >>, defaults |-> <<<<"x-more", <<"catalog">> >> >>]
MCServed ==
    {Bearing,
     [Bearing EXCEPT !.url = To("http", "other"), !.identify = TRUE,
                     !.client = Append(@, <<"originator", <<"client">> >>)],
     [Bearing EXCEPT !.scheme = "Header", !.header = "x-more"],
     [Bearing EXCEPT !.scheme = "Headers", !.url = To("http", "localhost")],
     [Bearing EXCEPT !.scheme = "None", !.url = To("http", "other")],
     [Bearing EXCEPT !.adapter = "bedrock", !.scheme = "BedrockBearer", !.endpoint = "r2"],
     [Bearing EXCEPT !.adapter = "bedrock", !.scheme = "Aws",
                     !.client = <<<<"authorization", <<"client">> >>, <<"accept-encoding", <<"client">> >>,
                                  <<"x-amz-date", <<"client">> >> >>]}
=============================================================================
