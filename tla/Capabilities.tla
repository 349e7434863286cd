---------------------------- MODULE Capabilities ----------------------------
(***************************************************************************)
(* What the catalog claims of a model (catalog/capabilities.rs), and the   *)
(* codecs a row reaches by its claims (catalog/provider.rs, model.rs).     *)
(*                                                                         *)
(* The capabilities of a model are a function from claims to Support.  The *)
(* claims of one kind that no other definition tells apart are one claim.  *)
(***************************************************************************)
EXTENDS Integers, Sequences

Support == {"Supported", "Unsupported", "Unknown"}

Efforts == <<"Minimal", "Low", "Medium", "High", "Xhigh", "Max">>
Effort == {Efforts[i] : i \in DOMAIN Efforts}

\* Some claims are a table of their own, here one claim for each of its keys.
GenerationClaims ==
    {"text", "tools", "images", "audio", "documents", "json_object", "json_schema"}
EvaluationClaims == {"choice", "score", "boolean"}
Claims ==
    GenerationClaims \cup EvaluationClaims \cup Effort
        \cup {"reasoning", "sampling", "caching", "cache_routing", "tool_required", "tool_named",
              "fast", "balanced", "economical"}

\* The claims a row does not make: features are unsupported, the balanced
\* speed is supported, and the rest is left open or to derivation.
Unclaimed ==
    [k \in Claims |->
        CASE k = "balanced" -> "Supported"
          [] k \in EvaluationClaims \cup Effort \cup {"fast", "economical"} -> "Unknown"
          [] OTHER -> "Unsupported"]

\* ModelCapabilities::unknown, of a model the catalog does not describe.
UnknownCapabilities == [k \in Claims |-> "Unknown"]

\* The claims of a row that writes only some of them.
Claiming(written) == [k \in Claims |-> IF k \in DOMAIN written THEN written[k] ELSE Unclaimed[k]]

----------------------------------------------------------------------------

\* tool_choice: none of them without tools.
ToolChoiceSupport(c, choice) ==
    CASE c["tools"] = "Unsupported" -> "Unsupported"
      [] choice = "Required" -> c["tool_required"]
      [] choice = "Tool" -> c["tool_named"]
      [] OTHER -> c["tools"]

ResponseFormatSupport(c, format) ==
    CASE format = "Text" -> c["text"]
      [] format = "JsonObject" -> c["json_object"]
      [] format = "JsonSchema" -> c["json_schema"]

EffortSupport(c, effort) ==
    IF c["reasoning"] = "Unsupported" THEN "Unsupported" ELSE c[effort]

\* content_part: JSON, opaque and unknown parts make no claim.
ContentSupport(c, part) ==
    CASE part = "Text" -> c["text"]
      [] part = "Image" -> c["images"]
      [] part = "Audio" -> c["audio"]
      [] part = "Document" -> c["documents"]
      [] part = "Reasoning" -> c["reasoning"]
      [] part \in {"ToolCall", "ToolResult"} -> c["tools"]
      [] OTHER -> "Unknown"

\* evaluation: the row's claim, else what it says of JSON schemas.
EvaluationSupport(c, kind) ==
    IF c[kind] = "Unknown" THEN c["json_schema"] ELSE c[kind]

ClaimsNativeEvaluation(c) == \E k \in EvaluationClaims : c[k] = "Supported"

ClaimsGeneration(c) == \E k \in GenerationClaims : c[k] # "Unsupported"

----------------------------------------------------------------------------

GenerationCodecs ==
    {"anthropic-messages", "bedrock-converse", "gemini-generate", "openai-chat", "openai-responses"}
EvaluationCodecs == {"vercel-evaluation", "systemone"}

\* serves_generation: a custom adapter's own codec counts as one.
ServesGeneration(codec) == codec \notin EvaluationCodecs

\* derive_codecs: evaluation codecs are claimed, generation codecs are claimed
\* or all that a row can mean.
DeriveCodecs(c, providerCodecs) ==
    LET Reached(codec) ==
            IF ServesGeneration(codec)
            THEN ClaimsGeneration(c) \/ ~ClaimsNativeEvaluation(c)
            ELSE ClaimsNativeEvaluation(c)
    IN SelectSeq(providerCodecs, Reached)

=============================================================================
