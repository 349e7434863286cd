--------------------------- MODULE CatalogDocument --------------------------
(***************************************************************************)
(* TOML documents of the catalog, how two layers merge (overlay.rs) and    *)
(* what a provider's table must be to become a CatalogProvider             *)
(* (catalog/provider.rs, catalog/model.rs).                                *)
(*                                                                         *)
(* A node is a table or a leaf.  Ids, aliases and model names are numbers, *)
(* and a text is "text" or "blank".  A leaf whose type the schema does not *)
(* take is Wrong, and Bad is an identifier with characters it may not      *)
(* have, or a header that is none.  Fields that no check reads are left    *)
(* out.                                                                    *)
(***************************************************************************)
EXTENDS Capabilities, SequencesExt

Table(entries) == [type |-> "Table", entries |-> entries]
Leaf(value) == [type |-> "Leaf", value |-> value]
Wrong == [type |-> "Wrong"]
Bad == 0

Empty == <<>>

\* Mutant: a value that is there stays.
RECURSIVE MergeKeeping(_, _)
MergeKeeping(base, overlay) ==
    IF base.type = "Table" /\ overlay.type = "Table"
    THEN Table([k \in DOMAIN base.entries \cup DOMAIN overlay.entries |->
            IF k \notin DOMAIN overlay.entries THEN base.entries[k]
            ELSE IF k \notin DOMAIN base.entries THEN overlay.entries[k]
            ELSE MergeKeeping(base.entries[k], overlay.entries[k])])
    ELSE base

\* merge: tables key by key, anything else is replaced.
RECURSIVE Merge(_, _)
Merge(base, overlay) ==
    IF base.type = "Table" /\ overlay.type = "Table"
    THEN Table([k \in DOMAIN base.entries \cup DOMAIN overlay.entries |->
            IF k \notin DOMAIN overlay.entries THEN base.entries[k]
            ELSE IF k \notin DOMAIN base.entries THEN overlay.entries[k]
            ELSE Merge(base.entries[k], overlay.entries[k])])
    ELSE overlay

----------------------------------------------------------------------------
(* Records *)

\* The keys of each record and what they hold; no other key is allowed.
ModelSchema ==
    [display_name |-> "Leaf", aliases |-> "Leaf", api_model |-> "Leaf", codecs |-> "Leaf",
     limits |-> "Table", capabilities |-> "Table", probe |-> "Leaf", small_default |-> "Leaf"]

ProviderSchema ==
    [display_name |-> "Leaf", aliases |-> "Leaf", adapter |-> "Leaf", codec |-> "Leaf",
     codecs |-> "Leaf", codec_options |-> "Table", base_url |-> "Leaf", auth |-> "Table",
     priority |-> "Leaf", allow_passthrough |-> "Leaf", enabled |-> "Leaf",
     stands_in_for |-> "Leaf", default_model |-> "Leaf", default_headers |-> "Leaf",
     models |-> "Table"]

\* serde with deny_unknown_fields.
Fits(node, schema, required) ==
    /\ node.type = "Table"
    /\ required \subseteq DOMAIN node.entries
    /\ \A k \in DOMAIN node.entries : k \in DOMAIN schema /\ node.entries[k].type = schema[k]

Get(node, key, default) ==
    IF key \in DOMAIN node.entries THEN node.entries[key].value ELSE default

Rows(node) ==
    IF "models" \in DOMAIN node.entries THEN node.entries["models"].entries ELSE Empty

\* A scheme is told by its type; the rest of an older scheme stays behind.
AuthParses(node) ==
    /\ "type" \in DOMAIN node.entries /\ node.entries["type"].type = "Leaf"
    /\ node.entries["type"].value = "header" => "name" \in DOMAIN node.entries

LimitsParse(node) ==
    "limits" \in DOMAIN node.entries =>
        DOMAIN node.entries["limits"].entries = {"context_tokens", "max_output_tokens"}

\* The deserialization of ModelRecord and ProviderRecord.
ModelParses(node) ==
    /\ Fits(node, ModelSchema, {"display_name", "api_model"})
    /\ LimitsParse(node)
    /\ "capabilities" \in DOMAIN node.entries =>
          DOMAIN node.entries["capabilities"].entries \subseteq Claims

ProviderParses(node) ==
    /\ Fits(node, ProviderSchema, {"display_name", "base_url", "auth"})
    /\ AuthParses(node.entries["auth"])
    /\ \A m \in DOMAIN Rows(node) : ModelParses(Rows(node)[m])

----------------------------------------------------------------------------
(* Validation: the error of a check, or "none" *)

\* The first of a sequence of <<failing, error>> that fails.
FirstError(checks) ==
    LET failing == SelectSeq(checks, LAMBDA c : c[1])
    IN IF failing = <<>> THEN "none" ELSE failing[1][2]

AliasesOf(node) == Get(node, "aliases", <<>>)
CodecsOf(node) == Get(node, "codecs", <<"openai-chat">>)

\* validate_identifier.
Valid(id) == id # Bad

ModelError(id, node, providerCodecs) ==
    FirstError(<<
        <<~Valid(id), "InvalidIdentifier">>,
        <<Get(node, "display_name", "") = "blank", "EmptyDisplayName">>,
        <<Bad \in Range(AliasesOf(node)), "InvalidIdentifier">>,
        <<"limits" \in DOMAIN node.entries
            /\ LET limits == node.entries["limits"]
               IN Get(limits, "max_output_tokens", 0) > Get(limits, "context_tokens", 0),
          "InvalidModelLimits">>,
        <<~(Range(Get(node, "codecs", <<>>)) \subseteq Range(providerCodecs)),
          "UnknownModelCodec">> >>)

\* CatalogModel::codecs: those listed, in the provider's order, or derived.
ModelCodecs(node, providerCodecs) ==
    IF "codecs" \in DOMAIN node.entries
    THEN SelectSeq(providerCodecs, LAMBDA c : c \in Range(Get(node, "codecs", <<>>)))
    ELSE DeriveCodecs(Claiming(IF "capabilities" \in DOMAIN node.entries
                               THEN LET claims == node.entries["capabilities"].entries
                                    IN [k \in DOMAIN claims |-> claims[k].value]
                               ELSE Empty), providerCodecs)

RetiredAdapters == {"openai-compatible", "openai", "anthropic", "gemini"}

\* The errors of the rows in order: a row's own, then those of its aliases,
\* which no id and no alias before may be.
RowChecks(node) ==
    LET rows == Rows(node)
        order == SetToSortSeq(DOMAIN rows, <)
        before(m) == DOMAIN rows \cup UNION {Range(AliasesOf(rows[n])) : n \in {k \in DOMAIN rows : k < m}}
        Repeats(m) ==
            ~IsInjective(AliasesOf(rows[m])) \/ Range(AliasesOf(rows[m])) \cap before(m) # {}
    IN FlattenSeq([i \in DOMAIN order |->
         LET error == ModelError(order[i], rows[order[i]], CodecsOf(node))
         IN << <<error # "none", error>>, <<Repeats(order[i]), "DuplicateModelSelector">> >>])

\* CatalogProvider::try_from_record.
ProviderError(id, node) ==
    FirstError(<<
        <<~Valid(id), "InvalidIdentifier">>,
        <<Get(node, "display_name", "") = "blank", "EmptyDisplayName">>,
        <<Get(node, "base_url", "") = "blank", "EmptyBaseUrl">>,
        <<Bad \in Range(AliasesOf(node)), "InvalidIdentifier">>,
        <<"codec" \in DOMAIN node.entries, "RemovedCodecField">>,
        <<Get(node, "adapter", "http") \in RetiredAdapters, "RemovedAdapterId">>,
        <<Get(node, "adapter", "http") = "", "InvalidIdentifier">>,
        <<CodecsOf(node) = <<>>, "EmptyCodecs">>,
        <<"" \in Range(CodecsOf(node)), "InvalidIdentifier">>,
        <<"codec_options" \in DOMAIN node.entries
            /\ ~(DOMAIN node.entries["codec_options"].entries \subseteq Range(CodecsOf(node))),
          "UnknownCodecOptions">>,
        <<Get(node, "default_headers", "text") # "text", "InvalidHeader">> >>
        \o RowChecks(node) \o <<
        <<"default_model" \in DOMAIN node.entries
            /\ Get(node, "default_model", Bad) \notin DOMAIN Rows(node), "UnknownDefaultModel">>,
        <<Get(node, "stands_in_for", Bad) = id, "StandsInForItself">> >>)

=============================================================================
