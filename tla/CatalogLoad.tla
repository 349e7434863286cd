----------------------------- MODULE CatalogLoad ----------------------------
(***************************************************************************)
(* CatalogBuilder (catalog/loader.rs) and Catalog::from_document           *)
(* (catalog/mod.rs): the layers an application adds, merged file by file   *)
(* and validated provider by provider, and the layer a failure names.      *)
(***************************************************************************)
EXTENDS CatalogDocument

CONSTANTS
    Named,           \* the documents an application's named layer may hold
    Unnamed,         \* those of its unnamed layers
    Unparsable,      \* one of both, which is no TOML
    BuiltinFiles,    \* the documents of the built-in files, in order
    BuiltinEnabled,  \* the values of the builtin-catalog feature to check
    MaxLayers,       \* the calls of the builder, a bound
    NoName, Default  \* of RouteChoice

VARIABLES
    feature,    \* the builtin-catalog feature
    layers,     \* CatalogBuilder::layers
    overlays,   \* CatalogBuilder::overlays
    step,       \* "Adding", "Merging", "Parsing", "Converting", "Built" or "Failed"
    files,      \* the files still to merge
    merged,     \* build's merged document
    origins,    \* LayerOrigins: the layer that last declared a provider
    todo,       \* the providers the present loop has not reached
    selectors,  \* from_document's provider selectors
    catalog,    \* the providers converted so far
    failure     \* the CatalogError and the layer it names, or NoFailure

building == <<files, merged, origins, todo, selectors, catalog>>
vars == <<feature, layers, overlays, step, building, failure>>

NoLayer == <<"none", 0>>
MergedLayer == <<"<merged catalog>", 0>>
NoFailure == [error |-> "none", layer |-> NoLayer]

Init ==
    /\ feature \in BuiltinEnabled
    /\ layers = <<>> /\ overlays = 0 /\ step = "Adding"
    /\ files = <<>> /\ merged = Table(Empty) /\ origins = Empty
    /\ todo = {} /\ selectors = {} /\ catalog = Empty
    /\ failure = NoFailure

Fail(error, layer) ==
    /\ step' = "Failed" /\ failure' = [error |-> error, layer |-> layer]
    /\ UNCHANGED <<feature, layers, overlays, building>>

----------------------------------------------------------------------------
(* Adding layers *)

WithBuiltin ==
    /\ step = "Adding" /\ Len(layers) < MaxLayers
    /\ layers' = Append(layers, [name |-> NoLayer, source |-> "Builtin"])
    /\ UNCHANGED <<feature, overlays, step, building, failure>>

\* toml_layer: a document that does not parse fails the call.
Add(name, document) ==
    /\ step = "Adding" /\ Len(layers) < MaxLayers
    /\ IF document = Unparsable
       THEN /\ step' = "Failed" /\ failure' = [error |-> "Parse", layer |-> name]
            /\ UNCHANGED layers
       ELSE /\ layers' = Append(layers, [name |-> name, source |-> "Toml", document |-> document])
            /\ UNCHANGED <<step, failure>>
    /\ UNCHANGED <<feature, building>>

TomlLayer(document) ==
    /\ Add(<<"layer", Len(layers) + 1>>, document)
    /\ UNCHANGED overlays

\* overlay_toml: unnamed layers are counted.
OverlayToml(document) ==
    /\ overlays' = overlays + 1
    /\ Add(<<"overlay", overlays + 1>>, document)

----------------------------------------------------------------------------
(* build *)

FilesOf(layer) ==
    IF layer.source = "Toml" THEN <<[name |-> layer.name, document |-> layer.document]>>
    ELSE [i \in DOMAIN BuiltinFiles |->
            [name |-> <<"built-in", i>>, document |-> BuiltinFiles[i]]]

Build ==
    /\ step = "Adding"
    /\ step' = "Merging"
    /\ files' = FlattenSeq([i \in DOMAIN layers |-> FilesOf(layers[i])])
    /\ UNCHANGED <<feature, layers, overlays, merged, origins, todo, selectors, catalog, failure>>

\* Without the feature a builtin layer fails the build.
BuiltinMissing ==
    /\ step = "Merging"
    /\ ~feature /\ \E i \in DOMAIN layers : layers[i].source = "Builtin"
    /\ Fail("BuiltinCatalogDisabled", NoLayer)

\* The providers a document declares.
Declares(document) ==
    IF "providers" \in DOMAIN document.entries /\ document.entries["providers"].type = "Table"
    THEN DOMAIN document.entries["providers"].entries ELSE {}

\* Mutant: a provider keeps the layer that declared it first.
RecordFirst(old, name, document) ==
    [p \in DOMAIN old \cup Declares(document) |-> IF p \in DOMAIN old THEN old[p] ELSE name]

\* record_origins
RecordOrigins(old, name, document) ==
    [p \in DOMAIN old \cup Declares(document) |->
        IF p \in Declares(document) THEN name ELSE old[p]]

MergeFile ==
    /\ step = "Merging" /\ files # <<>>
    /\ feature \/ \A i \in DOMAIN layers : layers[i].source # "Builtin"
    /\ LET file == Head(files)
       IN /\ origins' = RecordOrigins(origins, file.name, file.document)
          /\ merged' = Merge(merged, file.document)
    /\ files' = Tail(files)
    /\ UNCHANGED <<feature, layers, overlays, step, todo, selectors, catalog, failure>>

DocumentSchema == [schema_version |-> "Leaf", providers |-> "Table"]
DocumentParses == Fits(merged, DocumentSchema, {"schema_version", "providers"})

Merged == step = "Merging" /\ files = <<>>

BadDocument ==
    /\ Merged /\ ~DocumentParses
    /\ Fail("Parse", MergedLayer)

Records == merged.entries["providers"].entries

StartParsing ==
    /\ Merged /\ DocumentParses
    /\ step' = "Parsing" /\ todo' = DOMAIN Records
    /\ UNCHANGED <<feature, layers, overlays, files, merged, origins, selectors, catalog, failure>>

\* The providers in the order of their ids.
Least(p) == p \in todo /\ \A q \in todo : p <= q

\* Each provider is parsed before any is validated.
ParseProvider ==
    /\ step = "Parsing"
    /\ \E p \in todo :
          /\ Least(p)
          /\ \/ /\ ProviderParses(Records[p])
                /\ todo' = todo \ {p}
                /\ UNCHANGED <<feature, layers, overlays, step, files, merged, origins,
                               selectors, catalog, failure>>
             \/ ~ProviderParses(Records[p]) /\ Fail("Parse", origins[p])

----------------------------------------------------------------------------
(* from_document *)

Parsed == step = "Parsing" /\ todo = {}

UnsupportedSchemaVersion ==
    /\ Parsed /\ merged.entries["schema_version"].value # 1
    /\ Fail("UnsupportedSchemaVersion", NoLayer)

NoProviders ==
    /\ Parsed /\ merged.entries["schema_version"].value = 1
    /\ Records = Empty
    /\ Fail("NoProviders", NoLayer)

StartConverting ==
    /\ Parsed /\ merged.entries["schema_version"].value = 1
    /\ Records # Empty
    /\ step' = "Converting" /\ todo' = DOMAIN Records
    /\ selectors' = DOMAIN Records
    /\ UNCHANGED <<feature, layers, overlays, files, merged, origins, catalog, failure>>

\* The provider a valid record becomes, with defaults for what it leaves out.
Converted(record) ==
    [aliases |-> Range(AliasesOf(record)),
     codecs |-> CodecsOf(record),
     priority |-> Get(record, "priority", 0),
     enabled |-> Get(record, "enabled", TRUE),
     passthrough |-> Get(record, "allow_passthrough", FALSE),
     default |-> Get(record, "default_model", NoName),
     standsInFor |-> Get(record, "stands_in_for", NoName),
     models |-> [m \in DOMAIN Rows(record) |->
        [aliases |-> Range(AliasesOf(Rows(record)[m])),
         api |-> Get(Rows(record)[m], "api_model", Bad),
         codecs |-> ModelCodecs(Rows(record)[m], CodecsOf(record))]]]

\* Mutant: the aliases are only compared with other aliases.
TakenAliases(aliases) ==
    ~IsInjective(aliases) \/ Range(aliases) \cap (selectors \ DOMAIN Records) # {}

\* An alias that is an id of the document or an alias of a provider before.
Taken(aliases) ==
    ~IsInjective(aliases) \/ Range(aliases) \cap selectors # {}

ConvertProvider ==
    /\ step = "Converting"
    /\ \E p \in todo :
          /\ Least(p)
          /\ LET error == ProviderError(p, Records[p])
                 aliases == AliasesOf(Records[p])
             IN \/ error # "none" /\ Fail(error, origins[p])
                \/ error = "none" /\ Taken(aliases) /\ Fail("DuplicateProviderAlias", origins[p])
                \/ /\ error = "none" /\ ~Taken(aliases)
                   /\ selectors' = selectors \cup Range(aliases)
                   /\ catalog' = [q \in DOMAIN catalog \cup {p} |->
                                    IF q = p THEN Converted(Records[p]) ELSE catalog[q]]
                   /\ todo' = todo \ {p}
                   /\ UNCHANGED <<feature, layers, overlays, step, files, merged, origins, failure>>

Strays == {p \in DOMAIN catalog : catalog[p].standsInFor \notin DOMAIN catalog \cup {NoName}}

UnknownStandInTarget ==
    /\ step = "Converting" /\ todo = {} /\ Strays # {}
    /\ LET p == CHOOSE q \in Strays : \A r \in Strays : q <= r
       IN Fail("UnknownStandInTarget", origins[p])

Built ==
    /\ step = "Converting" /\ todo = {} /\ Strays = {}
    /\ step' = "Built"
    /\ UNCHANGED <<feature, layers, overlays, building, failure>>

Over == step \in {"Built", "Failed"} /\ UNCHANGED vars

Next ==
    \/ WithBuiltin
    \/ \E document \in Named : TomlLayer(document)
    \/ \E document \in Unnamed : OverlayToml(document)
    \/ Build \/ BuiltinMissing \/ MergeFile
    \/ BadDocument \/ StartParsing \/ ParseProvider
    \/ UnsupportedSchemaVersion \/ NoProviders \/ StartConverting
    \/ ConvertProvider \/ UnknownStandInTarget \/ Built
    \/ Over

Spec == Init /\ [][Next]_vars

----------------------------------------------------------------------------
(* Properties *)

ModelsOf(p) ==
    {[provider |-> p, id |-> m, aliases |-> catalog[p].models[m].aliases,
      api |-> catalog[p].models[m].api] : m \in DOMAIN catalog[p].models}

Routing == INSTANCE RouteChoice WITH
    Provider <- DOMAIN catalog,
    Model <- UNION {ModelsOf(p) : p \in DOMAIN catalog},
    Aliases <- [p \in DOMAIN catalog |-> catalog[p].aliases],
    Priority <- [p \in DOMAIN catalog |-> catalog[p].priority],
    DefaultModel <- [p \in DOMAIN catalog |-> catalog[p].default],
    StandsInFor <- [p \in DOMAIN catalog |-> catalog[p].standsInFor],
    Passthrough <- {p \in DOMAIN catalog : catalog[p].passthrough},
    Names <- {}, Probes <- {}, SmallDefaults <- {}

Subsequence(s, t) == s = SelectSeq(t, LAMBDA x : x \in Range(s))

\* Every catalog that loads, from whatever layers, is one that the resolver
\* can route over: it keeps all that RouteChoice assumes, every default is a
\* route, and a row's codecs are its provider's, in the provider's order.
SoundCatalog ==
    step = "Built" =>
      /\ Routing!CatalogAssumption
      /\ \A p \in DOMAIN catalog :
            /\ catalog[p].default # NoName =>
                  \A r \in Routing!ResolveProviderDefault(p) : r.type = "Route"
            /\ \A m \in DOMAIN catalog[p].models :
                  Subsequence(catalog[p].models[m].codecs, catalog[p].codecs)

\* What a document has at a path of keys: a node, nothing, or a leaf above it.
Nothing == [type |-> "Nothing"]
Above == [type |-> "Above"]

RECURSIVE At(_, _)
At(node, path) ==
    IF path = <<>> THEN node
    ELSE IF node.type # "Table" THEN Above
    ELSE IF Head(path) \notin DOMAIN node.entries THEN Nothing
    ELSE At(node.entries[Head(path)], Tail(path))

RECURSIVE LeafPaths(_)
LeafPaths(node) ==
    IF node.type # "Table" THEN {<<>>}
    ELSE UNION {{<<k>> \o path : path \in LeafPaths(node.entries[k])} : k \in DOMAIN node.entries}

AllFiles == FlattenSeq([i \in DOMAIN layers |-> FilesOf(layers[i])])

LastFile(Says(_)) == AllFiles[SelectLastInSeq(AllFiles, LAMBDA f : Says(f.document))]

\* An overlay is local and the last one wins: a value of the merged catalog is
\* that of the last file that says anything at its place, and stays when no
\* later file does; a failure names the last file that declares the provider.
OverlayIsLocal ==
    /\ step \in {"Parsing", "Converting", "Built"} =>
         \A path \in UNION {LeafPaths(AllFiles[i].document) : i \in DOMAIN AllFiles} :
            LET Says(document) == At(document, path).type # "Nothing"
                said == At(LastFile(Says).document, path)
                now == At(merged, path)
            IN IF said.type \in {"Leaf", "Wrong"} THEN now = said
               ELSE now.type \notin {"Leaf", "Wrong"}
    /\ step = "Failed" /\ todo # {} =>
         LET p == CHOOSE q \in todo : Least(q)
             Says(document) == p \in Declares(document)
         IN failure.layer = LastFile(Says).name

=============================================================================
