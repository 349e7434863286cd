------------------------------ MODULE MCCatalog ------------------------------
(***************************************************************************)
(* A catalog's two lives.  A behaviour either loads one, from layers and   *)
(* built-in files, or builds a client over a loaded one; the variables of  *)
(* the other stay as they start.  The layers to load are a base with two   *)
(* providers, overlays that add, change, damage or repair a provider or a  *)
(* model, and two built-in files.  The client is built over three          *)
(* providers: 2 and 3 stand in for 1, 2 and 3 have the same priority, and  *)
(* a name is a model, an alias or an upstream name of several of them.     *)
(***************************************************************************)
EXTENDS CommandModels, CatalogDocument

CONSTANTS Named, Unnamed, Unparsable, BuiltinFiles, BuiltinEnabled, MaxLayers

VARIABLES life, feature, layers, overlays, loading, files, merged, origins, unread, selectors,
          catalog, failure

Loading == INSTANCE CatalogLoad WITH step <- loading, todo <- unread

LoadInit == Loading!Init
loadVars == <<feature, layers, overlays, loading, files, merged, origins, unread, selectors,
              catalog, failure>>

CatalogInit ==
    \/ life = "Load" /\ LoadInit /\ Init /\ config = CHOOSE c \in Configurations : TRUE
    \/ life = "Build" /\ Init /\ LoadInit /\ feature = CHOOSE f \in BuiltinEnabled : TRUE

LoadStep == life = "Load" /\ Loading!Next /\ UNCHANGED <<life, vars>>
BuildStep == life = "Build" /\ Next /\ UNCHANGED <<life, loadVars>>

CatalogNext == LoadStep \/ BuildStep

CatalogSpec == CatalogInit /\ [][CatalogNext]_<<life, vars, loadVars>>

----------------------------------------------------------------------------

\* Every catalog that loads is one the resolver can route over (CatalogLoad).
SoundCatalog == Loading!SoundCatalog

\* An overlay is local, the last one wins, and a failure names its layer
\* (CatalogLoad).
OverlayIsLocal == Loading!OverlayIsLocal

----------------------------------------------------------------------------

NoTable == Table(Empty)
Text == Leaf("text")

Doc(providers) == Table("schema_version" :> Leaf(1) @@ "providers" :> Table(providers))
Patch(p, fields) == Table("providers" :> Table(p :> Table(fields)))

Basic == "display_name" :> Text @@ "base_url" :> Text @@ "auth" :> Table("type" :> Leaf("none"))
Row(api) == Table("display_name" :> Text @@ "api_model" :> Leaf(api))

Main == Table(Basic @@ "aliases" :> Leaf(<<11>>) @@ "default_model" :> Leaf(21)
               @@ "models" :> Table(21 :> Row(31)))
Double == Table(Basic @@ "codecs" :> Leaf(<<"openai-responses", "openai-chat", "systemone">>)
                @@ "stands_in_for" :> Leaf(1) @@ "priority" :> Leaf(5)
                @@ "models" :> Table(21 :> Row(31) @@ 22 :> Row(31)))

Base == Doc(1 :> Main @@ 2 :> Double)

\* What an overlay may say of provider 1 or of its model 21.
Fields == {
    "aliases" :> Leaf(<<12>>),
    "aliases" :> Leaf(<<11, 2>>),
    "aliases" :> Leaf(<<11, 11>>),
    "aliases" :> Leaf(<<Bad>>),
    "display_name" :> Leaf("blank"),
    "default_model" :> Leaf(23),
    "stands_in_for" :> Leaf(3),
    "stands_in_for" :> Leaf(1),
    "codec" :> Leaf("openai-chat"),
    "codecs" :> Leaf(<<>>),
    "adapter" :> Leaf("openai"),
    "base_url" :> Leaf("blank"),
    "default_headers" :> Leaf("bad"),
    "auth" :> Table("type" :> Leaf("header")),
    "unknown" :> Text,
    "models" :> Wrong,
    "codec_options" :> Table("systemone" :> Text),
    "models" :> Table(23 :> Row(31)),
    "models" :> Table(22 :> Table("display_name" :> Text @@ "api_model" :> Leaf(32)
                                  @@ "aliases" :> Leaf(<<21>>))),
    "models" :> Table(21 :> Table("limits" :> Table("max_output_tokens" :> Leaf(9)
                                                    @@ "context_tokens" :> Leaf(8)))),
    "models" :> Table(21 :> Table("codecs" :> Leaf(<<"openai-chat", "systemone">>))),
    "models" :> Table(21 :> Table("limits" :> Table("context_tokens" :> Leaf(9)))),
    "models" :> Table(21 :> Table("capabilities" :> Table("boolean" :> Leaf("Supported"))))}

NoDocument == Leaf("no TOML")

MCNamed ==
    {NoDocument, NoTable, Base, Doc(2 :> Main), Doc(Bad :> Main),
     Table("schema_version" :> Leaf(2)), Table("providers" :> Leaf("none"))}

MCUnnamed ==
    {NoDocument, Base, Doc(Empty),
     Patch(2, "aliases" :> Leaf(<<11>>)),
     Patch(2, "models" :> Table(22 :> Table("codecs" :> Leaf(<<"openai-chat", "openai-responses">>))))}
    \cup {Patch(1, f) : f \in Fields}

MCBuiltinFiles ==
    <<Doc(1 :> Main), Doc(3 :> Table(Basic @@ "default_headers" :> Text @@ "aliases" :> Leaf(<<12>>)))>>

----------------------------------------------------------------------------

MCProvider == 1..3

MCModel == {
    [provider |-> 1, id |-> 21, aliases |-> {22},  api |-> 31],
    [provider |-> 2, id |-> 22, aliases |-> {},    api |-> 31],
    [provider |-> 2, id |-> 23, aliases |-> {21},  api |-> 31],
    [provider |-> 3, id |-> 22, aliases |-> {23},  api |-> 32]}

MCAliases == [p \in MCProvider |-> IF p = 1 THEN {11} ELSE {}]
MCPriority == [p \in MCProvider |-> IF p = 1 THEN 0 ELSE 5]
MCDefaultModel == [p \in MCProvider |-> CASE p = 1 -> 21 [] p = 2 -> 22 [] OTHER -> NoName]
MCStandsInFor == [p \in MCProvider |-> IF p = 1 THEN NoName ELSE 1]
MCProbes == {m \in MCModel : m.id = 23}
MCSmallDefaults == {m \in MCModel : m.id = 22 /\ m.provider = 3}
MCNames == {1, 2, 3, 9, 11, 21, 22, 23, 31}

\* 9 is an id the catalog does not know.
MCConfigurations ==
    [catalog : {TRUE}, probe : BOOLEAN, http : {FALSE},
     enabled : {1..3, {1, 3}}, explicit : {{}, {2}},
     chosen : {MCProvider, {1, 2}, {1, 3, 9}}]
    \cup [catalog : BOOLEAN, probe : BOOLEAN, http : {TRUE},
          enabled : SUBSET MCProvider, explicit : {{1}}, chosen : {MCProvider, {2, 3}, {9}}]

\* Letters are numbers; 41 is a piece of two display names, and one spells 21.
MCTerms == {1, 2, 21, 22, 23, 41}
MCPieces == [m \in MCModel |-> IF m.id # 22 THEN {} ELSE IF m.provider = 3 THEN {21, 41} ELSE {41}]
MCSpelling == (1 :> <<1>>) @@ (2 :> <<2>>) @@ (3 :> <<2, 2>>)
              @@ (21 :> <<1, 2, 1>>) @@ (22 :> <<1, 2, 2>>) @@ (23 :> <<2, 1, 1, 1>>)
MCNeedles == UNION {[1..n -> 0..2] : n \in 1..3} \cup {<<2, 2, 0, 2, 2>>, <<1, 0, 1, 1, 1>>}
=============================================================================
