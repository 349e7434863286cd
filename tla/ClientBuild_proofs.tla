------------------------- MODULE ClientBuild_proofs -------------------------
(***************************************************************************)
(* Theorems about the resolver (RouteChoice) and the build of a client     *)
(* (ClientBuild), for any catalog of finitely many providers.              *)
(***************************************************************************)
EXTENDS ClientBuild, FiniteSetTheorems, SequenceTheorems, WellFoundedInduction, TLAPS

(***************************************************************************)
(* Least and greatest elements.                                            *)
(***************************************************************************)

\* Every set of natural numbers that has an element has a least one.
LEMMA LeastNumber ==
    ASSUME NEW T \in SUBSET Nat, T # {}
    PROVE  \E n \in T : \A m \in T : n <= m
  <1>1. PICK n \in T : \A m \in T : ~(<<m, n>> \in OpToRel(<, Nat))
    BY NatLessThanWellFounded, WFMin, Zenon
  <1>2. \A m \in T : <<m, n>> \in Nat \X Nat
    OBVIOUS
  <1>3. \A m \in T : m < n => <<m, n>> \in OpToRel(<, Nat)
    BY <1>2 DEF OpToRel
  <1>4. \A m \in T : ~(m < n)
    BY <1>1, <1>3, Zenon
  <1>5. \A m \in T : n <= m
    BY <1>4
  <1>. QED
    BY <1>5

\* Of finitely many elements, one has a greatest value: were there sets without,
\* one of the smallest of them would have one.
LEMMA GreatestOfFinite ==
    ASSUME NEW S, IsFiniteSet(S), S # {}, NEW value \in [S -> Int]
    PROVE  \E x \in S : \A y \in S : value[y] <= value[x]
  <1>. DEFINE Tops(A) == {x \in A : \A y \in A : value[y] <= value[x]}
              Bad == {A \in SUBSET S : A # {} /\ Tops(A) = {}}
              Sizes == {Cardinality(A) : A \in Bad}
  <1>1. \A A \in SUBSET S : IsFiniteSet(A) /\ Cardinality(A) \in Nat
    BY FS_Subset, FS_CardinalityType
  <1>2. SUFFICES ASSUME Bad # {} PROVE FALSE
    <2>. S \in SUBSET S
      OBVIOUS
    <2>. QED
      BY <1>2
  <1>3. Sizes \in SUBSET Nat /\ Sizes # {}
    BY <1>1, <1>2
  <1>4. PICK n \in Sizes : \A m \in Sizes : n <= m
    <2>. HIDE DEF Sizes
    <2>. QED
      BY <1>3, LeastNumber
  <1>5. PICK A \in Bad : n = Cardinality(A)
    BY <1>4
  <1>6. PICK x \in A : TRUE
    BY <1>5
  <1>. DEFINE B == A \ {x}
  <1>7. B \in SUBSET S /\ B \notin Bad
    <2>1. Cardinality(B) = Cardinality(A) - 1
      BY <1>1, <1>5, <1>6, FS_RemoveElement
    <2>2. Cardinality(A) \in Nat /\ Cardinality(B) \in Nat
      BY <1>1, <1>5
    <2>3. Cardinality(B) \notin Sizes
      <3>1. ~(n <= Cardinality(B))
        BY <1>5, <2>1, <2>2
      <3>. HIDE DEF Sizes, B
      <3>. QED
        BY <1>4, <3>1
    <2>. QED
      BY <1>5, <2>3
  <1>8. \A y \in A : y = x \/ y \in B
    OBVIOUS
  <1>9. x \in S /\ Tops(A) = {}
    BY <1>5, <1>6
  <1>10. CASE B = {}
    <2>1. \A y \in A : value[y] <= value[x]
      BY <1>8, <1>9, <1>10
    <2>. QED
      BY <1>6, <1>9, <2>1
  <1>11. CASE B # {}
    <2>1. PICK z \in B : \A y \in B : value[y] <= value[z]
      BY <1>7, <1>11
    <2>2. z \in A /\ value[z] \in Int /\ value[x] \in Int /\ \A y \in A : value[y] \in Int
      BY <1>5, <1>7, <1>9, <2>1
    <2>3. CASE value[x] <= value[z]
      <3>1. \A y \in A : value[y] <= value[z]
        BY <1>8, <2>1, <2>3
      <3>. QED
        BY <1>9, <2>2, <3>1
    <2>4. CASE value[z] < value[x]
      <3>1. \A y \in A : value[y] <= value[x]
        BY <1>8, <2>1, <2>2, <2>4
      <3>. QED
        BY <1>6, <1>9, <3>1
    <2>. QED
      BY <2>2, <2>3, <2>4
  <1>. QED
    BY <1>10, <1>11

(***************************************************************************)
(* The resolver has one answer.                                            *)
(***************************************************************************)

\* There is one answer, and if it is a route, its provider is one that can serve.
Sound(results, can) ==
    \E r : results = {r} /\ (r.type = "Route" => r.provider \in can)

LEMMA ErrorIsSound ==
    ASSUME NEW e, NEW can
    PROVE  Sound({Error(e)}, can)
  <1>1. Error(e).type # "Route"
    BY DEF Error
  <1>. QED
    BY <1>1, Zenon DEF Sound

LEMMA RouteIsSound ==
    ASSUME NEW m, NEW can, m.provider \in can
    PROVE  Sound({Route(m)}, can)
  <1>1. Route(m).provider = m.provider
    BY DEF Route
  <1>. QED
    BY <1>1, Zenon DEF Sound

LEMMA OneFirst ==
    ASSUME NEW S \in SUBSET Nat, S # {}
    PROVE  \E p \in S : First(S) = {p}
  <1>1. PICK p \in S : \A q \in S : p <= q
    BY LeastNumber
  <1>2. \A q \in S : q <= p => q = p
    BY <1>1
  <1>3. First(S) = {p}
    BY <1>1, <1>2 DEF First
  <1>. QED
    BY <1>3

\* An id or an alias is of one provider (FindProvider).
LEMMA OneProvider ==
    ASSUME NEW name, FindProvider(name) # {}
    PROVE  \E p \in Provider : FindProvider(name) = {p}
  <1>1. CASE name \in Provider
    BY <1>1 DEF FindProvider
  <1>2. CASE name \notin Provider
    <2>1. PICK p \in Provider : name \in Aliases[p]
      BY <1>2 DEF FindProvider
    <2>2. \A q \in Provider : name \in Aliases[q] => q = p
      BY <2>1, CatalogAssumption
    <2>. QED
      BY <1>2, <2>1, <2>2 DEF FindProvider
  <1>. QED
    BY <1>1, <1>2

LEMMA ModelFields ==
    ASSUME NEW m \in Model
    PROVE  m.provider \in Provider /\ m.id \in Nat /\ m.api \in Nat
  <1>1. m \in [provider : Provider, id : Nat, aliases : SUBSET Nat, api : Nat]
    BY CatalogAssumption, Zenon
  <1>. QED
    BY <1>1

\* A name is of at most one model of a provider (CatalogProvider::model).
LEMMA OneModel ==
    ASSUME NEW p \in Provider, NEW name, ModelsNamed(p, name) # {}
    PROVE  \E m \in Model : m.provider = p /\ ModelsNamed(p, name) = {m}
  <1>. DEFINE models == {m \in Model : m.provider = p}
              byId == {m \in models : m.id = name}
              byAlias == {m \in models : name \in m.aliases}
              byApi == {m \in models : m.api = name}
  <1>1. \A m, n \in models : m # n => m.id # n.id /\ m.aliases \cap n.aliases = {}
    BY CatalogAssumption
  <1>2. ASSUME NEW S, S \subseteq models, S # {}, \A m, n \in S : m = n
        PROVE  \E m \in Model : m.provider = p /\ S = {m}
    <2>1. PICK m \in S : TRUE
      BY <1>2
    <2>. QED
      BY <1>2, <2>1
  <1>3. CASE byId # {}
    <2>1. \A m, n \in byId : m = n
      BY <1>1
    <2>2. \E m \in Model : m.provider = p /\ byId = {m}
      BY <1>2, <1>3, <2>1
    <2>. QED
      BY <1>3, <2>2 DEF ModelsNamed
  <1>4. CASE byId = {} /\ byAlias # {}
    <2>1. \A m, n \in byAlias : m = n
      BY <1>1
    <2>2. \E m \in Model : m.provider = p /\ byAlias = {m}
      BY <1>2, <1>4, <2>1
    <2>. QED
      BY <1>4, <2>2 DEF ModelsNamed
  <1>5. CASE byId = {} /\ byAlias = {}
    <2>. DEFINE least == {m \in byApi : \A n \in byApi : m.id <= n.id}
    <2>1. ModelsNamed(p, name) = least
      BY <1>5 DEF ModelsNamed
    <2>2. \A m, n \in least : m.id = n.id
      BY ModelFields
    <2>3. \A m, n \in least : m = n
      BY <1>1, <2>2
    <2>4. \E m \in Model : m.provider = p /\ least = {m}
      BY <1>2, <2>1, <2>3
    <2>. QED
      BY <2>1, <2>4
  <1>. QED
    BY <1>3, <1>4, <1>5

\* An explicit selector of a provider has one answer.
LEMMA ExplicitIsSound ==
    ASSUME NEW p \in Provider, NEW name
    PROVE  Sound(ResolveExplicit(p, name), {p})
  <1>. DEFINE found == {Route(m) : m \in ModelsNamed(p, name)}
  <1>1. CASE ModelsNamed(p, name) # {}
    <2>1. PICK m \in Model : m.provider = p /\ ModelsNamed(p, name) = {m}
      BY <1>1, OneModel
    <2>2. found = {Route(m)}
      BY <2>1
    <2>3. ResolveExplicit(p, name) = {Route(m)}
      BY <2>2 DEF ResolveExplicit, OrError
    <2>. QED
      BY <2>1, <2>3, RouteIsSound
  <1>2. CASE ModelsNamed(p, name) = {}
    <2>. DEFINE named == [provider |-> p, id |-> name]
    <2>1. ResolveExplicit(p, name) \in {{Route(named)}, {Error("ModelNotFound")}}
      BY <1>2 DEF ResolveExplicit, OrError
    <2>2. named.provider \in {p}
      OBVIOUS
    <2>3. Sound({Route(named)}, {p})
      BY <2>2, RouteIsSound
    <2>. QED
      BY <2>1, <2>3, ErrorIsSound
  <1>. QED
    BY <1>1, <1>2

\* So has its default, because a default names one of the provider's models.
LEMMA DefaultIsSound ==
    ASSUME NEW p \in Provider
    PROVE  Sound(ResolveProviderDefault(p), {p})
  <1>. DEFINE found == ModelsNamed(p, DefaultModel[p])
              routes == {Route(m) : m \in found}
  <1>1. CASE DefaultModel[p] # NoName /\ found # {}
    <2>1. PICK m \in Model : m.provider = p /\ found = {m}
      BY <1>1, OneModel
    <2>2. routes = {Route(m)}
      BY <2>1
    <2>3. ResolveProviderDefault(p) = {Route(m)}
      BY <1>1, <2>2 DEF ResolveProviderDefault, OrError
    <2>. QED
      BY <2>1, <2>3, RouteIsSound
  <1>2. CASE DefaultModel[p] = NoName \/ found = {}
    <2>1. ResolveProviderDefault(p) \in {{Error("ProviderHasNoDefault")}, {Error("ModelNotFound")}}
      BY <1>2 DEF ResolveProviderDefault, OrError
    <2>. QED
      BY <2>1, ErrorIsSound
  <1>. QED
    BY <1>1, <1>2

\* A provider is served by itself or by one that stands in for it (serving_provider).
LEMMA OneServes ==
    ASSUME NEW enabled \in SUBSET Provider, NEW available \in SUBSET enabled, NEW p \in Provider,
           ServingProvider(p, enabled, available) # {}
    PROVE  \E q \in available : ServingProvider(p, enabled, available) = {q}
  <1>1. CASE p \in available
    BY <1>1 DEF ServingProvider
  <1>2. CASE p \notin available
    <2>. DEFINE candidates == StandIns(p, enabled, available)
    <2>1. candidates \in SUBSET Nat /\ candidates \subseteq available
      BY CatalogAssumption DEF StandIns
    <2>2. First(candidates) # {}
      BY <1>2 DEF ServingProvider
    <2>3. candidates # {}
      BY <2>2 DEF First
    <2>4. \E q \in candidates : First(candidates) = {q}
      <3>. HIDE DEF candidates
      <3>. QED
        BY <2>1, <2>3, OneFirst
    <2>. QED
      BY <1>2, <2>1, <2>4 DEF ServingProvider
  <1>. QED
    BY <1>1, <1>2

LEMMA AddressedIsSound ==
    ASSUME NEW enabled \in SUBSET Provider, NEW available \in SUBSET enabled, NEW name, NEW routes,
           \A p \in Provider : Sound(routes[p], {p})
    PROVE  Sound(Addressed(name, enabled, available, routes), available)
  <1>. DEFINE found == FindProvider(name)
              serving == UNION {ServingProvider(p, enabled, available) : p \in found}
              all == UNION {routes[p] : p \in serving}
  <1>1. CASE found = {}
    BY <1>1, ErrorIsSound DEF Addressed
  <1>2. CASE found # {} /\ found \cap enabled = {}
    BY <1>2, ErrorIsSound DEF Addressed
  <1>3. CASE found # {} /\ found \cap enabled # {}
    <2>1. PICK p \in Provider : found = {p}
      BY <1>3, OneProvider
    <2>2. serving = ServingProvider(p, enabled, available)
      BY <2>1
    <2>3. Addressed(name, enabled, available, routes) = OrError(all, "ProviderUnavailable")
      BY <1>3 DEF Addressed
    <2>4. CASE serving = {}
      <3>1. all = {}
        BY <2>4
      <3>. QED
        BY <2>3, <3>1, ErrorIsSound DEF OrError
    <2>5. CASE serving # {}
      <3>1. PICK q \in available : serving = {q}
        BY <2>2, <2>5, OneServes
      <3>2. all = routes[q] /\ q \in Provider
        BY <3>1
      <3>3. PICK r : routes[q] = {r} /\ (r.type = "Route" => r.provider \in {q})
        BY <3>2 DEF Sound
      <3>4. OrError(all, "ProviderUnavailable") = {r}
        BY <3>2, <3>3 DEF OrError
      <3>. QED
        BY <2>3, <3>1, <3>3, <3>4 DEF Sound
    <2>. QED
      BY <2>4, <2>5
  <1>. QED
    BY <1>1, <1>2, <1>3

\* Of finitely many providers one is best by priority, then by id.
LEMMA OneBestProvider ==
    ASSUME NEW S \in SUBSET Provider, S # {}
    PROVE  \E p \in S : First({b \in S : \A q \in S : Priority[q] <= Priority[b]}) = {p}
  <1>. DEFINE best == {b \in S : \A q \in S : Priority[q] <= Priority[b]}
              rank == [q \in S |-> Priority[q]]
  <1>1. IsFiniteSet(S) /\ rank \in [S -> Int]
    BY FiniteCatalog, FS_Subset, CatalogAssumption
  <1>2. \E b \in S : \A q \in S : rank[q] <= rank[b]
    <2>. HIDE DEF rank
    <2>. QED
      BY <1>1, GreatestOfFinite
  <1>3. best # {} /\ best \in SUBSET Nat /\ best \subseteq S
    BY <1>2, CatalogAssumption
  <1>4. \E p \in best : First(best) = {p}
    <2>. HIDE DEF best
    <2>. QED
      BY <1>3, OneFirst
  <1>. QED
    BY <1>3, <1>4

LEMMA ResolveDefaultIsSound ==
    ASSUME NEW enabled \in SUBSET Provider, NEW available \in SUBSET enabled
    PROVE  Sound(ResolveDefault(enabled, available), available)
  <1>. DEFINE ranked == {p \in enabled \cap available : DefaultModel[p] # NoName}
              best == {p \in ranked : \A q \in ranked : Priority[q] <= Priority[p]}
              all == UNION {ResolveProviderDefault(p) : p \in First(best)}
  <1>1. ResolveDefault(enabled, available) = OrError(all, "NoDefaultModel")
    BY DEF ResolveDefault
  <1>2. CASE ranked = {}
    <2>1. First(best) = {}
      BY <1>2 DEF First
    <2>2. all = {}
      BY <2>1
    <2>. QED
      BY <1>1, <2>2, ErrorIsSound DEF OrError
  <1>3. CASE ranked # {}
    <2>1. PICK p \in ranked : First(best) = {p}
      BY <1>3, OneBestProvider
    <2>2. all = ResolveProviderDefault(p) /\ p \in available /\ p \in Provider
      BY <2>1
    <2>3. PICK r : ResolveProviderDefault(p) = {r} /\ (r.type = "Route" => r.provider \in {p})
      BY <2>2, DefaultIsSound DEF Sound
    <2>4. OrError(all, "NoDefaultModel") = {r}
      BY <2>2, <2>3 DEF OrError
    <2>. QED
      BY <1>1, <2>2, <2>3, <2>4 DEF Sound
  <1>. QED
    BY <1>2, <1>3

\* The order of the matches (models_matching) has one best match.
LEMMA OneBestMatch ==
    ASSUME NEW name, NEW S \in SUBSET Model, S # {},
           \A m \in S : m.id = name \/ name \in m.aliases
    PROVE  \E m \in S : {b \in S : \A n \in S : ~Better(n, b, name)} = {m}
  <1>. DEFINE exact == {m \in S : m.id = name}
              top == IF exact # {} THEN exact ELSE S
              providers == {m.provider : m \in top}
  <1>1. providers # {} /\ providers \in SUBSET Provider
    BY ModelFields
  <1>2. PICK p \in providers :
           First({b \in providers : \A q \in providers : Priority[q] <= Priority[b]}) = {p}
    <2>. HIDE DEF providers
    <2>. QED
      BY <1>1, OneBestProvider
  <1>3. PICK m \in top : m.provider = p
    BY <1>2
  <1>4. \A n \in top : n.provider = m.provider => n = m
    <2>1. \A a, b \in Model : a # b /\ a.provider = b.provider =>
             a.id # b.id /\ a.id \notin b.aliases /\ a.aliases \cap b.aliases = {}
      BY CatalogAssumption
    <2>2. SUFFICES ASSUME NEW n \in top, n.provider = m.provider, n # m PROVE FALSE
      OBVIOUS
    <2>3. n \in Model /\ m \in Model /\ n \in S /\ m \in S
      BY <1>3
    <2>4. n.id # m.id /\ n.id \notin m.aliases /\ m.id \notin n.aliases
          /\ n.aliases \cap m.aliases = {}
      BY <2>1, <2>2, <2>3
    <2>5. (m.id = name \/ name \in m.aliases) /\ (n.id = name \/ name \in n.aliases)
      BY <2>3
    <2>. QED
      BY <2>4, <2>5
  <1>5. \A q \in providers :
           /\ q \in Nat /\ p \in Nat /\ Priority[q] \in Int /\ Priority[p] \in Int
           /\ Priority[q] < Priority[p] \/ (Priority[q] = Priority[p] /\ p <= q)
    <2>1. \A q \in providers : q \in Nat /\ Priority[q] \in Int
      BY <1>1, CatalogAssumption
    <2>2. \A q \in providers : Priority[q] <= Priority[p]
      BY <1>2 DEF First
    <2>3. \A q \in providers : Priority[q] = Priority[p] => p <= q
      <3>. SUFFICES ASSUME NEW q \in providers, Priority[q] = Priority[p] PROVE p <= q
        OBVIOUS
      <3>. DEFINE tied == {b \in providers : \A o \in providers : Priority[o] <= Priority[b]}
      <3>1. q \in tied /\ First(tied) = {p}
        BY <1>2, <2>2
      <3>. QED
        BY <3>1 DEF First
    <2>. QED
      BY <2>1, <2>2, <2>3
  <1>6. ASSUME NEW n \in S PROVE ~Better(n, m, name)
    <2>1. CASE n \in top
      <3>1. n.provider \in providers /\ (n.id = name) = (m.id = name)
        BY <1>3, <2>1
      <3>. HIDE DEF providers, top
      <3>2. Priority[n.provider] < Priority[p] \/ (Priority[n.provider] = Priority[p] /\ p <= n.provider)
        BY <1>5, <3>1
      <3>. QED
        BY <1>3, <1>5, <3>1, <3>2 DEF Better
    <2>2. CASE n \notin top
      <3>1. m.id = name /\ n.id # name
        BY <1>3, <1>6, <2>2
      <3>. QED
        BY <3>1 DEF Better
    <2>. QED
      BY <2>1, <2>2
  <1>7. ASSUME NEW b \in S, b # m PROVE Better(m, b, name)
    <2>1. CASE b \in top
      <3>1. b.provider \in providers /\ (b.id = name) = (m.id = name) /\ b.provider # p
        BY <1>3, <1>4, <1>7, <2>1
      <3>. HIDE DEF providers, top
      <3>. QED
        BY <1>3, <1>5, <3>1 DEF Better
    <2>2. CASE b \notin top
      <3>1. m.id = name /\ b.id # name
        BY <1>3, <1>7, <2>2
      <3>. QED
        BY <3>1 DEF Better
    <2>. QED
      BY <2>1, <2>2
  <1>8. m \in S
    BY <1>3
  <1>. QED
    <2>. HIDE DEF top
    <2>. QED
      BY <1>6, <1>7, <1>8

LEMMA BareIsSound ==
    ASSUME NEW enabled \in SUBSET Provider, NEW available \in SUBSET enabled, NEW name
    PROVE  Sound(ResolveBare(name, enabled, available), available)
  <1>. DEFINE matches == {m \in Model : /\ m.id = name \/ name \in m.aliases
                                        /\ m.provider \in enabled \cap available}
              best == {m \in matches : \A n \in matches : ~Better(n, m, name)}
              all == {Route(m) : m \in best}
  <1>1. ResolveBare(name, enabled, available) = OrError(all, "ModelNotFound")
    BY DEF ResolveBare
  <1>2. CASE matches = {}
    <2>1. all = {}
      BY <1>2
    <2>. QED
      BY <1>1, <2>1, ErrorIsSound DEF OrError
  <1>3. CASE matches # {}
    <2>1. matches \in SUBSET Model /\ \A m \in matches : m.id = name \/ name \in m.aliases
      OBVIOUS
    <2>2. PICK m \in matches : best = {m}
      <3>1. \E m \in matches : {b \in matches : \A n \in matches : ~Better(n, b, name)} = {m}
        <4>. HIDE DEF matches
        <4>. QED
          BY <1>3, <2>1, OneBestMatch
      <3>. QED
        BY <3>1
    <2>3. all = {Route(m)} /\ m.provider \in available
      BY <2>2
    <2>4. OrError(all, "ModelNotFound") = {Route(m)}
      BY <2>3 DEF OrError
    <2>. QED
      BY <1>1, <2>3, <2>4, RouteIsSound
  <1>. QED
    BY <1>2, <1>3

\* However a catalog names and ranks its models, a selector has one answer
\* (CatalogResolver::resolve), and a route is to a provider that can serve.
THEOREM ResolverAnswersOnce ==
    ASSUME NEW enabled \in SUBSET Provider, NEW available \in SUBSET enabled, NEW s \in Selector
    PROVE  Sound(Resolve(s, enabled, available), available)
  <1>. DEFINE explicit == [p \in Provider |-> ResolveExplicit(p, s.model)]
              defaults == [p \in Provider |-> ResolveProviderDefault(p)]
  <1>1. Sound(Addressed(s.provider, enabled, available, explicit), available)
    <2>1. \A p \in Provider : Sound(explicit[p], {p})
      BY ExplicitIsSound
    <2>. QED
      BY <2>1, AddressedIsSound
  <1>2. Sound(Addressed(s.model, enabled, available, defaults), available)
    <2>1. \A p \in Provider : Sound(defaults[p], {p})
      BY DefaultIsSound
    <2>. QED
      BY <2>1, AddressedIsSound
  <1>. QED
    BY <1>1, <1>2, BareIsSound, ResolveDefaultIsSound DEF Resolve

(***************************************************************************)
(* The inductive invariant of the build.                                   *)
(***************************************************************************)

Wanted == config.enabled \cap config.chosen

\* The providers that build_ready looks up, and those it has still to finish.
Asked == IF config.probe THEN Wanted \ config.explicit ELSE {}
Unasked == IF step = "Start" THEN Asked ELSE IF step = "Asking" THEN todo ELSE {}

\* The providers that the build's loop has still to reach.
Unbuilt == IF step = "Building" THEN todo ELSE {}

BuildTypes ==
    /\ config \in Configurations
    /\ selection \in SUBSET Nat
    /\ step \in {"Start", "Asking", "Checking", "Building", "Built", "Failed"}
    /\ todo \in SUBSET Provider
    /\ answers \in [Provider -> Seq(Answers)]
    /\ reported \in CredentialErrors \cup {"none"}
    /\ resolved \in SUBSET Provider
    /\ credentialIssues \in Seq(Provider \X CredentialErrors)
    /\ ready \in Seq(Provider) /\ issues \in Seq(Provider)
    /\ adapters \in SUBSET Provider /\ builtinDispatch \in SUBSET Provider

\* What a chain would report after these answers.
Says(chain, error) ==
    \/ chain = << >> /\ error = "none"
    \/ /\ chain # << >> /\ error = "NotConfigured"
       /\ \A i \in DOMAIN chain : chain[i] = "NotConfigured"
    \/ Tells(chain, error)

\* The lookups so far: catalog order, one unfinished chain, and its report.
LookupInv ==
    /\ step = "Asking" => config.probe
    /\ Unasked \subseteq Asked
    /\ \A p \in Asked \ Unasked, q \in Unasked : p < q
    /\ \A p \in Provider : p \notin Asked \/ p \in Unasked \ First(Unasked) => answers[p] = << >>
    /\ \A p \in Unasked : "Ok" \notin Range(answers[p])
    /\ \A p \in First(Unasked) : Says(answers[p], reported)
    /\ step = "Start" => reported = "none" /\ \A p \in Provider : answers[p] = << >>

\* What the lookups make of the selection.
SelectionInv ==
    /\ step \in {"Start", "Asking"} \/ ~config.probe => selection = config.chosen
    /\ step \notin {"Start", "Failed"} /\ config.probe =>
          resolved = (Wanted \cap config.explicit) \cup HasCredentials
    /\ step \notin {"Start", "Asking", "Failed"} /\ config.probe => selection = resolved

\* The credential issues are those of the chains that are finished.
Unusables ==
    {p \in Asked \ Unasked : /\ p \notin HasCredentials
                             /\ \E e \in Answers : Tells(answers[p], e) /\ ~IsNotConfigured(e)}
IssuesInv ==
    /\ InCatalogOrder(Providers(credentialIssues), Unusables)
    /\ \A n \in DOMAIN credentialIssues :
          Tells(answers[credentialIssues[n][1]], credentialIssues[n][2])

\* The loop so far: what it reached is served or explained.
LoopInv ==
    IF step \in {"Building", "Built"}
    THEN /\ \A p \in Provider \ Unbuilt, q \in Unbuilt : p < q
         /\ InCatalogOrder(ready, (config.enabled \cap selection) \ Unbuilt)
         /\ InCatalogOrder(issues, Range(ready) \ adapters)
         /\ adapters \subseteq Range(ready)
         /\ builtinDispatch \cap config.explicit = {}
    ELSE ready = << >> /\ issues = << >> /\ adapters = {} /\ builtinDispatch = {}

BuildInv == BuildTypes /\ LookupInv /\ SelectionInv /\ IssuesInv /\ LoopInv

----------------------------------------------------------------------------

(***************************************************************************)
(* Sequences in catalog order, and what a chain says.                      *)
(***************************************************************************)

LEMMA EmptyInOrder == InCatalogOrder(<< >>, {})
  BY DEF InCatalogOrder, Range

\* A provider after all the others extends the order.
LEMMA AppendInOrder ==
    ASSUME NEW seq \in Seq(Nat), NEW S, InCatalogOrder(seq, S), NEW x \in Nat,
           \A p \in S : p < x
    PROVE  InCatalogOrder(Append(seq, x), S \cup {x})
  <1>. DEFINE new == Append(seq, x)
  <1>1. /\ DOMAIN seq = 1..Len(seq) /\ DOMAIN new = 1..(Len(seq) + 1) /\ Len(seq) \in Nat
        /\ new[Len(seq) + 1] = x
        /\ \A i \in 1..Len(seq) : new[i] = seq[i] /\ seq[i] \in Nat
    OBVIOUS
  <1>2. \A i \in 1..Len(seq) : seq[i] \in S
    BY <1>1 DEF InCatalogOrder, Range
  <1>. HIDE DEF new
  <1>3. Range(new) = S \cup {x}
    BY <1>1 DEF InCatalogOrder, Range
  <1>4. \A i, j \in DOMAIN new : i < j => new[i] < new[j]
    <2>. SUFFICES ASSUME NEW i \in DOMAIN new, NEW j \in DOMAIN new, i < j PROVE new[i] < new[j]
      OBVIOUS
    <2>1. CASE j = Len(seq) + 1
      BY <1>1, <1>2, <2>1
    <2>2. CASE j # Len(seq) + 1
      <3>1. i \in 1..Len(seq) /\ j \in 1..Len(seq)
        BY <1>1, <2>2
      <3>2. seq[i] < seq[j]
        BY <1>1, <3>1 DEF InCatalogOrder
      <3>. QED
        BY <1>1, <3>1, <3>2
    <2>. QED
      BY <2>1, <2>2
  <1>. QED
    BY <1>3, <1>4 DEF InCatalogOrder, new

LEMMA TellsOnce ==
    ASSUME NEW chain \in Seq(Answers), NEW e, NEW f, Tells(chain, e), Tells(chain, f)
    PROVE  e = f
  <1>1. PICK i \in DOMAIN chain : chain[i] = e /\ \A k \in 1..(i - 1) : chain[k] = "NotConfigured"
    BY DEF Tells
  <1>2. PICK j \in DOMAIN chain : chain[j] = f /\ \A k \in 1..(j - 1) : chain[k] = "NotConfigured"
    BY DEF Tells
  <1>3. i \in Nat /\ j \in Nat /\ i >= 1 /\ j >= 1
    OBVIOUS
  <1>4. ~(i < j)
    BY <1>1, <1>2, <1>3 DEF Tells
  <1>5. ~(j < i)
    BY <1>1, <1>2, <1>3 DEF Tells
  <1>. QED
    BY <1>1, <1>2, <1>3, <1>4, <1>5

\* A further answer does not change the first that told something.
LEMMA TellsStays ==
    ASSUME NEW chain \in Seq(Answers), NEW e, Tells(chain, e), NEW a \in Answers
    PROVE  Tells(Append(chain, a), e)
  <1>1. PICK i \in DOMAIN chain : chain[i] = e /\ \A k \in 1..(i - 1) : chain[k] = "NotConfigured"
    BY DEF Tells
  <1>2. i \in DOMAIN Append(chain, a) /\ \A k \in 1..i : Append(chain, a)[k] = chain[k]
    OBVIOUS
  <1>3. i \in 1..i /\ \A k \in 1..(i - 1) : k \in 1..i
    OBVIOUS
  <1>. QED
    BY <1>1, <1>2, <1>3 DEF Tells

\* Of a further failure the chain reports what it says then (ChainedCredentials).
LEMMA ReportSays ==
    ASSUME NEW chain \in Seq(Answers), NEW error, Says(chain, error), NEW a \in CredentialErrors
    PROVE  Says(Append(chain, a), Reported(error, a))
  <1>. DEFINE new == Append(chain, a)
  <1>1. /\ DOMAIN new = 1..(Len(chain) + 1) /\ new[Len(chain) + 1] = a /\ new # << >>
        /\ \A i \in 1..Len(chain) : new[i] = chain[i]
        /\ DOMAIN chain = 1..Len(chain) /\ Len(chain) \in Nat
    OBVIOUS
  <1>2. CASE Tells(chain, error) /\ error # "none"
    <2>1. Reported(error, a) = error
      BY <1>2 DEF Reported, Tells
    <2>2. Tells(new, error)
      BY <1>2, TellsStays DEF Answers
    <2>. QED
      BY <2>1, <2>2 DEF Says
  <1>3. CASE ~(Tells(chain, error) /\ error # "none")
    <2>1. error \in {"none", "NotConfigured"} /\ \A i \in DOMAIN chain : chain[i] = "NotConfigured"
      <3>1. ~Tells(chain, "none")
        BY DEF Tells, Answers, CredentialErrors
      <3>2. chain = << >> => \A i \in DOMAIN chain : chain[i] = "NotConfigured"
        OBVIOUS
      <3>. QED
        BY <1>3, <3>1, <3>2 DEF Says
    <2>2. Reported(error, a) = a
      BY <2>1 DEF Reported
    <2>. HIDE DEF new
    <2>3. CASE a = "NotConfigured"
      <3>1. \A i \in DOMAIN new : new[i] = "NotConfigured"
        BY <1>1, <2>1, <2>3
      <3>. QED
        BY <1>1, <2>2, <2>3, <3>1 DEF Says, new
    <2>4. CASE a # "NotConfigured"
      <3>1. Len(chain) + 1 \in DOMAIN new /\ (Len(chain) + 1) - 1 = Len(chain)
        BY <1>1
      <3>2. \A j \in 1..Len(chain) : new[j] = "NotConfigured"
        BY <1>1, <2>1
      <3>3. Tells(new, a)
        BY <1>1, <2>4, <3>1, <3>2 DEF Tells
      <3>. QED
        BY <2>2, <3>3 DEF Says, new
    <2>. QED
      BY <2>3, <2>4
  <1>. QED
    BY <1>2, <1>3

LEMMA AppendRange ==
    ASSUME NEW T, NEW seq \in Seq(T), NEW x
    PROVE  Range(Append(seq, x)) = Range(seq) \cup {x}
  <1>1. /\ DOMAIN seq = 1..Len(seq) /\ DOMAIN Append(seq, x) = 1..(Len(seq) + 1) /\ Len(seq) \in Nat
        /\ Append(seq, x)[Len(seq) + 1] = x
        /\ \A i \in 1..Len(seq) : Append(seq, x)[i] = seq[i]
    OBVIOUS
  <1>. QED
    BY <1>1 DEF Range

\* The providers of a list of named errors that grows.
LEMMA ProvidersGrow ==
    ASSUME NEW named \in Seq(Provider \X CredentialErrors), NEW p \in Provider, NEW e
    PROVE  /\ Providers(named) \in Seq(Nat)
           /\ Providers(Append(named, <<p, e>>)) = Append(Providers(named), p)
  <1>. DEFINE new == Append(named, <<p, e>>)
  <1>1. /\ DOMAIN named = 1..Len(named) /\ DOMAIN new = 1..(Len(named) + 1) /\ Len(named) \in Nat
        /\ new[Len(named) + 1] = <<p, e>>
        /\ \A i \in 1..Len(named) : new[i] = named[i] /\ named[i] \in Provider \X CredentialErrors
    OBVIOUS
  <1>. HIDE DEF new
  <1>2. \A i \in 1..Len(named) : named[i][1] \in Nat
    BY <1>1, CatalogAssumption
  <1>3. Providers(named) \in Seq(Nat) /\ Len(Providers(named)) = Len(named)
    BY <1>1, <1>2 DEF Providers
  <1>. DEFINE list == Providers(named)
  <1>4. \A n \in 1..Len(named) : list[n] = new[n][1]
    BY <1>1 DEF Providers
  <1>5. Providers(new) = [n \in 1..(Len(named) + 1) |-> new[n][1]] /\ new[Len(named) + 1][1] = p
    BY <1>1 DEF Providers
  <1>6. /\ Append(list, p) \in [1..(Len(named) + 1) -> Nat]
        /\ Append(list, p)[Len(named) + 1] = p
        /\ \A n \in 1..Len(named) : Append(list, p)[n] = list[n]
    <2>1. p \in Nat
      BY CatalogAssumption
    <2>2. list \in Seq(Nat) /\ Len(list) = Len(named)
      BY <1>3
    <2>. HIDE DEF list
    <2>3. /\ Append(list, p) \in Seq(Nat) /\ Len(Append(list, p)) = Len(list) + 1
          /\ Append(list, p)[Len(list) + 1] = p
      BY <2>1, <2>2
    <2>4. \A n \in 1..Len(list) : Append(list, p)[n] = list[n]
      BY <2>1, <2>2
    <2>. DEFINE longer == Append(list, p)
    <2>5. longer \in [1..(Len(list) + 1) -> Nat]
      <3>1. longer \in Seq(Nat) /\ Len(longer) = Len(list) + 1
        BY <2>3
      <3>. HIDE DEF longer
      <3>2. longer \in [1..Len(longer) -> Nat]
        BY <3>1
      <3>. QED
        BY <3>1, <3>2
    <2>. QED
      BY <2>2, <2>3, <2>4, <2>5
  <1>7. Providers(new) = Append(list, p)
    <2>1. \A n \in 1..(Len(named) + 1) : Append(list, p)[n] = new[n][1]
      <3>. SUFFICES ASSUME NEW n \in 1..(Len(named) + 1) PROVE Append(list, p)[n] = new[n][1]
        OBVIOUS
      <3>1. n = Len(named) + 1 \/ n \in 1..Len(named)
        BY <1>1
      <3>. HIDE DEF list
      <3>. QED
        BY <1>4, <1>5, <1>6, <3>1
    <2>. HIDE DEF list
    <2>. QED
      BY <1>5, <1>6, <2>1
  <1>. QED
    BY <1>3, <1>7 DEF new

----------------------------------------------------------------------------

(***************************************************************************)
(* The invariant is inductive.                                             *)
(***************************************************************************)

LEMMA ConfigFields ==
    ASSUME config \in Configurations
    PROVE  /\ config.catalog \in BOOLEAN /\ config.probe \in BOOLEAN /\ config.http \in BOOLEAN
           /\ config.enabled \in SUBSET Provider
           /\ config.explicit \in SUBSET Nat /\ config.chosen \in SUBSET Nat
  BY BuildAssumption

LEMMA FirstComesFirst ==
    ASSUME NEW S \in SUBSET Provider, NEW p \in First(S)
    PROVE  /\ p \in S /\ p \in Nat /\ First(S) = {p}
           /\ \A q \in S \ {p} : q \in Nat /\ p < q
  <1>1. S \in SUBSET Nat
    BY CatalogAssumption
  <1>2. p \in S /\ \A q \in S : p <= q
    BY DEF First
  <1>3. \A q \in S : q <= p => q = p
    BY <1>1, <1>2
  <1>4. \A q \in S \ {p} : q \in Nat /\ p < q
    BY <1>1, <1>2, <1>3
  <1>5. First(S) = {p}
    BY <1>2, <1>3 DEF First
  <1>. QED
    BY <1>1, <1>2, <1>4, <1>5

LEMMA InitBuild == Init => BuildInv
  <1>. SUFFICES ASSUME Init PROVE BuildInv
    OBVIOUS
  <1>. USE DEF Init
  <1>1. config \in Configurations /\ config.chosen \in SUBSET Nat /\ Asked \subseteq Provider
    BY ConfigFields DEF Asked, Wanted
  <1>2. BuildTypes
    <2>1. << >> \in Seq(Answers) /\ << >> \in Seq(Provider) /\ << >> \in Seq(Provider \X CredentialErrors)
      OBVIOUS
    <2>. QED
      BY <1>1, <2>1 DEF BuildTypes
  <1>3. \A p \in Provider : answers[p] = << >> /\ Range(answers[p]) = {} /\ Says(answers[p], reported)
    BY DEF Range, Says
  <1>4. LookupInv
    BY <1>1, <1>3 DEF LookupInv, Unasked, First
  <1>5. SelectionInv /\ LoopInv
    BY DEF SelectionInv, LoopInv
  <1>6. IssuesInv
    <2>1. Unusables = {} /\ Providers(credentialIssues) = << >>
      BY DEF Unusables, Unasked, Providers
    <2>. QED
      BY <2>1, EmptyInOrder DEF IssuesInv
  <1>. QED
    BY <1>2, <1>4, <1>5, <1>6 DEF BuildInv

\* A step that changes no lookup leaves what was looked up and what it showed.
LEMMA LookupsStay ==
    ASSUME BuildInv, UNCHANGED <<config, answers, reported, credentialIssues>>,
           step' # "Start", step' = "Asking" => config.probe,
           \/ Unasked' = Unasked
           \/ Unasked' = {} /\ \A p \in Provider : answers[p] = << >>
    PROVE  LookupInv' /\ IssuesInv' /\ HasCredentials' = HasCredentials /\ Asked' = Asked
           /\ Wanted' = Wanted
  <1>1. HasCredentials' = HasCredentials /\ Asked' = Asked /\ Wanted' = Wanted
    BY DEF HasCredentials, Asked, Wanted
  <1>2. LookupInv'
    BY <1>1 DEF BuildInv, LookupInv, First
  <1>3. Unusables' = Unusables
    <2>1. CASE Unasked' = Unasked
      BY <1>1, <2>1 DEF Unusables
    <2>2. CASE Unasked' = {} /\ \A p \in Provider : answers[p] = << >>
      <3>1. \A p \in Asked, e \in Answers : ~Tells(answers[p], e)
        BY <2>2, ConfigFields DEF Tells, Asked, Wanted, BuildInv, BuildTypes
      <3>2. Unusables = {}
        BY <3>1 DEF Unusables
      <3>3. Unusables' = {}
        BY <1>1, <3>1 DEF Unusables
      <3>. QED
        BY <3>2, <3>3
    <2>. QED
      BY <2>1, <2>2
  <1>4. IssuesInv'
    BY <1>3 DEF BuildInv, IssuesInv, InCatalogOrder
  <1>. QED
    BY <1>1, <1>2, <1>4

LEMMA BuildTyped == BuildTypes /\ [Next]_vars => BuildTypes'
  <1>. SUFFICES ASSUME BuildTypes, [Next]_vars PROVE BuildTypes'
    OBVIOUS
  <1>. USE DEF BuildTypes
  <1>0. Provider \subseteq Nat /\ config.enabled \in SUBSET Provider /\ config.chosen \in SUBSET Nat
    BY CatalogAssumption, ConfigFields
  <1>1. CASE MissingCatalog \/ StartBuild \/ HttpClientFails \/ UnknownEnabledProvider \/ StartLoop \/ Finish
    BY <1>1 DEF MissingCatalog, StartBuild, HttpClientFails, UnknownEnabledProvider, StartLoop,
                Finish, Untouched
  <1>2. CASE StartReady
    BY <1>0, <1>2 DEF StartReady, Untouched
  <1>3. CASE Narrow
    BY <1>0, <1>3 DEF Narrow, Narrowed, Untouched
  <1>4. ASSUME NEW answer \in Answers, AskLink(answer) PROVE BuildTypes'
    <2>1. PICK p \in First(todo) :
             /\ answers' = [answers EXCEPT ![p] = Append(@, answer)]
             /\ ResolvedBy(p, answer) \/ NotResolvedBy(p, answer)
      BY <1>4 DEF AskLink
    <2>2. p \in Provider
      BY <2>1 DEF First
    <2>3. answers' \in [Provider -> Seq(Answers)]
      BY <2>1, <2>2
    <2>4. CASE ResolvedBy(p, answer)
      BY <1>4, <2>2, <2>3, <2>4 DEF ResolvedBy, AskLink, Untouched
    <2>5. CASE NotResolvedBy(p, answer)
      <3>1. Reported(reported, answer) \in CredentialErrors
        BY <2>5 DEF NotResolvedBy, Reported, Answers, CredentialErrors
      <3>. DEFINE pair == <<p, Reported(reported, answer)>>
      <3>2. pair \in Provider \X CredentialErrors
        BY <2>2, <3>1
      <3>3. Append(credentialIssues, pair) \in Seq(Provider \X CredentialErrors)
        <4>. HIDE DEF pair
        <4>. QED
          BY <3>2
      <3>4. /\ todo' \in SUBSET Provider /\ reported' \in CredentialErrors \cup {"none"}
            /\ resolved' = resolved /\ credentialIssues' \in Seq(Provider \X CredentialErrors)
        BY <2>5, <3>1, <3>3 DEF NotResolvedBy
      <3>. QED
        BY <1>4, <2>3, <3>4 DEF AskLink, Untouched
    <2>. QED
      BY <2>1, <2>4, <2>5
  <1>5. CASE Attempt
    <2>1. PICK p \in First(todo) : todo' = todo \ {p} /\ (Skip(p) \/ UseExplicit(p) \/ UseFactory(p))
      BY <1>5 DEF Attempt
    <2>2. p \in Provider
      BY <2>1 DEF First
    <2>3. Append(ready, p) \in Seq(Provider) /\ Append(issues, p) \in Seq(Provider)
      BY <2>2
    <2>4. ready' \in Seq(Provider) /\ issues' \in Seq(Provider) /\ adapters' \in SUBSET Provider
          /\ builtinDispatch' \in SUBSET Provider /\ todo' \in SUBSET Provider
      <3>1. CASE Skip(p)
        BY <2>1, <3>1 DEF Skip
      <3>2. CASE UseExplicit(p)
        BY <2>1, <2>2, <2>3, <3>2 DEF UseExplicit
      <3>3. CASE UseFactory(p)
        BY <2>1, <2>2, <2>3, <3>3 DEF UseFactory
      <3>. QED
        BY <2>1, <3>1, <3>2, <3>3
    <2>. QED
      BY <1>5, <2>4 DEF Attempt
  <1>6. CASE UNCHANGED vars
    BY <1>6 DEF vars
  <1>. QED
    BY <1>1, <1>2, <1>3, <1>4, <1>5, <1>6 DEF Next, Over

\* What the providers with issues are, is told by the chains that are finished.
LEMMA IssuesAreFinished ==
    ASSUME BuildInv, NEW n \in DOMAIN credentialIssues
    PROVE  credentialIssues[n][1] \in Unusables /\ credentialIssues[n][1] \in Asked \ Unasked
  <1>1. Providers(credentialIssues)[n] \in Range(Providers(credentialIssues))
    BY DEF Providers, Range
  <1>2. Providers(credentialIssues)[n] = credentialIssues[n][1]
    BY DEF Providers
  <1>3. Range(Providers(credentialIssues)) = Unusables
    BY DEF BuildInv, IssuesInv, InCatalogOrder
  <1>. QED
    BY <1>1, <1>2, <1>3 DEF Unusables

\* A chain that says no more than "not configured" or a missing secret is no issue.
LEMMA NotConfiguredIsNoIssue ==
    ASSUME NEW chain \in Seq(Answers), chain # << >>, NEW error, Says(chain, error),
           IsNotConfigured(error)
    PROVE  ~\E e \in Answers : Tells(chain, e) /\ ~IsNotConfigured(e)
  <1>. SUFFICES ASSUME NEW e \in Answers, Tells(chain, e), ~IsNotConfigured(e) PROVE FALSE
    OBVIOUS
  <1>1. CASE Tells(chain, error)
    BY <1>1, TellsOnce
  <1>2. CASE \A i \in DOMAIN chain : chain[i] = "NotConfigured"
    BY <1>2 DEF Tells
  <1>. QED
    BY <1>1, <1>2 DEF Says

LEMMA AskKeeps ==
    ASSUME BuildInv, NEW answer \in Answers, AskLink(answer)
    PROVE  LookupInv' /\ SelectionInv' /\ IssuesInv' /\ LoopInv'
  <1>1. PICK p \in First(todo) :
           /\ answers' = [answers EXCEPT ![p] = Append(@, answer)]
           /\ ResolvedBy(p, answer) \/ NotResolvedBy(p, answer)
    BY DEF AskLink
  <1>. DEFINE chain == answers[p]
  <1>2. /\ step = "Asking" /\ step' = "Asking" /\ Unasked = todo /\ Unasked' = todo'
        /\ UNCHANGED <<config, selection, ready, adapters, builtinDispatch, issues>>
        /\ Asked' = Asked /\ Wanted' = Wanted
        /\ todo \in SUBSET Provider /\ todo \subseteq Asked /\ config.probe
    BY DEF AskLink, Untouched, BuildInv, BuildTypes, LookupInv, Unasked, Asked, Wanted
  <1>3. /\ p \in todo /\ p \in Nat /\ First(todo) = {p} /\ p \in Provider /\ p \in Asked
        /\ \A q \in todo \ {p} : q \in Nat /\ p < q
    BY <1>1, <1>2, FirstComesFirst
  <1>4. /\ chain \in Seq(Answers) /\ Says(chain, reported) /\ "Ok" \notin Range(chain)
        /\ answers'[p] = Append(chain, answer) /\ Append(chain, answer) # << >>
        /\ Append(chain, answer) \in Seq(Answers)
        /\ \A q \in Provider \ {p} : answers'[q] = answers[q]
    <2>1. chain \in Seq(Answers) /\ answers'[p] = Append(chain, answer)
          /\ \A q \in Provider \ {p} : answers'[q] = answers[q]
      BY <1>1, <1>3 DEF BuildInv, BuildTypes
    <2>2. Append(chain, answer) # << >> /\ Append(chain, answer) \in Seq(Answers)
      BY <2>1
    <2>3. Says(chain, reported) /\ "Ok" \notin Range(chain)
      BY <1>2, <1>3 DEF BuildInv, LookupInv
    <2>. QED
      BY <2>1, <2>2, <2>3
  <1>5. Range(answers'[p]) = Range(chain) \cup {answer}
    BY <1>4, AppendRange
  <1>6. \A q \in todo \ {p} : answers[q] = << >> /\ answers'[q] = << >> /\ Range(answers'[q]) = {}
    BY <1>2, <1>3, <1>4 DEF BuildInv, LookupInv, Range
  <1>7. \A q \in Provider \ Asked : answers'[q] = << >>
    BY <1>2, <1>3, <1>4 DEF BuildInv, LookupInv
  <1>8. \A q \in Asked \ todo : q # p /\ answers'[q] = answers[q]
    BY <1>3, <1>4, ConfigFields DEF BuildInv, BuildTypes, Asked, Wanted
  <1>9. HasCredentials' = IF answer = "Ok" THEN HasCredentials \cup {p} ELSE HasCredentials
    <2>1. \A q \in Provider \ {p} : q \in HasCredentials' <=> q \in HasCredentials
      BY <1>4 DEF HasCredentials
    <2>2. p \in HasCredentials' <=> answer = "Ok"
      BY <1>3, <1>4, <1>5 DEF HasCredentials
    <2>3. p \notin HasCredentials
      BY <1>4 DEF HasCredentials
    <2>4. HasCredentials' \subseteq Provider /\ HasCredentials \subseteq Provider
      BY DEF HasCredentials
    <2>5. CASE answer = "Ok"
      BY <1>3, <2>1, <2>2, <2>4, <2>5
    <2>6. CASE answer # "Ok"
      <3>1. \A q : q \in HasCredentials' <=> q \in HasCredentials
        BY <2>1, <2>2, <2>3, <2>4, <2>6
      <3>2. HasCredentials' = HasCredentials
        BY <3>1
      <3>. QED
        BY <2>6, <3>2
    <2>. QED
      BY <2>5, <2>6
  <1>10. LoopInv'
    BY <1>2 DEF BuildInv, LoopInv
  <1>11. SelectionInv'
    <2>1. resolved = (Wanted \cap config.explicit) \cup HasCredentials
      BY <1>2 DEF BuildInv, SelectionInv
    <2>2. resolved' = IF answer = "Ok" THEN resolved \cup {p} ELSE resolved
      BY <1>1 DEF ResolvedBy, NotResolvedBy
    <2>3. resolved' = (Wanted' \cap config'.explicit) \cup HasCredentials'
      BY <1>2, <1>9, <2>1, <2>2
    <2>. QED
      BY <1>2, <2>3 DEF BuildInv, SelectionInv
  \* The next link of the same chain.
  <1>12. ASSUME answer # "Ok", todo' = todo, reported' = Reported(reported, answer),
                UNCHANGED credentialIssues
         PROVE  LookupInv' /\ IssuesInv'
    <2>1. answer \in CredentialErrors /\ Says(answers'[p], reported')
      BY <1>4, <1>12, ReportSays DEF Answers
    <2>2. "Ok" \notin Range(answers'[p])
      BY <1>4, <1>5, <1>12
    <2>3. First(todo') = {p}
      BY <1>3, <1>12
    <2>4. LookupInv'
      BY <1>2, <1>3, <1>6, <1>7, <1>12, <2>1, <2>2, <2>3 DEF BuildInv, LookupInv
    <2>5. Unusables' = Unusables
      BY <1>2, <1>8, <1>9, <1>12 DEF Unusables
    <2>6. \A n \in DOMAIN credentialIssues : answers'[credentialIssues[n][1]] = answers[credentialIssues[n][1]]
      BY <1>2, <1>8, IssuesAreFinished
    <2>7. IssuesInv'
      BY <1>12, <2>5, <2>6 DEF BuildInv, IssuesInv, InCatalogOrder
    <2>. QED
      BY <2>4, <2>7
  \* The chain is finished, and the next provider's begins.
  <1>13. ASSUME todo' = todo \ {p}, reported' = "none"
         PROVE  LookupInv' /\ \A q \in Unusables : q < p
    <2>1. \A q \in Asked \ todo : q < p
      BY <1>2, <1>3 DEF BuildInv, LookupInv
    <2>2. \A q \in Asked \ todo', r \in todo' : q < r
      BY <1>2, <1>3, <1>13 DEF BuildInv, LookupInv
    <2>3. \A q \in First(todo') : q \in todo \ {p} /\ Says(answers'[q], reported')
      BY <1>6, <1>13 DEF First, Says
    <2>4. LookupInv'
      BY <1>2, <1>3, <1>6, <1>7, <1>13, <2>2, <2>3 DEF BuildInv, LookupInv
    <2>5. \A q \in Unusables : q < p
      BY <1>2, <2>1 DEF Unusables
    <2>. QED
      BY <2>4, <2>5
  <1>14. CASE ResolvedBy(p, answer)
    <2>1. answer = "Ok" /\ todo' = todo \ {p} /\ reported' = "none" /\ UNCHANGED credentialIssues
      BY <1>14 DEF ResolvedBy
    <2>2. Unusables' = Unusables
      BY <1>2, <1>3, <1>8, <1>9, <2>1 DEF Unusables
    <2>3. \A n \in DOMAIN credentialIssues : answers'[credentialIssues[n][1]] = answers[credentialIssues[n][1]]
      BY <1>2, <1>8, IssuesAreFinished
    <2>4. IssuesInv'
      BY <2>1, <2>2, <2>3 DEF BuildInv, IssuesInv, InCatalogOrder
    <2>. QED
      BY <1>10, <1>11, <1>13, <2>1, <2>4
  <1>15. CASE NotResolvedBy(p, answer) /\ Len(answers[p]) + 1 < Links
    <2>1. answer # "Ok" /\ todo' = todo /\ reported' = Reported(reported, answer) /\ UNCHANGED credentialIssues
      BY <1>15 DEF NotResolvedBy
    <2>. QED
      BY <1>10, <1>11, <1>12, <2>1
  <1>16. CASE NotResolvedBy(p, answer) /\ ~(Len(answers[p]) + 1 < Links)
    <2>. DEFINE error == Reported(reported, answer)
    <2>1. /\ answer # "Ok" /\ todo' = todo \ {p} /\ reported' = "none"
          /\ credentialIssues' = IF IsNotConfigured(error) THEN credentialIssues
                                 ELSE Append(credentialIssues, <<p, error>>)
      BY <1>16 DEF NotResolvedBy
    <2>2. answer \in CredentialErrors /\ Says(answers'[p], error)
      BY <1>4, <2>1, ReportSays DEF Answers
    <2>3. p \notin HasCredentials' /\ p \notin HasCredentials
      BY <1>4, <1>9, <2>1 DEF HasCredentials
    <2>4. Asked' \ Unasked' = (Asked \ Unasked) \cup {p} /\ p \notin Asked \ Unasked
      BY <1>2, <1>3, <2>1
    <2>5. \A q \in Asked \ Unasked : answers'[q] = answers[q] /\ (q \in HasCredentials' <=> q \in HasCredentials)
      BY <1>2, <1>8, <1>9, <2>1
    <2>. DEFINE said == \E e \in Answers : Tells(answers'[p], e) /\ ~IsNotConfigured(e)
    <2>6. Unusables' = IF said THEN Unusables \cup {p} ELSE Unusables
      <3>1. \A q : q \in Unusables' <=> (q \in Unusables \/ (q = p /\ said))
        <4>. SUFFICES ASSUME NEW q PROVE q \in Unusables' <=> (q \in Unusables \/ (q = p /\ said))
          OBVIOUS
        <4>1. CASE q = p
          BY <2>3, <2>4, <4>1 DEF Unusables
        <4>2. CASE q # p
          BY <2>4, <2>5, <4>2 DEF Unusables
        <4>. QED
          BY <4>1, <4>2
      <3>. HIDE DEF said
      <3>. QED
        BY <3>1
    <2>7. \A n \in DOMAIN credentialIssues : answers'[credentialIssues[n][1]] = answers[credentialIssues[n][1]]
      BY <1>2, <1>8, IssuesAreFinished
    <2>8. CASE IsNotConfigured(error)
      <3>1. ~said
        BY <1>4, <2>2, <2>8, NotConfiguredIsNoIssue
      <3>2. Unusables' = Unusables /\ UNCHANGED credentialIssues
        BY <2>1, <2>6, <2>8, <3>1
      <3>3. IssuesInv'
        <4>. HIDE DEF said, error
        <4>. QED
          BY <2>7, <3>2 DEF BuildInv, IssuesInv, InCatalogOrder
      <3>. QED
        BY <1>10, <1>11, <1>13, <2>1, <3>3
    <2>9. CASE ~IsNotConfigured(error)
      <3>1. Tells(answers'[p], error) /\ error \in Answers
        <4>1. Tells(answers'[p], error)
          <5>. HIDE DEF error
          <5>. QED
            BY <1>4, <2>2, <2>9 DEF Says, IsNotConfigured
        <4>2. error \in Answers
          BY <2>2 DEF Reported, Answers, BuildInv, BuildTypes
        <4>. QED
          BY <4>1, <4>2
      <3>2. Unusables' = Unusables \cup {p}
        BY <2>6, <2>9, <3>1
      <3>. DEFINE old == credentialIssues
                  new == Append(old, <<p, error>>)
      <3>3. old \in Seq(Provider \X CredentialErrors) /\ credentialIssues' = new
        BY <2>1, <2>9 DEF BuildInv, BuildTypes
      <3>4. Providers(old) \in Seq(Nat) /\ Providers(new) = Append(Providers(old), p)
        BY <1>3, <3>3, ProvidersGrow
      <3>5. InCatalogOrder(Providers(new), Unusables')
        BY <1>3, <1>13, <2>1, <3>2, <3>4, AppendInOrder DEF BuildInv, IssuesInv
      <3>6. \A n \in DOMAIN new : Tells(answers'[new[n][1]], new[n][2])
        <4>1. /\ DOMAIN new = 1..(Len(old) + 1) /\ DOMAIN old = 1..Len(old) /\ Len(old) \in Nat
              /\ \A n \in DOMAIN old : new[n] = old[n]
              /\ new[Len(old) + 1] = <<p, error>>
          BY <3>3
        <4>. HIDE DEF old, new, error
        <4>2. new[Len(old) + 1][1] = p /\ new[Len(old) + 1][2] = error
          BY <4>1
        <4>3. ASSUME NEW n \in DOMAIN old PROVE Tells(answers'[new[n][1]], new[n][2])
          BY <2>7, <4>1, <4>3 DEF BuildInv, IssuesInv, old
        <4>. QED
          BY <3>1, <4>1, <4>2, <4>3
      <3>7. IssuesInv'
        <4>. HIDE DEF said, error, new, old
        <4>. QED
          BY <3>3, <3>5, <3>6 DEF IssuesInv
      <3>. QED
        BY <1>10, <1>11, <1>13, <2>1, <3>7
    <2>. QED
      BY <2>8, <2>9
  <1>. QED
    BY <1>1, <1>14, <1>15, <1>16

LEMMA AttemptKeeps ==
    ASSUME BuildInv, Attempt
    PROVE  LookupInv' /\ SelectionInv' /\ IssuesInv' /\ LoopInv'
  <1>1. PICK p \in First(todo) : todo' = todo \ {p} /\ (Skip(p) \/ UseExplicit(p) \/ UseFactory(p))
    BY DEF Attempt
  <1>. DEFINE built == config.enabled \cap selection
  <1>2. /\ step = "Building" /\ step' = "Building" /\ Unbuilt = todo /\ Unbuilt' = todo'
        /\ UNCHANGED <<config, selection, answers, reported, resolved, credentialIssues>>
        /\ Unasked = {} /\ Unasked' = {} /\ built' = built /\ todo \in SUBSET Provider
        /\ built \subseteq Provider
    BY ConfigFields DEF Attempt, Unbuilt, Unasked, BuildInv, BuildTypes
  <1>3. /\ p \in todo /\ p \in Nat /\ First(todo) = {p} /\ p \in Provider
        /\ \A q \in todo \ {p} : q \in Nat /\ p < q
    BY <1>1, <1>2, FirstComesFirst
  <1>4. LookupInv' /\ IssuesInv' /\ HasCredentials' = HasCredentials /\ Wanted' = Wanted
    BY <1>2, LookupsStay
  <1>5. SelectionInv'
    BY <1>2, <1>4 DEF BuildInv, SelectionInv
  <1>6. /\ \A q \in Provider \ todo, r \in todo : q < r
        /\ InCatalogOrder(ready, built \ todo) /\ InCatalogOrder(issues, Range(ready) \ adapters)
        /\ adapters \subseteq Range(ready) /\ builtinDispatch \cap config.explicit = {}
        /\ Range(ready) = built \ todo
    BY <1>2 DEF BuildInv, LoopInv, InCatalogOrder
  <1>7. ready \in Seq(Nat) /\ issues \in Seq(Nat)
    <2>1. ready \in Seq(Provider) /\ issues \in Seq(Provider) /\ Provider \subseteq Nat
      BY CatalogAssumption DEF BuildInv, BuildTypes
    <2>. QED
      BY <2>1, SeqMonotonic
  <1>8. /\ \A q \in built \ todo : q < p
        /\ p \notin Range(ready) /\ p \notin adapters
    BY <1>2, <1>3, <1>6
  <1>9. \A q \in Provider \ todo', r \in todo' : q < r
    BY <1>1, <1>3, <1>6
  \* What the loop does for a provider it builds: ready grows, in order.
  <1>10. ASSUME p \in built, ready' = Append(ready, p)
         PROVE  /\ InCatalogOrder(ready', built' \ todo')
                /\ Range(ready') = Range(ready) \cup {p}
    <2>1. built' \ todo' = (built \ todo) \cup {p}
      BY <1>1, <1>2, <1>3, <1>10
    <2>2. InCatalogOrder(ready', (built \ todo) \cup {p})
      BY <1>3, <1>6, <1>7, <1>8, <1>10, AppendInOrder
    <2>3. Range(ready') = Range(ready) \cup {p}
      BY <1>7, <1>10, AppendRange
    <2>. QED
      BY <2>1, <2>2, <2>3
  \* A provider that got its adapter needs no issue.
  <1>11. ASSUME p \in built, ready' = Append(ready, p), adapters' = adapters \cup {p},
                UNCHANGED issues, builtinDispatch' \cap config.explicit = {}
         PROVE  LoopInv'
    <2>1. Range(ready') \ adapters' = Range(ready) \ adapters
      BY <1>8, <1>10, <1>11
    <2>2. InCatalogOrder(issues', Range(ready') \ adapters')
      BY <1>6, <1>11, <2>1
    <2>. QED
      BY <1>2, <1>6, <1>9, <1>10, <1>11, <2>2 DEF LoopInv
  <1>12. CASE Skip(p)
    <2>1. built' \ todo' = built \ todo
      BY <1>1, <1>2, <1>12 DEF Skip, Builds
    <2>. QED
      BY <1>2, <1>4, <1>5, <1>6, <1>9, <1>12, <2>1 DEF LoopInv, Skip
  <1>13. CASE UseExplicit(p)
    BY <1>4, <1>5, <1>6, <1>11, <1>13 DEF UseExplicit, Builds
  <1>14. CASE UseFactory(p)
    <2>1. p \in built /\ ready' = Append(ready, p) /\ builtinDispatch' \cap config.explicit = {}
      BY <1>6, <1>14 DEF UseFactory, Builds
    <2>2. CASE adapters' = adapters \cup {p} /\ UNCHANGED issues
      BY <1>4, <1>5, <1>11, <2>1, <2>2
    <2>3. CASE issues' = Append(issues, p) /\ UNCHANGED adapters
      <3>1. \A q \in Range(ready) \ adapters : q < p
        BY <1>6, <1>8
      <3>2. Range(ready') \ adapters' = (Range(ready) \ adapters) \cup {p}
        BY <1>8, <1>10, <2>1, <2>3
      <3>3. InCatalogOrder(issues', Range(ready') \ adapters')
        BY <1>3, <1>6, <1>7, <2>3, <3>1, <3>2, AppendInOrder
      <3>4. adapters' \subseteq Range(ready')
        BY <1>6, <1>10, <2>1, <2>3
      <3>5. LoopInv'
        BY <1>2, <1>9, <1>10, <2>1, <3>3, <3>4 DEF LoopInv
      <3>. QED
        BY <1>4, <1>5, <3>5
    <2>. QED
      BY <1>14, <2>2, <2>3 DEF UseFactory
  <1>. QED
    BY <1>1, <1>12, <1>13, <1>14

LEMMA NextBuild == BuildInv /\ [Next]_vars => BuildInv'
  <1>. SUFFICES ASSUME BuildInv, [Next]_vars PROVE BuildInv'
    OBVIOUS
  <1>0. BuildTypes'
    BY BuildTyped DEF BuildInv
  <1>. SUFFICES LookupInv' /\ SelectionInv' /\ IssuesInv' /\ LoopInv'
    BY <1>0 DEF BuildInv
  <1>1. CASE MissingCatalog
    <2>1. /\ UNCHANGED <<config, selection, answers, reported, resolved, credentialIssues>>
          /\ step = "Start" /\ step' = "Failed" /\ Unasked' = {}
          /\ UNCHANGED <<ready, adapters, builtinDispatch, issues>>
      BY <1>1 DEF MissingCatalog, Untouched, Unasked
    <2>2. \A p \in Provider : answers[p] = << >>
      BY <2>1 DEF BuildInv, LookupInv
    <2>3. LookupInv' /\ IssuesInv'
      BY <2>1, <2>2, LookupsStay
    <2>4. SelectionInv' /\ LoopInv'
      BY <2>1 DEF BuildInv, SelectionInv, LoopInv
    <2>. QED
      BY <2>3, <2>4
  <1>2. CASE StartBuild
    <2>1. /\ UNCHANGED <<config, selection, answers, reported, resolved, credentialIssues>>
          /\ step = "Start" /\ step' = "Checking" /\ ~config.probe
          /\ UNCHANGED <<ready, adapters, builtinDispatch, issues>>
      BY <1>2 DEF StartBuild, Untouched
    <2>2. Unasked = {} /\ Unasked' = {}
      BY <2>1 DEF Unasked, Asked
    <2>3. LookupInv' /\ IssuesInv'
      BY <2>1, <2>2, LookupsStay
    <2>4. SelectionInv' /\ LoopInv'
      BY <2>1 DEF BuildInv, SelectionInv, LoopInv
    <2>. QED
      BY <2>3, <2>4
  <1>3. CASE StartReady
    <2>1. /\ UNCHANGED <<config, selection, answers, reported, credentialIssues>>
          /\ step = "Start" /\ step' = "Asking" /\ config.probe
          /\ UNCHANGED <<ready, adapters, builtinDispatch, issues>>
          /\ todo' = (config.enabled \cap selection) \ config.explicit
          /\ resolved' = (config.enabled \cap selection) \cap config.explicit
      BY <1>3 DEF StartReady, Untouched
    <2>2. selection = config.chosen
      BY <2>1 DEF BuildInv, SelectionInv
    <2>3. Unasked' = Unasked
      BY <2>1, <2>2 DEF Unasked, Asked, Wanted
    <2>4. LookupInv' /\ IssuesInv' /\ HasCredentials' = HasCredentials /\ Wanted' = Wanted
      BY <2>1, <2>3, LookupsStay
    <2>5. HasCredentials = {}
      <3>1. \A p \in Provider : answers[p] = << >>
        BY <2>1 DEF BuildInv, LookupInv
      <3>. QED
        BY <3>1 DEF HasCredentials, Range
    <2>6. resolved' = (Wanted' \cap config'.explicit) \cup HasCredentials'
      BY <2>1, <2>2, <2>4, <2>5 DEF Wanted
    <2>7. SelectionInv' /\ LoopInv'
      BY <2>1, <2>2, <2>6 DEF BuildInv, SelectionInv, LoopInv
    <2>. QED
      BY <2>4, <2>7
  <1>4. ASSUME NEW answer \in Answers, AskLink(answer)
        PROVE  LookupInv' /\ SelectionInv' /\ IssuesInv' /\ LoopInv'
    BY <1>4, AskKeeps
  <1>5. CASE Narrow
    <2>1. /\ UNCHANGED <<config, answers, reported, resolved, credentialIssues>>
          /\ step = "Asking" /\ step' = "Checking" /\ selection' = resolved
          /\ UNCHANGED <<ready, adapters, builtinDispatch, issues>>
          /\ Unasked = {} /\ Unasked' = {} /\ config.probe
      BY <1>5 DEF Narrow, Narrowed, Untouched, Unasked, BuildInv, LookupInv
    <2>2. LookupInv' /\ IssuesInv' /\ HasCredentials' = HasCredentials /\ Wanted' = Wanted
      BY <2>1, LookupsStay
    <2>3. SelectionInv' /\ LoopInv'
      BY <2>1, <2>2 DEF BuildInv, SelectionInv, LoopInv
    <2>. QED
      BY <2>2, <2>3
  <1>6. CASE HttpClientFails \/ UnknownEnabledProvider \/ StartLoop \/ Finish
    <2>1. /\ UNCHANGED <<config, selection, answers, reported, resolved, credentialIssues>>
          /\ step \in {"Checking", "Building"} /\ step' \in {"Failed", "Building", "Built"}
          /\ UNCHANGED <<ready, adapters, builtinDispatch, issues>>
          /\ Unasked = {} /\ Unasked' = {}
      BY <1>6 DEF HttpClientFails, UnknownEnabledProvider, StartLoop, Finish, Untouched, Unasked
    <2>2. LookupInv' /\ IssuesInv' /\ HasCredentials' = HasCredentials /\ Wanted' = Wanted
      BY <2>1, LookupsStay
    <2>3. SelectionInv'
      BY <2>1, <2>2 DEF BuildInv, SelectionInv
    <2>4. CASE HttpClientFails \/ UnknownEnabledProvider
      BY <2>1, <2>2, <2>3, <2>4 DEF BuildInv, LoopInv, HttpClientFails, UnknownEnabledProvider
    <2>5. CASE StartLoop
      <3>1. /\ ready' = << >> /\ issues' = << >> /\ adapters' = {} /\ builtinDispatch' = {}
            /\ step' = "Building" /\ Unbuilt' = Provider
        BY <2>1, <2>5 DEF BuildInv, LoopInv, StartLoop, Unbuilt
      <3>2. (config.enabled \cap selection) \ Provider = {}
        BY ConfigFields DEF BuildInv, BuildTypes
      <3>3. Range(ready') = {}
        BY <3>1 DEF Range
      <3>. QED
        BY <2>1, <2>2, <2>3, <3>1, <3>2, <3>3, EmptyInOrder DEF LoopInv
    <2>6. CASE Finish
      <3>1. Unbuilt' = Unbuilt /\ step = "Building" /\ step' = "Built"
        BY <2>6 DEF Finish, Unbuilt
      <3>. QED
        BY <2>1, <2>2, <2>3, <3>1 DEF BuildInv, LoopInv, InCatalogOrder
    <2>. QED
      BY <1>6, <2>2, <2>3, <2>4, <2>5, <2>6
  <1>7. CASE Attempt
    BY <1>7, AttemptKeeps
  <1>8. CASE UNCHANGED vars
    BY <1>8 DEF vars, BuildInv, LookupInv, SelectionInv, IssuesInv, LoopInv, Unasked, Unbuilt, Asked,
                Wanted, HasCredentials, Unusables, First, InCatalogOrder
  <1>. QED
    BY <1>1, <1>2, <1>3, <1>4, <1>5, <1>6, <1>7, <1>8 DEF Next, Over

----------------------------------------------------------------------------

(***************************************************************************)
(* The theorems.                                                           *)
(***************************************************************************)

\* The invariant of the build, its types included, holds for any catalog,
\* builder, chain and answers.
THEOREM BuildInvariant == Spec => []BuildInv
  <1>. QED
    BY InitBuild, NextBuild, PTL DEF Spec

\* A built client serves or explains exactly the providers it should
\* (ClientBuilder::build and build_ready), whatever the chains answered and the
\* factories made.
THEOREM BuildIsExact == Spec => []ReadyExactly
  <1>1. BuildInv => ReadyExactly
    <2>. SUFFICES ASSUME BuildInv, step = "Built" PROVE ReadyExactly
      BY DEF ReadyExactly
    <2>. DEFINE able == IF config.probe THEN HasCredentials \cup config.explicit ELSE Wanted
                unusable == {p \in Provider \ HasCredentials :
                               \E e \in Answers : Tells(answers[p], e) /\ ~IsNotConfigured(e)}
    <2>1. Unasked = {} /\ Unbuilt = {}
      BY DEF Unasked, Unbuilt
    <2>2. \A p \in Provider \ Asked : answers[p] = << >> /\ p \notin HasCredentials
      BY DEF BuildInv, LookupInv, HasCredentials, Range
    <2>3. Asked \subseteq Provider
      BY ConfigFields DEF BuildInv, BuildTypes, Asked, Wanted
    <2>4. (config.enabled \cap selection) \ Unbuilt = Wanted \cap able
      <3>1. CASE ~config.probe
        BY <2>1, <3>1 DEF BuildInv, SelectionInv, Wanted
      <3>2. CASE config.probe
        <4>1. selection = (Wanted \cap config.explicit) \cup HasCredentials
          BY <3>2 DEF BuildInv, SelectionInv
        <4>2. HasCredentials \subseteq Wanted
          BY <2>2, <3>2 DEF HasCredentials, Asked
        <4>. QED
          BY <2>1, <3>2, <4>1, <4>2 DEF Wanted
      <3>. QED
        BY <3>1, <3>2
    <2>5. Unusables = unusable
      <3>1. \A p \in Provider \ Asked, e \in Answers : ~Tells(answers[p], e)
        BY <2>2 DEF Tells
      <3>. QED
        BY <2>1, <2>3, <3>1 DEF Unusables
    <2>6. InCatalogOrder(ready, Wanted \cap able)
      BY <2>4 DEF BuildInv, LoopInv
    <2>7. InCatalogOrder(Providers(credentialIssues), unusable)
      BY <2>5 DEF BuildInv, IssuesInv
    <2>8. /\ InCatalogOrder(issues, Range(ready) \ adapters)
          /\ adapters \subseteq Range(ready)
          /\ builtinDispatch \cap config.explicit = {}
      BY DEF BuildInv, LoopInv
    <2>9. \A n \in DOMAIN credentialIssues :
             Tells(answers[credentialIssues[n][1]], credentialIssues[n][2])
      BY DEF BuildInv, IssuesInv
    <2>. QED
      BY <2>6, <2>7, <2>8, <2>9, Zenon DEF ReadyExactly, Wanted
  <1>. QED
    BY <1>1, BuildInvariant, PTL

\* Whatever was built, the resolver has one answer to every selector, and a route
\* is to a provider that is enabled and has an adapter (CatalogResolver::resolve).
THEOREM RoutesAreServable == Spec => []RouteServable
  <1>1. BuildInv => RouteServable
    <2>. SUFFICES ASSUME BuildInv, step = "Built", NEW s \in Selector
                  PROVE  \E r \in Routes[config.enabled][adapters][s] :
                            /\ Routes[config.enabled][adapters][s] = {r}
                            /\ r.type = "Route" => r.provider \in adapters \cap config.enabled
      BY DEF RouteServable
    <2>1. config.enabled \in SUBSET Provider
      BY ConfigFields DEF BuildInv, BuildTypes
    <2>2. adapters \in SUBSET config.enabled
      BY <2>1 DEF BuildInv, LoopInv, InCatalogOrder
    <2>3. Routes[config.enabled][adapters][s] = Resolve(s, config.enabled, adapters)
      BY <2>1, <2>2 DEF Routes
    <2>4. PICK r : /\ Resolve(s, config.enabled, adapters) = {r}
                   /\ r.type = "Route" => r.provider \in adapters
      BY <2>1, <2>2, ResolverAnswersOnce DEF Sound
    <2>. QED
      BY <2>2, <2>3, <2>4
  <1>. QED
    BY <1>1, BuildInvariant, PTL

=============================================================================
