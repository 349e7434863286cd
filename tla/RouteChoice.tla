---------------------------- MODULE RouteChoice ----------------------------
(***************************************************************************)
(* CatalogResolver (resolver.rs) over a validated catalog (catalog/mod.rs, *)
(* catalog/provider.rs).                                                   *)
(*                                                                         *)
(* Ids and aliases are natural numbers, ordered as the catalog's maps      *)
(* order them.  An operator gives the set of its results: first of a map   *)
(* and best of a sort are the least elements of an order, and that there   *)
(* is exactly one is a property.                                           *)
(*                                                                         *)
(* At the end: what an application lists and names before it calls         *)
(* (catalog/offering.rs).  There a lookup gives the sequence of what it    *)
(* may return, empty for None.                                             *)
(***************************************************************************)
EXTENDS Integers, Sequences, SequencesExt

CONSTANTS
    Provider,        \* the ids of the catalog's providers
    Model,           \* CatalogModel: provider, id, aliases and api_model
    Aliases,         \* CatalogProvider::aliases
    Priority,        \* CatalogProvider::priority
    DefaultModel,    \* CatalogProvider::default_model, or NoName
    StandsInFor,     \* CatalogProvider::stands_in_for, or NoName
    Passthrough,     \* the providers with allow_passthrough
    Names,           \* what a caller may write in a selector
    NoName,          \* no name
    Default,         \* the selector "default"
    Probes,          \* the models marked probe
    SmallDefaults    \* the models marked small_default

\* What Catalog::from_document and CatalogProvider::try_from_record validate.
ASSUME CatalogAssumption ==
    /\ Provider \subseteq Nat /\ Names \subseteq Nat /\ NoName \notin Nat /\ Default \notin Nat
    /\ Passthrough \subseteq Provider
    /\ Aliases \in [Provider -> SUBSET Nat] /\ Priority \in [Provider -> Int]
    /\ DefaultModel \in [Provider -> Nat \cup {NoName}]
    /\ \A p \in Provider : DefaultModel[p] # NoName =>
          \E m \in Model : m.provider = p /\ m.id = DefaultModel[p]
    /\ StandsInFor \in [Provider -> Provider \cup {NoName}]
    /\ \A p \in Provider : StandsInFor[p] # p
    /\ Model \subseteq [provider : Provider, id : Nat, aliases : SUBSET Nat, api : Nat]
    /\ \A p, q \in Provider : Aliases[p] \cap Provider = {} /\ (p # q => Aliases[p] \cap Aliases[q] = {})
    /\ \A m, n \in Model : m # n /\ m.provider = n.provider =>
          m.id # n.id /\ m.id \notin n.aliases /\ m.aliases \cap n.aliases = {}

\* The catalog's maps are finite.
ASSUME FiniteCatalog == IsFiniteSet(Provider)

ASSUME OfferingAssumption == Probes \subseteq Model /\ SmallDefaults \subseteq Model

Selector == [provider : {NoName} \cup Names, model : {Default} \cup Names]

Route(m) == [type |-> "Route", provider |-> m.provider, model |-> m.id]
Error(e) == [type |-> "Error", error |-> e]

\* The elements of S that are first in a map.
First(S) == {p \in S : \A q \in S : p <= q}

\* An error if there is nothing to choose from.
OrError(results, e) == IF results = {} THEN {Error(e)} ELSE results

----------------------------------------------------------------------------

\* Catalog::find_provider: an id before an alias.
FindProvider(name) ==
    IF name \in Provider THEN {name} ELSE {p \in Provider : name \in Aliases[p]}

\* CatalogProvider::model: an id, else an alias, else the first api_model.
ModelsNamed(p, name) ==
    LET models == {m \in Model : m.provider = p}
        byId == {m \in models : m.id = name}
        byAlias == {m \in models : name \in m.aliases}
        byApi == {m \in models : m.api = name}
    IN IF byId # {} THEN byId
       ELSE IF byAlias # {} THEN byAlias
       ELSE {m \in byApi : \A n \in byApi : m.id <= n.id}

ResolveExplicit(p, name) ==
    LET found == {Route(m) : m \in ModelsNamed(p, name)}
    IN IF found = {} /\ p \in Passthrough
       THEN {Route([provider |-> p, id |-> name])}
       ELSE OrError(found, "ModelNotFound")

ResolveProviderDefault(p) ==
    IF DefaultModel[p] = NoName THEN {Error("ProviderHasNoDefault")}
    ELSE OrError({Route(m) : m \in ModelsNamed(p, DefaultModel[p])}, "ModelNotFound")

\* Mutant: a stand-in is taken from the catalog, built or not.
StandInsInCatalog(p, enabled, available) ==
    {c \in enabled : StandsInFor[c] = p}

StandIns(p, enabled, available) ==
    {c \in enabled \cap available : StandsInFor[c] = p}

\* serving_provider: p itself, else the first that stands in for it.
ServingProvider(p, enabled, available) ==
    IF p \in available THEN {p} ELSE First(StandIns(p, enabled, available))

\* A route addressed to the provider that name finds; routes has those of each.
Addressed(name, enabled, available, routes) ==
    LET found == FindProvider(name)
        serving == UNION {ServingProvider(p, enabled, available) : p \in found}
    IN IF found = {} THEN {Error("ProviderNotFound")}
       ELSE IF found \cap enabled = {} THEN {Error("ProviderDisabled")}
       ELSE OrError(UNION {routes[p] : p \in serving}, "ProviderUnavailable")

ResolveDefault(enabled, available) ==
    LET ranked == {p \in enabled \cap available : DefaultModel[p] # NoName}
        best == {p \in ranked : \A q \in ranked : Priority[q] <= Priority[p]}
    IN OrError(UNION {ResolveProviderDefault(p) : p \in First(best)}, "NoDefaultModel")

\* The order of the matches: a model of that name before any alias for it,
\* then the provider's priority, then its id.
Better(m, n, name) ==
    \/ m.id = name /\ n.id # name
    \/ /\ (m.id = name) = (n.id = name)
       /\ \/ Priority[m.provider] > Priority[n.provider]
          \/ Priority[m.provider] = Priority[n.provider] /\ m.provider < n.provider

\* Catalog::models_matching, of the providers that can serve.
ResolveBare(name, enabled, available) ==
    LET matches == {m \in Model : /\ m.id = name \/ name \in m.aliases
                                  /\ m.provider \in enabled \cap available}
        best == {m \in matches : \A n \in matches : ~Better(n, m, name)}
    IN OrError({Route(m) : m \in best}, "ModelNotFound")

\* CatalogResolver::resolve.
Resolve(s, enabled, available) ==
    IF s.provider # NoName
    THEN Addressed(s.provider, enabled, available,
                   [p \in Provider |-> ResolveExplicit(p, s.model)])
    ELSE IF s.model = Default
    THEN ResolveDefault(enabled, available)
    ELSE IF FindProvider(s.model) # {}
    THEN Addressed(s.model, enabled, available,
                   [p \in Provider |-> ResolveProviderDefault(p)])
    ELSE ResolveBare(s.model, enabled, available)

----------------------------------------------------------------------------

\* Mutant: the providers in catalog order.
RankedById(enabled) == SetToSortSeq(enabled, <)

\* enabled_providers: the highest priority first, then by id.
Ranked(enabled) ==
    SetToSortSeq(enabled, LAMBDA p, q :
        Priority[p] > Priority[q] \/ (Priority[p] = Priority[q] /\ p < q))

ListedProviders(enabled) ==
    SelectSeq(Ranked(enabled), LAMBDA p : StandsInFor[p] = NoName)

\* Of one provider, in catalog order.
OfferingsOf(p) ==
    SetToSortSeq({m \in Model : m.provider = p}, LAMBDA m, n : m.id < n.id)

AllOfferings(providers) == FlattenSeq([i \in DOMAIN providers |-> OfferingsOf(providers[i])])

\* offering, and default_offering where the provider has one.
Offering(p, name) == SetToSeq(ModelsNamed(p, name))
DefaultOffering(p) == IF DefaultModel[p] = NoName THEN <<>> ELSE Offering(p, DefaultModel[p])

ProbeOffering(p) ==
    SelectSeq(OfferingsOf(p), LAMBDA m : m \in Probes) \o DefaultOffering(p)

\* Stable: models of that name before aliases, both as their providers rank.
OfferingsMatching(name, enabled) ==
    LET matches == SelectSeq(AllOfferings(Ranked(enabled)),
                             LAMBDA m : m.id = name \/ name \in m.aliases)
    IN SelectSeq(matches, LAMBDA m : m.id = name) \o SelectSeq(matches, LAMBDA m : m.id # name)

\* The named provider's offering, else the best anywhere.
CanonicalModelId(name, selector, enabled) ==
    LET named == SetToSeq(FindProvider(name) \cap enabled)
    IN FlattenSeq([i \in DOMAIN named |-> Offering(named[i], selector)])
       \o OfferingsMatching(selector, enabled)

\* The first default of a ready provider, else that of any enabled one.
DefaultOfferingFor(ready, enabled) ==
    LET ranked == Ranked(enabled)
        asked == SelectSeq(ranked, LAMBDA p : p \in ready) \o ranked
    IN FlattenSeq([i \in DOMAIN asked |-> DefaultOffering(asked[i])])

SmallDefaultFor(ready, enabled) ==
    SelectSeq(AllOfferings(SelectSeq(Ranked(enabled), LAMBDA p : p \in ready)),
              LAMBDA m : m \in SmallDefaults)
    \o DefaultOfferingFor(ready, enabled)

----------------------------------------------------------------------------

\* What a picker names is what the resolver then chooses: the best ranked
\* offering of a bare name and the ready default are its routes, of a provider
\* that can serve; a canonical id is the one of the explicit route; and a
\* small default or a default is of a ready provider when one has any.
Agrees(enabled, available) ==
    LET first(offered) == IF offered = <<>> THEN {} ELSE {Route(Head(offered))}
        routes(results) == {r \in results : r.type = "Route"}
        servable(m) == m.provider \in available
    IN /\ \A name \in Names :
            /\ first(SelectSeq(OfferingsMatching(name, enabled), servable))
                  = routes(ResolveBare(name, enabled, available))
            /\ \A p \in available : Offering(p, name) # <<>> =>
                  {r.model : r \in Resolve([provider |-> p, model |-> name], enabled, available)}
                      = {Head(CanonicalModelId(p, name, enabled)).id}
       /\ (\E p \in available : DefaultModel[p] # NoName)
          => /\ first(DefaultOfferingFor(available, enabled))
                   = routes(ResolveDefault(enabled, available))
             /\ servable(Head(SmallDefaultFor(available, enabled)))
       /\ \A p \in Provider :
            DefaultModel[p] # NoName => Head(ProbeOffering(p)).provider = p
       /\ Range(ListedProviders(enabled)) \cap {p \in Provider : StandsInFor[p] # NoName} = {}
=============================================================================
