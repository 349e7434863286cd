--------------------------- MODULE CommandModels ----------------------------
(***************************************************************************)
(* How the command line chooses and lists models (bin/lllm/app/models.rs)  *)
(* over a built client: by a query, by the resolver's own choice, and the  *)
(* selector it suggests when there is no such model.                       *)
(*                                                                         *)
(* A term is a number: a name, or a piece that the spelling of some models *)
(* contains.  Spellings are in lower case.                                 *)
(***************************************************************************)
EXTENDS ClientBuild

CONSTANTS
    Terms,       \* what a query may ask for
    Pieces,      \* of each model, the terms that only parts of its names spell
    Spelling,    \* of each provider, id and alias, its letters
    Needles      \* the spellings of selectors that name no model

ASSUME CommandModelsAssumption ==
    /\ Pieces \in [Model -> SUBSET Terms]
    /\ \A m \in Model : {m.provider, m.id} \cup m.aliases \subseteq DOMAIN Spelling
    /\ \A n \in DOMAIN Spelling : Spelling[n] \in Seq(Nat)

Slash == 0

\* The canonical selector of a model, as it is spelled.
Canonical(m) == Spelling[m.provider] \o <<Slash>> \o Spelling[m.id]

\* matches_terms: each term is part of the selector, the name or an alias.
Searchable(m) == {m.provider, m.id} \cup m.aliases \cup Pieces[m]
MatchesTerms(m, terms) == Range(terms) \subseteq Searchable(m)

\* is_exact: one term, and it is the id or an alias.
IsExact(m, terms) == Len(terms) = 1 /\ terms[1] \in {m.id} \cup m.aliases

\* entries: what Filters keep of the catalog.
Entries(terms, filters) ==
    {m \in Model :
        /\ m.provider \in filters.compiled \cap filters.configured \cap filters.providers
        /\ m \in filters.capable
        /\ MatchesTerms(m, terms)}

Unfiltered == [compiled |-> Provider, configured |-> Provider, providers |-> Provider,
               capable |-> Model]

\* Mutant: an exact name counts no more than a part of one.
RankWithoutExact(m, terms) == <<-Priority[m.provider], Len(Canonical(m)), m.provider, m.id>>

\* The order of select_query: exact, then the provider's priority, then the
\* shorter selector, then the selector.
Rank(m, terms) ==
    <<IF IsExact(m, terms) THEN 0 ELSE 1, -Priority[m.provider], Len(Canonical(m)),
      m.provider, m.id>>

Before(r, s) == \E i \in DOMAIN r : r[i] < s[i] /\ \A j \in 1..(i - 1) : r[j] = s[j]

\* select_query, among the models with a compiled adapter.
SelectQuery(terms, available) ==
    LET found == Entries(terms, [Unfiltered EXCEPT !.compiled = available])
    IN OrError({Route(m) : m \in {n \in found : \A k \in found \ {n} :
                                    Before(Rank(n, terms), Rank(k, terms))}},
               "NoModelMatches")

\* canonical_route, of a selector without a provider.
CanonicalRoute(selector, available) ==
    Resolve([provider |-> NoName, model |-> selector], config.enabled, available)

\* select_model and its route: -m is taken as it is, then a query, then LLLM_MODEL.
SelectModel(explicit, terms, environment, available) ==
    IF explicit # NoName THEN CanonicalRoute(explicit, available)
    ELSE IF terms # <<>> THEN SelectQuery(terms, available)
    ELSE CanonicalRoute(IF environment = NoName THEN Default ELSE environment, available)

----------------------------------------------------------------------------

\* edit_distance: a row for each letter of left, made from the row before.
EditDistance(left, right) ==
    LET least(S) == CHOOSE x \in S : \A y \in S : x <= y
        row[i \in 0..Len(left)] ==
            IF i = 0 THEN [j \in 0..Len(right) |-> j]
            ELSE LET current[j \in 0..Len(right)] ==
                       IF j = 0 THEN i
                       ELSE least({row[i - 1][j - 1] + (IF left[i] = right[j] THEN 0 ELSE 1),
                                   row[i - 1][j] + 1, current[j - 1] + 1})
                 IN current
    IN row[Len(left)][Len(right)]

\* The names that closest_selector compares, each with the model it suggests.
Suggestions ==
    UNION {{<<name, m>> : name \in {Canonical(m), Spelling[m.id]} \cup {Spelling[a] : a \in m.aliases}}
             : m \in Model}

Threshold(needle) == IF Len(needle) \div 3 > 2 THEN Len(needle) \div 3 ELSE 2

\* closest_selector: the nearest name within the threshold, if there is one,
\* and of several the first canonical selector.
Closest(needle) ==
    LET near == {s \in Suggestions : EditDistance(needle, s[1]) <= Threshold(needle)}
        nearest == {s \in near : \A t \in near :
                      EditDistance(needle, s[1]) <= EditDistance(needle, t[1])}
        models == {s[2] : s \in nearest}
    IN {m \in models : \A n \in models :
          m.provider < n.provider \/ (m.provider = n.provider /\ m.id <= n.id)}

----------------------------------------------------------------------------

\* render: the entries, the effective default among them marked.
Listing(terms, environment, onlyDefault, filters, available) ==
    LET default == SelectModel(NoName, <<>>, environment, available)
        marks(m) == default = {Route(m)}
    IN {[model |-> m, compiled |-> m.provider \in available, default |-> marks(m)]
          : m \in {n \in Entries(terms, filters) : onlyDefault => marks(n)}}

----------------------------------------------------------------------------

\* The spellings that k changes of one letter make of a word.
Letters == UNION {Range(Spelling[n]) : n \in DOMAIN Spelling} \cup {Slash}

Edited(word) ==
    {RemoveAt(word, i) : i \in DOMAIN word}
    \cup {ReplaceAt(word, i, l) : i \in DOMAIN word, l \in Letters}
    \cup {InsertAt(word, i, l) : i \in 1..(Len(word) + 1), l \in Letters}

Queries == UNION {[1..n -> Terms] : n \in 1..2}

\* A query chooses one model that an adapter serves and that matches every
\* term, by its exact name if there is one, and the resolver sends the chosen
\* selector to that very model; it fails only when nothing servable matches.
QueriesServe == [enabled \in SUBSET Provider |-> [available \in SUBSET enabled |->
    \A terms \in Queries :
        LET matches == {m \in Model : m.provider \in available /\ MatchesTerms(m, terms)}
            named == {m \in matches : IsExact(m, terms)}
            sought == IF named # {} THEN named ELSE matches
        IN \E choice \in SelectQuery(terms, available) :
             /\ SelectQuery(terms, available) = {choice}
             /\ choice.type = "Error" <=> matches = {}
             /\ choice.type = "Route" =>
                  /\ choice \in {Route(m) : m \in sought}
                  /\ Resolve([provider |-> choice.provider, model |-> choice.model],
                             enabled, available) = {choice}]]

\* What is suggested for a selector that names nothing is a name of the
\* catalog one or two letters away, if there is one, and the nearest.
SuggestsNearest(needle) ==
    LET near == Edited(needle)
        within(k, m) == \E s \in Suggestions :
            /\ s[2] = m
            /\ s[1] \in CASE k = 0 -> {needle} [] k = 1 -> near [] OTHER -> UNION {Edited(w) : w \in near}
    IN \E k \in 0..2 :
         /\ \A i \in 0..(k - 1), m \in Model : ~within(i, m)
         /\ IF k < 2 \/ Closest(needle) # {}
            THEN \E m \in Model : Closest(needle) = {m} /\ within(k, m)
            ELSE \A m \in Model : ~within(2, m)

NearestSuggested == \A needle \in Needles : SuggestsNearest(needle)

\* What the command line finds for a query is what the client can serve, what
\* it marks as the default is the route that a call takes, and what it
\* suggests is nearest to what was asked.
CommandFindsModels ==
    step = "Built" =>
        /\ QueriesServe[config.enabled][adapters]
        /\ \A environment \in Names \cup {NoName} :
             LET listing == Listing(<<>>, environment, FALSE, Unfiltered, adapters)
                 marked == {e \in listing : e.default}
             IN /\ Cardinality(listing) = Cardinality(Model)
                /\ marked = Listing(<<>>, environment, TRUE, Unfiltered, adapters)
                /\ \A e \in marked : e.compiled /\ Cardinality(marked) = 1
        /\ NearestSuggested

\* The catalog's listing, lllm's queries and its listing are code of their own,
\* and each chooses what the resolver chooses for the client that was built.
ChoicesAgree == ListingAgrees /\ CommandFindsModels

\* "the same order the resolver applies to a bare selector": a query of one
\* exact name chooses what the resolver makes of that name (models.rs, the
\* comment in select_query).
QueryAgreesWithResolver ==
    step = "Built" =>
        \A m \in Model : m.provider \in adapters =>
            SelectQuery(<<m.id>>, adapters) = CanonicalRoute(m.id, adapters)

============================================================================
