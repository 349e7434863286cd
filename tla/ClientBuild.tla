---------------------------- MODULE ClientBuild ----------------------------
(***************************************************************************)
(* ClientBuilder::build and build_ready (client/mod.rs), with the lookups  *)
(* of a chain of credential stores (credentials.rs): which providers of    *)
(* the catalog the client can serve, and what it says of the others.       *)
(*                                                                         *)
(* A step is one lookup or one provider of the build's loop.  What a link  *)
(* of the chain answers and what a factory makes of its provider is free.  *)
(* The settings the adapters get, and the causes that an issue or a failed *)
(* build names, are left out.                                              *)
(***************************************************************************)
EXTENDS RouteChoice

CONSTANTS
    Configurations,  \* the catalogs' switches and the builders to check
    Links,           \* the number of links of the credential chain
    Builtin          \* the providers whose adapter id is http or bedrock

ASSUME BuildAssumption ==
    /\ Links \in Nat \ {0} /\ Builtin \subseteq Provider
    /\ Configurations \subseteq
         [catalog : BOOLEAN,                          \* catalog() was called
          probe : BOOLEAN,                            \* build_ready, not build
          http : BOOLEAN,                             \* http() was called
          enabled : SUBSET Provider,                  \* is_enabled
          explicit : SUBSET Nat,                      \* adapter() was called
          chosen : SUBSET Nat]                        \* enabled_providers(), or Provider

\* CredentialError; a scheme that does not match is treated as Unusable is.
CredentialErrors == {"NotConfigured", "MissingSecret", "Unusable"}
Answers == {"Ok"} \cup CredentialErrors

VARIABLES
    config,            \* the builder and its catalog
    selection,         \* ClientBuilder::enabled; Provider where it is None
    step,              \* "Start", "Asking", "Checking", "Building", "Built", "Failed"
    todo,              \* the providers the present loop has not reached
    answers,           \* of each provider, the answers of its links, in order
    reported,          \* ChainedCredentials: the error to report, or "none"
    resolved,          \* Readiness::ready and the explicit adapters
    credentialIssues,  \* ClientBuild::credential_issues
    ready,             \* ClientBuild::ready
    adapters,          \* the providers in Pipeline::adapters
    builtinDispatch,   \* Pipeline::builtin_dispatch
    issues             \* the providers of ClientBuild::issues

vars == <<config, selection, step, todo, answers, reported, resolved,
          credentialIssues, ready, adapters, builtinDispatch, issues>>

Init ==
    /\ config \in Configurations
    /\ selection = config.chosen
    /\ step = "Start"
    /\ todo = {} /\ reported = "none" /\ resolved = {}
    /\ answers = [p \in Provider |-> << >>]
    /\ credentialIssues = << >> /\ ready = << >> /\ issues = << >>
    /\ adapters = {} /\ builtinDispatch = {}

Untouched == UNCHANGED <<config, ready, adapters, builtinDispatch, issues>>

----------------------------------------------------------------------------

\* No catalog: neither build gets anywhere.
MissingCatalog ==
    /\ step = "Start" /\ ~config.catalog
    /\ step' = "Failed"
    /\ Untouched /\ UNCHANGED <<selection, todo, answers, reported, resolved, credentialIssues>>

\* build: the selection stays as the application made it.
StartBuild ==
    /\ step = "Start" /\ config.catalog /\ ~config.probe
    /\ step' = "Checking"
    /\ Untouched /\ UNCHANGED <<selection, todo, answers, reported, resolved, credentialIssues>>

\* build_ready: an explicit adapter is ready without a lookup.
StartReady ==
    /\ step = "Start" /\ config.catalog /\ config.probe
    /\ LET selected == config.enabled \cap selection
       IN /\ resolved' = selected \cap config.explicit
          /\ todo' = selected \ config.explicit
    /\ step' = "Asking"
    /\ Untouched /\ UNCHANGED <<selection, answers, reported, credentialIssues>>

\* Mutant: the last error is the one reported.
LastReported(old, error) == error

\* ChainedCredentials: the first error, or the first that says more.
Reported(old, error) ==
    IF old \in {"none", "NotConfigured"} THEN error ELSE old

\* CredentialError::is_not_configured.
IsNotConfigured(error) == error \in {"NotConfigured", "MissingSecret"}

\* The link has credentials: the chain ends and the provider is ready.
ResolvedBy(p, answer) ==
    /\ answer = "Ok"
    /\ todo' = todo \ {p} /\ reported' = "none"
    /\ resolved' = resolved \cup {p}
    /\ UNCHANGED credentialIssues

\* The link has none: the next is asked, or after the last the chain's error
\* is an issue unless it says that nothing is configured.
NotResolvedBy(p, answer) ==
    /\ answer # "Ok"
    /\ LET error == Reported(reported, answer)
       IN IF Len(answers[p]) + 1 < Links
          THEN reported' = error /\ UNCHANGED <<todo, credentialIssues>>
          ELSE /\ todo' = todo \ {p} /\ reported' = "none"
               /\ credentialIssues' = IF IsNotConfigured(error) THEN credentialIssues
                                      ELSE Append(credentialIssues, <<p, error>>)
    /\ UNCHANGED resolved

\* readiness asks provider after provider, a chain link after link.
AskLink(answer) ==
    /\ step = "Asking"
    /\ \E p \in First(todo) :
          /\ answers' = [answers EXCEPT ![p] = Append(@, answer)]
          /\ ResolvedBy(p, answer) \/ NotResolvedBy(p, answer)
    /\ Untouched /\ UNCHANGED <<selection, step>>

\* Mutant: the lookups' result is added to the selection.
Widened == selection \cup resolved

\* What build_ready makes of the selection.
Narrowed == resolved

\* build_ready: only what resolved is built.
Narrow ==
    /\ step = "Asking" /\ todo = {}
    /\ selection' = Narrowed
    /\ step' = "Checking"
    /\ Untouched /\ UNCHANGED <<todo, answers, reported, resolved, credentialIssues>>

----------------------------------------------------------------------------

\* The default HTTP client could not be built.
HttpClientFails ==
    /\ step = "Checking" /\ ~config.http
    /\ step' = "Failed"
    /\ Untouched /\ UNCHANGED <<selection, todo, answers, reported, resolved, credentialIssues>>

Known == selection \subseteq Provider

UnknownEnabledProvider ==
    /\ step = "Checking" /\ ~Known
    /\ step' = "Failed"
    /\ Untouched /\ UNCHANGED <<selection, todo, answers, reported, resolved, credentialIssues>>

StartLoop ==
    /\ step = "Checking" /\ Known
    /\ step' = "Building" /\ todo' = Provider
    /\ Untouched /\ UNCHANGED <<selection, answers, reported, resolved, credentialIssues>>

\* The catalog's switch and the selection, narrowing one another.
Builds(p) == p \in config.enabled \cap selection

Skip(p) ==
    /\ ~Builds(p)
    /\ UNCHANGED <<ready, adapters, builtinDispatch, issues>>

\* An adapter the application gave serves its provider as it is.
UseExplicit(p) ==
    /\ Builds(p) /\ p \in config.explicit
    /\ ready' = Append(ready, p) /\ adapters' = adapters \cup {p}
    /\ UNCHANGED <<builtinDispatch, issues>>

\* A factory builds the adapter, fails, or is missing or compiled out.
UseFactory(p) ==
    /\ Builds(p) /\ p \notin config.explicit
    /\ ready' = Append(ready, p)
    /\ builtinDispatch' = builtinDispatch \cup ({p} \cap Builtin)
    /\ \/ adapters' = adapters \cup {p} /\ UNCHANGED issues
       \/ issues' = Append(issues, p) /\ UNCHANGED adapters

\* One round of the loop over the catalog's providers.
Attempt ==
    /\ step = "Building"
    /\ \E p \in First(todo) :
          /\ todo' = todo \ {p}
          /\ Skip(p) \/ UseExplicit(p) \/ UseFactory(p)
    /\ UNCHANGED <<config, selection, step, answers, reported, resolved, credentialIssues>>

Finish ==
    /\ step = "Building" /\ todo = {}
    /\ step' = "Built"
    /\ Untouched /\ UNCHANGED <<selection, todo, answers, reported, resolved, credentialIssues>>

\* The build has returned.
Over == step \in {"Built", "Failed"} /\ UNCHANGED vars

Next ==
    \/ MissingCatalog \/ StartBuild \/ StartReady
    \/ \E answer \in Answers : AskLink(answer)
    \/ Narrow
    \/ HttpClientFails \/ UnknownEnabledProvider \/ StartLoop
    \/ Attempt \/ Finish \/ Over

Spec == Init /\ [][Next]_vars

----------------------------------------------------------------------------

\* The providers a lookup of some link resolved.
HasCredentials == {p \in Provider : "Ok" \in Range(answers[p])}

\* A sequence of exactly the providers in S, as the catalog's map has them.
InCatalogOrder(seq, S) ==
    Range(seq) = S /\ \A i, j \in DOMAIN seq : i < j => seq[i] < seq[j]

\* e is the first of a chain's answers that is more than "not configured".
Tells(chain, e) ==
    /\ e # "NotConfigured"
    /\ \E i \in DOMAIN chain :
          chain[i] = e /\ \A j \in 1..(i - 1) : chain[j] = "NotConfigured"

Providers(named) == [n \in DOMAIN named |-> named[n][1]]

\* A built client serves or explains exactly the providers that the catalog
\* enables and the application did not leave out, and after build_ready only
\* those with credentials or an adapter of their own; it lists them in
\* catalog order, each with an adapter or one issue, and lets no provider
\* with an explicit adapter be dispatched by codec.  Its credential issues are
\* those of the providers whose every link failed, in catalog order: of each
\* the first failure that is more than "not configured", unless it says that a
\* secret is missing.
ReadyExactly ==
    step = "Built" =>
      LET wanted == config.enabled \cap config.chosen
          able == IF config.probe THEN HasCredentials \cup config.explicit ELSE wanted
          unusable == {p \in Provider \ HasCredentials :
                         \E e \in Answers : Tells(answers[p], e) /\ ~IsNotConfigured(e)}
      IN /\ InCatalogOrder(ready, wanted \cap able)
         /\ InCatalogOrder(issues, Range(ready) \ adapters)
         /\ adapters \subseteq Range(ready)
         /\ builtinDispatch \cap config.explicit = {}
         /\ InCatalogOrder(Providers(credentialIssues), unusable)
         /\ \A n \in DOMAIN credentialIssues :
               Tells(answers[credentialIssues[n][1]], credentialIssues[n][2])

\* Whatever the catalog switches off and whichever providers were built, the
\* resolver has exactly one answer to every selector, and a route is to a
\* provider that is enabled and has an adapter.
Routes ==
    [enabled \in SUBSET Provider |-> [available \in SUBSET enabled |->
        [s \in Selector |-> Resolve(s, enabled, available)]]]

RouteServable ==
    step = "Built" =>
      \A s \in Selector :
         \E r \in Routes[config.enabled][adapters][s] :
            /\ Routes[config.enabled][adapters][s] = {r}
            /\ r.type = "Route" => r.provider \in adapters \cap config.enabled

\* What the catalog lists to a picker agrees with what the resolver chooses
\* for the client that was built.
Agreement == [enabled \in SUBSET Provider |-> [available \in SUBSET enabled |->
                Agrees(enabled, available)]]

ListingAgrees == step = "Built" => Agreement[config.enabled][adapters]

\* build_ready's promise: a provider with material that cannot be used comes
\* back as a credential issue, unless another store can serve it.
UnusableIsReported ==
    step = "Built" =>
      \A p \in Provider \ HasCredentials :
         "Unusable" \in Range(answers[p]) =>
            \E n \in DOMAIN credentialIssues : credentialIssues[n][1] = p

=============================================================================
