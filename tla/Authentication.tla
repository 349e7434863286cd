--------------------------- MODULE Authentication ---------------------------
(***************************************************************************)
(* How a request to one provider is authenticated: a table of secrets is   *)
(* built (ConventionalCredentials in credentials.rs), each attempt reads   *)
(* the secrets of its mappings from a store (resolve), and the adapter     *)
(* merges them with every other header (transport/headers.rs,              *)
(* transport/request.rs) or signs with AWS (providers/bedrock.rs,          *)
(* transport/aws.rs).                                                      *)
(*                                                                         *)
(* A secret is a name and the store maps names to values, which another    *)
(* thread may change between two reads.  A header name stands for its      *)
(* lower-case form.  A header value is a sequence: the prefix, if any, and *)
(* the value.  The AWS libraries are external: the configuration they load *)
(* and the headers they sign with.                                         *)
(***************************************************************************)
EXTENDS Integers, Sequences, FiniteSets, SequencesExt, TLC

CONSTANTS
    Registrations,     \* the calls an application makes of the builder
    Stores,            \* what a store may hold when the table is built
    Absent,            \* the value of a secret the store does not hold
    Unfit,             \* a value HTTP cannot carry
    NoName,            \* no header, no secret or no region
    Served,            \* the providers: their catalog rows and what a codec adds
    Chains,            \* what the AWS configuration may load
    MaxRegistrations, MaxChanges, MaxAttempts

\* A list of headers: names with their values, in order.
IsHeaderList(headers) ==
    /\ headers \in Seq(ToSet(headers))
    /\ \A h \in ToSet(headers) : h = <<h[1], h[2]>>

ASSUME ServedAssumption ==
    \A r \in Served :
        /\ IsHeaderList(r.client) /\ IsHeaderList(r.codec) /\ IsHeaderList(r.defaults)
        /\ r.scheme \in {"Bearer", "Header", "Headers", "BedrockBearer", "Aws", "None"}

VARIABLES
    registered,  \* the builder calls so far
    mappings,    \* ConventionalCredentialsBuilder::specs of the provider
    row,         \* the provider
    store,       \* the secrets of the store
    phase,       \* of the client: Registering, Idle, Reading, Region or Signing
    at, read,    \* the mapping an attempt reads, and the values it has read of it
    missing,     \* the secret the first failed mapping missed
    region,      \* the region to sign for
    awsConfig,      \* AwsSigner::awsConfig, empty until it is loaded
    attempts,
    answer,      \* what the last attempt came to
    changes, held  \* the changes of the store, and what it held during the attempt

table == <<registered, mappings, row>>
attempt == <<at, read, missing, region>>
world == <<store, changes, held>>
authVars == <<table, attempt, world, phase, awsConfig, attempts, answer>>

Secrets == UNION {DOMAIN s : s \in Stores}
Values == UNION {{s[k] : k \in Secrets} : s \in Stores}

Keyless(r) == r.method \in {"aws_default_chain", "or_aws_default_chain"}

\* Every store tells of every secret that is asked for, if only that it is absent.
ASSUME SecretsAssumption ==
    /\ NoName \notin Secrets
    /\ \A s \in Stores : DOMAIN s = Secrets
    /\ \A r \in Served : r.derived \in Secrets
    /\ \A r \in Registrations : Keyless(r) \/ r.secret \in Secrets

Http(auth, extras) == [kind |-> "Http", auth |-> auth, extras |-> extras]
Auth(scheme, header, secret) == [scheme |-> scheme, header |-> header, secret |-> secret]
NoAuth == Auth("None", NoName, NoName)
AwsDefaultChain(r) == [kind |-> "AwsDefaultChain", region |-> r]
BedrockBearer(secret) == [kind |-> "BedrockBearer", secret |-> secret]
Pair(a) == [header |-> a.header, secret |-> a.secret]

NoAnswer == [kind |-> "none"]
Failed(error) == [kind |-> "Error", error |-> error]

AuthInit ==
    /\ registered = <<>> /\ mappings = <<>> /\ row \in Served
    /\ store \in Stores /\ changes = 0 /\ held = [s \in Secrets |-> {}]
    /\ phase = "Registering" /\ awsConfig = <<>> /\ attempts = 0 /\ answer = NoAnswer
    /\ at = 0 /\ read = <<>> /\ missing = NoName /\ region = NoName

----------------------------------------------------------------------------
(* The builder *)

Register(method, r) ==
    /\ phase = "Registering" /\ Len(registered) < MaxRegistrations
    /\ r.method = method
    /\ registered' = Append(registered, r)
    /\ UNCHANGED <<row, attempt, world, phase, awsConfig, attempts, answer>>

\* ConventionalCredentialsBuilder::with_http edits the first mapping, ...
Primary == IF mappings # <<>> /\ mappings[1].kind = "Http" THEN mappings[1] ELSE Http(NoAuth, <<>>)
WithHttp(m) == mappings' = IF mappings = <<>> THEN <<m>> ELSE ReplaceAt(mappings, 1, m)

\* ... replace drops every fallback, and push appends one.
Replace(m) == mappings' = <<m>>
PushFallback(m) == mappings' = Append(mappings, m)

\* A plausible slip: the header registered before the bearer secret is lost.
BearerDroppingHeader(r) ==
    /\ Register("bearer", r)
    /\ WithHttp(Http(Auth("Bearer", NoName, r.secret), Primary.extras))

Bearer(r) ==
    /\ Register("bearer", r)
    /\ WithHttp(Http(Auth("Bearer", NoName, r.secret),
                     (IF Primary.auth.scheme = "Header" THEN <<Pair(Primary.auth)>> ELSE <<>>)
                     \o Primary.extras))

Header(r) ==
    /\ Register("header", r)
    /\ WithHttp(IF Primary.auth.scheme = "None"
                THEN Http(Auth("Header", r.header, r.secret), Primary.extras)
                ELSE Http(Primary.auth, Append(Primary.extras, Pair(r))))

BearerHeader(r) ==
    Register("bearer_header", r) /\ WithHttp(Http(Primary.auth, Append(Primary.extras, Pair(r))))

OrHeader(r) == Register("or_header", r) /\ PushFallback(Http(Auth("Header", r.header, r.secret), <<>>))
OrBearer(r) == Register("or_bearer", r) /\ PushFallback(Http(Auth("Bearer", NoName, r.secret), <<>>))
AwsChain(r) == Register("aws_default_chain", r) /\ Replace(AwsDefaultChain(r.region))
OrAwsChain(r) == Register("or_aws_default_chain", r) /\ PushFallback(AwsDefaultChain(r.region))
BedrockKey(r) == Register("bedrock_bearer", r) /\ Replace(BedrockBearer(r.secret))
OrBedrockKey(r) == Register("or_bedrock_bearer", r) /\ PushFallback(BedrockBearer(r.secret))

BuildTable ==
    /\ phase = "Registering" /\ phase' = "Idle"
    /\ UNCHANGED <<table, attempt, world, awsConfig, attempts, answer>>

----------------------------------------------------------------------------
(* Resolution: ConventionalCredentials::resolve *)

\* ConventionalCredentials::specs_for
Specs ==
    IF mappings # <<>> THEN mappings
    ELSE CASE row.scheme = "Bearer" -> <<Http(Auth("Bearer", NoName, row.derived), <<>>)>>
           [] row.scheme = "Header" -> <<Http(Auth("Header", row.header, row.derived), <<>>)>>
           [] row.scheme = "BedrockBearer" -> <<BedrockBearer(row.derived)>>
           [] row.scheme = "None" -> <<Http(NoAuth, <<>>)>>
           [] OTHER -> <<>>

\* The secrets a mapping reads, in the order it reads them.
SecretNames(m) ==
    CASE m.kind = "Http" ->
            (IF m.auth.scheme = "None" THEN <<>> ELSE <<m.auth.secret>>)
            \o [i \in DOMAIN m.extras |-> m.extras[i].secret]
      [] m.kind = "BedrockBearer" -> <<m.secret>>
      [] OTHER -> <<>>

\* What an operator is shown: the names of all mappings, none twice.
AllSecretNames ==
    LET names == FlattenSeq([i \in DOMAIN Specs |-> SecretNames(Specs[i])])
        firsts == {i \in DOMAIN names : \A j \in 1..(i - 1) : names[j] # names[i]}
    IN [k \in 1..Cardinality(firsts) |->
          names[CHOOSE i \in firsts : Cardinality({j \in firsts : j <= i}) = k]]

Names == SecretNames(Specs[at])

StartAttempt ==
    /\ phase = "Idle" /\ attempts < MaxAttempts
    /\ attempts' = attempts + 1
    /\ IF Specs = <<>>
       THEN answer' = Failed("NotConfigured") /\ UNCHANGED <<phase, attempt, held>>
       ELSE /\ phase' = "Reading" /\ answer' = NoAnswer
            /\ at' = 1 /\ read' = <<>> /\ missing' = NoName /\ region' = NoName
            /\ held' = [s \in Secrets |-> {store[s]}]
    /\ UNCHANGED <<table, store, changes, awsConfig>>

ReadSecret ==
    /\ phase = "Reading" /\ Len(read) < Len(Names)
    /\ store[Names[Len(read) + 1]] # Absent
    /\ read' = Append(read, store[Names[Len(read) + 1]])
    /\ UNCHANGED <<table, at, missing, region, world, phase, awsConfig, attempts, answer>>

\* A plausible slip: the last failure is reported.
LastReported(secret) == secret

\* The secret of the first mapping that failed is the one to report.
Reported(secret) == IF missing = NoName THEN secret ELSE missing

MissSecret ==
    /\ phase = "Reading" /\ Len(read) < Len(Names)
    /\ store[Names[Len(read) + 1]] = Absent
    /\ missing' = Reported(Names[Len(read) + 1])
    /\ IF at < Len(Specs)
       THEN at' = at + 1 /\ read' = <<>> /\ UNCHANGED <<phase, answer>>
       ELSE phase' = "Idle" /\ answer' = Failed("MissingSecret") /\ UNCHANGED <<at, read>>
    /\ UNCHANGED <<table, region, world, awsConfig, attempts>>

Resolved(kind) == phase = "Reading" /\ Len(read) = Len(Names) /\ Specs[at].kind = kind

----------------------------------------------------------------------------
(* Headers *)

Plain(header) == [name |-> header[1], value |-> header[2], sensitive |-> FALSE]
Secret(name, value) == [name |-> name, value |-> value, sensitive |-> TRUE]

\* credential_headers: the headers of an HTTP mapping that was read, or of a
\* Bedrock key; a set, empty if they do not match the provider's scheme.
CredentialHeaders ==
    LET m == Specs[at]
        primary == IF m.kind = "Http" /\ m.auth.scheme # "None" THEN 1 ELSE 0
        extras == [i \in DOMAIN m.extras |-> Secret(m.extras[i].header, <<read[primary + i]>>)]
        http(headers) == {headers \o extras}
        bearer == <<Secret("authorization", <<"Bearer", read[1]>>)>>
    IN IF m.kind = "BedrockBearer"
       THEN IF row.scheme \in {"BedrockBearer", "Aws"} THEN {bearer} ELSE {}
       ELSE CASE row.scheme = "None" /\ m.auth.scheme = "None" -> http(<<>>)
              [] row.scheme = "Bearer" /\ m.auth.scheme = "Bearer" ->
                    http(<<Secret(row.header, <<row.prefix, read[1]>>)>>)
              [] row.scheme = "Header" /\ m.auth.scheme = "Header" /\ m.auth.header = row.header ->
                    http(<<Secret(row.header, <<read[1]>>)>>)
              [] row.scheme = "Headers" ->
                    http(CASE m.auth.scheme = "None" -> <<>>
                           [] m.auth.scheme = "Bearer" -> bearer
                           [] m.auth.scheme = "Header" -> <<Secret(m.auth.header, <<read[1]>>)>>)
              [] OTHER -> {}

\* HeaderMap::insert of each header in turn: a later one replaces an earlier.
NamedAt(headers, n) == {i \in DOMAIN headers : headers[i].name = n}
Inserted(headers) ==
    [n \in {headers[i].name : i \in DOMAIN headers} |->
        LET last == CHOOSE i \in NamedAt(headers, n) : \A j \in NamedAt(headers, n) : j <= i
        IN [value |-> headers[last].value, sensitive |-> headers[last].sensitive]]

JsonContent == <<"content-type", <<"application/json">> >>
Originator == IF row.identify THEN <<<<"originator", <<"application">> >> >> ELSE <<>>
Each(headers) == [i \in DOMAIN headers |-> Plain(headers[i])]

\* Client::with_default_headers: an application's own headers are secret.
Defaults == [i \in DOMAIN row.client |-> Secret(row.client[i][1], row.client[i][2])]

\* prepare_with: the client's default headers, the content type, the codec's
\* headers, those of the catalog, and the credentials.
Merged(credentials) ==
    Inserted(Defaults \o <<Plain(JsonContent)>> \o Each(row.codec) \o Each(Originator)
             \o Each(row.defaults) \o credentials)

\* Encrypted, or never off this machine, or for the HTTP client to reject.
IsProtected ==
    \/ ~row.url.parses
    \/ row.url.scheme # "http"
    \/ row.url.host \in {"loopback address", "localhost"}

\* A plausible slip: extra headers are not counted.
SendsPrimarySecret == Specs[at].kind # "Http" \/ Specs[at].auth.scheme # "None"

SendsSecrets == Specs[at].kind # "Http" \/ Specs[at].auth.scheme # "None" \/ Specs[at].extras # <<>>

Prepared(credentials) ==
    [kind |-> "Prepared", headers |-> Merged(credentials), signed |-> {}]

\* EncodedRequest::prepare
Prepare ==
    IF CredentialHeaders = {} THEN Failed("Authentication")
    ELSE LET credentials == CHOOSE c \in CredentialHeaders : TRUE
             unfit == \E h \in ToSet(credentials) : Last(h.value) = Unfit
         IN IF unfit \/ (SendsSecrets /\ ~IsProtected)
            THEN Failed("Configuration")
            ELSE Prepared(credentials)

Answered(a) ==
    /\ phase' = "Idle" /\ answer' = a
    /\ UNCHANGED <<table, attempt, world, awsConfig, attempts>>

\* HttpProviderAdapter
PrepareHttp ==
    /\ row.adapter = "http"
    /\ \/ (Resolved("Http") \/ Resolved("BedrockBearer")) /\ Answered(Prepare)
       \/ /\ Resolved("AwsDefaultChain")
          /\ Answered(Failed(IF row.scheme = "Aws" THEN "Configuration" ELSE "Authentication"))

\* BedrockAdapter::authenticate
PrepareBedrock ==
    /\ row.adapter = "bedrock"
    /\ \/ Resolved("BedrockBearer") /\ Answered(Prepare)
       \/ Resolved("Http") /\ Answered(Failed("Authentication"))

StartSigning ==
    /\ row.adapter = "bedrock" /\ Resolved("AwsDefaultChain")
    /\ phase' = "Region"
    /\ UNCHANGED <<table, attempt, world, awsConfig, attempts, answer>>

----------------------------------------------------------------------------
(* AWS *)

\* The region that needs no AWS configuration: the credentials name it, or
\* the catalog, or a standard Bedrock endpoint.
KnownRegion ==
    IF Specs[at].region # NoName THEN Specs[at].region
    ELSE IF row.scheme = "Aws" /\ row.region # NoName THEN row.region
    ELSE row.endpoint

\* AwsSigner::awsConfig, loaded once, when it is first asked for.
LoadConfig(c) ==
    /\ phase = "Signing" \/ (phase = "Region" /\ KnownRegion = NoName)
    /\ awsConfig = <<>> /\ awsConfig' = <<c>>
    /\ UNCHANGED <<table, attempt, world, phase, attempts, answer>>

ResolveRegion ==
    LET found == IF KnownRegion # NoName THEN KnownRegion ELSE awsConfig[1].region
    IN /\ phase = "Region"
       /\ KnownRegion # NoName \/ awsConfig # <<>>
       /\ IF found = NoName
          THEN Answered(Failed("Configuration"))
          ELSE /\ region' = found /\ phase' = "Signing"
               /\ UNCHANGED <<table, at, read, missing, world, awsConfig, attempts, answer>>

ClientOwned == {"accept-encoding", "content-length"}

\* What the signature covers of the request's headers, and those it adds: its
\* own date replaces any other.
Signable(headers) == DOMAIN headers \ (ClientOwned \cup {"authorization", "user-agent", "x-amz-date"})
SignatureHeaders ==
    [n \in {"authorization", "x-amz-date"} |->
        IF n = "authorization" THEN [value |-> <<"AWS4", region>>, sensitive |-> TRUE]
        ELSE [value |-> <<"now">>, sensitive |-> FALSE]]
WithSignature(headers) ==
    [n \in DOMAIN SignatureHeaders \cup DOMAIN headers |->
        IF n \in DOMAIN SignatureHeaders THEN SignatureHeaders[n] ELSE headers[n]]

\* A plausible slip: the catalog's headers are added to the signed request.
SignedBeforeDefaults ==
    LET headers == Inserted(Defaults \o <<Plain(JsonContent)>> \o Each(row.codec))
    IN [kind |-> "Prepared", headers |-> Inserted(Each(row.defaults)) @@ WithSignature(headers),
        signed |-> {[name |-> n, value |-> headers[n].value] : n \in Signable(headers)}]

SignedRequest ==
    LET headers == Merged(<<>>)
    IN [kind |-> "Prepared", headers |-> WithSignature(headers),
        signed |-> {[name |-> n, value |-> headers[n].value] : n \in Signable(headers)}]

\* The chain has no provider, or cannot supply credentials now, or does.
Sign(supplied) ==
    /\ phase = "Signing" /\ awsConfig # <<>>
    /\ Answered(IF awsConfig[1].provider /\ supplied THEN SignedRequest ELSE Failed("Authentication"))

\* The call is dropped while it awaits the AWS libraries.
DropAttempt == phase \in {"Region", "Signing"} /\ Answered(NoAnswer)

----------------------------------------------------------------------------

\* Another thread changes a secret.
ChangeStore(s, value) ==
    /\ phase # "Registering" /\ changes < MaxChanges /\ value # store[s]
    /\ store' = [store EXCEPT ![s] = value]
    /\ changes' = changes + 1
    /\ held' = IF phase = "Reading" THEN [held EXCEPT ![s] = @ \cup {value}] ELSE held
    /\ UNCHANGED <<table, attempt, phase, awsConfig, attempts, answer>>

\* Nothing is left to do.
AllAttempted == phase = "Idle" /\ attempts = MaxAttempts /\ UNCHANGED authVars

AuthNext ==
    \/ \E r \in Registrations :
          \/ Bearer(r) \/ Header(r) \/ BearerHeader(r) \/ OrHeader(r) \/ OrBearer(r)
          \/ AwsChain(r) \/ OrAwsChain(r) \/ BedrockKey(r) \/ OrBedrockKey(r)
    \/ BuildTable \/ StartAttempt \/ ReadSecret \/ MissSecret
    \/ PrepareHttp \/ PrepareBedrock \/ StartSigning \/ DropAttempt \/ AllAttempted
    \/ ResolveRegion
    \/ \E c \in Chains : LoadConfig(c)
    \/ \E supplied \in BOOLEAN : Sign(supplied)
    \/ \E s \in Secrets, value \in Values : ChangeStore(s, value)

AuthSpec == AuthInit /\ [][AuthNext]_authVars

----------------------------------------------------------------------------
(* Properties *)

Fallback(r) == r.method \in {"or_header", "or_bearer", "or_aws_default_chain", "or_bedrock_bearer"}
Replacing(r) == r.method \in {"aws_default_chain", "bedrock_bearer"}

\* The registrations that count: from the last one that replaces the others.
Counting ==
    LET replacing == {i \in DOMAIN registered : Replacing(registered[i])}
    IN IF replacing = {} THEN registered
       ELSE SubSeq(registered, CHOOSE i \in replacing : \A j \in replacing : j <= i, Len(registered))

\* Where the fallbacks are in a list of registrations, and the calls that edit
\* the first mapping.
Fallbacks(list) == {i \in DOMAIN list : Fallback(list[i])}
Primaries(list) == {i \in DOMAIN list : ~Fallback(list[i]) /\ ~Replacing(list[i])}

\* The secrets the primary registrations name: every header and the last
\* bearer, in whatever order they were registered; a bearer or a header drops
\* what is not HTTP.
PrimarySecrets(list) ==
    LET bearers == {i \in Primaries(list) : list[i].method = "bearer"}
        naming == IF Primaries(list) = {}
                  THEN {i \in DOMAIN list : Replacing(list[i]) /\ ~Keyless(list[i])}
                  ELSE {i \in Primaries(list) : i \in bearers => \A j \in bearers : j <= i}
    IN {list[i].secret : i \in naming}

\* The secrets of each fallback, in the order of their registration.
FallbackSecrets(list) ==
    LET secrets(i) == IF Keyless(list[i]) THEN {} ELSE {list[i].secret}
        rank(i) == Cardinality({j \in Fallbacks(list) : j <= i})
    IN [k \in 1..Cardinality(Fallbacks(list)) |->
          UNION {secrets(i) : i \in {j \in Fallbacks(list) : rank(j) = k}}]

\* The secrets of each mapping that was registered, in the order of preference.
Wanted ==
    IF registered = <<>>
    THEN IF row.scheme = "None" THEN <<{}>> ELSE <<{row.derived}>>
    ELSE (IF Fallbacks(Counting) = DOMAIN Counting THEN <<>> ELSE <<PrimarySecrets(Counting)>>)
         \o FallbackSecrets(Counting)

\* A fallback registered before any primary becomes the one that a primary
\* registration edits.
EditsFallback(list) == \E i, j \in DOMAIN list : i < j /\ Fallback(list[1]) /\ ~Fallback(list[j])
FallbackFirst == EditsFallback(Counting)

\* The attempt authenticates by headers, not by a signature.
Keyed == Specs[at].kind # "AwsDefaultChain"

Missed(secrets) == \E s \in secrets : Absent \in held[s]

\* The first registered mapping whose secrets are all there serves, whatever
\* order the table was built in and whatever changes meanwhile: an earlier one
\* missed a secret during the attempt, each secret on the wire was held during
\* the attempt, and a failure names a secret of the first mapping.  A fallback
\* registered before every primary is left out: the builder overwrites it.
FirstCompleteServes ==
    attempts > 0 /\ phase # "Reading" /\ ~FallbackFirst =>
        CASE answer.kind = "Error" /\ answer.error = "NotConfigured" ->
                registered = <<>> /\ row.scheme \in {"Headers", "Aws"}
          [] answer.kind = "Error" /\ answer.error = "MissingSecret" ->
                /\ missing \in Wanted[1] /\ Absent \in held[missing]
                /\ \A i \in DOMAIN Wanted : Missed(Wanted[i])
                /\ missing \in ToSet(AllSecretNames)
          [] OTHER ->
                /\ \A i \in 1..(at - 1) : Missed(Wanted[i])
                /\ Wanted[at] = ToSet(Names)
                /\ \A k \in DOMAIN read : read[k] \in held[Names[k]] \ {Absent}

\* A prepared request has the credentials as its last word: each of them is
\* there and marked sensitive, and the connection is closed to others.  Another
\* header has the value of the last source that names it, is sensitive only if
\* that source is the application, and none is lost.  A signed request is sent
\* as it was signed, for the region that says most (transport/request.rs,
\* `prepare_with`; transport/aws.rs, `sign` and `resolve_region`).
HeadersAreRight ==
    answer.kind = "Prepared" =>
        LET headers == answer.headers
            secrets == IF Keyed THEN Inserted(CHOOSE c \in CredentialHeaders : TRUE) ELSE SignatureHeaders
            sources == <<row.client, <<JsonContent>>, row.codec, Originator, row.defaults>>
            naming(n) == {i \in DOMAIN sources : \E h \in ToSet(sources[i]) : h[1] = n}
        IN /\ \A n \in DOMAIN secrets : headers[n] = secrets[n]
           /\ \A i \in DOMAIN sources : \A h \in ToSet(sources[i]) : h[1] \in DOMAIN headers
           /\ \A n \in DOMAIN headers \ DOMAIN secrets : naming(n) # {} =>
                 \E i \in naming(n) :
                    /\ \A k \in naming(n) : k <= i
                    /\ <<n, headers[n].value>> \in ToSet(sources[i])
                    /\ headers[n].sensitive <=> i = 1
           /\ Keyed => \A n \in DOMAIN secrets : headers[n].sensitive /\ IsProtected
           /\ ~Keyed =>
                 /\ \A h \in answer.signed : headers[h.name].value = h.value
                 /\ DOMAIN headers \ {h.name : h \in answer.signed} \subseteq
                       ClientOwned \cup {"authorization", "user-agent", "x-amz-date"}
                 /\ region = IF KnownRegion # NoName THEN KnownRegion ELSE awsConfig[1].region
=============================================================================
