-------------------------- MODULE Transport_proofs --------------------------
(***************************************************************************)
(* Theorems about authentication, for any registrations, any store and any *)
(* rows of the catalog, and about what the framers of the event streams    *)
(* hold, for any limits and any bytes.                                     *)
(***************************************************************************)
EXTENDS MCTransport, SequenceTheorems, WellFoundedInduction, TLAPS, FiniteSetTheorems

(***************************************************************************)
(* Header maps.                                                            *)
(***************************************************************************)

\* A set of positions in a sequence that has an element has a last one.
LEMMA LastPosition ==
    ASSUME NEW length \in Nat, NEW T \in SUBSET (1..length), T # {}
    PROVE  \E n \in T : \A m \in T : m <= n
  <1>. DEFINE below == {length - n : n \in T}
  <1>1. below \in SUBSET Nat /\ below # {}
    <2>1. \A n \in T : length - n \in Nat
      OBVIOUS
    <2>. QED
      BY <2>1
  <1>2. PICK b \in below : \A c \in below : ~(<<c, b>> \in OpToRel(<, Nat))
    BY <1>1, NatLessThanWellFounded, WFMin, Zenon
  <1>3. PICK n \in T : b = length - n
    BY <1>2
  <1>4. \A m \in T : <<length - m, b>> \notin OpToRel(<, Nat)
    BY <1>2
  <1>5. ASSUME NEW m \in T, ~(m <= n) PROVE FALSE
    <2>1. length - m \in Nat /\ b \in Nat /\ length - m < b
      BY <1>3, <1>5
    <2>2. <<length - m, b>> \in OpToRel(<, Nat)
      BY <2>1 DEF OpToRel
    <2>. QED
      BY <1>4, <2>2
  <1>. QED
    BY <1>3, <1>5

IsList(headers) == DOMAIN headers = 1..Len(headers) /\ Len(headers) \in Nat

NamesIn(headers) == {headers[i].name : i \in DOMAIN headers}

\* Of several headers with one name the last is in the map.
IsLast(headers, n, i) ==
    /\ i \in NamedAt(headers, n)
    /\ \A j \in NamedAt(headers, n) : j <= i

LEMMA LastIsInserted ==
    ASSUME NEW headers, IsList(headers), NEW n \in NamesIn(headers)
    PROVE  \E i \in DOMAIN headers :
              /\ IsLast(headers, n, i)
              /\ Inserted(headers)[n] = [value |-> headers[i].value, sensitive |-> headers[i].sensitive]
  <1>. DEFINE last == CHOOSE i \in NamedAt(headers, n) : \A j \in NamedAt(headers, n) : j <= i
  <1>1. NamedAt(headers, n) \in SUBSET (1..Len(headers)) /\ NamedAt(headers, n) # {}
    BY DEF NamedAt, IsList, NamesIn
  <1>2. \E i \in NamedAt(headers, n) : \A j \in NamedAt(headers, n) : j <= i
    BY <1>1, LastPosition DEF IsList
  <1>3. last \in NamedAt(headers, n) /\ \A j \in NamedAt(headers, n) : j <= last
    BY <1>2
  <1>4. Inserted(headers)[n] = [value |-> headers[last].value, sensitive |-> headers[last].sensitive]
    BY DEF Inserted, NamesIn
  <1>5. last \in DOMAIN headers
    BY <1>3 DEF NamedAt
  <1>. HIDE DEF last
  <1>. QED
    BY <1>3, <1>4, <1>5 DEF IsLast

LEMMA InsertedDomain == ASSUME NEW headers PROVE DOMAIN Inserted(headers) = NamesIn(headers)
  BY DEF Inserted, NamesIn

\* Headers that are inserted later replace those of the same name.
LEMMA LaterReplaces ==
    ASSUME NEW a, NEW b, IsList(a), IsList(b)
    PROVE  /\ IsList(a \o b) /\ NamesIn(a \o b) = NamesIn(a) \cup NamesIn(b)
           /\ \A n \in NamesIn(b) : Inserted(a \o b)[n] = Inserted(b)[n]
           /\ \A n \in NamesIn(a) \ NamesIn(b) : Inserted(a \o b)[n] = Inserted(a)[n]
  <1>. DEFINE c == a \o b
  <1>1. /\ Len(a) \in Nat /\ Len(b) \in Nat /\ Len(c) = Len(a) + Len(b) /\ DOMAIN c = 1..Len(c)
        /\ \A i \in 1..Len(c) : c[i] = IF i <= Len(a) THEN a[i] ELSE b[i - Len(a)]
    BY DEF IsList
  <1>2. DOMAIN a = 1..Len(a) /\ DOMAIN b = 1..Len(b)
    BY DEF IsList
  <1>. HIDE DEF c
  <1>3. IsList(c)
    BY <1>1 DEF IsList
  <1>4. \A i \in DOMAIN a : i \in DOMAIN c /\ c[i] = a[i]
    BY <1>1, <1>2
  <1>5. \A i \in DOMAIN b : i + Len(a) \in DOMAIN c /\ c[i + Len(a)] = b[i]
    BY <1>1, <1>2
  <1>6. \A i \in DOMAIN c : (i \in DOMAIN a /\ c[i] = a[i])
                               \/ (i - Len(a) \in DOMAIN b /\ i > Len(a) /\ c[i] = b[i - Len(a)])
    BY <1>1, <1>2
  <1>7. NamesIn(c) = NamesIn(a) \cup NamesIn(b)
    BY <1>4, <1>5, <1>6 DEF NamesIn
  <1>8. ASSUME NEW n \in NamesIn(b) PROVE Inserted(c)[n] = Inserted(b)[n]
    <2>1. PICK i \in DOMAIN b :
              /\ IsLast(b, n, i)
              /\ Inserted(b)[n] = [value |-> b[i].value, sensitive |-> b[i].sensitive]
      BY LastIsInserted
    <2>2. PICK k \in DOMAIN c :
              /\ IsLast(c, n, k)
              /\ Inserted(c)[n] = [value |-> c[k].value, sensitive |-> c[k].sensitive]
      BY <1>3, <1>7, <1>8, LastIsInserted
    <2>3. i + Len(a) \in NamedAt(c, n) /\ i \in 1..Len(b)
      BY <1>2, <1>5, <2>1 DEF IsLast, NamedAt
    <2>4. i + Len(a) <= k
      BY <2>2, <2>3 DEF IsLast
    <2>5. k - Len(a) \in DOMAIN b /\ c[k] = b[k - Len(a)]
      BY <1>1, <1>2, <1>6, <2>2, <2>3, <2>4
    <2>6. k - Len(a) \in NamedAt(b, n)
      BY <2>2, <2>5 DEF IsLast, NamedAt
    <2>7. k - Len(a) <= i
      BY <2>1, <2>6 DEF IsLast
    <2>8. k - Len(a) = i
      BY <1>1, <2>2, <2>3, <2>4, <2>7
    <2>. QED
      BY <2>1, <2>2, <2>5, <2>8
  <1>9. ASSUME NEW n \in NamesIn(a) \ NamesIn(b) PROVE Inserted(c)[n] = Inserted(a)[n]
    <2>1. PICK i \in DOMAIN a :
              /\ IsLast(a, n, i)
              /\ Inserted(a)[n] = [value |-> a[i].value, sensitive |-> a[i].sensitive]
      BY LastIsInserted
    <2>2. PICK k \in DOMAIN c :
              /\ IsLast(c, n, k)
              /\ Inserted(c)[n] = [value |-> c[k].value, sensitive |-> c[k].sensitive]
      BY <1>3, <1>7, <1>9, LastIsInserted
    <2>3. c[k].name = n
      BY <2>2 DEF IsLast, NamedAt
    <2>4. k \in DOMAIN a /\ c[k] = a[k]
      BY <1>6, <1>9, <2>2, <2>3 DEF NamesIn
    <2>5. k \in NamedAt(a, n) /\ i \in NamedAt(c, n)
      BY <1>4, <2>1, <2>3, <2>4 DEF IsLast, NamedAt
    <2>6. k <= i /\ i <= k
      BY <2>1, <2>2, <2>5 DEF IsLast
    <2>7. k = i
      BY <1>1, <1>2, <2>1, <2>2, <2>6
    <2>. QED
      BY <2>1, <2>2, <2>4, <2>7
  <1>. QED
    BY <1>3, <1>7, <1>8, <1>9 DEF c

(***************************************************************************)
(* The sources of a request's headers.                                     *)
(***************************************************************************)

\* These headers are those of s, all of them secret or none.
Tells(headers, s, secret) ==
    /\ IsList(headers) /\ NamesIn(headers) = {h[1] : h \in ToSet(s)}
    /\ \A n \in NamesIn(headers) :
          /\ <<n, Inserted(headers)[n].value>> \in ToSet(s)
          /\ Inserted(headers)[n].sensitive = secret

LEMMA EachIsPlain == ASSUME NEW s, IsHeaderList(s) PROVE Tells(Each(s), s, FALSE)
  <1>. DEFINE e == Each(s)
  <1>1. /\ DOMAIN s = 1..Len(s) /\ Len(s) \in Nat
        /\ \A i \in DOMAIN s : s[i] \in ToSet(s) /\ s[i] = <<s[i][1], s[i][2]>>
        /\ \A h \in ToSet(s) : \E i \in DOMAIN s : s[i] = h
    BY DEF IsHeaderList, ToSet
  <1>2. /\ DOMAIN e = 1..Len(s) /\ Len(e) = Len(s)
        /\ \A i \in DOMAIN e : e[i].name = s[i][1] /\ e[i].value = s[i][2] /\ e[i].sensitive = FALSE
    BY <1>1 DEF Each, Plain
  <1>. HIDE DEF e
  <1>3. IsList(e) /\ NamesIn(e) = {h[1] : h \in ToSet(s)}
    BY <1>1, <1>2 DEF IsList, NamesIn
  <1>4. ASSUME NEW n \in NamesIn(e)
        PROVE  <<n, Inserted(e)[n].value>> \in ToSet(s) /\ Inserted(e)[n].sensitive = FALSE
    <2>1. PICK i \in DOMAIN e :
              /\ IsLast(e, n, i)
              /\ Inserted(e)[n] = [value |-> e[i].value, sensitive |-> e[i].sensitive]
      BY <1>3, LastIsInserted
    <2>2. e[i].name = n
      BY <2>1 DEF IsLast, NamedAt
    <2>. QED
      BY <1>1, <1>2, <2>1, <2>2
  <1>. QED
    BY <1>3, <1>4 DEF e, Tells

\* An application's own headers are all secret.
LEMMA DefaultsAreSecret ==
    ASSUME IsHeaderList(row.client)
    PROVE  Tells(Defaults, row.client, TRUE)
  <1>. DEFINE s == row.client
              e == Defaults
  <1>1. /\ DOMAIN s = 1..Len(s) /\ Len(s) \in Nat
        /\ \A i \in DOMAIN s : s[i] \in ToSet(s) /\ s[i] = <<s[i][1], s[i][2]>>
        /\ \A h \in ToSet(s) : \E i \in DOMAIN s : s[i] = h
    BY DEF IsHeaderList, ToSet
  <1>2. /\ DOMAIN e = 1..Len(s) /\ Len(e) = Len(s)
        /\ \A i \in DOMAIN e : e[i].name = s[i][1] /\ e[i].value = s[i][2] /\ e[i].sensitive = TRUE
    BY <1>1 DEF Defaults, Secret
  <1>. HIDE DEF e, s
  <1>3. IsList(e) /\ NamesIn(e) = {h[1] : h \in ToSet(s)}
    BY <1>1, <1>2 DEF IsList, NamesIn
  <1>4. ASSUME NEW n \in NamesIn(e)
        PROVE  <<n, Inserted(e)[n].value>> \in ToSet(s) /\ Inserted(e)[n].sensitive = TRUE
    <2>1. PICK i \in DOMAIN e :
              /\ IsLast(e, n, i)
              /\ Inserted(e)[n] = [value |-> e[i].value, sensitive |-> e[i].sensitive]
      BY <1>3, LastIsInserted
    <2>2. e[i].name = n
      BY <2>1 DEF IsLast, NamedAt
    <2>. QED
      BY <1>1, <1>2, <2>1, <2>2
  <1>. QED
    BY <1>3, <1>4 DEF e, s, Tells

Sources == <<row.client, <<JsonContent>>, row.codec, Originator, row.defaults>>

Naming(n) == {i \in DOMAIN Sources : \E h \in ToSet(Sources[i]) : h[1] = n}

\* A header has the value of the last source that names it.
FromLastSource(headers, n) ==
    \E i \in Naming(n) :
        /\ \A k \in Naming(n) : k <= i
        /\ <<n, headers[n].value>> \in ToSet(Sources[i])
        /\ headers[n].sensitive <=> i = 1

LEMMA OneHeader ==
    ASSUME NEW name, NEW value
    PROVE  IsHeaderList(<<<<name, value>> >>)
  <1>1. ToSet(<<<<name, value>> >>) = {<<name, value>>}
    BY DEF ToSet
  <1>. QED
    BY <1>1 DEF IsHeaderList

LEMMA SourcesAreLists ==
    ASSUME row \in Served
    PROVE  \A i \in 1..5 : IsHeaderList(Sources[i])
  <1>1. IsHeaderList(<<JsonContent>>)
    BY OneHeader DEF JsonContent
  <1>2. IsHeaderList(<<>>)
    BY DEF IsHeaderList, ToSet
  <1>3. IsHeaderList(Originator)
    BY <1>2, OneHeader DEF Originator
  <1>. QED
    BY <1>1, <1>3, ServedAssumption DEF Sources

\* The merged headers: the credentials as they are, the others from the last
\* source that names them, and none lost.
LEMMA MergedIsRight ==
    ASSUME row \in Served, NEW c, IsList(c)
    PROVE  LET headers == Merged(c)
           IN  /\ \A n \in NamesIn(c) : n \in DOMAIN headers /\ headers[n] = Inserted(c)[n]
               /\ \A i \in DOMAIN Sources : \A h \in ToSet(Sources[i]) : h[1] \in DOMAIN headers
               /\ \A n \in DOMAIN headers \ NamesIn(c) : FromLastSource(headers, n)
  <1>. DEFINE s2 == Each(<<JsonContent>>)
              s3 == Each(row.codec)
              s4 == Each(Originator)
              s5 == Each(row.defaults)
              u2 == Defaults \o s2
              u3 == u2 \o s3
              u4 == u3 \o s4
              u5 == u4 \o s5
              u6 == u5 \o c
              headers == Merged(c)
  <1>1. s2 = <<Plain(JsonContent)>>
    BY DEF Each
  <1>2. headers = Inserted(u6)
    BY <1>1 DEF Merged
  <1>3. /\ Sources[1] = row.client /\ Sources[2] = <<JsonContent>> /\ Sources[3] = row.codec
        /\ Sources[4] = Originator /\ Sources[5] = row.defaults /\ DOMAIN Sources = 1..5
    BY DEF Sources
  <1>4. \A i \in 1..5 : IsHeaderList(Sources[i])
    BY SourcesAreLists
  <1>5. /\ Tells(Defaults, Sources[1], TRUE) /\ Tells(s2, Sources[2], FALSE)
        /\ Tells(s3, Sources[3], FALSE) /\ Tells(s4, Sources[4], FALSE)
        /\ Tells(s5, Sources[5], FALSE)
    <2>1. /\ IsHeaderList(row.client) /\ IsHeaderList(<<JsonContent>>) /\ IsHeaderList(row.codec)
          /\ IsHeaderList(Originator) /\ IsHeaderList(row.defaults)
      BY <1>3, <1>4
    <2>. QED
      BY <1>3, <2>1, DefaultsAreSecret, EachIsPlain
  <1>. HIDE DEF s2, s3, s4, s5
  <1>6. /\ IsList(u2) /\ NamesIn(u2) = NamesIn(Defaults) \cup NamesIn(s2)
        /\ \A n \in NamesIn(s2) : Inserted(u2)[n] = Inserted(s2)[n]
        /\ \A n \in NamesIn(Defaults) \ NamesIn(s2) : Inserted(u2)[n] = Inserted(Defaults)[n]
    BY <1>5, LaterReplaces DEF Tells
  <1>. HIDE DEF u2
  <1>7. /\ IsList(u3) /\ NamesIn(u3) = NamesIn(u2) \cup NamesIn(s3)
        /\ \A n \in NamesIn(s3) : Inserted(u3)[n] = Inserted(s3)[n]
        /\ \A n \in NamesIn(u2) \ NamesIn(s3) : Inserted(u3)[n] = Inserted(u2)[n]
    BY <1>5, <1>6, LaterReplaces DEF Tells
  <1>. HIDE DEF u3
  <1>8. /\ IsList(u4) /\ NamesIn(u4) = NamesIn(u3) \cup NamesIn(s4)
        /\ \A n \in NamesIn(s4) : Inserted(u4)[n] = Inserted(s4)[n]
        /\ \A n \in NamesIn(u3) \ NamesIn(s4) : Inserted(u4)[n] = Inserted(u3)[n]
    BY <1>5, <1>7, LaterReplaces DEF Tells
  <1>. HIDE DEF u4
  <1>9. /\ IsList(u5) /\ NamesIn(u5) = NamesIn(u4) \cup NamesIn(s5)
        /\ \A n \in NamesIn(s5) : Inserted(u5)[n] = Inserted(s5)[n]
        /\ \A n \in NamesIn(u4) \ NamesIn(s5) : Inserted(u5)[n] = Inserted(u4)[n]
    BY <1>5, <1>8, LaterReplaces DEF Tells
  <1>. HIDE DEF u5
  <1>10. /\ NamesIn(u6) = NamesIn(u5) \cup NamesIn(c) /\ DOMAIN Inserted(u6) = NamesIn(u6)
         /\ \A n \in NamesIn(c) : Inserted(u6)[n] = Inserted(c)[n]
         /\ \A n \in NamesIn(u5) \ NamesIn(c) : Inserted(u6)[n] = Inserted(u5)[n]
    BY <1>9, LaterReplaces, InsertedDomain
  <1>. HIDE DEF u6, headers
  <1>11. \A n \in NamesIn(c) : n \in DOMAIN headers /\ headers[n] = Inserted(c)[n]
    BY <1>2, <1>10
  <1>12. ASSUME NEW i \in DOMAIN Sources, NEW h \in ToSet(Sources[i]) PROVE h[1] \in DOMAIN headers
    <2>1. h[1] \in NamesIn(u5)
      <3>1. i = 1 \/ i = 2 \/ i = 3 \/ i = 4 \/ i = 5
        BY <1>3
      <3>. QED
        BY <3>1, <1>5, <1>6, <1>7, <1>8, <1>9 DEF Tells
    <2>. QED
      BY <1>2, <1>10, <2>1
  <1>13. ASSUME NEW n \in DOMAIN headers \ NamesIn(c) PROVE FromLastSource(headers, n)
    <2>1. n \in NamesIn(u5) /\ headers[n] = Inserted(u5)[n]
      BY <1>2, <1>10
    <2>2. /\ 1 \in Naming(n) <=> n \in NamesIn(Defaults)
          /\ 2 \in Naming(n) <=> n \in NamesIn(s2)
          /\ 3 \in Naming(n) <=> n \in NamesIn(s3)
          /\ 4 \in Naming(n) <=> n \in NamesIn(s4)
          /\ 5 \in Naming(n) <=> n \in NamesIn(s5)
          /\ Naming(n) \subseteq 1..5
      BY <1>3, <1>5 DEF Naming, Tells
    <2>3. CASE n \in NamesIn(s5)
      <3>1. <<n, headers[n].value>> \in ToSet(Sources[5]) /\ headers[n].sensitive = FALSE
        BY <1>5, <1>9, <2>1, <2>3 DEF Tells
      <3>. QED
        BY <2>2, <2>3, <3>1 DEF FromLastSource
    <2>4. CASE n \in NamesIn(s4) \ NamesIn(s5)
      <3>1. headers[n] = Inserted(s4)[n]
        BY <1>8, <1>9, <2>1, <2>4
      <3>2. <<n, headers[n].value>> \in ToSet(Sources[4]) /\ headers[n].sensitive = FALSE
        BY <1>5, <2>4, <3>1 DEF Tells
      <3>. QED
        BY <2>2, <2>4, <3>2 DEF FromLastSource
    <2>5. CASE n \in NamesIn(s3) \ (NamesIn(s4) \cup NamesIn(s5))
      <3>1. headers[n] = Inserted(s3)[n]
        BY <1>7, <1>8, <1>9, <2>1, <2>5
      <3>2. <<n, headers[n].value>> \in ToSet(Sources[3]) /\ headers[n].sensitive = FALSE
        BY <1>5, <2>5, <3>1 DEF Tells
      <3>. QED
        BY <2>2, <2>5, <3>2 DEF FromLastSource
    <2>6. CASE n \in NamesIn(s2) \ (NamesIn(s3) \cup NamesIn(s4) \cup NamesIn(s5))
      <3>1. headers[n] = Inserted(s2)[n]
        BY <1>6, <1>7, <1>8, <1>9, <2>1, <2>6
      <3>2. <<n, headers[n].value>> \in ToSet(Sources[2]) /\ headers[n].sensitive = FALSE
        BY <1>5, <2>6, <3>1 DEF Tells
      <3>. QED
        BY <2>2, <2>6, <3>2 DEF FromLastSource
    <2>7. CASE n \notin NamesIn(s2) \cup NamesIn(s3) \cup NamesIn(s4) \cup NamesIn(s5)
      <3>0. n \in NamesIn(Defaults)
        BY <1>6, <1>7, <1>8, <1>9, <2>1, <2>7
      <3>1. headers[n] = Inserted(Defaults)[n]
        BY <1>6, <1>7, <1>8, <1>9, <2>1, <2>7, <3>0
      <3>2. <<n, headers[n].value>> \in ToSet(Sources[1]) /\ headers[n].sensitive = TRUE
        BY <1>5, <3>0, <3>1 DEF Tells
      <3>. QED
        BY <2>2, <2>7, <3>0, <3>2 DEF FromLastSource
    <2>. QED
      BY <2>3, <2>4, <2>5, <2>6, <2>7
  <1>. QED
    BY <1>11, <1>12, <1>13 DEF headers

(***************************************************************************)
(* The table of secrets.                                                   *)
(***************************************************************************)

\* What a mapping of the table is.
IsMapping(m) ==
    \/ m.kind = "Http" /\ m.auth.scheme \in {"None", "Bearer", "Header"} /\ IsList(m.extras)
    \/ m.kind \in {"AwsDefaultChain", "BedrockBearer"}

IsTable(s) == IsList(s) /\ \A i \in DOMAIN s : IsMapping(s[i])

LEMMA HttpIsMapping ==
    ASSUME NEW scheme \in {"None", "Bearer", "Header"}, NEW header, NEW secret,
           NEW extras, IsList(extras)
    PROVE  IsMapping(Http(Auth(scheme, header, secret), extras))
  BY DEF IsMapping, Http, Auth

LEMMA EmptyIsList == IsList(<<>>) /\ IsTable(<<>>)
  BY DEF IsList, IsTable

LEMMA OneIsList == ASSUME NEW x PROVE IsList(<<x>>) /\ (IsMapping(x) => IsTable(<<x>>))
  BY DEF IsList, IsTable

LEMMA AppendIsList == ASSUME NEW s, IsList(s), NEW x PROVE IsList(Append(s, x))
  BY DEF IsList

LEMMA AppendIsTable == ASSUME NEW s, IsTable(s), NEW x, IsMapping(x) PROVE IsTable(Append(s, x))
  BY DEF IsList, IsTable

LEMMA ReplaceIsTable ==
    ASSUME NEW s, IsTable(s), NEW x, IsMapping(x)
    PROVE  IsTable(ReplaceAt(s, 1, x))
  <1>. DEFINE t == ReplaceAt(s, 1, x)
  <1>1. DOMAIN t = DOMAIN s /\ \A i \in DOMAIN s : t[i] = IF i = 1 THEN x ELSE s[i]
    BY DEF ReplaceAt
  <1>2. DOMAIN t = 1..Len(s) /\ Len(s) \in Nat
    BY <1>1 DEF IsTable, IsList
  <1>3. Len(t) = Len(s)
    BY <1>2 DEF ReplaceAt
  <1>. HIDE DEF t
  <1>4. IsTable(t)
    BY <1>1, <1>2, <1>3 DEF IsTable, IsList
  <1>. QED
    BY <1>4 DEF t

\* Each registration keeps the table one of mappings.
LEMMA PrimaryIsMapping ==
    ASSUME IsTable(mappings)
    PROVE  Primary.auth.scheme \in {"None", "Bearer", "Header"} /\ IsList(Primary.extras)
  <1>1. CASE mappings # <<>> /\ mappings[1].kind = "Http"
    <2>1. 1 \in DOMAIN mappings
      BY <1>1 DEF IsTable, IsList
    <2>. QED
      BY <1>1, <2>1 DEF IsTable, IsMapping, Primary
  <1>2. CASE ~(mappings # <<>> /\ mappings[1].kind = "Http")
    BY <1>2, EmptyIsList DEF Primary, Http, NoAuth, Auth
  <1>. QED
    BY <1>1, <1>2

LEMMA WithHttpKeeps ==
    ASSUME IsTable(mappings), NEW m, IsMapping(m), WithHttp(m)
    PROVE  IsTable(mappings')
  BY ReplaceIsTable, OneIsList DEF WithHttp

LEMMA RegistrationKeepsTheTable ==
    ASSUME IsTable(mappings), NEW r,
           \/ Bearer(r) \/ Header(r) \/ BearerHeader(r) \/ OrHeader(r) \/ OrBearer(r)
           \/ AwsChain(r) \/ OrAwsChain(r) \/ BedrockKey(r) \/ OrBedrockKey(r)
    PROVE  IsTable(mappings')
  <1>1. CASE Bearer(r)
    <2>. DEFINE extras == (IF Primary.auth.scheme = "Header" THEN <<Pair(Primary.auth)>> ELSE <<>>)
                          \o Primary.extras
    <2>1. IsList(extras)
      BY PrimaryIsMapping, EmptyIsList, OneIsList, LaterReplaces
    <2>2. WithHttp(Http(Auth("Bearer", NoName, r.secret), extras))
      BY <1>1 DEF Bearer
    <2>. HIDE DEF extras
    <2>. QED
      BY <2>1, <2>2, HttpIsMapping, WithHttpKeeps
  <1>2. CASE Header(r)
    <2>. DEFINE m == IF Primary.auth.scheme = "None"
                     THEN Http(Auth("Header", r.header, r.secret), Primary.extras)
                     ELSE Http(Primary.auth, Append(Primary.extras, Pair(r)))
    <2>1. IsMapping(m)
      BY PrimaryIsMapping, AppendIsList DEF IsMapping, Http, Auth
    <2>2. WithHttp(m)
      BY <1>2 DEF Header
    <2>. HIDE DEF m
    <2>. QED
      BY <2>1, <2>2, WithHttpKeeps
  <1>3. CASE BearerHeader(r)
    <2>. DEFINE m == Http(Primary.auth, Append(Primary.extras, Pair(r)))
    <2>1. IsMapping(m)
      BY PrimaryIsMapping, AppendIsList DEF IsMapping, Http
    <2>2. WithHttp(m)
      BY <1>3 DEF BearerHeader
    <2>. HIDE DEF m
    <2>. QED
      BY <2>1, <2>2, WithHttpKeeps
  <1>4. CASE OrHeader(r) \/ OrBearer(r)
    <2>1. \A scheme \in {"Bearer", "Header"} : \A header :
            IsMapping(Http(Auth(scheme, header, r.secret), <<>>))
      BY EmptyIsList DEF IsMapping, Http, Auth
    <2>2. PICK m : IsMapping(m) /\ mappings' = Append(mappings, m)
      BY <1>4, <2>1 DEF OrHeader, OrBearer, PushFallback
    <2>. QED
      BY <2>2, AppendIsTable
  <1>5. CASE AwsChain(r) \/ OrAwsChain(r) \/ BedrockKey(r) \/ OrBedrockKey(r)
    <2>1. IsMapping(AwsDefaultChain(r.region)) /\ IsMapping(BedrockBearer(r.secret))
      BY DEF IsMapping, AwsDefaultChain, BedrockBearer
    <2>2. PICK m : IsMapping(m) /\ (mappings' = Append(mappings, m) \/ mappings' = <<m>>)
      BY <1>5, <2>1 DEF AwsChain, OrAwsChain, BedrockKey, OrBedrockKey, PushFallback, Replace
    <2>. QED
      BY <2>2, AppendIsTable, OneIsList
  <1>. QED
    BY <1>1, <1>2, <1>3, <1>4, <1>5

\* So what an attempt reads is a mapping, whether registered or conventional.
LEMMA SpecsAreMappings == ASSUME IsTable(mappings) PROVE IsTable(Specs)
  <1>1. IsMapping(Http(NoAuth, <<>>)) /\ IsMapping(BedrockBearer(row.derived))
    BY EmptyIsList DEF IsMapping, Http, NoAuth, Auth, BedrockBearer
  <1>2. /\ IsMapping(Http(Auth("Bearer", NoName, row.derived), <<>>))
        /\ IsMapping(Http(Auth("Header", row.header, row.derived), <<>>))
    BY EmptyIsList, HttpIsMapping
  <1>. QED
    BY <1>1, <1>2, OneIsList, EmptyIsList DEF Specs

\* The credentials of a mapping that names secrets are sensitive headers.
LEMMA CredentialsAreSecret ==
    ASSUME Keyed, IsMapping(Specs[at]), NEW c \in CredentialHeaders
    PROVE  IsList(c) /\ (\A i \in DOMAIN c : c[i].sensitive = TRUE) /\ (~SendsSecrets => DOMAIN c = {})
  <1>. DEFINE m == Specs[at]
              primary == IF m.kind = "Http" /\ m.auth.scheme # "None" THEN 1 ELSE 0
              extras == [i \in DOMAIN m.extras |-> Secret(m.extras[i].header, <<read[primary + i]>>)]
              bearer == <<Secret("authorization", <<"Bearer", read[1]>>)>>
              IsSecret(s) == IsList(s) /\ \A i \in DOMAIN s : s[i].sensitive = TRUE
  <1>1. \A name, value : IsSecret(<<Secret(name, value)>>)
    BY DEF IsList, Secret
  <1>2. IsSecret(<<>>)
    BY EmptyIsList
  <1>3. ASSUME NEW s, IsSecret(s), NEW t, IsSecret(t) PROVE IsSecret(s \o t)
    <2>1. /\ Len(s) \in Nat /\ Len(t) \in Nat /\ Len(s \o t) = Len(s) + Len(t)
          /\ DOMAIN (s \o t) = 1..Len(s \o t)
          /\ \A i \in 1..Len(s \o t) : (s \o t)[i] = IF i <= Len(s) THEN s[i] ELSE t[i - Len(s)]
      BY <1>3 DEF IsList
    <2>2. DOMAIN s = 1..Len(s) /\ DOMAIN t = 1..Len(t)
      BY <1>3 DEF IsList
    <2>. QED
      BY <1>3, <2>1, <2>2 DEF IsList
  <1>4. CASE m.kind = "BedrockBearer"
    <2>1. c = bearer
      BY <1>4 DEF CredentialHeaders
    <2>. QED
      BY <1>1, <1>4, <2>1 DEF SendsSecrets
  <1>5. CASE m.kind = "Http"
    <2>1. m.auth.scheme \in {"None", "Bearer", "Header"} /\ IsList(m.extras)
      BY <1>5 DEF IsMapping
    <2>2. DOMAIN extras = DOMAIN m.extras /\ \A i \in DOMAIN extras : extras[i].sensitive = TRUE
      BY DEF Secret
    <2>3. DOMAIN extras = 1..Len(m.extras) /\ Len(m.extras) \in Nat
      BY <2>1, <2>2 DEF IsList
    <2>4. IsSecret(extras)
      <3>1. Len(extras) = Len(m.extras)
        BY <2>3
      <3>. HIDE DEF extras
      <3>. QED
        BY <2>2, <2>3, <3>1 DEF IsList
    <2>5. \E headers : /\ c = headers \o extras /\ IsSecret(headers)
                       /\ m.auth.scheme = "None" => headers = <<>>
      <3>1. c \in {headers \o extras : headers \in
                {<<>>, bearer, <<Secret(row.header, <<row.prefix, read[1]>>)>>,
                 <<Secret(row.header, <<read[1]>>)>>, <<Secret(m.auth.header, <<read[1]>>)>>}}
        BY <1>5, <2>1 DEF CredentialHeaders
      <3>2. m.auth.scheme = "None" => c = <<>> \o extras
        BY <1>5, <2>1 DEF CredentialHeaders
      <3>. HIDE DEF extras
      <3>. QED
        BY <1>1, <1>2, <3>1, <3>2
    <2>6. ~SendsSecrets => DOMAIN c = {}
      <3>. SUFFICES ASSUME ~SendsSecrets PROVE DOMAIN c = {}
        OBVIOUS
      <3>1. m.auth.scheme = "None" /\ m.extras = <<>>
        BY <1>5 DEF SendsSecrets
      <3>2. c = <<>> \o extras /\ Len(extras) = 0 /\ DOMAIN extras = {}
        BY <2>2, <2>3, <2>5, <3>1
      <3>. HIDE DEF extras
      <3>. QED
        BY <3>2
    <2>. HIDE DEF extras
    <2>. QED
      BY <1>3, <2>4, <2>5, <2>6
  <1>. QED
    BY <1>4, <1>5 DEF IsMapping, Keyed

(***************************************************************************)
(* What a request is sent with.                                            *)
(***************************************************************************)

\* An attempt that may still be answered by a signed request.
Signed(p) == p \in {"Region", "Signing"}

\* What holds while an attempt is under way: it reads a mapping of the table,
\* only a mapping without keys is signed, and only for the region that was
\* resolved.
AttemptIsSound ==
    /\ phase \in {"Reading", "Region", "Signing"} => at \in DOMAIN Specs
    /\ phase # "Idle" => answer.kind # "Prepared"
    /\ Signed(phase) => ~Keyed
    /\ phase = "Signing" =>
          /\ region = IF KnownRegion # NoName THEN KnownRegion ELSE awsConfig[1].region
          /\ KnownRegion = NoName => awsConfig # <<>>

AuthInv ==
    /\ row \in Served /\ IsTable(mappings)
    /\ AttemptIsSound
    /\ HeadersAreRight

\* A request with keys has the right headers.
LEMMA PreparedIsRight ==
    row \in Served /\ Keyed /\ IsMapping(Specs[at]) /\ answer = Prepare => HeadersAreRight
  <1>. SUFFICES ASSUME row \in Served, Keyed, IsMapping(Specs[at]), answer = Prepare,
                       answer.kind = "Prepared"
                PROVE  HeadersAreRight
    BY DEF HeadersAreRight
  <1>. DEFINE c == CHOOSE c \in CredentialHeaders : TRUE
              headers == Merged(c)
  <1>1. CredentialHeaders # {} /\ answer = Prepared(c) /\ (SendsSecrets => IsProtected)
    BY DEF Prepare, Failed
  <1>2. c \in CredentialHeaders
    BY <1>1
  <1>3. answer.headers = headers
    BY <1>1 DEF Prepared
  <1>. HIDE DEF c
  <1>4. IsList(c) /\ (\A i \in DOMAIN c : c[i].sensitive = TRUE) /\ (~SendsSecrets => DOMAIN c = {})
    BY <1>2, CredentialsAreSecret
  <1>5. /\ \A n \in NamesIn(c) : n \in DOMAIN headers /\ headers[n] = Inserted(c)[n]
        /\ \A i \in DOMAIN Sources : \A h \in ToSet(Sources[i]) : h[1] \in DOMAIN headers
        /\ \A n \in DOMAIN headers \ NamesIn(c) : FromLastSource(headers, n)
    BY <1>4, MergedIsRight
  <1>6. DOMAIN Inserted(c) = NamesIn(c)
    BY InsertedDomain
  <1>. HIDE DEF headers
  <1>7. ASSUME NEW n \in NamesIn(c) PROVE headers[n].sensitive /\ IsProtected
    <2>1. PICK i \in DOMAIN c : Inserted(c)[n] = [value |-> c[i].value, sensitive |-> c[i].sensitive]
      BY <1>4, LastIsInserted
    <2>2. headers[n].sensitive = TRUE
      BY <1>4, <1>5, <2>1
    <2>. QED
      BY <1>1, <1>4, <2>1, <2>2
  <1>8. HeadersAreRight
    <2>. DEFINE secrets == IF Keyed THEN Inserted(c) ELSE SignatureHeaders
    <2>1. secrets = Inserted(c)
      OBVIOUS
    <2>. HIDE DEF secrets
    <2>2. \A n \in DOMAIN secrets : headers[n] = secrets[n]
      BY <1>5, <1>6, <2>1
    <2>3. \A n \in DOMAIN headers \ DOMAIN secrets : FromLastSource(headers, n)
      BY <1>5, <1>6, <2>1
    <2>4. \A n \in DOMAIN secrets : headers[n].sensitive /\ IsProtected
      BY <1>6, <1>7, <2>1
    <2>. QED
      BY <1>3, <1>5, <2>2, <2>3, <2>4
      DEF HeadersAreRight, FromLastSource, Naming, Sources, secrets, c
  <1>. QED
    BY <1>8

\* So has a request that is signed.
LEMMA SignedIsRight ==
    /\ row \in Served /\ ~Keyed /\ answer = SignedRequest
    /\ region = IF KnownRegion # NoName THEN KnownRegion ELSE awsConfig[1].region
    => HeadersAreRight
  <1>. SUFFICES ASSUME row \in Served, ~Keyed, answer = SignedRequest,
                       region = IF KnownRegion # NoName THEN KnownRegion ELSE awsConfig[1].region
                PROVE  HeadersAreRight
    OBVIOUS
  <1>. DEFINE merged == Merged(<<>>)
              headers == WithSignature(merged)
  <1>1. /\ answer.headers = headers
        /\ answer.signed = {[name |-> n, value |-> merged[n].value] : n \in Signable(merged)}
    BY DEF SignedRequest
  <1>2. NamesIn(<<>>) = {}
    BY DEF NamesIn
  <1>3. /\ \A i \in DOMAIN Sources : \A h \in ToSet(Sources[i]) : h[1] \in DOMAIN merged
        /\ \A n \in DOMAIN merged : FromLastSource(merged, n)
    BY <1>2, EmptyIsList, MergedIsRight
  <1>. HIDE DEF merged
  <1>4. DOMAIN SignatureHeaders = {"authorization", "x-amz-date"}
    BY DEF SignatureHeaders
  <1>5. /\ DOMAIN headers = DOMAIN SignatureHeaders \cup DOMAIN merged
        /\ \A n \in DOMAIN SignatureHeaders : headers[n] = SignatureHeaders[n]
        /\ \A n \in DOMAIN merged \ DOMAIN SignatureHeaders : headers[n] = merged[n]
    BY DEF WithSignature
  <1>. HIDE DEF headers
  <1>6. \A n \in DOMAIN headers \ DOMAIN SignatureHeaders : FromLastSource(headers, n)
    BY <1>3, <1>5 DEF FromLastSource
  <1>7. \A h \in answer.signed : headers[h.name].value = h.value
    BY <1>1, <1>4, <1>5 DEF Signable
  <1>8. DOMAIN headers \ {h.name : h \in answer.signed} \subseteq
            ClientOwned \cup {"authorization", "user-agent", "x-amz-date"}
    <2>1. ASSUME NEW n \in Signable(merged) PROVE n \in {h.name : h \in answer.signed}
      <3>1. [name |-> n, value |-> merged[n].value] \in answer.signed
        BY <1>1
      <3>. QED
        BY <3>1
    <2>. QED
      BY <1>4, <1>5, <2>1 DEF Signable
  <1>. DEFINE secrets == IF Keyed THEN Inserted(CHOOSE c \in CredentialHeaders : TRUE)
                         ELSE SignatureHeaders
  <1>9. secrets = SignatureHeaders
    OBVIOUS
  <1>. HIDE DEF secrets
  <1>10. /\ \A n \in DOMAIN secrets : headers[n] = secrets[n]
         /\ \A n \in DOMAIN headers \ DOMAIN secrets : FromLastSource(headers, n)
         /\ \A i \in DOMAIN Sources : \A h \in ToSet(Sources[i]) : h[1] \in DOMAIN headers
    BY <1>3, <1>5, <1>6, <1>9
  <1>. QED
    BY <1>1, <1>7, <1>8, <1>10 DEF HeadersAreRight, FromLastSource, Naming, Sources, secrets

LEMMA AuthInvStarts == AuthInit => AuthInv
  BY EmptyIsList DEF AuthInit, AuthInv, AttemptIsSound, HeadersAreRight, NoAnswer, Signed

\* A step that leaves the table, the attempt and its answer keeps the invariant.
LEMMA NothingOfThisChanges ==
    ASSUME AuthInv, UNCHANGED <<table, attempt, awsConfig, answer, phase>>
    PROVE  AuthInv'
  <1>1. /\ row' = row /\ mappings' = mappings /\ at' = at /\ read' = read /\ region' = region
        /\ awsConfig' = awsConfig /\ answer' = answer /\ phase' = phase
    BY DEF table, attempt
  <1>2. Specs' = Specs
    BY <1>1 DEF Specs
  <1>3. /\ Keyed' = Keyed /\ KnownRegion' = KnownRegion /\ CredentialHeaders' = CredentialHeaders
        /\ SignatureHeaders' = SignatureHeaders /\ Originator' = Originator
        /\ IsProtected' = IsProtected
    BY <1>1, <1>2
    DEF Keyed, KnownRegion, CredentialHeaders, SignatureHeaders, Originator, IsProtected
  <1>4. AttemptIsSound' = AttemptIsSound
    BY <1>1, <1>2, <1>3 DEF AttemptIsSound, Signed
  <1>5. HeadersAreRight' = HeadersAreRight
    BY <1>1, <1>3 DEF HeadersAreRight
  <1>. QED
    BY <1>1, <1>4, <1>5 DEF AuthInv, IsTable

\* Nor does an answer that is no request.
LEMMA OtherAnswersKeep ==
    ASSUME AuthInv, row' = row, mappings' = mappings, answer'.kind # "Prepared", phase' = "Idle"
    PROVE  AuthInv'
  BY DEF AuthInv, AttemptIsSound, HeadersAreRight, IsTable, Signed

\* What the attempt reads is unchanged by its answer.
LEMMA SameAttempt ==
    ASSUME UNCHANGED <<table, attempt, awsConfig>>
    PROVE  /\ row' = row /\ mappings' = mappings /\ at' = at /\ read' = read /\ region' = region
           /\ awsConfig' = awsConfig
           /\ Specs' = Specs /\ Keyed' = Keyed /\ KnownRegion' = KnownRegion
           /\ Prepare' = Prepare /\ SignedRequest' = SignedRequest
  <1>1. /\ row' = row /\ mappings' = mappings /\ at' = at /\ read' = read /\ region' = region
        /\ awsConfig' = awsConfig
    BY DEF table, attempt
  <1>2. Specs' = Specs
    BY <1>1 DEF Specs
  <1>3. /\ Keyed' = Keyed /\ KnownRegion' = KnownRegion /\ CredentialHeaders' = CredentialHeaders
        /\ SignatureHeaders' = SignatureHeaders /\ IsProtected' = IsProtected
        /\ SendsSecrets' = SendsSecrets /\ Originator' = Originator /\ Defaults' = Defaults
    BY <1>1, <1>2
    DEF Keyed, KnownRegion, CredentialHeaders, SignatureHeaders, IsProtected, SendsSecrets, Originator,
        Defaults
  <1>4. \A c : Merged(c)' = Merged(c)
    BY <1>1, <1>3 DEF Merged
  <1>5. Prepare' = Prepare /\ SignedRequest' = SignedRequest
    BY <1>1, <1>3, <1>4 DEF Prepare, Prepared, SignedRequest, WithSignature
  <1>. QED
    BY <1>1, <1>2, <1>3, <1>5

LEMMA PrepareKeeps ==
    ASSUME AuthInv, at \in DOMAIN Specs, Keyed, Answered(Prepare)
    PROVE  AuthInv'
  <1>1. UNCHANGED <<table, attempt, awsConfig>> /\ answer' = Prepare /\ phase' = "Idle"
    BY DEF Answered
  <1>2. /\ row' = row /\ mappings' = mappings /\ at' = at /\ Specs' = Specs /\ Keyed' = Keyed
        /\ Prepare' = Prepare
    BY <1>1, SameAttempt
  <1>3. row \in Served /\ IsTable(mappings) /\ IsMapping(Specs[at])
    BY SpecsAreMappings DEF AuthInv, IsTable
  <1>4. (row \in Served /\ Keyed /\ IsMapping(Specs[at]) /\ answer = Prepare)' => HeadersAreRight'
    BY PreparedIsRight, PTL
  <1>5. HeadersAreRight'
    BY <1>1, <1>2, <1>3, <1>4 DEF IsMapping
  <1>6. AttemptIsSound'
    BY <1>1 DEF AttemptIsSound, Signed
  <1>. QED
    BY <1>2, <1>3, <1>5, <1>6 DEF AuthInv, IsTable

LEMMA SignKeeps ==
    ASSUME AuthInv, NEW supplied \in BOOLEAN, Sign(supplied)
    PROVE  AuthInv'
  <1>1. /\ UNCHANGED <<table, attempt, awsConfig>> /\ phase' = "Idle" /\ phase = "Signing"
        /\ answer' = SignedRequest \/ answer' = Failed("Authentication")
    BY DEF Answered, Sign
  <1>2. /\ row' = row /\ mappings' = mappings /\ region' = region /\ awsConfig' = awsConfig
        /\ Keyed' = Keyed /\ KnownRegion' = KnownRegion /\ SignedRequest' = SignedRequest
    BY <1>1, SameAttempt
  <1>3. /\ row \in Served /\ IsTable(mappings) /\ ~Keyed
        /\ region = IF KnownRegion # NoName THEN KnownRegion ELSE awsConfig[1].region
    BY <1>1 DEF AuthInv, AttemptIsSound, Signed
  <1>4. CASE answer' = Failed("Authentication")
    BY <1>1, <1>2, <1>4, OtherAnswersKeep DEF Failed
  <1>5. CASE answer' = SignedRequest
    <2>1. (/\ row \in Served /\ ~Keyed /\ answer = SignedRequest
           /\ region = IF KnownRegion # NoName THEN KnownRegion ELSE awsConfig[1].region)'
          => HeadersAreRight'
      BY SignedIsRight, PTL
    <2>2. HeadersAreRight'
      BY <1>2, <1>3, <1>5, <2>1
    <2>3. AttemptIsSound'
      BY <1>1 DEF AttemptIsSound, Signed
    <2>. QED
      BY <1>2, <1>3, <2>2, <2>3 DEF AuthInv, IsTable
  <1>. QED
    BY <1>1, <1>4, <1>5

LEMMA RegionKeeps == ASSUME AuthInv, ResolveRegion PROVE AuthInv'
  <1>. DEFINE found == IF KnownRegion # NoName THEN KnownRegion ELSE awsConfig[1].region
  <1>1. CASE Answered(Failed("Configuration"))
    BY <1>1, OtherAnswersKeep DEF Answered, Failed, table
  <1>2. CASE /\ region' = found /\ phase' = "Signing" /\ phase = "Region"
             /\ KnownRegion # NoName \/ awsConfig # <<>>
             /\ UNCHANGED <<table, at, read, missing, world, awsConfig, attempts, answer>>
    <2>1. /\ row' = row /\ mappings' = mappings /\ at' = at /\ awsConfig' = awsConfig
          /\ answer' = answer
      BY <1>2 DEF table
    <2>2. Specs' = Specs /\ Keyed' = Keyed /\ KnownRegion' = KnownRegion
      BY <2>1 DEF Specs, Keyed, KnownRegion
    <2>3. AttemptIsSound' /\ HeadersAreRight'
      BY <1>2, <2>1, <2>2 DEF AuthInv, AttemptIsSound, Signed, HeadersAreRight
    <2>. QED
      BY <2>1, <2>3 DEF AuthInv, IsTable
  <1>. QED
    BY <1>1, <1>2 DEF ResolveRegion

\* Reading the secrets of the mappings in turn.
LEMMA ReadingKeeps == ASSUME AuthInv, StartAttempt \/ ReadSecret \/ MissSecret PROVE AuthInv'
  <1>1. row' = row /\ mappings' = mappings
    BY DEF StartAttempt, ReadSecret, MissSecret, table
  <1>2. Specs' = Specs /\ IsTable(Specs)
    BY <1>1, SpecsAreMappings DEF Specs, AuthInv
  <1>3. CASE phase' = "Idle"
    <2>1. answer'.kind # "Prepared"
      BY <1>3, <1>2 DEF StartAttempt, ReadSecret, MissSecret, Failed, NoAnswer, AuthInv, AttemptIsSound
    <2>. QED
      BY <1>1, <1>3, <2>1, OtherAnswersKeep
  <1>4. CASE phase' # "Idle"
    <2>1. phase' = "Reading" /\ answer'.kind # "Prepared" /\ at' \in DOMAIN Specs
      <3>1. CASE StartAttempt
        <4>1. Specs # <<>> /\ at' = 1 /\ phase' = "Reading" /\ answer' = NoAnswer
          BY <1>4, <3>1 DEF StartAttempt
        <4>. QED
          BY <1>2, <4>1 DEF IsTable, IsList, NoAnswer
      <3>2. CASE ReadSecret
        BY <3>2 DEF ReadSecret, AuthInv, AttemptIsSound
      <3>3. CASE MissSecret
        <4>1. phase = "Reading" /\ at < Len(Specs) /\ at' = at + 1 /\ phase' = phase /\ answer' = answer
          BY <1>4, <3>3 DEF MissSecret
        <4>. QED
          BY <1>2, <4>1 DEF AuthInv, AttemptIsSound, IsTable, IsList
      <3>. QED
        BY <3>1, <3>2, <3>3
    <2>2. AttemptIsSound' /\ HeadersAreRight'
      BY <1>2, <2>1 DEF AttemptIsSound, HeadersAreRight, Signed
    <2>. QED
      BY <1>1, <2>2 DEF AuthInv, IsTable
  <1>. QED
    BY <1>3, <1>4

LEMMA AuthInvHolds == AuthInv /\ [AuthNext]_authVars => AuthInv'
  <1>. SUFFICES ASSUME AuthInv, [AuthNext]_authVars PROVE AuthInv'
    OBVIOUS
  <1>1. CASE \E r \in Registrations :
                \/ Bearer(r) \/ Header(r) \/ BearerHeader(r) \/ OrHeader(r) \/ OrBearer(r)
                \/ AwsChain(r) \/ OrAwsChain(r) \/ BedrockKey(r) \/ OrBedrockKey(r)
    <2>1. IsTable(mappings')
      BY <1>1, RegistrationKeepsTheTable DEF AuthInv
    <2>2. phase = "Registering" /\ phase' = phase /\ row' = row /\ answer' = answer
      BY <1>1 DEF Bearer, Header, BearerHeader, OrHeader, OrBearer, AwsChain, OrAwsChain, BedrockKey,
                  OrBedrockKey, Register
    <2>3. AttemptIsSound' /\ HeadersAreRight'
      BY <2>2 DEF AuthInv, AttemptIsSound, HeadersAreRight, Signed
    <2>. QED
      BY <2>1, <2>2, <2>3 DEF AuthInv, IsTable
  <1>2. CASE BuildTable
    BY <1>2, OtherAnswersKeep DEF BuildTable, AuthInv, AttemptIsSound, table
  <1>3. CASE StartAttempt \/ ReadSecret \/ MissSecret
    BY <1>3, ReadingKeeps
  <1>4. CASE PrepareHttp \/ PrepareBedrock
    <2>1. at \in DOMAIN Specs
      BY <1>4 DEF PrepareHttp, PrepareBedrock, Resolved, AuthInv, AttemptIsSound
    <2>2. \/ Answered(Prepare) /\ Keyed
          \/ Answered(Failed("Configuration")) \/ Answered(Failed("Authentication"))
      BY <1>4 DEF PrepareHttp, PrepareBedrock, Resolved, Keyed
    <2>3. CASE Answered(Failed("Configuration")) \/ Answered(Failed("Authentication"))
      BY <2>3, OtherAnswersKeep DEF Answered, Failed, table
    <2>. QED
      BY <2>1, <2>2, <2>3, PrepareKeeps
  <1>5. CASE StartSigning
    <2>1. /\ row' = row /\ mappings' = mappings /\ at' = at /\ answer' = answer
          /\ phase = "Reading" /\ phase' = "Region" /\ ~Keyed
      BY <1>5 DEF StartSigning, Resolved, Keyed, table, attempt
    <2>2. Specs' = Specs /\ Keyed' = Keyed
      BY <2>1 DEF Specs, Keyed
    <2>3. AttemptIsSound' /\ HeadersAreRight'
      BY <2>1, <2>2 DEF AuthInv, AttemptIsSound, HeadersAreRight, Signed
    <2>. QED
      BY <2>1, <2>3 DEF AuthInv, IsTable
  <1>6. CASE DropAttempt
    BY <1>6, OtherAnswersKeep DEF DropAttempt, Answered, NoAnswer, table
  <1>7. CASE ResolveRegion
    BY <1>7, RegionKeeps
  <1>8. CASE \E c \in Chains : LoadConfig(c)
    <2>1. /\ row' = row /\ mappings' = mappings /\ at' = at /\ region' = region /\ answer' = answer
          /\ phase' = phase /\ phase \in {"Region", "Signing"} /\ awsConfig = <<>> /\ awsConfig' # <<>>
      BY <1>8 DEF LoadConfig, table, attempt
    <2>2. Specs' = Specs /\ Keyed' = Keyed /\ KnownRegion' = KnownRegion
      BY <2>1 DEF Specs, Keyed, KnownRegion
    <2>3. AttemptIsSound' /\ HeadersAreRight'
      BY <2>1, <2>2 DEF AuthInv, AttemptIsSound, HeadersAreRight, Signed
    <2>. QED
      BY <2>1, <2>3 DEF AuthInv, IsTable
  <1>9. CASE \E supplied \in BOOLEAN : Sign(supplied)
    BY <1>9, SignKeeps
  <1>10. CASE \/ AllAttempted \/ UNCHANGED authVars
              \/ \E s \in Secrets, value \in Values : ChangeStore(s, value)
    <2>1. UNCHANGED <<table, attempt, awsConfig, answer, phase>>
      BY <1>10 DEF AllAttempted, ChangeStore, authVars
    <2>. QED
      BY <2>1, NothingOfThisChanges
  <1>. QED
    BY <1>1, <1>2, <1>3, <1>4, <1>5, <1>6, <1>7, <1>8, <1>9, <1>10 DEF AuthNext

\* Whatever is registered, whatever the store holds and whatever the catalog
\* and the AWS configuration say, the table holds mappings only, an attempt
\* reads one of them, only a mapping without keys is signed for, and for the
\* region that was resolved (credentials.rs, `resolve`; transport/aws.rs).
THEOREM AuthInvariant == AuthSpec => []AuthInv
  BY AuthInvStarts, AuthInvHolds, PTL DEF AuthSpec

\* A prepared request has its credentials as its last word, marked sensitive
\* and on a connection closed to others, has every other header from the last
\* source that names it, and is sent as it was signed
\* (transport/request.rs, `prepare_with`; transport/aws.rs, `sign`).
THEOREM RequestsAreAuthenticated == AuthSpec => []HeadersAreRight
  <1>1. AuthInv => HeadersAreRight
    BY DEF AuthInv
  <1>. QED
    BY <1>1, AuthInvariant, PTL

(***************************************************************************)
(* The frames of an event stream: between two chunks less than one frame   *)
(* is held, whatever the bytes, the frame limit and the chunks.            *)
(***************************************************************************)

Bytes == Frames \X Nat

ByteInv ==
    /\ limits \in Limits
    /\ framer \in Seq(Bytes) /\ chunk \in Seq(Bytes) /\ received \in Seq(Bytes)

\* What push leaves behind is short; during a push the chunk is in the buffer.
Short == Len(framer) < Prelude \/ Len(framer) < limits.frame

IInv == ByteInv /\ (step # "Framing" => Short)

\* Every byte the body may deliver belongs to one of the frames.
LEMMA NextByteType ==
    ASSUME ByteInv, NEW b \in NextBytes
    PROVE  b \in Bytes
<1>1. CASE \E f \in Frames : b = <<f, 1>>
  BY <1>1 DEF Bytes
<1>2. CASE ~\E f \in Frames : b = <<f, 1>>
  <2>1. received # <<>> /\ b = <<Last(received)[1], Last(received)[2] + 1>>
    BY <1>2 DEF NextBytes
  <2>2. Last(received) \in Bytes
    BY <2>1 DEF ByteInv, Last
  <2> QED BY <2>1, <2>2 DEF Bytes
<1> QED BY <1>1, <1>2

\* A turn of the loop leaves a whole frame to the next turn, and returns with less.
LEMMA TurnKeepsIInv ==
    ASSUME IInv, AwsTurn
    PROVE  IInv'
<1> DEFINE f == Head(Buffer)[1]
<1>1. Buffer \in Seq(Bytes) /\ limits \in Limits /\ limits' = limits /\ received' = received
  BY DEF Buffer, IInv, ByteInv, AwsTurn, Fail, Fails, Returns, Found
<1>2. Prelude \in Nat \ {0} /\ limits.frame \in Nat
  BY <1>1, FrameAssumption, PipelineAssumption
<1>3. Buffer # <<>> => f \in Frames /\ f.total \in Nat
  BY <1>1, FrameAssumption DEF Bytes
<1>4. CASE framer' = Buffer /\ Returns /\ (Buffer = <<>> \/ ~Ready(f))
  <2>1. Len(Buffer) < Prelude
    BY <1>1, <1>2, <1>4 DEF Ready
  <2> QED BY <1>1, <1>4, <2>1 DEF Returns, IInv, ByteInv, Short
<1>5. CASE \E e \in {PreludeError(f), Decoded(f).error} : Fail(e)
  BY <1>1, <1>2, <1>5 DEF Fail, Fails, IInv, ByteInv, Short
<1>6. CASE framer' = Buffer /\ Returns /\ Buffer # <<>> /\ Trusted(f) /\ Len(Buffer) < f.total
  <2>1. Len(Buffer) < limits.frame
    BY <1>1, <1>2, <1>3, <1>6 DEF Trusted
  <2> QED BY <1>1, <1>6, <2>1 DEF Returns, IInv, ByteInv, Short
<1>7. CASE /\ Buffer # <<>> /\ Len(Buffer) >= f.total
           /\ framer' = Behind(f) /\ Found(<<>>, <<Decoded(f)>>)
  <2>1. Behind(f) \in Seq(Bytes)
    BY <1>1, <1>3, <1>7 DEF Behind
  <2> QED BY <1>1, <1>7, <2>1 DEF Found, IInv, ByteInv, AwsTurn
<1> QED BY <1>4, <1>5, <1>6, <1>7 DEF AwsTurn

LEMMA NextKeepsIInv == IInv /\ [AwsNext]_vars => IInv'
<1> SUFFICES ASSUME IInv, [AwsNext]_vars PROVE IInv'
  OBVIOUS
<1> USE DEF IInv, ByteInv, Short
<1>1. CASE AwsTurn
  BY <1>1, TurnKeepsIInv
<1>2. CASE AwsFinish
  BY <1>2 DEF AwsFinish, Flushes
<1>3. CASE Push
  BY <1>3 DEF Push
<1>4. CASE ReadFails
  BY <1>4 DEF ReadFails
<1>5. CASE Deliver
  BY <1>5 DEF Deliver
<1>6. CASE NextChunk
  BY <1>6 DEF NextChunk
<1>7. CASE \E b \in NextBytes : Arrive(b)
  <2>1. PICK b \in NextBytes : Arrive(b)
    BY <1>7
  <2>2. b \in Bytes
    BY NextByteType
  <2> QED BY <2>1, <2>2 DEF Arrive
<1>8. CASE UNCHANGED vars
  BY <1>8 DEF vars
<1> QED BY <1>1, <1>2, <1>3, <1>4, <1>5, <1>6, <1>7, <1>8 DEF AwsNext, Shared, Over

(***************************************************************************)
(* Sums of numbers (SumUpTo).                                              *)
(***************************************************************************)

LEMMA LeastNumber ==
    ASSUME NEW T \in SUBSET Nat, T # {}
    PROVE  \E n \in T : \A m \in T : n <= m
  <1>1. PICK n \in T : \A m \in T : ~(<<m, n>> \in OpToRel(<, Nat))
    BY NatLessThanWellFounded, WFMin, Zenon
  <1>2. \A m \in T : <<m, n>> \in Nat \X Nat
    OBVIOUS
  <1>3. \A m \in T : m < n => <<m, n>> \in OpToRel(<, Nat)
    BY <1>2 DEF OpToRel
  <1>4. \A m \in T : ~(m < n)
    BY <1>1, <1>3, Zenon
  <1>. QED
    BY <1>4

\* The values of f are the sums of the first numbers.
IsSums(f, n, numbers) == f = [i \in 0..n |-> IF i = 0 THEN 0 ELSE f[i - 1] + numbers[i]]

LEMMA SumsExist ==
    ASSUME NEW n \in Nat, NEW numbers
    PROVE  \E f : IsSums(f, n, numbers)
  <1>. DEFINE Bad == {m \in Nat : ~ \E f : IsSums(f, m, numbers)}
  <1>. SUFFICES ASSUME Bad # {} PROVE FALSE
    BY Zenon
  <1>1. PICK m \in Bad : \A k \in Bad : m <= k
    BY LeastNumber
  <1>2. m # 0
    <2>1. IsSums([i \in 0..0 |-> 0], 0, numbers)
      BY DEF IsSums
    <2>. QED
      BY <2>1
  <1>3. m - 1 \in Nat /\ m - 1 \notin Bad
    BY <1>1, <1>2
  <1>4. PICK g : IsSums(g, m - 1, numbers)
    BY <1>3
  <1>. DEFINE f == [i \in 0..m |-> IF i # m THEN g[i] ELSE g[m - 1] + numbers[m]]
              Rule(h) == [i \in 0..m |-> IF i = 0 THEN 0 ELSE h[i - 1] + numbers[i]]
  <1>5. ASSUME NEW i \in 0..m PROVE f[i] = Rule(f)[i]
    <2>1. CASE i = m
      <3>1. f[m - 1] = g[m - 1]
        BY <1>2
      <3>. QED
        BY <1>2, <2>1, <3>1
    <2>2. CASE i # m
      <3>1. i \in 0..(m - 1)
        BY <2>2
      <3>2. g[i] = IF i = 0 THEN 0 ELSE g[i - 1] + numbers[i]
        BY <1>4, <3>1 DEF IsSums
      <3>3. i # 0 => i - 1 \in 0..m /\ i - 1 # m
        BY <2>2
      <3>. QED
        BY <2>2, <3>2, <3>3
    <2>. QED
      BY <2>1, <2>2
  <1>6. f = Rule(f)
    BY <1>5
  <1>7. IsSums(f, m, numbers)
    BY <1>6 DEF IsSums
  <1>. QED
    BY <1>1, <1>7

LEMMA SumUpToIs ==
    ASSUME NEW n \in Nat, NEW numbers
    PROVE  \E f : IsSums(f, n, numbers) /\ SumUpTo(numbers, n) = f[n]
  <1>1. \E f : IsSums(f, n, numbers)
    BY SumsExist
  <1>. DEFINE g == CHOOSE f : IsSums(f, n, numbers)
  <1>2. IsSums(g, n, numbers)
    BY <1>1
  <1>3. SumUpTo(numbers, n) = g[n]
    BY DEF SumUpTo, IsSums
  <1>. QED
    BY <1>2, <1>3

LEMMA SumsAgree ==
    ASSUME NEW n \in Nat, NEW m \in 0..n, NEW p, NEW q, NEW f, NEW g,
           IsSums(f, m, p), IsSums(g, n, q), \A i \in 1..m : p[i] = q[i]
    PROVE  \A i \in 0..m : f[i] = g[i]
  <1>. DEFINE Bad == {i \in 0..m : f[i] # g[i]}
  <1>. SUFFICES ASSUME Bad # {} PROVE FALSE
    BY Zenon
  <1>0. Bad \in SUBSET Nat
    OBVIOUS
  <1>1. PICK i \in Bad : \A k \in Bad : i <= k
    BY <1>0, LeastNumber
  <1>2. /\ f[i] = IF i = 0 THEN 0 ELSE f[i - 1] + p[i]
        /\ g[i] = IF i = 0 THEN 0 ELSE g[i - 1] + q[i]
    <2>1. i \in 0..n /\ i \in 0..m
      OBVIOUS
    <2>. QED
      BY <2>1 DEF IsSums
  <1>3. i # 0
    BY <1>2
  <1>4. i - 1 \in 0..m /\ i - 1 \notin Bad /\ i \in 1..m
    BY <1>1, <1>3
  <1>5. f[i - 1] = g[i - 1]
    BY <1>4
  <1>. QED
    BY <1>1, <1>2, <1>3, <1>4, <1>5

\* What comes later does not count.
LEMMA SameSum ==
    ASSUME NEW n \in Nat, NEW p, NEW q, \A i \in 1..n : p[i] = q[i]
    PROVE  SumUpTo(p, n) = SumUpTo(q, n)
  <1>1. PICK f : IsSums(f, n, p) /\ SumUpTo(p, n) = f[n]
    BY SumUpToIs
  <1>2. PICK g : IsSums(g, n, q) /\ SumUpTo(q, n) = g[n]
    BY SumUpToIs
  <1>3. n \in 0..n
    OBVIOUS
  <1>. QED
    BY <1>1, <1>2, <1>3, SumsAgree

LEMMA SumStarts == ASSUME NEW numbers PROVE SumUpTo(numbers, 0) = 0
  <1>1. PICK f : IsSums(f, 0, numbers) /\ SumUpTo(numbers, 0) = f[0]
    BY SumUpToIs
  <1>. QED
    BY <1>1 DEF IsSums

LEMMA SumGoesOn ==
    ASSUME NEW n \in Nat, NEW numbers
    PROVE  SumUpTo(numbers, n + 1) = SumUpTo(numbers, n) + numbers[n + 1]
  <1>1. PICK f : IsSums(f, n, numbers) /\ SumUpTo(numbers, n) = f[n]
    BY SumUpToIs
  <1>2. PICK g : IsSums(g, n + 1, numbers) /\ SumUpTo(numbers, n + 1) = g[n + 1]
    BY SumUpToIs
  <1>3. n \in 0..n /\ n \in 0..(n + 1) /\ n + 1 \in Nat /\ n + 1 \in 0..(n + 1)
        /\ n + 1 # 0 /\ (n + 1) - 1 = n
    OBVIOUS
  <1>4. f[n] = g[n]
    BY <1>1, <1>2, <1>3, SumsAgree
  <1>5. g[n + 1] = g[n] + numbers[n + 1]
    BY <1>2, <1>3 DEF IsSums
  <1>. QED
    BY <1>1, <1>2, <1>4, <1>5

LEMMA SumType ==
    ASSUME NEW n \in Nat, NEW numbers, \A i \in 1..n : numbers[i] \in Nat
    PROVE  SumUpTo(numbers, n) \in Nat
  <1>. DEFINE Bad == {m \in 0..n : SumUpTo(numbers, m) \notin Nat}
  <1>n. n \in 0..n
    OBVIOUS
  <1>. SUFFICES ASSUME Bad # {} PROVE FALSE
    BY <1>n, Zenon
  <1>0. Bad \in SUBSET Nat
    OBVIOUS
  <1>1. PICK m \in Bad : \A k \in Bad : m <= k
    BY <1>0, LeastNumber
  <1>2. m # 0
    BY SumStarts
  <1>3. m - 1 \in Nat /\ m - 1 \in 0..n /\ m - 1 \notin Bad /\ (m - 1) + 1 = m /\ m \in 1..n
    BY <1>1, <1>2
  <1>4. SumUpTo(numbers, m) = SumUpTo(numbers, m - 1) + numbers[m]
    BY <1>3, SumGoesOn
  <1>. QED
    BY <1>3, <1>4

\* The numbers r are the first m of p and then the first n of q.
AreJoined(p, m, q, n, r) ==
    /\ \A i \in 1..m : p[i] \in Nat /\ r[i] = p[i]
    /\ \A j \in 1..n : q[j] \in Nat /\ r[m + j] = q[j]

LEMMA SumsJoin ==
    ASSUME NEW m \in Nat, NEW n \in Nat, NEW p, NEW q, NEW r, AreJoined(p, m, q, n, r)
    PROVE  SumUpTo(r, m + n) = SumUpTo(p, m) + SumUpTo(q, n)
  <1>. DEFINE Bad == {k \in 0..n : SumUpTo(r, m + k) # SumUpTo(p, m) + SumUpTo(q, k)}
  <1>. SUFFICES ASSUME Bad # {} PROVE FALSE
    <2>1. n \in 0..n
      OBVIOUS
    <2>. QED
      BY <2>1
  <1>0. Bad \in SUBSET Nat
    OBVIOUS
  <1>1. PICK k \in Bad : \A l \in Bad : k <= l
    BY <1>0, LeastNumber
  <1>2. SumUpTo(p, m) \in Nat /\ SumUpTo(p, m) = SumUpTo(r, m)
    BY SumType, SameSum DEF AreJoined
  <1>3. k # 0
    BY <1>2, SumStarts
  <1>4. k - 1 \in Nat /\ k - 1 \in 0..n /\ k - 1 \notin Bad /\ (k - 1) + 1 = k /\ k \in 1..n
        /\ m + (k - 1) \in Nat /\ (m + (k - 1)) + 1 = m + k
    BY <1>1, <1>3
  <1>5. SumUpTo(q, k) = SumUpTo(q, k - 1) + q[k]
    BY <1>4, SumGoesOn
  <1>6. SumUpTo(r, m + k) = SumUpTo(r, m + (k - 1)) + r[m + k]
    BY <1>4, SumGoesOn
  <1>7. SumUpTo(r, m + (k - 1)) = SumUpTo(p, m) + SumUpTo(q, k - 1)
    BY <1>4
  <1>8. SumUpTo(q, k - 1) \in Nat
    <2>1. \A i \in 1..(k - 1) : q[i] \in Nat
      BY <1>4 DEF AreJoined
    <2>. QED
      BY <1>4, <2>1, SumType
  <1>9. q[k] \in Nat /\ r[m + k] = q[k]
    BY <1>4 DEF AreJoined
  <1>. QED
    BY <1>1, <1>2, <1>5, <1>6, <1>7, <1>8, <1>9

(***************************************************************************)
(* What the framer of server-sent events holds.                            *)
(***************************************************************************)

Size(bytes) == Sse!SizeOf(bytes)

LEMMA SizeIsSum ==
    ASSUME NEW bytes
    PROVE  Size(bytes) = SumUpTo([i \in DOMAIN bytes |-> Sse!Width(bytes[i])], Len(bytes))
  BY DEF Size, Sse!SizeOf, Sse!SumUpTo, SumUpTo

LEMMA WidthType == \A b : Sse!Width(b) \in Nat /\ Sse!Width(b) >= 1
  BY DEF Sse!Width

LEMMA SizeType == ASSUME NEW S, NEW s \in Seq(S) PROVE Size(s) \in Nat
  <1>. DEFINE p == [i \in DOMAIN s |-> Sse!Width(s[i])]
  <1>1. \A i \in 1..Len(s) : p[i] \in Nat
    BY WidthType
  <1>. HIDE DEF p
  <1>2. SumUpTo(p, Len(s)) \in Nat
    BY <1>1, SumType
  <1>. QED
    BY <1>2, SizeIsSum DEF p

LEMMA NoSize == Size(<<>>) = 0
  BY SizeIsSum, SumStarts

LEMMA SizesAdd ==
    ASSUME NEW S, NEW s \in Seq(S), NEW t \in Seq(S)
    PROVE  Size(s \o t) = Size(s) + Size(t)
  <1>. DEFINE p == [i \in DOMAIN s |-> Sse!Width(s[i])]
              q == [i \in DOMAIN t |-> Sse!Width(t[i])]
              r == [i \in DOMAIN (s \o t) |-> Sse!Width((s \o t)[i])]
  <1>1. \A i \in 1..Len(s) : p[i] \in Nat /\ r[i] = p[i]
    BY WidthType
  <1>2. \A j \in 1..Len(t) : q[j] \in Nat /\ r[Len(s) + j] = q[j]
    BY WidthType
  <1>3. Len(s \o t) = Len(s) + Len(t) /\ Len(s) \in Nat /\ Len(t) \in Nat
    OBVIOUS
  <1>. HIDE DEF p, q, r
  <1>4. AreJoined(p, Len(s), q, Len(t), r)
    BY <1>1, <1>2 DEF AreJoined
  <1>5. SumUpTo(r, Len(s) + Len(t)) = SumUpTo(p, Len(s)) + SumUpTo(q, Len(t))
    BY <1>3, <1>4, SumsJoin
  <1>. QED
    BY <1>3, <1>5, SizeIsSum DEF p, q, r

LEMMA OneSize == ASSUME NEW b PROVE Size(<<b>>) = Sse!Width(b)
  <1>. DEFINE p == [i \in DOMAIN <<b>> |-> Sse!Width(<<b>>[i])]
  <1>1. p[1] = Sse!Width(b) /\ Len(<<b>>) = 1
    OBVIOUS
  <1>2. Size(<<b>>) = SumUpTo(p, 1)
    BY <1>1, SizeIsSum
  <1>. HIDE DEF p
  <1>3. SumUpTo(p, 0 + 1) = SumUpTo(p, 0) + p[0 + 1]
    BY SumGoesOn
  <1>4. Sse!Width(b) \in Nat
    BY WidthType
  <1>. QED
    BY <1>1, <1>2, <1>3, <1>4, SumStarts

\* Without its first byte a line is that much smaller.
LEMMA TailSize ==
    ASSUME NEW S, NEW s \in Seq(S), s # <<>>
    PROVE  Tail(s) \in Seq(S) /\ Size(s) = Sse!Width(Head(s)) + Size(Tail(s))
  <1>1. s = <<Head(s)>> \o Tail(s) /\ <<Head(s)>> \in Seq(S) /\ Tail(s) \in Seq(S)
    OBVIOUS
  <1>2. Size(s) = Size(<<Head(s)>>) + Size(Tail(s))
    BY <1>1, SizesAdd
  <1>. QED
    BY <1>1, <1>2, OneSize

\* The bytes of a body, and the line feed that a line of data gets.
Body == (UNION Alphabets) \cup {"LF"}

SseFramers ==
    [line : Seq(Body), afterCr : BOOLEAN, firstLine : BOOLEAN, event : Seq(Body), data : Seq(Body)]

Held(f) == Size(f.line) + (Size(f.data) + Size(f.event))

Fits(f) == f \in SseFramers /\ Held(f) <= limits.frame

\* What a framer says to the decoder.
Errors == {"FrameLimit", "Decode", "Provider", "NotUtf8", "Network", "Idle", "OutputLimit"}
Item ==
    [type : {"Err"}, error : Errors]
        \cup [type : {"Event"}, event : Seq(Body), data : Seq(Body), size : Nat]
        \cup [type : {"Event"}, frame : Frames, size : Nat]

LEMMA ErrorIsItem == \A e \in Errors : Err(e) \in Item /\ Sse!Err(e) \in Item
  BY DEF Err, Sse!Err, Item

LEMMA HeldType == ASSUME NEW f \in SseFramers
                  PROVE  Size(f.line) \in Nat /\ Size(f.data) \in Nat /\ Size(f.event) \in Nat
  BY SizeType DEF SseFramers

\* A dispatched event leaves nothing behind.
LEMMA DispatchFits ==
    ASSUME NEW f, Fits(f), limits.frame \in Nat
    PROVE  Fits(Sse!Dispatch(f).framer) /\ Sse!Dispatch(f).sent \in Seq(Item)
  <1>. DEFINE g == [f EXCEPT !.data = <<>>, !.event = Sse!NoEvent]
              x == [type |-> "Event", event |-> f.event, data |-> Front(f.data),
                    size |-> Size(Front(f.data)) + Size(f.event)]
  <1>1. f \in SseFramers /\ Size(f.line) \in Nat /\ Size(f.data) \in Nat /\ Size(f.event) \in Nat
    BY HeldType DEF Fits
  <1>2. g \in SseFramers /\ g.line = f.line /\ g.data = <<>> /\ g.event = <<>>
    <2>1. <<>> \in Seq(Body)
      OBVIOUS
    <2>2. Sse!NoEvent = <<>>
      BY DEF Sse!NoEvent
    <2>. QED
      BY <1>1, <2>1, <2>2 DEF SseFramers
  <1>3. Fits(g)
    <2>1. Held(g) = Size(f.line)
      BY <1>1, <1>2, NoSize DEF Held
    <2>. QED
      BY <1>1, <1>2, <2>1 DEF Fits, Held
  <1>4. ASSUME f.data # <<>> PROVE x \in Item
    <2>1. f.data \in Seq(Body) /\ f.event \in Seq(Body)
      BY <1>1 DEF SseFramers
    <2>2. Front(f.data) \in Seq(Body)
      BY <1>4, <2>1 DEF Front
    <2>3. Size(Front(f.data)) \in Nat
      BY <2>2, SizeType
    <2>. QED
      BY <1>1, <2>1, <2>2, <2>3 DEF Item
  <1>5. Sse!Front(f.data) = Front(f.data)
    BY DEF Sse!Front, Front
  <1>6. Sse!Dispatch(f).framer = g /\ Sse!Dispatch(f).sent = IF f.data = <<>> THEN <<>> ELSE <<x>>
    BY <1>5 DEF Sse!Dispatch, Size
  <1>. HIDE DEF g, x
  <1>. QED
    BY <1>3, <1>4, <1>6

\* A line that fits the budget fits the event that it becomes a part of.
LEMMA LineFits ==
    ASSUME NEW f \in SseFramers, f.line = <<>>, NEW line \in Seq(Body),
           limits.frame \in Nat, Size(line) + (Size(f.data) + Size(f.event)) <= limits.frame
    PROVE  Fits(Sse!ApplyLine(f, line).framer) /\ Sse!ApplyLine(f, line).sent \in Seq(Item)
  <1>1. Size(line) \in Nat /\ Size(f.line) = 0 /\ Size(f.data) \in Nat /\ Size(f.event) \in Nat
    BY SizeType, HeldType, NoSize
  <1>2. Fits(f)
    BY <1>1 DEF Fits, Held
  <1>3. CASE line = <<>>
    BY <1>2, <1>3, DispatchFits DEF Sse!ApplyLine
  <1>4. ASSUME line # <<>>
        PROVE  /\ Tail(line) \in Seq(Body) /\ Size(Tail(line)) \in Nat
               /\ Size(line) >= Size(Tail(line)) + 1
    <2>1. Tail(line) \in Seq(Body) /\ Size(line) = Sse!Width(Head(line)) + Size(Tail(line))
      BY <1>4, TailSize
    <2>2. Size(Tail(line)) \in Nat
      BY <2>1, SizeType
    <2>3. Sse!Width(Head(line)) \in Nat /\ Sse!Width(Head(line)) >= 1
      BY WidthType
    <2>. QED
      BY <1>1, <2>1, <2>2, <2>3
  <1>5. CASE line # <<>> /\ Head(line) = "event:"
    <2>. DEFINE g == [f EXCEPT !.event = Tail(line)]
    <2>1. g \in SseFramers /\ g.line = f.line /\ g.data = f.data /\ g.event = Tail(line)
      BY <1>4, <1>5 DEF SseFramers
    <2>2. Held(g) <= limits.frame
      BY <1>1, <1>4, <1>5, <2>1 DEF Held
    <2>3. Sse!ApplyLine(f, line) = [framer |-> g, sent |-> <<>>]
      BY <1>5 DEF Sse!ApplyLine, Sse!Nothing
    <2>. QED
      BY <2>1, <2>2, <2>3 DEF Fits
  <1>6. CASE line # <<>> /\ Head(line) = "data:"
    <2>. DEFINE more == Append(Tail(line), "LF")
                g == [f EXCEPT !.data = @ \o more]
    <2>1. more = Tail(line) \o <<"LF">> /\ <<"LF">> \in Seq(Body) /\ more \in Seq(Body)
      <3>1. "LF" \in Body
        BY DEF Body
      <3>. QED
        BY <1>4, <1>6, <3>1
    <2>2. Size(more) = Size(Tail(line)) + 1
      <3>1. Size(more) = Size(Tail(line)) + Size(<<"LF">>)
        BY <1>4, <1>6, <2>1, SizesAdd
      <3>. QED
        BY <3>1, OneSize DEF Sse!Width
    <2>. HIDE DEF more
    <2>3. f.data \in Seq(Body) /\ f.data \o more \in Seq(Body)
      BY <2>1 DEF SseFramers
    <2>4. /\ g \in SseFramers /\ g.line = f.line /\ g.data = f.data \o more /\ g.event = f.event
      BY <2>1, <2>3 DEF SseFramers
    <2>5. Size(g.data) = Size(f.data) + Size(more)
      <3>1. f.data \in Seq(Body) /\ more \in Seq(Body) /\ g.data = f.data \o more
        BY <2>1, <2>3, <2>4
      <3>. HIDE DEF g
      <3>2. Size(f.data \o more) = Size(f.data) + Size(more)
        BY <3>1, SizesAdd
      <3>. QED
        BY <3>1, <3>2, Zenon
    <2>6. Held(g) <= limits.frame
      BY <1>1, <1>4, <1>6, <2>2, <2>4, <2>5 DEF Held
    <2>7. Fits(g)
      BY <2>4, <2>6 DEF Fits
    <2>8. Sse!ApplyLine(f, line) = IF policy = "EachDataLine" THEN Sse!Dispatch(g) ELSE Sse!Nothing(g)
      BY <1>6 DEF Sse!ApplyLine, more
    <2>. HIDE DEF g
    <2>. QED
      BY <2>7, <2>8, DispatchFits DEF Sse!Nothing
  <1>7. CASE line # <<>> /\ Head(line) \notin {"event:", "data:"}
    BY <1>2, <1>7 DEF Sse!ApplyLine, Sse!Nothing
  <1>. QED
    BY <1>3, <1>5, <1>6, <1>7

LEMMA TextFits ==
    ASSUME NEW f, NEW line \in Seq(Body)
    PROVE  /\ Sse!Text(f, line) \in Seq(Body)
           /\ Size(Sse!Text(f, line)) \in Nat /\ Size(Sse!Text(f, line)) <= Size(line)
  <1>1. Size(line) \in Nat
    BY SizeType
  <1>2. ASSUME line # <<>>
        PROVE  /\ Tail(line) \in Seq(Body) /\ Size(Tail(line)) \in Nat
               /\ Size(Tail(line)) <= Size(line)
    <2>1. Tail(line) \in Seq(Body) /\ Size(line) = Sse!Width(Head(line)) + Size(Tail(line))
      BY <1>2, TailSize
    <2>2. Size(Tail(line)) \in Nat
      BY <2>1, SizeType
    <2>3. Sse!Width(Head(line)) \in Nat
      BY WidthType
    <2>. QED
      BY <1>1, <2>1, <2>2, <2>3
  <1>. QED
    BY <1>1, <1>2 DEF Sse!Text

LEMMA PieceType ==
    ASSUME NEW bytes \in Seq(Body)
    PROVE  Sse!Piece(bytes) \in Seq(Body)
  <1>. DEFINE ends == {i \in DOMAIN bytes : bytes[i] \in Sse!Breaks}
  <1>1. ASSUME ends # {} PROVE Sse!Min(ends) \in ends
    <2>1. ends \in SUBSET Nat
      OBVIOUS
    <2>2. \E i \in ends : \A j \in ends : i <= j
      BY <1>1, <2>1, LeastNumber
    <2>. HIDE DEF ends
    <2>. QED
      BY <2>2 DEF Sse!Min
  <1>2. ASSUME NEW i \in DOMAIN bytes PROVE SubSeq(bytes, 1, i - 1) \in Seq(Body)
    OBVIOUS
  <1>. QED
    BY <1>1, <1>2 DEF Sse!Piece

LEMMA MostOfTwo == ASSUME NEW a \in Int, NEW b \in Int
                   PROVE  Sse!Max({a, b}) = IF a >= b THEN a ELSE b
  <1>1. \E x \in {a, b} : \A y \in {a, b} : x >= y
    OBVIOUS
  <1>. QED
    BY <1>1 DEF Sse!Max

SseInv ==
    /\ limits \in SseLimits /\ alphabet \in Alphabets
    /\ chunk \in Seq(Body)
    /\ Fits(sseFramer)

\* What is left of the limit for the rest of the line.
LEMMA RoomIs ==
    ASSUME NEW f, Fits(f), limits.frame \in Nat
    PROVE  Sse!Max({Sse!Budget(f) - Size(f.line), 0}) = limits.frame - Held(f)
  <1>1. /\ Size(f.line) \in Nat /\ Size(f.data) \in Nat /\ Size(f.event) \in Nat
        /\ Held(f) = Size(f.line) + (Size(f.data) + Size(f.event)) /\ Held(f) <= limits.frame
    BY HeldType DEF Fits, Held
  <1>. DEFINE retained == Size(f.data) + Size(f.event)
  <1>2. Sse!Budget(f) = Sse!Max({limits.frame - retained, 0})
    BY DEF Sse!Budget, Sse!Retained, Size
  <1>3. Sse!Budget(f) = limits.frame - retained
    <2>1. limits.frame - retained \in Int /\ limits.frame - retained >= 0
      BY <1>1
    <2>. HIDE DEF retained
    <2>. QED
      BY <1>2, <2>1, MostOfTwo
  <1>4. limits.frame - retained - Size(f.line) \in Int /\ limits.frame - retained - Size(f.line) >= 0
        /\ limits.frame - retained - Size(f.line) = limits.frame - Held(f)
    BY <1>1
  <1>. HIDE DEF retained
  <1>. QED
    BY <1>3, <1>4, MostOfTwo

\* A turn of the loop takes no more of a line than fits.
LEMMA SseTurnFits ==
    ASSUME SseInv, batch \in Seq(Item), Sse!SseTurn
    PROVE  SseInv' /\ batch' \in Seq(Item)
  <1>. DEFINE bytes == Sse!Unread(sseFramer)
              piece == Sse!Piece(bytes)
              line == sseFramer.line \o piece
              f == [sseFramer EXCEPT !.afterCr = @ /\ chunk = <<>>]
              ending == bytes[Len(piece) + 1]
              done == [f EXCEPT !.line = <<>>, !.firstLine = FALSE, !.afterCr = (ending = "CR")]
              outcome == Sse!ApplyLine(done, Sse!Text(f, line))
              open == Sse!LeaveOpen(f, line)
              rest == SubSeq(bytes, Len(piece) + 2, Len(bytes))
              TooLong == Size(piece) > Sse!Max({Sse!Budget(f) - Size(f.line), 0})
  <1>1. limits.frame \in Nat /\ limits' = limits /\ alphabet' = alphabet
    BY SseAssumption DEF SseInv, Sse!SseTurn, Sse!Fails, Sse!Returns, Sse!Found
  <1>2. \/ TooLong /\ sseFramer' = f /\ Sse!Fails("FrameLimit")
        \/ ~TooLong /\ sseFramer' = open /\ Sse!Returns
        \/ ~TooLong /\ sseFramer' = done /\ Sse!Fails("NotUtf8")
        \/ ~TooLong /\ sseFramer' = outcome.framer /\ Sse!Found(rest, outcome.sent)
    BY DEF Sse!SseTurn, Size
  <1>3. bytes \in Seq(Body)
    BY DEF SseInv, Sse!Unread
  <1>4. piece \in Seq(Body)
    BY <1>3, PieceType
  <1>5. sseFramer \in SseFramers /\ Fits(sseFramer) /\ sseFramer.line \in Seq(Body)
    BY DEF SseInv, Fits, SseFramers
  <1>6. /\ f \in SseFramers /\ f.line = sseFramer.line /\ f.data = sseFramer.data
        /\ f.event = sseFramer.event
    BY <1>5 DEF SseFramers
  <1>7. Fits(f) /\ Held(f) \in Nat
    BY <1>5, <1>6, HeldType DEF Fits, Held
  <1>8. line \in Seq(Body) /\ rest \in Seq(Body) /\ Size(line) = Size(f.line) + Size(piece)
        /\ Size(piece) \in Nat
    <2>1. f.line \in Seq(Body)
      BY <1>5, <1>6
    <2>2. Size(f.line \o piece) = Size(f.line) + Size(piece) /\ f.line \o piece \in Seq(Body)
      BY <1>4, <2>1, SizesAdd
    <2>3. Size(piece) \in Nat
      BY <1>4, SizeType
    <2>4. rest \in Seq(Body)
      BY <1>3, <1>4
    <2>. QED
      BY <2>2, <2>3, <2>4
  <1>9. /\ done \in SseFramers /\ done.line = <<>> /\ done.data = f.data /\ done.event = f.event
    <2>1. <<>> \in Seq(Body)
      OBVIOUS
    <2>. HIDE DEF f, ending
    <2>. QED
      BY <1>6, <2>1 DEF SseFramers
  <1>10. open \in SseFramers /\ open.line = line /\ open.data = f.data /\ open.event = f.event
    <2>. HIDE DEF f, line
    <2>. QED
      BY <1>6, <1>8 DEF SseFramers, Sse!LeaveOpen
  <1>11. ASSUME ~TooLong
         PROVE  Size(line) + (Size(f.data) + Size(f.event)) <= limits.frame
    <2>1. Size(piece) <= limits.frame - Held(f)
      <3>1. Sse!Max({Sse!Budget(f) - Size(f.line), 0}) = limits.frame - Held(f)
        BY <1>1, <1>7, RoomIs
      <3>. HIDE DEF f, piece
      <3>. QED
        BY <1>1, <1>7, <1>8, <1>11, <3>1
    <2>2. Size(f.line) \in Nat /\ Size(f.data) \in Nat /\ Size(f.event) \in Nat
      BY <1>6, HeldType
    <2>. HIDE DEF f, line, piece
    <2>. QED
      BY <1>1, <1>8, <2>1, <2>2 DEF Held
  <1>12. Fits(done)
    <2>1. Size(f.line) \in Nat /\ Size(f.data) \in Nat /\ Size(f.event) \in Nat
      BY <1>6, HeldType
    <2>. HIDE DEF f, done
    <2>. QED
      BY <1>1, <1>7, <1>9, <2>1, NoSize DEF Fits, Held
  <1>13. ~TooLong => Fits(open)
    <2>. HIDE DEF f, open, line, TooLong
    <2>. QED
      BY <1>10, <1>11 DEF Fits, Held
  <1>14. ~TooLong => Fits(outcome.framer) /\ outcome.sent \in Seq(Item)
    <2>. SUFFICES ASSUME ~TooLong PROVE Fits(outcome.framer) /\ outcome.sent \in Seq(Item)
      OBVIOUS
    <2>. DEFINE text == Sse!Text(f, line)
    <2>1. text \in Seq(Body) /\ Size(text) \in Nat /\ Size(text) <= Size(line)
      BY <1>8, TextFits
    <2>2. Size(f.data) \in Nat /\ Size(f.event) \in Nat
      BY <1>6, HeldType
    <2>3. Size(line) + (Size(f.data) + Size(f.event)) <= limits.frame
      BY <1>11
    <2>4. Size(line) \in Nat
      BY <1>8, SizeType
    <2>. HIDE DEF f, line, done, text, TooLong
    <2>5. Size(text) + (Size(done.data) + Size(done.event)) <= limits.frame
      BY <1>1, <1>9, <2>1, <2>2, <2>3, <2>4
    <2>. QED
      BY <1>1, <1>9, <2>1, <2>5, LineFits DEF text
  <1>15. <<>> \in Seq(Body) /\ Sse!Err("FrameLimit") \in Item /\ Sse!Err("NotUtf8") \in Item
    BY ErrorIsItem DEF Errors
  <1>. HIDE DEF bytes, piece, line, f, ending, done, outcome, open, rest, TooLong
  <1>16. Fits(sseFramer)' <=> Fits(sseFramer')
    BY <1>1 DEF Fits
  <1>17. Fits(sseFramer')
    BY <1>2, <1>7, <1>12, <1>13, <1>14
  <1>18. chunk' \in Seq(Body) /\ batch' \in Seq(Item)
    <2>1. CASE Sse!Fails("FrameLimit") \/ Sse!Fails("NotUtf8")
      <3>1. PICK e \in Item : batch' = Append(batch, e) /\ chunk' = <<>>
        BY <1>15, <2>1, Zenon DEF Sse!Fails
      <3>. QED
        BY <1>15, <3>1
    <2>2. CASE Sse!Returns
      BY <1>15, <2>2 DEF Sse!Returns
    <2>3. CASE ~TooLong /\ Sse!Found(rest, outcome.sent)
      BY <1>8, <1>14, <2>3 DEF Sse!Found
    <2>. QED
      BY <1>2, <2>1, <2>2, <2>3
  <1>. QED
    BY <1>1, <1>16, <1>17, <1>18 DEF SseInv

LEMMA SseFinishFits ==
    ASSUME SseInv, Sse!SseFinish
    PROVE  SseInv' /\ batch' \in Seq(Item)
  <1>. DEFINE line == Sse!Text(sseFramer, sseFramer.line)
              last == IF sseFramer.line = <<>> THEN Sse!Nothing(sseFramer)
                      ELSE Sse!ApplyLine([sseFramer EXCEPT !.line = <<>>, !.firstLine = FALSE], line)
              cut == [sseFramer EXCEPT !.line = <<>>]
              f == [sseFramer EXCEPT !.line = <<>>, !.firstLine = FALSE]
  <1>1. limits.frame \in Nat /\ limits' = limits /\ alphabet' = alphabet /\ chunk' = chunk
    BY SseAssumption DEF SseInv, Sse!SseFinish, Sse!Flushes
  <1>2. \/ sseFramer' = cut /\ batch' = <<Sse!Err("NotUtf8")>>
        \/ /\ sseFramer' = Sse!Dispatch(last.framer).framer
           /\ batch' = last.sent \o Sse!Dispatch(last.framer).sent
    BY DEF Sse!SseFinish, Sse!Flushes
  <1>3. sseFramer \in SseFramers /\ Fits(sseFramer) /\ sseFramer.line \in Seq(Body)
        /\ Held(sseFramer) <= limits.frame
    BY DEF SseInv, Fits, SseFramers
  <1>4. /\ Size(sseFramer.line) \in Nat /\ Size(sseFramer.data) \in Nat
        /\ Size(sseFramer.event) \in Nat
    BY <1>3, HeldType
  <1>5. /\ f \in SseFramers /\ f.line = <<>> /\ f.data = sseFramer.data /\ f.event = sseFramer.event
        /\ cut \in SseFramers /\ cut.line = <<>> /\ cut.data = sseFramer.data
        /\ cut.event = sseFramer.event
    <2>1. <<>> \in Seq(Body)
      OBVIOUS
    <2>. QED
      BY <1>3, <2>1 DEF SseFramers
  <1>6. Fits(cut)
    <2>. HIDE DEF cut
    <2>. QED
      BY <1>1, <1>3, <1>4, <1>5, NoSize DEF Fits, Held
  <1>7. Fits(last.framer) /\ last.sent \in Seq(Item)
    <2>1. CASE sseFramer.line = <<>>
      BY <1>3, <2>1 DEF Sse!Nothing
    <2>2. CASE sseFramer.line # <<>>
      <3>1. line \in Seq(Body) /\ Size(line) \in Nat /\ Size(line) <= Size(sseFramer.line)
        BY <1>3, TextFits
      <3>2. Size(line) + (Size(f.data) + Size(f.event)) <= limits.frame
        <4>. HIDE DEF line, f
        <4>. QED
          BY <1>1, <1>3, <1>4, <1>5, <3>1 DEF Held
      <3>3. last = Sse!ApplyLine(f, line)
        BY <2>2
      <3>. HIDE DEF line, f, last
      <3>. QED
        BY <1>1, <1>5, <3>1, <3>2, <3>3, LineFits
    <2>. QED
      BY <2>1, <2>2
  <1>. HIDE DEF last, cut
  <1>8. /\ Fits(Sse!Dispatch(last.framer).framer)
        /\ last.sent \o Sse!Dispatch(last.framer).sent \in Seq(Item)
    <2>1. Fits(Sse!Dispatch(last.framer).framer) /\ Sse!Dispatch(last.framer).sent \in Seq(Item)
      BY <1>1, <1>7, DispatchFits
    <2>. QED
      BY <1>7, <2>1
  <1>9. <<Sse!Err("NotUtf8")>> \in Seq(Item)
    BY ErrorIsItem DEF Errors
  <1>10. Fits(sseFramer)' <=> Fits(sseFramer')
    BY <1>1 DEF Fits
  <1>. QED
    BY <1>1, <1>2, <1>6, <1>8, <1>9, <1>10 DEF SseInv

(***************************************************************************)
(* What reaches the decoder.                                               *)
(***************************************************************************)

OutInv ==
    /\ batch \in Seq(Item) /\ out \in Seq(Item)
    /\ used \in Nat /\ used <= limits.output
    /\ SizeUpTo(out, Len(out)) = used

LEMMA ItemSize == ASSUME NEW x \in Item PROVE IsErr(x) \/ x.size \in Nat
  BY DEF Item, IsErr

LEMMA SizeGrows ==
    ASSUME NEW s \in Seq(Item), NEW x \in Item
    PROVE  SizeUpTo(Append(s, x), Len(Append(s, x)))
             = SizeUpTo(s, Len(s)) + IF IsErr(x) THEN 0 ELSE x.size
  <1>. DEFINE t == Append(s, x)
              p == [i \in DOMAIN s |-> IF IsErr(s[i]) THEN 0 ELSE s[i].size]
              q == [i \in DOMAIN t |-> IF IsErr(t[i]) THEN 0 ELSE t[i].size]
  <1>1. Len(s) \in Nat /\ Len(t) = Len(s) + 1 /\ t[Len(s) + 1] = x
    OBVIOUS
  <1>2. \A i \in 1..Len(s) : p[i] = q[i]
    OBVIOUS
  <1>3. q[Len(s) + 1] = IF IsErr(x) THEN 0 ELSE x.size
    BY <1>1
  <1>4. SizeUpTo(s, Len(s)) = SumUpTo(p, Len(s)) /\ SizeUpTo(t, Len(t)) = SumUpTo(q, Len(s) + 1)
    BY <1>1 DEF SizeUpTo
  <1>. HIDE DEF p, q, t
  <1>5. SumUpTo(p, Len(s)) = SumUpTo(q, Len(s))
    BY <1>1, <1>2, SameSum
  <1>6. SumUpTo(q, Len(s) + 1) = SumUpTo(q, Len(s)) + q[Len(s) + 1]
    BY <1>1, SumGoesOn
  <1>. QED
    BY <1>3, <1>4, <1>5, <1>6 DEF t

\* The decoder gets an event only if it fits what is left.
Delivered ==
    /\ batch # <<>> /\ batch' \in {Tail(batch), <<>>}
    /\ LET x == Head(batch)
           fits == IsErr(x) \/ x.size <= limits.output - used
       IN  /\ out' = Append(out, IF fits THEN x ELSE Err("OutputLimit"))
           /\ used' = IF fits /\ ~IsErr(x) THEN used + x.size ELSE used

LEMMA DeliveryFits ==
    ASSUME OutInv, limits.output \in Nat, limits' = limits, Delivered
    PROVE  OutInv'
  <1>. DEFINE x == Head(batch)
              fits == IsErr(x) \/ x.size <= limits.output - used
              y == IF fits THEN x ELSE Err("OutputLimit")
  <1>1. x \in Item /\ Err("OutputLimit") \in Item /\ IsErr(Err("OutputLimit"))
    BY ErrorIsItem DEF OutInv, Delivered, Errors, Err, IsErr
  <1>2. y \in Item /\ out' = Append(out, y) /\ used' = IF IsErr(y) THEN used ELSE used + y.size
    BY <1>1 DEF Delivered
  <1>3. IsErr(y) \/ (y.size \in Nat /\ y.size <= limits.output - used)
    BY <1>1, ItemSize
  <1>4. batch' \in Seq(Item) /\ out \in Seq(Item) /\ used \in Nat
        /\ used <= limits.output /\ SizeUpTo(out, Len(out)) = used
    <2>1. Tail(batch) \in Seq(Item) /\ <<>> \in Seq(Item)
      BY DEF OutInv, Delivered
    <2>. QED
      BY <2>1, Zenon DEF OutInv, Delivered
  <1>. HIDE DEF x, y
  <1>5. SizeUpTo(out', Len(out')) = used + IF IsErr(y) THEN 0 ELSE y.size
    BY <1>2, <1>4, SizeGrows
  <1>6. out' \in Seq(Item)
    BY <1>2, <1>4
  <1>7. used' \in Nat /\ used' <= limits.output /\ SizeUpTo(out', Len(out')) = used'
    BY <1>2, <1>3, <1>4, <1>5
  <1>8. SizeUpTo(out, Len(out))' = SizeUpTo(out', Len(out'))
    OBVIOUS
  <1>. QED
    BY <1>4, <1>6, <1>7, <1>8 DEF OutInv

(***************************************************************************)
(* The bodies and the requests together.                                   *)
(***************************************************************************)

TransportInv ==
    /\ IF part = "Sse" THEN SseInv /\ framer = <<>> ELSE IInv
    /\ OutInv
    /\ limits.frame \in Nat /\ limits.output \in Nat

LEMMA TransportBegins == Init => TransportInv
  <1>. SUFFICES ASSUME Init PROVE TransportInv
    OBVIOUS
  <1>1. /\ \A S : <<>> \in Seq(S)
        /\ Len(<<>>) = 0
    OBVIOUS
  <1>2. SizeUpTo(<<>>, 0) = 0
    BY SumStarts DEF SizeUpTo
  <1>3. CASE part = "Sse" /\ Sse!SseInit /\ framer = <<>>
    <2>1. limits \in SseLimits /\ alphabet \in Alphabets /\ chunk = <<>> /\ batch = <<>> /\ used = 0
          /\ out = <<>>
      BY <1>3 DEF Sse!SseInit, Sse!SharedInit
    <2>2. sseFramer = [line |-> <<>>, afterCr |-> FALSE, firstLine |-> TRUE, event |-> <<>>,
                       data |-> <<>>]
      BY <1>3 DEF Sse!SseInit, Sse!NoEvent
    <2>3. limits.frame \in Nat /\ limits.output \in Nat
      BY <2>1, SseAssumption
    <2>4. sseFramer \in SseFramers
      BY <1>1, <2>2 DEF SseFramers
    <2>5. Held(sseFramer) = 0
      BY <2>2, NoSize DEF Held
    <2>. QED
      BY <1>1, <1>2, <1>3, <2>1, <2>3, <2>4, <2>5 DEF TransportInv, SseInv, OutInv, Fits
  <1>4. CASE part # "Sse" /\ AwsInit
    <2>1. limits \in Limits /\ chunk = <<>> /\ batch = <<>> /\ used = 0 /\ out = <<>>
          /\ framer = <<>> /\ received = <<>>
      BY <1>4 DEF AwsInit, SharedInit
    <2>2. limits.frame \in Nat /\ limits.output \in Nat
      BY <2>1, PipelineAssumption
    <2>3. IInv
      BY <1>1, <2>1, FrameAssumption DEF IInv, ByteInv, Short
    <2>. QED
      BY <1>1, <1>2, <1>4, <2>1, <2>2, <2>3 DEF TransportInv, OutInv
  <1>. QED
    BY <1>3, <1>4 DEF Init, NoBody

LEMMA SseStepFits == ASSUME TransportInv, SseStep PROVE TransportInv'
  <1>1. part = "Sse" /\ part' = part /\ framer' = framer /\ SseInv /\ framer = <<>> /\ OutInv
        /\ limits.frame \in Nat /\ limits.output \in Nat
    BY DEF TransportInv, SseStep
  <1>2. limits' = limits
    BY DEF SseStep, Sse!SseNext, Sse!SseTurn, Sse!SseFinish, Sse!Shared, Sse!Push, Sse!ReadFails,
           Sse!Deliver, Sse!NextChunk, Sse!Over, Sse!vars, Sse!Arrive, Sse!Fails, Sse!Returns, Sse!Found,
           Sse!Flushes
  <1>3. CASE Sse!SseTurn
    <2>1. out' = out /\ used' = used
      BY <1>3 DEF Sse!SseTurn, Sse!Fails, Sse!Returns, Sse!Found
    <2>. QED
      BY <1>1, <1>2, <1>3, <2>1, SseTurnFits DEF TransportInv, OutInv
  <1>4. CASE Sse!SseFinish
    <2>1. out' = out /\ used' = used
      BY <1>4 DEF Sse!SseFinish, Sse!Flushes
    <2>. QED
      BY <1>1, <1>2, <1>4, <2>1, SseFinishFits DEF TransportInv, OutInv
  <1>5. CASE Sse!Shared /\ UNCHANGED <<alphabet, policy>>
    <2>1. chunk' = chunk /\ sseFramer' = sseFramer /\ alphabet' = alphabet
      BY <1>5 DEF Sse!Shared, Sse!Push, Sse!ReadFails, Sse!Deliver, Sse!NextChunk, Sse!Over, Sse!vars
    <2>2. SseInv'
      BY <1>1, <1>2, <2>1 DEF SseInv, Fits
    <2>3. OutInv'
      <3>1. CASE Sse!Deliver
        <4>1. Delivered
          BY <3>1 DEF Sse!Deliver, Delivered, Sse!IsErr, IsErr, Sse!Err, Err
        <4>. QED
          BY <1>1, <1>2, <4>1, DeliveryFits
      <3>2. CASE Sse!ReadFails
        <4>1. out' = out /\ used' = used /\ \E e \in {"Network", "Idle"} : batch' = <<Sse!Err(e)>>
          BY <3>2 DEF Sse!ReadFails
        <4>2. batch' \in Seq(Item)
          BY <4>1, ErrorIsItem DEF Errors
        <4>. QED
          BY <1>1, <1>2, <4>1, <4>2 DEF OutInv
      <3>3. CASE Sse!Push \/ Sse!NextChunk \/ Sse!Over
        <4>1. out' = out /\ used' = used /\ batch' = batch
          BY <3>3 DEF Sse!Push, Sse!NextChunk, Sse!Over, Sse!vars
        <4>. QED
          BY <1>1, <1>2, <4>1 DEF OutInv
      <3>. QED
        BY <1>5, <3>1, <3>2, <3>3 DEF Sse!Shared
    <2>. QED
      BY <1>1, <1>2, <2>2, <2>3 DEF TransportInv
  <1>6. CASE (\E b \in alphabet : Sse!Arrive(b)) /\ UNCHANGED <<alphabet, policy>>
    <2>1. PICK b \in alphabet : Sse!Arrive(b)
      BY <1>6
    <2>2. b \in Body /\ chunk \in Seq(Body)
      BY <1>1 DEF Body, SseInv
    <2>3. chunk' \in Seq(Body) /\ sseFramer' = sseFramer /\ out' = out /\ used' = used /\ batch' = batch
      BY <2>1, <2>2 DEF Sse!Arrive
    <2>4. SseInv' /\ OutInv'
      BY <1>1, <1>2, <1>6, <2>3 DEF SseInv, Fits, OutInv
    <2>. QED
      BY <1>1, <1>2, <2>4 DEF TransportInv
  <1>. QED
    BY <1>3, <1>4, <1>5, <1>6 DEF SseStep, Sse!SseNext

LEMMA AwsStepFits == ASSUME TransportInv, AwsStep PROVE TransportInv'
  <1>1. part # "Sse" /\ part' = part /\ IInv /\ OutInv /\ limits.frame \in Nat /\ limits.output \in Nat
    BY DEF TransportInv, AwsStep
  <1>2. limits' = limits
    BY DEF AwsStep, AwsNext, AwsTurn, AwsFinish, Shared, Push, ReadFails, Deliver, NextChunk, Over, vars,
           Arrive, Fail, Fails, Returns, Found, Flushes
  <1>3. IInv'
    BY <1>1, NextKeepsIInv DEF AwsStep
  <1>4. OutInv'
    <2>1. CASE AwsTurn
      <3>. DEFINE f == Head(Buffer)[1]
      <3>1. out' = out /\ used' = used
        BY <2>1 DEF AwsTurn, Fail, Fails, Returns, Found
      <3>2. Buffer \in Seq(Bytes) /\ (Buffer # <<>> => f \in Frames /\ f.size \in Nat)
        <4>1. framer \in Seq(Bytes) /\ chunk \in Seq(Bytes)
          BY <1>1 DEF IInv, ByteInv
        <4>2. Buffer \in Seq(Bytes)
          BY <4>1 DEF Buffer
        <4>3. Buffer # <<>> => Head(Buffer) \in Bytes
          BY <4>2
        <4>. QED
          BY <4>2, <4>3, FrameAssumption DEF Bytes
      <3>3. \/ batch' = batch
            \/ \E e \in Errors : batch' = Append(batch, Err(e))
            \/ \E x \in Item : batch' = batch \o <<x>>
        <4>1. CASE Returns
          BY <4>1 DEF Returns
        <4>2. CASE Fail(PreludeError(f))
          BY <4>2 DEF Fail, Fails, PreludeError, Errors
        <4>3. CASE Buffer # <<>> /\ IsErr(Decoded(f)) /\ Fail(Decoded(f).error)
          <5>1. Decoded(f).error \in Errors
            BY <4>3 DEF Decoded, Errors, Err, IsErr
          <5>. QED
            BY <4>3, <5>1 DEF Fail, Fails
        <4>4. CASE Buffer # <<>> /\ ~IsErr(Decoded(f)) /\ Found(<<>>, <<Decoded(f)>>)
          <5>1. Decoded(f) = [type |-> "Event", frame |-> f, size |-> f.size]
            BY <4>4 DEF Decoded, IsErr, Err
          <5>2. Decoded(f) \in Item
            BY <3>2, <4>4, <5>1 DEF Item
          <5>. QED
            BY <4>4, <5>2 DEF Found
        <4>. QED
          BY <2>1, <4>1, <4>2, <4>3, <4>4 DEF AwsTurn
      <3>4. batch' \in Seq(Item)
        <4>1. batch \in Seq(Item)
          BY <1>1 DEF OutInv
        <4>2. \A x \in Item : Append(batch, x) \in Seq(Item) /\ batch \o <<x>> \in Seq(Item)
          BY <4>1
        <4>. QED
          BY <3>3, <4>1, <4>2, ErrorIsItem, Zenon
      <3>. QED
        BY <1>1, <1>2, <3>1, <3>4 DEF OutInv
    <2>2. CASE Deliver
      <3>1. Delivered
        BY <2>2 DEF Deliver, Delivered
      <3>. QED
        BY <1>1, <1>2, <3>1, DeliveryFits
    <2>3. CASE ReadFails
      <3>1. out' = out /\ used' = used /\ \E e \in {"Network", "Idle"} : batch' = <<Err(e)>>
        BY <2>3 DEF ReadFails
      <3>2. batch' \in Seq(Item)
        BY <3>1, ErrorIsItem DEF Errors
      <3>. QED
        BY <1>1, <1>2, <3>1, <3>2 DEF OutInv
    <2>4. CASE AwsFinish
      <3>1. out' = out /\ used' = used /\ batch' = <<>>
        BY <2>4 DEF AwsFinish, Flushes
      <3>2. batch' \in Seq(Item)
        BY <3>1
      <3>. QED
        BY <1>1, <1>2, <3>1, <3>2 DEF OutInv
    <2>5. CASE Push \/ NextChunk \/ Over \/ \E b \in NextBytes : Arrive(b)
      <3>1. out' = out /\ used' = used /\ batch' = batch
        BY <2>5 DEF Push, NextChunk, Over, vars, Arrive
      <3>. QED
        BY <1>1, <1>2, <3>1 DEF OutInv
    <2>. QED
      BY <2>1, <2>2, <2>3, <2>4, <2>5 DEF AwsStep, AwsNext, Shared
  <1>. QED
    BY <1>1, <1>2, <1>3, <1>4 DEF TransportInv

LEMMA TransportStays == TransportInv /\ [Next]_transportVars => TransportInv'
  <1>. SUFFICES ASSUME TransportInv, [Next]_transportVars PROVE TransportInv'
    OBVIOUS
  <1>1. CASE SseStep
    BY <1>1, SseStepFits
  <1>2. CASE AwsStep
    BY <1>2, AwsStepFits
  <1>3. CASE RequestStep \/ UNCHANGED transportVars
    <2>1. UNCHANGED <<vars, part, alphabet, sseFramer>>
      BY <1>3 DEF RequestStep, transportVars
    <2>2. UNCHANGED <<limits, received, chunk, framer, step, batch, closed, used, out>>
      BY <2>1 DEF vars
    <2>3. IInv => IInv'
      BY <2>2 DEF IInv, ByteInv, Short
    <2>4. SseInv => SseInv'
      BY <2>1, <2>2 DEF SseInv, Fits
    <2>5. OutInv => OutInv'
      BY <2>2 DEF OutInv
    <2>. QED
      BY <2>1, <2>2, <2>3, <2>4, <2>5 DEF TransportInv
  <1>. QED
    BY <1>1, <1>2, <1>3 DEF Next

\* Less than one frame of an event stream is held between two chunks, and a
\* frame above the limit is never awaited.
THEOREM FramerIsBounded == Spec => []HeldWithinLimit
  <1>1. TransportInv => HeldWithinLimit
    BY FrameAssumption DEF TransportInv, IInv, Short, HeldWithinLimit
  <1>. QED
    BY <1>1, TransportBegins, TransportStays, PTL DEF Spec

\* What is held of a server-sent event fits the frame limit, however it is
\* spread over lines and chunks, and what reaches a decoder fits the output
\* limit together.
THEOREM BodiesFitTheLimits == Spec => []WithinLimits
  <1>1. TransportInv => WithinLimits
    <2>. SUFFICES ASSUME TransportInv PROVE WithinLimits
      OBVIOUS
    <2>1. ASSUME part = "Sse" PROVE Sse!HeldWithinLimit
      <3>1. Held(sseFramer) <= limits.frame
        BY <2>1 DEF TransportInv, SseInv, Fits
      <3>. QED
        BY <3>1 DEF Sse!HeldWithinLimit, Sse!Retained, Held, Size
    <2>2. DeliveredWithinLimit
      BY DEF TransportInv, OutInv, DeliveredWithinLimit
    <2>. QED
      BY <2>1, <2>2 DEF WithinLimits
  <1>. QED
    BY <1>1, TransportBegins, TransportStays, PTL DEF Spec

(***************************************************************************)
(* The registrations that count, and the mappings they make.               *)
(***************************************************************************)

Lists == Seq(Registrations)

\* A list that a registration was added to.
Grown(list, r, new) ==
    LET n == Len(list) + 1
    IN /\ new \in Lists /\ n \in Nat /\ Len(new) = n
       /\ DOMAIN list = 1..(n - 1) /\ DOMAIN new = DOMAIN list \cup {n} /\ n \notin DOMAIN list
       /\ new[n] = r /\ \A i \in DOMAIN list : new[i] = list[i] /\ i \in Nat /\ i < n

LEMMA ListGrows ==
    ASSUME NEW list \in Lists, NEW r \in Registrations
    PROVE  Grown(list, r, Append(list, r))
  BY DEF Grown, Lists

\* Where the registrations that replace the others are, and what they leave.
ReplacingIn(list) == {i \in DOMAIN list : Replacing(list[i])}
LastOf(T) == CHOOSE i \in T : \A j \in T : j <= i
CountingIn(list) ==
    IF ReplacingIn(list) = {} THEN list ELSE SubSeq(list, LastOf(ReplacingIn(list)), Len(list))

LEMMA LastOfIs ==
    ASSUME NEW length \in Nat, NEW T \in SUBSET (1..length), T # {}
    PROVE  LastOf(T) \in T /\ \A j \in T : j <= LastOf(T)
  <1>1. \E i \in T : \A j \in T : j <= i
    BY LastPosition
  <1>. QED
    BY <1>1 DEF LastOf

LEMMA CountingGrows ==
    ASSUME NEW list \in Lists, NEW r \in Registrations, NEW new, new = Append(list, r)
    PROVE  /\ Replacing(r) => CountingIn(new) = <<r>>
           /\ ~Replacing(r) => CountingIn(new) = Append(CountingIn(list), r)
  <1>. DEFINE n == Len(list) + 1
              old == ReplacingIn(list)
  <1>1. Grown(list, r, new)
    BY ListGrows
  <1>2. n \in Nat /\ old \in SUBSET (1..(n - 1)) /\ n - 1 \in Nat /\ Len(new) = n /\ Len(list) = n - 1
    BY <1>1 DEF Grown, ReplacingIn
  <1>3. ASSUME Replacing(r) PROVE CountingIn(new) = <<r>>
    <2>1. ReplacingIn(new) \in SUBSET (1..n) /\ n \in ReplacingIn(new)
      BY <1>1, <1>3 DEF Grown, ReplacingIn
    <2>. DEFINE p == LastOf(ReplacingIn(new))
    <2>2. p \in ReplacingIn(new) /\ \A j \in ReplacingIn(new) : j <= p
      BY <1>2, <2>1, LastOfIs
    <2>3. CountingIn(new) = SubSeq(new, p, n)
      BY <1>2, <2>1 DEF CountingIn
    <2>. HIDE DEF p
    <2>4. p = n
      BY <1>2, <2>1, <2>2
    <2>. DEFINE one == SubSeq(new, n, n)
    <2>5. /\ one \in Seq(Registrations) /\ Len(one) = 1 /\ one[1] = new[n]
          /\ new[n] = r /\ <<r>> \in Seq(Registrations) /\ Len(<<r>>) = 1
      BY <1>1, <1>2 DEF Grown, Lists
    <2>. HIDE DEF one
    <2>6. one = <<r>>
      BY <2>5
    <2>. QED
      BY <2>3, <2>4, <2>6 DEF one
  <1>4. ASSUME ~Replacing(r) PROVE CountingIn(new) = Append(CountingIn(list), r)
    <2>1. ReplacingIn(new) = old
      BY <1>1, <1>4 DEF Grown, ReplacingIn
    <2>2. CASE old = {}
      <3>1. CountingIn(new) = new /\ CountingIn(list) = list
        BY <2>1, <2>2 DEF CountingIn
      <3>. QED
        BY <3>1
    <2>3. CASE old # {}
      <3>. DEFINE p == LastOf(old)
      <3>1. p \in 1..(n - 1)
        BY <1>2, <2>3, LastOfIs
      <3>2. CountingIn(new) = SubSeq(new, p, Len(new)) /\ CountingIn(list) = SubSeq(list, p, Len(list))
        BY <2>1, <2>3 DEF CountingIn
      <3>. HIDE DEF p
      <3>3. SubSeq(new, p, Len(new)) = Append(SubSeq(list, p, Len(list)), r)
        BY <1>2, <3>1 DEF Lists
      <3>. QED
        BY <3>2, <3>3
    <2>. QED
      BY <2>2, <2>3
  <1>. QED
    BY <1>3, <1>4

LEMMA CountingIsList ==
    ASSUME NEW list \in Lists
    PROVE  CountingIn(list) \in Lists /\ (CountingIn(list) = <<>> <=> list = <<>>)
  <1>. DEFINE old == ReplacingIn(list)
  <1>1. CASE old = {}
    BY <1>1 DEF CountingIn
  <1>2. CASE old # {}
    <2>. DEFINE p == LastOf(old)
    <2>0. old \in SUBSET (1..Len(list)) /\ Len(list) \in Nat
      BY DEF ReplacingIn, Lists
    <2>1. p \in 1..Len(list)
      BY <1>2, <2>0, LastOfIs
    <2>2. CountingIn(list) = SubSeq(list, p, Len(list))
      BY <1>2 DEF CountingIn
    <2>. HIDE DEF p
    <2>. DEFINE rest == SubSeq(list, p, Len(list))
    <2>3. rest \in Lists /\ Len(rest) # 0 /\ list # <<>>
      BY <2>1 DEF Lists
    <2>. HIDE DEF rest
    <2>4. rest # <<>>
      BY <2>3
    <2>. QED
      BY <2>2, <2>3, <2>4 DEF rest
  <1>. QED
    BY <1>1, <1>2

\* What a fallback asks for, and how many fallbacks there are up to it.
SecretsOf(r) == IF Keyless(r) THEN {} ELSE {r.secret}
Rank(list, i) == Cardinality({j \in Fallbacks(list) : j <= i})

LEMMA FallbackSecretsAre ==
    ASSUME NEW list
    PROVE  FallbackSecrets(list) =
              [k \in 1..Cardinality(Fallbacks(list)) |->
                  UNION {SecretsOf(list[i]) : i \in {j \in Fallbacks(list) : Rank(list, j) = k}}]
  BY DEF FallbackSecrets, SecretsOf, Rank

LEMMA FallbacksCounted ==
    ASSUME NEW list \in Lists
    PROVE  /\ IsFiniteSet(Fallbacks(list)) /\ Cardinality(Fallbacks(list)) \in Nat
           /\ \A i \in DOMAIN list : Rank(list, i) \in Nat /\ Rank(list, i) <= Cardinality(Fallbacks(list))
           /\ IsList(FallbackSecrets(list)) /\ Len(FallbackSecrets(list)) = Cardinality(Fallbacks(list))
  <1>1. IsFiniteSet(1..Len(list)) /\ Fallbacks(list) \subseteq 1..Len(list)
    BY FS_Interval DEF Fallbacks, Lists
  <1>2. IsFiniteSet(Fallbacks(list)) /\ Cardinality(Fallbacks(list)) \in Nat
    BY <1>1, FS_Subset, FS_CardinalityType
  <1>3. ASSUME NEW i \in DOMAIN list
        PROVE  Rank(list, i) \in Nat /\ Rank(list, i) <= Cardinality(Fallbacks(list))
    <2>1. {j \in Fallbacks(list) : j <= i} \subseteq Fallbacks(list)
      OBVIOUS
    <2>. QED
      BY <1>2, <2>1, FS_Subset, FS_CardinalityType DEF Rank
  <1>. DEFINE card == Cardinality(Fallbacks(list))
              secrets == FallbackSecrets(list)
  <1>4. DOMAIN secrets = 1..card
    BY FallbackSecretsAre
  <1>. HIDE DEF card, secrets
  <1>5. card \in Nat
    BY <1>2 DEF card
  <1>6. Len(secrets) = card
    BY <1>4, <1>5
  <1>7. IsList(secrets) /\ Len(secrets) = card
    BY <1>4, <1>5, <1>6 DEF IsList
  <1>. QED
    BY <1>2, <1>3, <1>7 DEF card, secrets

\* A fallback is asked after the others; nothing else changes their order.
SameFallbacks(list, new) ==
    Fallbacks(new) = Fallbacks(list) /\ FallbackSecrets(new) = FallbackSecrets(list)
AskedLast(list, r, new) ==
    /\ Fallbacks(new) = Fallbacks(list) \cup {Len(new)}
    /\ FallbackSecrets(new) = Append(FallbackSecrets(list), SecretsOf(r))

LEMMA FallbacksGrow ==
    ASSUME NEW list \in Lists, NEW r \in Registrations, NEW new, new = Append(list, r)
    PROVE  /\ ~Fallback(r) => SameFallbacks(list, new)
           /\ Fallback(r) => AskedLast(list, r, new)
  <1>. DEFINE n == Len(list) + 1
              old == Fallbacks(list)
              card == Cardinality(old)
  <1>1. Grown(list, r, new)
    BY ListGrows
  <1>2. /\ IsFiniteSet(old) /\ card \in Nat /\ old \subseteq DOMAIN list
        /\ \A i \in old : Rank(list, i) \in Nat /\ Rank(list, i) <= card /\ new[i] = list[i] /\ i < n /\ i \in Nat
    BY <1>1, FallbacksCounted DEF Grown, Fallbacks
  <1>3. ASSUME ~Fallback(r)
        PROVE  Fallbacks(new) = old /\ FallbackSecrets(new) = FallbackSecrets(list)
    <2>1. Fallbacks(new) = old
      BY <1>1, <1>3 DEF Grown, Fallbacks
    <2>2. \A j \in old : Rank(new, j) = Rank(list, j)
      BY <2>1 DEF Rank
    <2>3. \A k : {j \in old : Rank(new, j) = k} = {j \in old : Rank(list, j) = k}
      BY <2>2
    <2>. DEFINE of(l, k) == UNION {SecretsOf(l[i]) : i \in {j \in old : Rank(l, j) = k}}
    <2>4. \A k : {SecretsOf(new[i]) : i \in {j \in old : Rank(new, j) = k}}
                  = {SecretsOf(list[i]) : i \in {j \in old : Rank(list, j) = k}}
      BY <1>2, <2>3
    <2>5. \A k : of(new, k) = of(list, k)
      BY <2>4
    <2>6. /\ FallbackSecrets(new) = [k \in 1..card |-> of(new, k)]
          /\ FallbackSecrets(list) = [k \in 1..card |-> of(list, k)]
      BY <2>1, FallbackSecretsAre
    <2>. HIDE DEF of
    <2>. QED
      BY <2>1, <2>5, <2>6
  <1>4. ASSUME Fallback(r)
        PROVE  /\ Fallbacks(new) = old \cup {n}
               /\ FallbackSecrets(new) = Append(FallbackSecrets(list), SecretsOf(r))
    <2>1. Fallbacks(new) = old \cup {n} /\ n \notin old /\ n \in Nat /\ new[n] = r
      BY <1>1, <1>2, <1>4 DEF Grown, Fallbacks
    <2>2. Cardinality(Fallbacks(new)) = card + 1
      BY <1>2, <2>1, FS_AddElement
    <2>3. ASSUME NEW j \in old PROVE Rank(new, j) = Rank(list, j)
      <3>1. {i \in Fallbacks(new) : i <= j} = {i \in old : i <= j}
        BY <1>2, <2>1
      <3>. QED
        BY <3>1 DEF Rank
    <2>4. Rank(new, n) = card + 1
      <3>1. {i \in Fallbacks(new) : i <= n} = Fallbacks(new)
        BY <1>2, <2>1
      <3>. QED
        BY <2>2, <3>1 DEF Rank
    <2>. DEFINE placed(k) == {j \in Fallbacks(new) : Rank(new, j) = k}
                before(k) == {j \in old : Rank(list, j) = k}
                value(k) == UNION {SecretsOf(new[i]) : i \in placed(k)}
                valueBefore(k) == UNION {SecretsOf(list[i]) : i \in before(k)}
    <2>5. ASSUME NEW k \in 1..card PROVE value(k) = valueBefore(k)
      <3>1. placed(k) = before(k)
        BY <1>2, <2>1, <2>3, <2>4
      <3>2. \A i \in before(k) : new[i] = list[i]
        BY <1>2
      <3>3. {SecretsOf(new[i]) : i \in placed(k)} = {SecretsOf(list[i]) : i \in before(k)}
        BY <3>1, <3>2
      <3>. QED
        BY <3>3
    <2>6. value(card + 1) = SecretsOf(r)
      <3>1. placed(card + 1) = {n}
        BY <1>2, <2>1, <2>3, <2>4
      <3>2. {SecretsOf(new[i]) : i \in placed(card + 1)} = {SecretsOf(r)}
        BY <2>1, <3>1
      <3>. QED
        BY <3>2
    <2>7. /\ FallbackSecrets(new) = [k \in 1..(card + 1) |-> value(k)]
          /\ FallbackSecrets(list) = [k \in 1..card |-> valueBefore(k)]
      BY <2>2, FallbackSecretsAre
    <2>. HIDE DEF value, valueBefore, placed, before, card
    <2>8. [k \in 1..(card + 1) |-> value(k)]
              = Append([k \in 1..card |-> valueBefore(k)], SecretsOf(r))
      <3>. DEFINE s == [k \in 1..card |-> valueBefore(k)]
                  t == [k \in 1..(card + 1) |-> value(k)]
                  u == Append(s, SecretsOf(r))
      <3>0. card \in Nat
        BY <1>2 DEF card
      <3>. DEFINE V == {valueBefore(k) : k \in 1..card} \cup {value(k) : k \in 1..(card + 1)}
      <3>1. s \in Seq(V) /\ Len(s) = card /\ \A k \in 1..card : s[k] = valueBefore(k)
        BY <3>0
      <3>2. t \in Seq(V) /\ Len(t) = card + 1 /\ \A k \in 1..(card + 1) : t[k] = value(k)
        BY <3>0
      <3>3. SecretsOf(r) \in V
        BY <2>6, <3>0
      <3>. HIDE DEF s, t, V
      <3>4. u \in Seq(V) /\ Len(u) = card + 1 /\ (\A k \in 1..card : u[k] = s[k]) /\ u[card + 1] = SecretsOf(r)
        BY <3>0, <3>1, <3>3
      <3>. HIDE DEF u
      <3>5. \A k \in 1..(card + 1) : k \in 1..card \/ k = card + 1
        BY <3>0
      <3>6. \A k \in 1..(card + 1) : t[k] = u[k]
        BY <2>5, <2>6, <3>0, <3>1, <3>2, <3>4, <3>5
      <3>7. t = u
        BY <3>2, <3>4, <3>6
      <3>. QED
        BY <3>7 DEF s, t, u
    <2>. QED
      BY <2>1, <2>7, <2>8
  <1>5. Len(new) = n
    BY <1>1 DEF Grown
  <1>. HIDE DEF n
  <1>6. ~Fallback(r) => SameFallbacks(list, new)
    BY <1>3, Zenon DEF SameFallbacks
  <1>7. Fallback(r) => AskedLast(list, r, new)
    BY <1>4, <1>5, Zenon DEF AskedLast
  <1>. QED
    BY <1>6, <1>7

\* What the calls that edit the first mapping ask for.
Bearers(list) == {i \in Primaries(list) : list[i].method = "bearer"}
Others(list) == {list[i].secret : i \in Primaries(list) \ Bearers(list)}
IsLastBearer(list, i) == i \in Bearers(list) /\ \A j \in Bearers(list) : j <= i
LastSecrets(list) == {list[i].secret : i \in {j \in Bearers(list) : IsLastBearer(list, j)}}

LEMMA PrimarySecretsAre ==
    ASSUME NEW list, Primaries(list) # {}
    PROVE  PrimarySecrets(list) = Others(list) \cup LastSecrets(list)
  BY DEF PrimarySecrets, Others, Bearers, IsLastBearer, LastSecrets

\* A fallback changes nothing about them ...
LEMMA FallbackLeaves ==
    ASSUME NEW list \in Lists, NEW r \in Registrations, Fallback(r), NEW new, new = Append(list, r)
    PROVE  /\ Primaries(new) = Primaries(list) /\ Bearers(new) = Bearers(list) /\ Others(new) = Others(list)
           /\ \A i \in Bearers(list) : new[i] = list[i]
           /\ PrimarySecrets(new) = PrimarySecrets(list)
  <1>1. Grown(list, r, new)
    BY ListGrows
  <1>2. Primaries(new) = Primaries(list) /\ Primaries(list) \subseteq DOMAIN list
    BY <1>1 DEF Grown, Primaries
  <1>3. \A i \in DOMAIN list : new[i] = list[i]
    BY <1>1 DEF Grown
  <1>4. Bearers(new) = Bearers(list) /\ Bearers(list) \subseteq DOMAIN list
    BY <1>2, <1>3 DEF Bearers
  <1>5. Others(new) = Others(list)
    <2>1. \A i \in Primaries(list) \ Bearers(list) : new[i].secret = list[i].secret
      BY <1>2, <1>3
    <2>. QED
      BY <1>2, <1>4, <2>1 DEF Others
  <1>6. CASE Primaries(list) = {}
    <2>. DEFINE of(l) == {i \in DOMAIN l : Replacing(l[i]) /\ ~Keyless(l[i])}
    <2>1. ~Replacing(r)
      BY DEF Fallback, Replacing
    <2>2. of(new) = of(list)
      BY <1>1, <2>1 DEF Grown
    <2>3. \A i \in of(list) : new[i].secret = list[i].secret
      BY <1>3
    <2>4. {new[i].secret : i \in of(new)} = {list[i].secret : i \in of(list)}
      BY <2>2, <2>3
    <2>5. PrimarySecrets(new) = {new[i].secret : i \in of(new)}
      BY <1>2, <1>6 DEF PrimarySecrets
    <2>6. PrimarySecrets(list) = {list[i].secret : i \in of(list)}
      BY <1>6 DEF PrimarySecrets
    <2>. QED
      BY <1>2, <1>3, <1>4, <1>5, <2>4, <2>5, <2>6
  <1>7. CASE Primaries(list) # {}
    <2>. DEFINE last(l) == {j \in Bearers(l) : IsLastBearer(l, j)}
    <2>1. last(new) = last(list) /\ \A i \in last(list) : new[i].secret = list[i].secret
      BY <1>3, <1>4 DEF IsLastBearer
    <2>2. {new[i].secret : i \in last(new)} = {list[i].secret : i \in last(list)}
      BY <2>1
    <2>3. PrimarySecrets(new) = PrimarySecrets(list)
      <3>1. PrimarySecrets(list) = Others(list) \cup LastSecrets(list)
        BY <1>7, PrimarySecretsAre, Zenon
      <3>2. PrimarySecrets(new) = Others(new) \cup LastSecrets(new)
        <4>1. Primaries(new) # {}
          BY <1>2, <1>7
        <4>. QED
          BY <4>1, PrimarySecretsAre, Zenon
      <3>3. LastSecrets(new) = LastSecrets(list)
        BY <2>2, Zenon DEF LastSecrets
      <3>. QED
        BY <1>5, <3>1, <3>2, <3>3
    <2>. QED
      BY <1>2, <1>3, <1>4, <1>5, <2>3
  <1>. QED
    BY <1>6, <1>7

\* ... and another such call is the last of its kind.
\* A call that edits the first mapping.
Edits(r) == ~Fallback(r) /\ ~Replacing(r)

PrimaryAdded(list, r, new) ==
    LET n == Len(new)
    IN /\ Primaries(new) = Primaries(list) \cup {n} /\ Primaries(list) \subseteq DOMAIN list
       /\ n \in Nat /\ n \notin DOMAIN list /\ new[n] = r
       /\ \A i \in DOMAIN list : new[i] = list[i] /\ i \in Nat /\ i < n

LEMMA PrimariesGrow ==
    ASSUME NEW list \in Lists, NEW r \in Registrations, Edits(r)
    PROVE  PrimaryAdded(list, r, Append(list, r))
  <1>. DEFINE new == Append(list, r)
  <1>1. Grown(list, r, new)
    BY ListGrows
  <1>. HIDE DEF new
  <1>2. PrimaryAdded(list, r, new)
    BY <1>1 DEF Grown, Primaries, Edits, PrimaryAdded
  <1>. QED
    BY <1>2 DEF new

BearerIs(list, secret) == \A i : IsLastBearer(list, i) => list[i].secret = secret

LEMMA BearerGrows ==
    ASSUME NEW list \in Lists, NEW r \in Registrations, Edits(r),
           NEW new, new = Append(list, r), r.method = "bearer"
    PROVE  /\ Bearers(new) # {} /\ Others(new) = Others(list)
           /\ BearerIs(new, r.secret)
  <1>. DEFINE n == Len(new)
  <1>1. /\ n \in Nat /\ n \notin DOMAIN list /\ new[n] = r
        /\ \A i \in DOMAIN list : new[i] = list[i] /\ i \in Nat /\ i < n
        /\ Primaries(new) = Primaries(list) \cup {n} /\ Primaries(list) \subseteq DOMAIN list
    BY PrimariesGrow DEF PrimaryAdded
  <1>. HIDE DEF n
  <1>2. Bearers(new) = Bearers(list) \cup {n} /\ Bearers(list) \subseteq DOMAIN list
    BY <1>1 DEF Bearers
  <1>3. Primaries(new) \ Bearers(new) = Primaries(list) \ Bearers(list)
    BY <1>1, <1>2
  <1>4. \A i \in Primaries(list) \ Bearers(list) : new[i].secret = list[i].secret
    BY <1>1
  <1>5. Others(new) = Others(list)
    BY <1>3, <1>4 DEF Others
  <1>6. \A i : IsLastBearer(new, i) => i = n
    BY <1>1, <1>2 DEF IsLastBearer
  <1>. QED
    BY <1>1, <1>2, <1>5, <1>6 DEF BearerIs

LEMMA HeaderGrows ==
    ASSUME NEW list \in Lists, NEW r \in Registrations, Edits(r),
           NEW new, new = Append(list, r), r.method # "bearer"
    PROVE  /\ Bearers(new) = Bearers(list) /\ Others(new) = Others(list) \cup {r.secret}
           /\ \A i : IsLastBearer(new, i) => IsLastBearer(list, i) /\ new[i] = list[i]
  <1>. DEFINE n == Len(new)
              left == Primaries(list) \ Bearers(list)
  <1>1. /\ n \in Nat /\ n \notin DOMAIN list /\ new[n] = r
        /\ \A i \in DOMAIN list : new[i] = list[i] /\ i \in Nat /\ i < n
        /\ Primaries(new) = Primaries(list) \cup {n} /\ Primaries(list) \subseteq DOMAIN list
    BY PrimariesGrow DEF PrimaryAdded
  <1>. HIDE DEF n
  <1>2. Bearers(new) = Bearers(list) /\ Bearers(list) \subseteq DOMAIN list
    BY <1>1 DEF Bearers
  <1>3. Primaries(new) \ Bearers(new) = left \cup {n}
    BY <1>1, <1>2
  <1>4. \A i \in left : new[i].secret = list[i].secret
    BY <1>1
  <1>5. {new[i].secret : i \in left \cup {n}} = {list[i].secret : i \in left} \cup {r.secret}
    <2>1. {new[i].secret : i \in left} = {list[i].secret : i \in left}
      BY <1>4
    <2>2. {new[i].secret : i \in left \cup {n}} = {new[i].secret : i \in left} \cup {new[n].secret}
      OBVIOUS
    <2>. QED
      BY <1>1, <2>1, <2>2
  <1>6. Others(new) = Others(list) \cup {r.secret}
    BY <1>3, <1>5 DEF Others
  <1>. QED
    BY <1>1, <1>2, <1>6 DEF IsLastBearer

(***************************************************************************)
(* The mapping they edit.                                                  *)
(***************************************************************************)

ExtraSecrets(m) == {m.extras[i].secret : i \in DOMAIN m.extras}
OtherSecrets(m) == ExtraSecrets(m) \cup IF m.auth.scheme = "Header" THEN {m.auth.secret} ELSE {}

\* The mapping asks for what the list asks for.
HoldsPrimaries(list, m) ==
    /\ m.kind = "Http" /\ OtherSecrets(m) = Others(list)
    /\ m.auth.scheme = "Bearer" <=> Bearers(list) # {}
    /\ \A i : IsLastBearer(list, i) => list[i].secret = m.auth.secret

PrimaryFits(list, m) ==
    IF Primaries(list) = {} THEN m.kind # "Http" /\ ToSet(SecretNames(m)) = PrimarySecrets(list)
    ELSE HoldsPrimaries(list, m)

LEMMA SecretNamesAre ==
    ASSUME NEW m, IsMapping(m)
    PROVE  /\ IsList(SecretNames(m))
           /\ m.kind = "Http" => ToSet(SecretNames(m)) =
                 ExtraSecrets(m) \cup IF m.auth.scheme = "None" THEN {} ELSE {m.auth.secret}
           /\ m.kind = "BedrockBearer" => ToSet(SecretNames(m)) = {m.secret}
           /\ m.kind = "AwsDefaultChain" => ToSet(SecretNames(m)) = {}
  <1>1. CASE m.kind = "Http"
    <2>. DEFINE first == IF m.auth.scheme = "None" THEN <<>> ELSE <<m.auth.secret>>
                extras == [i \in DOMAIN m.extras |-> m.extras[i].secret]
    <2>1. IsList(m.extras)
      BY <1>1 DEF IsMapping
    <2>2. IsList(first) /\ ToSet(first) = IF m.auth.scheme = "None" THEN {} ELSE {m.auth.secret}
      <3>1. IsList(<<>>) /\ ToSet(<<>>) = {} /\ IsList(<<m.auth.secret>>)
        BY EmptyIsList, OneIsList DEF ToSet
      <3>2. ToSet(<<m.auth.secret>>) = {m.auth.secret}
        BY DEF ToSet
      <3>. QED
        BY <3>1, <3>2
    <2>3. DOMAIN extras = DOMAIN m.extras
      OBVIOUS
    <2>4. Len(extras) = Len(m.extras) /\ DOMAIN extras = 1..Len(m.extras) /\ Len(m.extras) \in Nat
      BY <2>1, <2>3 DEF IsList
    <2>5. ToSet(extras) = ExtraSecrets(m)
      BY DEF ToSet, ExtraSecrets
    <2>6. SecretNames(m) = first \o extras
      BY <1>1 DEF SecretNames
    <2>. HIDE DEF first, extras
    <2>7. IsList(extras)
      BY <2>4 DEF IsList
    <2>. DEFINE both == first \o extras
    <2>8. /\ Len(first) \in Nat /\ Len(extras) \in Nat /\ Len(both) = Len(first) + Len(extras)
          /\ DOMAIN both = 1..Len(both) /\ DOMAIN first = 1..Len(first) /\ DOMAIN extras = 1..Len(extras)
          /\ \A i \in 1..Len(both) : both[i] = IF i <= Len(first) THEN first[i] ELSE extras[i - Len(first)]
      BY <2>2, <2>7 DEF IsList
    <2>. HIDE DEF both
    <2>9. IsList(both)
      BY <2>8 DEF IsList
    <2>10. \A x : x \in ToSet(both) <=> x \in ToSet(first) \/ x \in ToSet(extras)
      <3>1. ASSUME NEW x \in ToSet(both) PROVE x \in ToSet(first) \/ x \in ToSet(extras)
        <4>1. PICK i \in DOMAIN both : both[i] = x
          BY DEF ToSet
        <4>2. i <= Len(first) \/ i - Len(first) \in 1..Len(extras)
          BY <2>8
        <4>. QED
          BY <2>8, <4>1, <4>2 DEF ToSet
      <3>2. ASSUME NEW x \in ToSet(first) PROVE x \in ToSet(both)
        <4>1. PICK i \in DOMAIN first : first[i] = x
          BY DEF ToSet
        <4>2. i \in DOMAIN both /\ both[i] = x
          BY <2>8, <4>1
        <4>. QED
          BY <4>2 DEF ToSet
      <3>3. ASSUME NEW x \in ToSet(extras) PROVE x \in ToSet(both)
        <4>1. PICK i \in DOMAIN extras : extras[i] = x
          BY DEF ToSet
        <4>2. Len(first) + i \in DOMAIN both /\ both[Len(first) + i] = x
          BY <2>8, <4>1
        <4>. QED
          BY <4>2 DEF ToSet
      <3>. QED
        BY <3>1, <3>2, <3>3
    <2>11. ToSet(both) = ToSet(first) \cup ToSet(extras)
      BY <2>10
    <2>. QED
      BY <1>1, <2>2, <2>5, <2>6, <2>9, <2>11 DEF both
  <1>2. CASE m.kind = "BedrockBearer"
    BY <1>2, OneIsList DEF SecretNames, ToSet
  <1>3. CASE m.kind = "AwsDefaultChain"
    BY <1>3, EmptyIsList DEF SecretNames, ToSet
  <1>. QED
    BY <1>1, <1>2, <1>3 DEF IsMapping

LEMMA FittingSecrets ==
    ASSUME NEW list \in Lists, NEW m, IsMapping(m), PrimaryFits(list, m)
    PROVE  ToSet(SecretNames(m)) = PrimarySecrets(list)
  <1>1. CASE Primaries(list) = {}
    BY <1>1 DEF PrimaryFits
  <1>2. CASE Primaries(list) # {}
    <2>. DEFINE last == {list[i].secret : i \in {j \in Bearers(list) : IsLastBearer(list, j)}}
    <2>0. PrimarySecrets(list) = Others(list) \cup last
      BY <1>2, PrimarySecretsAre, Zenon DEF LastSecrets
    <2>1. HoldsPrimaries(list, m) /\ PrimarySecrets(list) = Others(list) \cup last
      BY <1>2, <2>0, Zenon DEF PrimaryFits
    <2>2. ToSet(SecretNames(m)) = ExtraSecrets(m) \cup IF m.auth.scheme = "None" THEN {} ELSE {m.auth.secret}
      BY <2>1, SecretNamesAre DEF HoldsPrimaries
    <2>3. CASE m.auth.scheme = "Bearer"
      <3>1. Bearers(list) # {} /\ Bearers(list) \in SUBSET (1..Len(list)) /\ Len(list) \in Nat
        BY <2>1, <2>3 DEF HoldsPrimaries, Bearers, Primaries, Lists
      <3>2. \E i : IsLastBearer(list, i)
        BY <3>1, LastPosition DEF IsLastBearer
      <3>3. last = {m.auth.secret}
        BY <2>1, <3>2 DEF HoldsPrimaries, IsLastBearer
      <3>4. Others(list) = ExtraSecrets(m)
        BY <2>1, <2>3 DEF HoldsPrimaries, OtherSecrets
      <3>. QED
        BY <2>1, <2>2, <2>3, <3>3, <3>4
    <2>4. CASE m.auth.scheme # "Bearer"
      <3>1. last = {}
        BY <2>1, <2>4 DEF HoldsPrimaries
      <3>2. m.auth.scheme \in {"None", "Header"}
        BY <2>1, <2>4 DEF IsMapping, HoldsPrimaries
      <3>3. Others(list) = ExtraSecrets(m) \cup IF m.auth.scheme = "Header" THEN {m.auth.secret} ELSE {}
        BY <2>1 DEF HoldsPrimaries, OtherSecrets
      <3>. QED
        BY <2>1, <2>2, <3>1, <3>2, <3>3
    <2>. QED
      BY <2>3, <2>4
  <1>. QED
    BY <1>1, <1>2

\* The mapping that a call edits asks for what the earlier calls asked for.
LEMMA PrimaryHolds ==
    ASSUME NEW list, IsTable(mappings), mappings = <<>> => Primaries(list) = {},
           mappings # <<>> => PrimaryFits(list, mappings[1])
    PROVE  HoldsPrimaries(list, Primary) /\ IsMapping(Primary)
  <1>1. CASE mappings # <<>> /\ mappings[1].kind = "Http"
    <2>1. 1 \in DOMAIN mappings
      BY <1>1 DEF IsTable, IsList
    <2>. QED
      BY <1>1, <2>1 DEF IsTable, Primary, PrimaryFits
  <1>2. CASE ~(mappings # <<>> /\ mappings[1].kind = "Http")
    <2>. DEFINE m == Http(NoAuth, <<>>)
    <2>1. Primary = m /\ Primaries(list) = {}
      BY <1>2 DEF Primary, PrimaryFits, HoldsPrimaries
    <2>2. Bearers(list) = {} /\ Others(list) = {}
      BY <2>1 DEF Bearers, Others
    <2>3. m.kind = "Http" /\ m.auth.scheme = "None" /\ m.extras = <<>>
      BY DEF Http, NoAuth, Auth
    <2>4. OtherSecrets(m) = {}
      BY <2>3 DEF OtherSecrets, ExtraSecrets
    <2>5. IsMapping(m)
      BY <2>3, EmptyIsList DEF IsMapping
    <2>. QED
      BY <2>1, <2>2, <2>3, <2>4, <2>5 DEF HoldsPrimaries, IsLastBearer
  <1>. QED
    BY <1>1, <1>2

LEMMA ExtrasGrow ==
    ASSUME NEW m, IsList(m.extras), NEW auth, NEW x
    PROVE  ExtraSecrets(Http(auth, Append(m.extras, x))) = ExtraSecrets(m) \cup {x.secret}
  <1>. DEFINE s == m.extras
              t == Append(s, x)
              n == Len(s) + 1
  <1>1. DOMAIN s = 1..Len(s) /\ Len(s) \in Nat
    BY DEF IsList
  <1>2. DOMAIN t = DOMAIN s \cup {n} /\ t[n] = x /\ \A i \in DOMAIN s : t[i] = s[i]
    BY <1>1
  <1>3. Http(auth, t).extras = t
    BY DEF Http
  <1>. HIDE DEF t, n
  <1>4. {t[i].secret : i \in DOMAIN t} = {s[i].secret : i \in DOMAIN s} \cup {x.secret}
    <2>1. {t[i].secret : i \in DOMAIN s} = {s[i].secret : i \in DOMAIN s}
      BY <1>2
    <2>2. {t[i].secret : i \in DOMAIN s \cup {n}} = {t[i].secret : i \in DOMAIN s} \cup {t[n].secret}
      OBVIOUS
    <2>. QED
      BY <1>2, <2>1, <2>2
  <1>. QED
    BY <1>3, <1>4 DEF ExtraSecrets, t

\* It then asks for one secret more, or for another bearer.
LEMMA EditHolds ==
    ASSUME NEW list \in Lists, NEW r \in Registrations, Edits(r),
           NEW new, new = Append(list, r), NEW m, IsMapping(m), HoldsPrimaries(list, m)
    PROVE  /\ r.method = "bearer" =>
                HoldsPrimaries(new, Http(Auth("Bearer", NoName, r.secret),
                     (IF m.auth.scheme = "Header" THEN <<Pair(m.auth)>> ELSE <<>>) \o m.extras))
           /\ r.method # "bearer" =>
                /\ HoldsPrimaries(new, Http(m.auth, Append(m.extras, Pair(r))))
                /\ m.auth.scheme = "None" =>
                      HoldsPrimaries(new, Http(Auth("Header", r.header, r.secret), m.extras))
  <1>1. /\ m.kind = "Http" /\ OtherSecrets(m) = Others(list) /\ IsList(m.extras)
        /\ m.auth.scheme = "Bearer" <=> Bearers(list) # {}
        /\ \A i : IsLastBearer(list, i) => list[i].secret = m.auth.secret
        /\ m.auth.scheme \in {"None", "Bearer", "Header"}
    BY DEF HoldsPrimaries, IsMapping
  <1>2. ASSUME r.method = "bearer"
        PROVE  HoldsPrimaries(new, Http(Auth("Bearer", NoName, r.secret),
                  (IF m.auth.scheme = "Header" THEN <<Pair(m.auth)>> ELSE <<>>) \o m.extras))
    <2>. DEFINE first == IF m.auth.scheme = "Header" THEN <<Pair(m.auth)>> ELSE <<>>
                k == Http(Auth("Bearer", NoName, r.secret), first \o m.extras)
    <2>1. /\ k.kind = "Http" /\ k.auth.scheme = "Bearer" /\ k.auth.secret = r.secret
          /\ k.extras = first \o m.extras
      BY DEF Http, Auth
    <2>2. ExtraSecrets(k) = OtherSecrets(m)
      <3>. DEFINE s == m.extras
                  both == first \o s
      <3>1. IsList(first) /\ {first[i].secret : i \in DOMAIN first}
                              = IF m.auth.scheme = "Header" THEN {m.auth.secret} ELSE {}
        <4>1. CASE m.auth.scheme = "Header"
          <5>1. first = <<Pair(m.auth)>> /\ DOMAIN first = {1} /\ first[1].secret = m.auth.secret
            BY <4>1 DEF Pair
          <5>. QED
            BY <4>1, <5>1, OneIsList
        <4>2. CASE m.auth.scheme # "Header"
          <5>1. first = <<>> /\ DOMAIN first = {}
            BY <4>2
          <5>. QED
            BY <4>2, <5>1, EmptyIsList
        <4>. QED
          BY <4>1, <4>2
      <3>. HIDE DEF first
      <3>2. /\ Len(first) \in Nat /\ Len(s) \in Nat /\ Len(both) = Len(first) + Len(s)
            /\ DOMAIN both = 1..Len(both) /\ DOMAIN first = 1..Len(first) /\ DOMAIN s = 1..Len(s)
            /\ \A i \in 1..Len(both) : both[i] = IF i <= Len(first) THEN first[i] ELSE s[i - Len(first)]
        BY <1>1, <3>1 DEF IsList
      <3>. HIDE DEF both
      <3>3. \A i \in DOMAIN first : i \in DOMAIN both /\ both[i] = first[i]
        BY <3>2
      <3>4. \A i \in DOMAIN s : i + Len(first) \in DOMAIN both /\ both[i + Len(first)] = s[i]
        BY <3>2
      <3>5. \A i \in DOMAIN both : (i \in DOMAIN first /\ both[i] = first[i])
                                     \/ (i - Len(first) \in DOMAIN s /\ both[i] = s[i - Len(first)])
        BY <3>2
      <3>6. {both[i].secret : i \in DOMAIN both}
               = {first[i].secret : i \in DOMAIN first} \cup {s[i].secret : i \in DOMAIN s}
        BY <3>3, <3>4, <3>5
      <3>7. ExtraSecrets(k) = {both[i].secret : i \in DOMAIN both}
        BY <2>1 DEF ExtraSecrets, both
      <3>. QED
        BY <3>1, <3>6, <3>7 DEF OtherSecrets, ExtraSecrets
    <2>. HIDE DEF k
    <2>3. OtherSecrets(k) = Others(list)
      BY <1>1, <2>1, <2>2 DEF OtherSecrets
    <2>4. /\ Bearers(new) # {} /\ Others(new) = Others(list)
          /\ \A i : IsLastBearer(new, i) => new[i].secret = r.secret
      <3>1. BearerIs(new, r.secret)
        BY <1>2, BearerGrows
      <3>2. Bearers(new) # {} /\ Others(new) = Others(list)
        BY <1>2, BearerGrows
      <3>. QED
        BY <3>1, <3>2 DEF BearerIs
    <2>5. HoldsPrimaries(new, k)
      BY <2>1, <2>3, <2>4 DEF HoldsPrimaries
    <2>. QED
      BY <2>5 DEF k
  <1>3. ASSUME r.method # "bearer"
        PROVE  HoldsPrimaries(new, Http(m.auth, Append(m.extras, Pair(r))))
    <2>. DEFINE k == Http(m.auth, Append(m.extras, Pair(r)))
    <2>1. k.kind = "Http" /\ k.auth = m.auth
      BY DEF Http
    <2>2. ExtraSecrets(k) = ExtraSecrets(m) \cup {r.secret}
      BY <1>1, ExtrasGrow DEF Pair
    <2>. HIDE DEF k
    <2>3. OtherSecrets(k) = Others(list) \cup {r.secret}
      BY <1>1, <2>1, <2>2 DEF OtherSecrets
    <2>4. /\ Bearers(new) = Bearers(list) /\ Others(new) = Others(list) \cup {r.secret}
          /\ \A i : IsLastBearer(new, i) => IsLastBearer(list, i) /\ new[i] = list[i]
      BY <1>3, HeaderGrows
    <2>5. HoldsPrimaries(new, k)
      BY <1>1, <2>1, <2>3, <2>4 DEF HoldsPrimaries
    <2>. QED
      BY <2>5 DEF k
  <1>4. ASSUME r.method # "bearer", m.auth.scheme = "None"
        PROVE  HoldsPrimaries(new, Http(Auth("Header", r.header, r.secret), m.extras))
    <2>. DEFINE k == Http(Auth("Header", r.header, r.secret), m.extras)
    <2>1. k.kind = "Http" /\ k.auth.scheme = "Header" /\ k.auth.secret = r.secret /\ k.extras = m.extras
      BY DEF Http, Auth
    <2>. HIDE DEF k
    <2>2. OtherSecrets(k) = Others(list) \cup {r.secret}
      BY <1>1, <1>4, <2>1 DEF OtherSecrets, ExtraSecrets
    <2>3. Bearers(list) = {}
      BY <1>1, <1>4 DEF HoldsPrimaries
    <2>4. Bearers(new) = Bearers(list) /\ Others(new) = Others(list) \cup {r.secret}
      BY <1>4, HeaderGrows
    <2>5. \A i : ~IsLastBearer(new, i)
      BY <2>3, <2>4 DEF IsLastBearer
    <2>6. HoldsPrimaries(new, k)
      BY <2>1, <2>2, <2>3, <2>4, <2>5 DEF HoldsPrimaries
    <2>. QED
      BY <2>6 DEF k
  <1>. QED
    BY <1>2, <1>3, <1>4

(***************************************************************************)
(* The table of mappings.                                                  *)
(***************************************************************************)

\* The first mapping is not a fallback's.
Skip(list) == IF Fallbacks(list) = DOMAIN list THEN 0 ELSE 1

\* The table asks for what was registered, in that order.
TableFits(list, maps) ==
    LET fallbacks == FallbackSecrets(list)
    IN IF list = <<>> THEN maps = <<>>
       ELSE /\ Len(maps) = Skip(list) + Len(fallbacks)
            /\ \A k \in DOMAIN fallbacks : ToSet(SecretNames(maps[Skip(list) + k])) = fallbacks[k]
            /\ Skip(list) = 1 => PrimaryFits(list, maps[1])

LEMMA OneFits ==
    ASSUME NEW r \in Registrations, NEW m, m.kind # "Http", ToSet(SecretNames(m)) = SecretsOf(r),
           Replacing(r)
    PROVE  TableFits(<<r>>, <<m>>)
  <1>. DEFINE list == <<r>>
  <1>1. DOMAIN list = {1} /\ list[1] = r /\ list # <<>> /\ list \in Lists /\ ~Fallback(r)
    BY DEF Lists, Replacing, Fallback
  <1>. HIDE DEF list
  <1>2. Fallbacks(list) = {} /\ Primaries(list) = {}
    BY <1>1 DEF Fallbacks, Primaries
  <1>3. Skip(list) = 1 /\ Len(FallbackSecrets(list)) = 0 /\ DOMAIN FallbackSecrets(list) = {}
    <2>1. Len(FallbackSecrets(list)) = 0 /\ DOMAIN FallbackSecrets(list) = 1..0
      BY <1>1, <1>2, FallbacksCounted, FS_EmptySet DEF IsList
    <2>. QED
      BY <1>1, <1>2, <2>1 DEF Skip
  <1>4. PrimarySecrets(list) = SecretsOf(r)
    BY <1>1, <1>2 DEF PrimarySecrets, SecretsOf
  <1>5. PrimaryFits(list, m)
    BY <1>2, <1>4 DEF PrimaryFits
  <1>6. Len(<<m>>) = 1 /\ <<m>>[1] = m
    OBVIOUS
  <1>7. TableFits(list, <<m>>)
    BY <1>1, <1>3, <1>5, <1>6 DEF TableFits
  <1>. QED
    BY <1>7 DEF list

LEMMA PushedFits ==
    ASSUME NEW list \in Lists, NEW r \in Registrations, Fallback(r), NEW new, new = Append(list, r),
           NEW maps, IsTable(maps), TableFits(list, maps),
           NEW m, ToSet(SecretNames(m)) = SecretsOf(r)
    PROVE  TableFits(new, Append(maps, m))
  <1>. DEFINE old == FallbackSecrets(list)
              fallbacks == FallbackSecrets(new)
              next == Append(maps, m)
              n == Len(old) + 1
  <1>1. Grown(list, r, new)
    BY ListGrows
  <1>2. /\ Fallbacks(new) = Fallbacks(list) \cup {Len(new)} /\ fallbacks = Append(old, SecretsOf(r))
        /\ IsList(old) /\ IsList(fallbacks) /\ new # <<>>
    <2>1. new \in Lists /\ new # <<>>
      BY <1>1 DEF Grown, Lists
    <2>2. Fallbacks(new) = Fallbacks(list) \cup {Len(new)} /\ fallbacks = Append(old, SecretsOf(r))
      <3>1. AskedLast(list, r, new)
        BY FallbacksGrow, Zenon
      <3>. QED
        BY <3>1, Zenon DEF AskedLast
    <2>3. IsList(old)
      BY FallbacksCounted
    <2>4. IsList(fallbacks)
      BY <2>1, FallbacksCounted
    <2>. QED
      BY <2>1, <2>2, <2>3, <2>4
  <1>3. /\ DOMAIN old = 1..Len(old) /\ Len(old) \in Nat /\ DOMAIN fallbacks = 1..n /\ Len(fallbacks) = n
        /\ fallbacks[n] = SecretsOf(r) /\ \A k \in DOMAIN old : fallbacks[k] = old[k]
    BY <1>2 DEF IsList
  <1>4. /\ DOMAIN maps = 1..Len(maps) /\ Len(maps) \in Nat /\ Len(next) = Len(maps) + 1
        /\ next[Len(maps) + 1] = m /\ \A k \in DOMAIN maps : next[k] = maps[k]
    BY DEF IsTable, IsList
  <1>. HIDE DEF old, fallbacks, next
  <1>5. CASE list = <<>>
    <2>1. maps = <<>> /\ Len(maps) = 0 /\ DOMAIN list = {} /\ Len(new) = 1 /\ DOMAIN new = {1}
      BY <1>1, <1>5 DEF TableFits, Grown
    <2>2. Fallbacks(list) = {}
      BY <2>1 DEF Fallbacks
    <2>3. Skip(new) = 0
      BY <1>2, <2>1, <2>2 DEF Skip
    <2>4. Len(old) = 0
      BY <2>2, FallbacksCounted, FS_EmptySet DEF old
    <2>. QED
      BY <1>2, <1>3, <1>4, <2>1, <2>3, <2>4 DEF TableFits, fallbacks, next
  <1>6. CASE list # <<>>
    <2>1. /\ Len(maps) = Skip(list) + Len(old)
          /\ \A k \in DOMAIN old : ToSet(SecretNames(maps[Skip(list) + k])) = old[k]
          /\ Skip(list) = 1 => PrimaryFits(list, maps[1])
      BY <1>6 DEF TableFits, old
    <2>2. Skip(new) = Skip(list) /\ Skip(list) \in {0, 1}
      BY <1>1, <1>2 DEF Skip, Grown, Fallbacks
    <2>3. \A k \in DOMAIN old : Skip(list) + k \in DOMAIN maps
      BY <1>3, <1>4, <2>1, <2>2
    <2>4. \A k \in DOMAIN fallbacks : ToSet(SecretNames(next[Skip(list) + k])) = fallbacks[k]
      <3>1. ASSUME NEW k \in DOMAIN old PROVE ToSet(SecretNames(next[Skip(list) + k])) = fallbacks[k]
        BY <1>3, <1>4, <2>1, <2>3
      <3>2. next[Skip(list) + n] = m
        BY <1>3, <1>4, <2>1, <2>2
      <3>3. \A k \in DOMAIN fallbacks : k \in DOMAIN old \/ k = n
        BY <1>3
      <3>. QED
        BY <1>3, <3>1, <3>2, <3>3
    <2>5. ASSUME Skip(list) = 1 PROVE PrimaryFits(new, next[1])
      <3>1. next[1] = maps[1] /\ PrimaryFits(list, maps[1])
        BY <1>3, <1>4, <2>1, <2>5
      <3>2. /\ Primaries(new) = Primaries(list) /\ Bearers(new) = Bearers(list)
            /\ Others(new) = Others(list) /\ PrimarySecrets(new) = PrimarySecrets(list)
            /\ \A i \in Bearers(list) : new[i] = list[i]
        BY FallbackLeaves
      <3>3. \A i : IsLastBearer(new, i) => IsLastBearer(list, i) /\ new[i] = list[i]
        BY <3>2 DEF IsLastBearer
      <3>. QED
        BY <3>1, <3>2, <3>3 DEF PrimaryFits, HoldsPrimaries
    <2>6. Len(next) = Skip(new) + Len(fallbacks)
      BY <1>3, <1>4, <2>1, <2>2
    <2>. QED
      BY <1>2, <2>2, <2>4, <2>5, <2>6 DEF TableFits, fallbacks, next
  <1>. QED
    BY <1>5, <1>6

LEMMA EditedFits ==
    ASSUME NEW list \in Lists, NEW r \in Registrations, Edits(r),
           NEW new, new = Append(list, r), IsTable(mappings), TableFits(list, mappings),
           list # <<>> => Skip(list) = 1,
           NEW m, HoldsPrimaries(new, m), WithHttp(m)
    PROVE  TableFits(new, mappings')
  <1>. DEFINE fallbacks == FallbackSecrets(new)
  <1>1. Grown(list, r, new)
    BY ListGrows
  <1>2. /\ Fallbacks(new) = Fallbacks(list) /\ fallbacks = FallbackSecrets(list) /\ IsList(fallbacks)
        /\ Len(fallbacks) = Cardinality(Fallbacks(list)) /\ new # <<>>
    <2>1. new \in Lists /\ new # <<>>
      BY <1>1 DEF Grown, Lists
    <2>2. Fallbacks(new) = Fallbacks(list) /\ fallbacks = FallbackSecrets(list)
      <3>1. SameFallbacks(list, new)
        BY FallbacksGrow, Zenon DEF Edits
      <3>. QED
        BY <3>1, Zenon DEF SameFallbacks
    <2>3. IsList(fallbacks) /\ Len(fallbacks) = Cardinality(Fallbacks(new))
      BY <2>1, FallbacksCounted
    <2>. QED
      BY <2>1, <2>2, <2>3
  <1>3. Skip(new) = 1
    BY <1>1, <1>2 DEF Skip, Grown, Fallbacks
  <1>4. PrimaryFits(new, m)
    <2>1. Primaries(new) # {}
      BY PrimariesGrow DEF PrimaryAdded
    <2>. QED
      BY <2>1 DEF PrimaryFits
  <1>5. CASE list = <<>>
    <2>1. mappings = <<>> /\ DOMAIN list = {}
      BY <1>1, <1>5 DEF TableFits, Grown
    <2>2. mappings' = <<m>>
      BY <2>1 DEF WithHttp
    <2>3. Fallbacks(list) = {}
      BY <2>1 DEF Fallbacks
    <2>4. Len(fallbacks) = 0 /\ DOMAIN fallbacks = {}
      BY <1>2, <2>3, FS_EmptySet DEF IsList
    <2>. HIDE DEF fallbacks
    <2>5. Len(<<m>>) = 1 /\ <<m>>[1] = m
      OBVIOUS
    <2>. QED
      BY <1>2, <1>3, <1>4, <2>2, <2>4, <2>5 DEF TableFits, fallbacks
  <1>6. CASE list # <<>>
    <2>1. /\ Skip(list) = 1 /\ Len(mappings) = 1 + Len(fallbacks)
          /\ \A k \in DOMAIN fallbacks : ToSet(SecretNames(mappings[1 + k])) = fallbacks[k]
      BY <1>2, <1>6 DEF TableFits
    <2>. HIDE DEF fallbacks
    <2>2. DOMAIN fallbacks = 1..Len(fallbacks) /\ Len(fallbacks) \in Nat
      BY <1>2 DEF IsList
    <2>3. mappings # <<>> /\ DOMAIN mappings = 1..Len(mappings)
      BY <2>1, <2>2 DEF IsTable, IsList
    <2>4. mappings' = ReplaceAt(mappings, 1, m)
      BY <2>3 DEF WithHttp
    <2>5. DOMAIN mappings' = DOMAIN mappings /\ \A i \in DOMAIN mappings : mappings'[i] = IF i = 1 THEN m ELSE mappings[i]
      BY <2>4 DEF ReplaceAt
    <2>6. Len(mappings') = Len(mappings)
      BY <2>1, <2>2, <2>3, <2>5
    <2>7. \A k \in DOMAIN fallbacks : mappings'[1 + k] = mappings[1 + k]
      BY <2>1, <2>2, <2>3, <2>5
    <2>8. mappings'[1] = m
      BY <2>1, <2>2, <2>3, <2>5
    <2>. QED
      BY <1>2, <1>3, <1>4, <2>1, <2>6, <2>7, <2>8 DEF TableFits, fallbacks
  <1>. QED
    BY <1>5, <1>6

(***************************************************************************)
(* The table that was built asks for what was registered.                  *)
(***************************************************************************)

TableInv ==
    /\ registered \in Lists
    /\ ~FallbackFirst => TableFits(Counting, mappings)

LEMMA EditsGrow ==
    ASSUME NEW list \in Lists, NEW r \in Registrations, ~EditsFallback(Append(list, r))
    PROVE  /\ ~EditsFallback(list)
           /\ Edits(r) /\ list # <<>> => Skip(list) = 1
  <1>. DEFINE new == Append(list, r)
  <1>1. Grown(list, r, new)
    BY ListGrows
  <1>. HIDE DEF new
  <1>2. ~EditsFallback(new)
    BY DEF new
  <1>3. ~EditsFallback(list)
    <2>. SUFFICES ASSUME NEW i \in DOMAIN list, NEW j \in DOMAIN list,
                         i < j, Fallback(list[1]), ~Fallback(list[j])
                  PROVE  FALSE
      BY DEF EditsFallback
    <2>1. 1 \in DOMAIN list
      BY <1>1 DEF Grown
    <2>. QED
      BY <1>1, <1>2, <2>1 DEF Grown, EditsFallback
  <1>4. ASSUME Edits(r), list # <<>> PROVE Skip(list) = 1
    <2>1. 1 \in DOMAIN list
      BY <1>4 DEF Lists
    <2>2. ~Fallback(list[1])
      <3>1. \A i, j \in DOMAIN new : i < j /\ Fallback(new[1]) => Fallback(new[j])
        BY <1>2 DEF EditsFallback
      <3>2. 1 \in DOMAIN new /\ new[1] = list[1] /\ Len(new) \in DOMAIN new /\ 1 < Len(new)
            /\ new[Len(new)] = r
        BY <1>1, <2>1 DEF Grown
      <3>. QED
        BY <1>4, <3>1, <3>2 DEF Edits
    <2>. QED
      BY <2>1, <2>2 DEF Skip, Fallbacks
  <1>. QED
    BY <1>3, <1>4

LEMMA FallbackFits ==
    ASSUME NEW list \in Lists, NEW r \in Registrations, Fallback(r),
           ~EditsFallback(list) => TableFits(list, mappings), IsTable(mappings),
           NEW m, PushFallback(m), ToSet(SecretNames(m)) = SecretsOf(r)
    PROVE  ~EditsFallback(Append(list, r)) => TableFits(Append(list, r), mappings')
  <1>. SUFFICES ASSUME ~EditsFallback(Append(list, r))
                PROVE  TableFits(Append(list, r), mappings')
    OBVIOUS
  <1>1. TableFits(list, mappings)
    BY EditsGrow
  <1>. QED
    BY <1>1, PushedFits DEF PushFallback

LEMMA EditFits ==
    ASSUME NEW list \in Lists, NEW r \in Registrations, Edits(r), ~EditsFallback(Append(list, r)),
           ~EditsFallback(list) => TableFits(list, mappings), IsTable(mappings),
           Bearer(r) \/ Header(r) \/ BearerHeader(r)
    PROVE  TableFits(Append(list, r), mappings')
  <1>. DEFINE new == Append(list, r)
              p == Primary
              edited == Http(Auth("Bearer", NoName, r.secret),
                             (IF p.auth.scheme = "Header" THEN <<Pair(p.auth)>> ELSE <<>>) \o p.extras)
              added == Http(p.auth, Append(p.extras, Pair(r)))
              named == Http(Auth("Header", r.header, r.secret), p.extras)
  <1>1. TableFits(list, mappings) /\ (list # <<>> => Skip(list) = 1)
    BY EditsGrow
  <1>2. mappings = <<>> => Primaries(list) = {}
    <2>. SUFFICES ASSUME mappings = <<>> PROVE Primaries(list) = {}
      OBVIOUS
    <2>1. Len(mappings) = 0 /\ Len(FallbackSecrets(list)) \in Nat
      BY FallbacksCounted DEF IsList
    <2>2. list = <<>>
      BY <1>1, <2>1 DEF TableFits
    <2>. QED
      BY <2>2 DEF Primaries
  <1>3. mappings # <<>> => PrimaryFits(list, mappings[1])
    BY <1>1 DEF TableFits
  <1>4. HoldsPrimaries(list, p) /\ IsMapping(p)
    BY <1>2, <1>3, PrimaryHolds
  <1>. HIDE DEF p
  <1>5. /\ r.method = "bearer" => HoldsPrimaries(new, edited)
        /\ r.method # "bearer" => HoldsPrimaries(new, added)
        /\ r.method # "bearer" /\ p.auth.scheme = "None" => HoldsPrimaries(new, named)
    BY <1>4, EditHolds
  <1>6. PICK m : HoldsPrimaries(new, m) /\ WithHttp(m)
    <2>1. CASE Bearer(r)
      <3>1. r.method = "bearer" /\ WithHttp(edited)
        BY <2>1 DEF Bearer, Register, p
      <3>. QED
        BY <1>5, <3>1
    <2>2. CASE Header(r)
      <3>1. r.method # "bearer" /\ WithHttp(IF p.auth.scheme = "None" THEN named ELSE added)
        BY <2>2 DEF Header, Register, p
      <3>. QED
        BY <1>5, <3>1
    <2>3. CASE BearerHeader(r)
      <3>1. r.method # "bearer" /\ WithHttp(added)
        BY <2>3 DEF BearerHeader, Register, p
      <3>. QED
        BY <1>5, <3>1
    <2>. QED
      BY <2>1, <2>2, <2>3
  <1>. QED
    BY <1>1, <1>6, EditedFits

LEMMA TableStarts == AuthInit => TableInv
  <1>. SUFFICES ASSUME AuthInit PROVE TableInv
    OBVIOUS
  <1>1. registered = <<>> /\ mappings = <<>> /\ registered \in Lists
    BY DEF AuthInit, Lists
  <1>2. Counting = <<>>
    BY <1>1, CountingIsList DEF Counting, CountingIn, ReplacingIn, LastOf
  <1>. QED
    BY <1>1, <1>2 DEF TableInv, TableFits

LEMMA RegistrationFits ==
    ASSUME TableInv, IsTable(mappings), NEW r \in Registrations,
           \/ Bearer(r) \/ Header(r) \/ BearerHeader(r) \/ OrHeader(r) \/ OrBearer(r)
           \/ AwsChain(r) \/ OrAwsChain(r) \/ BedrockKey(r) \/ OrBedrockKey(r)
    PROVE  TableInv'
  <1>. DEFINE list == CountingIn(registered)
              new == CountingIn(registered')
  <1>1. registered \in Lists /\ registered' = Append(registered, r) /\ registered' \in Lists
    <2>1. registered \in Lists /\ registered' = Append(registered, r)
      BY DEF TableInv, Bearer, Header, BearerHeader, OrHeader, OrBearer, AwsChain, OrAwsChain, BedrockKey,
             OrBedrockKey, Register
    <2>. QED
      BY <2>1 DEF Lists
  <1>2. Counting = list /\ Counting' = new
    BY DEF Counting, CountingIn, ReplacingIn, LastOf
  <1>3. list \in Lists /\ (~EditsFallback(list) => TableFits(list, mappings))
    BY <1>1, <1>2, CountingIsList DEF TableInv, FallbackFirst
  <1>4. /\ Replacing(r) => new = <<r>>
        /\ ~Replacing(r) => new = Append(list, r)
    BY <1>1, CountingGrows
  <1>. HIDE DEF list, new
  <1>5. ~EditsFallback(new) => TableFits(new, mappings')
    <2>1. CASE AwsChain(r) \/ BedrockKey(r)
      <3>1. PICK m : m.kind # "Http" /\ ToSet(SecretNames(m)) = SecretsOf(r) /\ mappings' = <<m>>
        <4>1. CASE AwsChain(r)
          <5>. DEFINE m == AwsDefaultChain(r.region)
          <5>1. m.kind = "AwsDefaultChain" /\ mappings' = <<m>> /\ Keyless(r)
            BY <4>1 DEF AwsChain, Replace, AwsDefaultChain, Keyless, Register
          <5>. HIDE DEF m
          <5>2. ToSet(SecretNames(m)) = {}
            BY <5>1, SecretNamesAre DEF IsMapping
          <5>. QED
            BY <5>1, <5>2 DEF SecretsOf
        <4>2. CASE BedrockKey(r)
          <5>. DEFINE m == BedrockBearer(r.secret)
          <5>1. m.kind = "BedrockBearer" /\ m.secret = r.secret /\ mappings' = <<m>> /\ ~Keyless(r)
            BY <4>2 DEF BedrockKey, Replace, BedrockBearer, Keyless, Register
          <5>. HIDE DEF m
          <5>2. ToSet(SecretNames(m)) = {r.secret}
            BY <5>1, SecretNamesAre DEF IsMapping
          <5>. QED
            BY <5>1, <5>2 DEF SecretsOf
        <4>. QED
          BY <2>1, <4>1, <4>2
      <3>2. Replacing(r)
        BY <2>1 DEF AwsChain, BedrockKey, Register, Replacing
      <3>. QED
        BY <1>4, <3>1, <3>2, OneFits
    <2>2. CASE OrHeader(r) \/ OrBearer(r) \/ OrAwsChain(r) \/ OrBedrockKey(r)
      <3>1. Fallback(r) /\ ~Replacing(r)
        BY <2>2 DEF OrHeader, OrBearer, OrAwsChain, OrBedrockKey, Register, Fallback, Replacing
      <3>2. PICK m : PushFallback(m) /\ ToSet(SecretNames(m)) = SecretsOf(r)
        <4>1. CASE OrHeader(r) \/ OrBearer(r)
          <5>1. PICK scheme \in {"Bearer", "Header"} : \E header :
                   PushFallback(Http(Auth(scheme, header, r.secret), <<>>)) /\ ~Keyless(r)
            BY <4>1 DEF OrHeader, OrBearer, Register, Keyless
          <5>0. PICK header : PushFallback(Http(Auth(scheme, header, r.secret), <<>>)) /\ ~Keyless(r)
            BY <5>1
          <5>. DEFINE m == Http(Auth(scheme, header, r.secret), <<>>)
          <5>2. /\ m.kind = "Http" /\ m.auth.scheme # "None" /\ m.auth.secret = r.secret
                /\ m.extras = <<>> /\ IsMapping(m)
            BY EmptyIsList DEF Http, Auth, IsMapping
          <5>. HIDE DEF m
          <5>3. ExtraSecrets(m) = {}
            BY <5>2 DEF ExtraSecrets
          <5>4. ToSet(SecretNames(m)) = {r.secret}
            BY <5>2, <5>3, SecretNamesAre
          <5>. QED
            BY <5>0, <5>4 DEF SecretsOf, m
        <4>2. CASE OrAwsChain(r)
          <5>. DEFINE m == AwsDefaultChain(r.region)
          <5>1. m.kind = "AwsDefaultChain" /\ PushFallback(m) /\ Keyless(r)
            BY <4>2 DEF OrAwsChain, AwsDefaultChain, Keyless, Register
          <5>. HIDE DEF m
          <5>2. ToSet(SecretNames(m)) = {}
            BY <5>1, SecretNamesAre DEF IsMapping
          <5>. QED
            BY <5>1, <5>2 DEF SecretsOf
        <4>3. CASE OrBedrockKey(r)
          <5>. DEFINE m == BedrockBearer(r.secret)
          <5>1. m.kind = "BedrockBearer" /\ m.secret = r.secret /\ PushFallback(m) /\ ~Keyless(r)
            BY <4>3 DEF OrBedrockKey, BedrockBearer, Keyless, Register
          <5>. HIDE DEF m
          <5>2. ToSet(SecretNames(m)) = {r.secret}
            BY <5>1, SecretNamesAre DEF IsMapping
          <5>. QED
            BY <5>1, <5>2 DEF SecretsOf
        <4>. QED
          BY <2>2, <4>1, <4>2, <4>3
      <3>3. ~EditsFallback(Append(list, r)) => TableFits(Append(list, r), mappings')
        BY <1>3, <3>1, <3>2, FallbackFits
      <3>. QED
        BY <1>4, <3>1, <3>3
    <2>3. CASE Bearer(r) \/ Header(r) \/ BearerHeader(r)
      <3>1. Edits(r) /\ ~Replacing(r)
        BY <2>3 DEF Bearer, Header, BearerHeader, Register, Fallback, Replacing, Edits
      <3>2. ~EditsFallback(Append(list, r)) => TableFits(Append(list, r), mappings')
        BY <1>3, <2>3, <3>1, EditFits
      <3>. QED
        BY <1>4, <3>1, <3>2
    <2>. QED
      BY <2>1, <2>2, <2>3
  <1>6. (~FallbackFirst)' = ~EditsFallback(new)
    BY <1>2 DEF FallbackFirst
  <1>. QED
    BY <1>1, <1>2, <1>5, <1>6 DEF TableInv

(***************************************************************************)
(* The names that are shown.                                               *)
(***************************************************************************)

LEMMA JoinIsList ==
    ASSUME NEW a, NEW b, IsList(a), IsList(b)
    PROVE  IsList(a \o b) /\ \A k \in DOMAIN a : k \in DOMAIN (a \o b) /\ (a \o b)[k] = a[k]
  <1>. DEFINE c == a \o b
  <1>1. /\ Len(a) \in Nat /\ Len(b) \in Nat /\ Len(c) = Len(a) + Len(b)
        /\ DOMAIN c = 1..Len(c) /\ DOMAIN a = 1..Len(a)
        /\ \A i \in 1..Len(a) : c[i] = a[i]
    BY DEF IsList
  <1>. HIDE DEF c
  <1>2. IsList(c) /\ \A k \in DOMAIN a : k \in DOMAIN c /\ c[k] = a[k]
    BY <1>1 DEF IsList
  <1>. QED
    BY <1>2 DEF c

\* The values of f are the first lists, joined (FlattenSeq).
IsJoined(f, n, lists) == f = [i \in 1..n |-> IF i = 1 THEN lists[i] ELSE f[i - 1] \o lists[i]]

LEMMA JoinedExist ==
    ASSUME NEW n \in Nat, NEW lists
    PROVE  \E f : IsJoined(f, n, lists)
  <1>. DEFINE Bad == {m \in Nat : ~ \E f : IsJoined(f, m, lists)}
  <1>. SUFFICES ASSUME Bad # {} PROVE FALSE
    BY Zenon
  <1>1. PICK m \in Bad : \A k \in Bad : m <= k
    BY LeastNumber
  <1>2. m # 0
    <2>1. IsJoined([i \in 1..0 |-> 0], 0, lists)
      BY DEF IsJoined
    <2>. QED
      BY <2>1
  <1>3. m - 1 \in Nat /\ m - 1 \notin Bad
    BY <1>1, <1>2
  <1>4. PICK g : IsJoined(g, m - 1, lists)
    BY <1>3
  <1>. DEFINE last == IF m = 1 THEN lists[m] ELSE g[m - 1] \o lists[m]
              f == [i \in 1..m |-> IF i # m THEN g[i] ELSE last]
              Rule(h) == [i \in 1..m |-> IF i = 1 THEN lists[i] ELSE h[i - 1] \o lists[i]]
  <1>5. ASSUME NEW i \in 1..m PROVE f[i] = Rule(f)[i]
    <2>1. CASE i = m
      <3>1. m # 1 => f[m - 1] = g[m - 1]
        BY <1>2
      <3>. QED
        BY <1>2, <2>1, <3>1
    <2>2. CASE i # m
      <3>1. i \in 1..(m - 1)
        BY <2>2
      <3>2. g[i] = IF i = 1 THEN lists[i] ELSE g[i - 1] \o lists[i]
        BY <1>4, <3>1 DEF IsJoined
      <3>3. i # 1 => i - 1 \in 1..m /\ i - 1 # m
        BY <2>2
      <3>. QED
        BY <2>2, <3>2, <3>3
    <2>. QED
      BY <2>1, <2>2
  <1>6. f = Rule(f)
    BY <1>5
  <1>7. IsJoined(f, m, lists)
    BY <1>6 DEF IsJoined
  <1>. QED
    BY <1>1, <1>7

\* A list of lists, joined, begins with the first of them.
LEMMA JoinedBegin ==
    ASSUME NEW lists, IsList(lists), lists # <<>>, \A i \in DOMAIN lists : IsList(lists[i])
    PROVE  /\ IsList(FlattenSeq(lists))
           /\ \A k \in DOMAIN lists[1] :
                k \in DOMAIN FlattenSeq(lists) /\ FlattenSeq(lists)[k] = lists[1][k]
  <1>. DEFINE n == Len(lists)
              g == CHOOSE f : IsJoined(f, n, lists)
              Begins(s) == IsList(s) /\ \A k \in DOMAIN lists[1] : k \in DOMAIN s /\ s[k] = lists[1][k]
  <1>1. n \in Nat /\ n # 0 /\ DOMAIN lists = 1..n
    BY DEF IsList
  <1>2. IsJoined(g, n, lists)
    BY <1>1, JoinedExist
  <1>3. FlattenSeq(lists) = g[n]
    BY <1>1 DEF FlattenSeq, IsJoined
  <1>. HIDE DEF g, n
  <1>4. \A i \in 1..n : g[i] = IF i = 1 THEN lists[i] ELSE g[i - 1] \o lists[i]
    BY <1>2 DEF IsJoined
  <1>. DEFINE Bad == {i \in 1..n : ~Begins(g[i])}
  <1>5. Bad = {}
    <2>. SUFFICES ASSUME Bad # {} PROVE FALSE
      OBVIOUS
    <2>0. Bad \in SUBSET Nat
      BY <1>1
    <2>. HIDE DEF Begins
    <2>1. PICK i \in Bad : \A k \in Bad : i <= k
      BY <2>0, LeastNumber
    <2>2. i # 1
      <3>1. 1 \in 1..n /\ IsList(lists[1])
        BY <1>1
      <3>2. Begins(lists[1])
        BY <3>1 DEF Begins
      <3>3. g[1] = lists[1]
        BY <1>4, <3>1
      <3>. QED
        BY <3>2, <3>3
    <2>3. i \in 1..n /\ i - 1 \in 1..n /\ i - 1 \notin Bad /\ IsList(lists[i])
      BY <1>1, <2>1, <2>2
    <2>4. Begins(g[i - 1]) /\ g[i] = g[i - 1] \o lists[i]
      BY <1>4, <2>2, <2>3
    <2>5. Begins(g[i])
      <3>. DEFINE s == g[i - 1]
                  t == s \o lists[i]
      <3>1. IsList(s) /\ \A k \in DOMAIN lists[1] : k \in DOMAIN s /\ s[k] = lists[1][k]
        BY <2>4 DEF Begins
      <3>2. IsList(t) /\ \A k \in DOMAIN s : k \in DOMAIN t /\ t[k] = s[k]
        BY <2>3, <3>1, JoinIsList
      <3>3. g[i] = t
        BY <2>4
      <3>. HIDE DEF s, t
      <3>4. Begins(t)
        BY <3>1, <3>2 DEF Begins
      <3>. QED
        BY <3>3, <3>4
    <2>. QED
      BY <2>1, <2>5
  <1>6. n \in 1..n
    BY <1>1
  <1>7. Begins(g[n])
    BY <1>5, <1>6
  <1>. QED
    BY <1>3, <1>7

\* Where a value is first, and how many of those there are up to one.
FirstIn(names) == {i \in DOMAIN names : \A j \in 1..(i - 1) : names[j] # names[i]}
UpTo(T, i) == Cardinality({j \in T : j <= i})

LEMMA FirstsCounted ==
    ASSUME NEW names, IsList(names)
    PROVE  /\ FirstIn(names) \subseteq Nat
           /\ \A i \in FirstIn(names) : UpTo(FirstIn(names), i) \in 1..Cardinality(FirstIn(names))
           /\ \A i, j \in FirstIn(names) : UpTo(FirstIn(names), i) = UpTo(FirstIn(names), j) => i = j
  <1>. DEFINE T == FirstIn(names)
              below(i) == {j \in T : j <= i}
  <1>1. T \subseteq 1..Len(names) /\ Len(names) \in Nat
    BY DEF FirstIn, IsList
  <1>2. IsFiniteSet(T)
    <2>1. IsFiniteSet(1..Len(names))
      BY <1>1, FS_Interval
    <2>. HIDE DEF T
    <2>. QED
      BY <1>1, <2>1, FS_Subset
  <1>3. Cardinality(T) \in Nat /\ T \subseteq Nat
    BY <1>1, <1>2, FS_CardinalityType
  <1>. HIDE DEF T
  <1>4. ASSUME NEW i \in T
        PROVE  /\ IsFiniteSet(below(i)) /\ UpTo(T, i) = Cardinality(below(i))
               /\ UpTo(T, i) \in 1..Cardinality(T)
    <2>1. below(i) \subseteq T /\ below(i) # {}
      BY <1>3
    <2>2. IsFiniteSet(below(i)) /\ Cardinality(below(i)) <= Cardinality(T)
      BY <1>2, <2>1, FS_Subset
    <2>3. Cardinality(below(i)) \in Nat /\ Cardinality(below(i)) # 0
      BY <2>1, <2>2, FS_CardinalityType, FS_EmptySet
    <2>. QED
      BY <1>3, <2>2, <2>3 DEF UpTo
  <1>5. ASSUME NEW i \in T, NEW j \in T, i < j PROVE UpTo(T, i) # UpTo(T, j)
    <2>0. i \in Nat /\ j \in Nat /\ \A k \in T : k \in Nat
      BY <1>3
    <2>1. below(i) \subseteq below(j) /\ j \in below(j) /\ j \notin below(i)
      <3>1. \A k \in T : k <= i => k <= j
        BY <1>5, <2>0
      <3>2. j <= j /\ ~(j <= i)
        BY <1>5, <2>0
      <3>. QED
        BY <3>1, <3>2
    <2>2. below(i) # below(j)
      BY <2>1
    <2>. QED
      BY <1>4, <2>1, <2>2, FS_Subset
  <1>6. ASSUME NEW i \in T, NEW j \in T, UpTo(T, i) = UpTo(T, j) PROVE i = j
    BY <1>3, <1>5, <1>6
  <1>. QED
    BY <1>3, <1>4, <1>6 DEF T

\* A list without its repetitions has all it had.
OnceEach(names) ==
    [k \in 1..Cardinality(FirstIn(names)) |->
        names[CHOOSE i \in FirstIn(names) : UpTo(FirstIn(names), i) = k]]

LEMMA NothingIsLost ==
    ASSUME NEW names, IsList(names), NEW i \in DOMAIN names
    PROVE  names[i] \in ToSet(OnceEach(names))
  <1>. DEFINE same == {j \in DOMAIN names : names[j] = names[i]}
              T == FirstIn(names)
  <1>1. DOMAIN names = 1..Len(names) /\ Len(names) \in Nat /\ same # {} /\ same \in SUBSET Nat
    BY DEF IsList
  <1>2. PICK j \in same : \A k \in same : j <= k
    BY <1>1, LeastNumber
  <1>3. j \in T /\ names[j] = names[i]
    <2>1. ASSUME NEW k \in 1..(j - 1), names[k] = names[j] PROVE FALSE
      BY <1>1, <1>2, <2>1
    <2>. QED
      BY <2>1 DEF FirstIn
  <1>. HIDE DEF T
  <1>. DEFINE k == UpTo(T, j)
              chosen == CHOOSE l \in T : UpTo(T, l) = k
  <1>4. k \in 1..Cardinality(T) /\ \A l \in T : UpTo(T, l) = k => l = j
    BY <1>3, FirstsCounted DEF T
  <1>. HIDE DEF k
  <1>5. chosen = j
    BY <1>3, <1>4 DEF k
  <1>6. OnceEach(names)[k] = names[chosen] /\ k \in DOMAIN OnceEach(names)
    BY <1>4 DEF OnceEach, T
  <1>. QED
    BY <1>3, <1>5, <1>6 DEF ToSet

LEMMA NamesAreShown ==
    ASSUME IsTable(Specs), Specs # <<>>, NEW secret \in ToSet(SecretNames(Specs[1]))
    PROVE  secret \in ToSet(AllSecretNames)
  <1>. DEFINE lists == [i \in DOMAIN Specs |-> SecretNames(Specs[i])]
              names == FlattenSeq(lists)
  <1>1. DOMAIN lists = 1..Len(Specs) /\ Len(Specs) \in Nat /\ Len(Specs) # 0 /\ 1 \in DOMAIN Specs
    BY DEF IsTable, IsList
  <1>2. IsList(lists) /\ lists # <<>> /\ lists[1] = SecretNames(Specs[1])
    <2>1. Len(lists) = Len(Specs)
      BY <1>1
    <2>. QED
      BY <1>1, <2>1 DEF IsList
  <1>3. \A i \in DOMAIN lists : IsList(lists[i])
    BY SecretNamesAre DEF IsTable
  <1>4. AllSecretNames = OnceEach(names)
    BY DEF AllSecretNames, OnceEach, FirstIn, UpTo
  <1>. HIDE DEF lists, names
  <1>5. PICK k \in DOMAIN lists[1] : lists[1][k] = secret
    BY <1>2 DEF ToSet
  <1>6. IsList(names) /\ k \in DOMAIN names /\ names[k] = secret
    BY <1>2, <1>3, <1>5, JoinedBegin DEF names
  <1>. QED
    BY <1>4, <1>6, NothingIsLost

(***************************************************************************)
(* What an attempt reads is what was registered.                           *)
(***************************************************************************)

LEMMA SecretsAreKnown ==
    ASSUME NEW list \in Lists
    PROVE  /\ PrimarySecrets(list) \subseteq Secrets
           /\ \A k \in DOMAIN FallbackSecrets(list) : FallbackSecrets(list)[k] \subseteq Secrets
  <1>1. \A i \in DOMAIN list : Keyless(list[i]) \/ list[i].secret \in Secrets
    BY SecretsAssumption DEF Lists
  <1>2. \A i \in DOMAIN list : SecretsOf(list[i]) \subseteq Secrets
    BY <1>1 DEF SecretsOf
  <1>3. \A i \in Primaries(list) : i \in DOMAIN list /\ ~Keyless(list[i])
    BY DEF Primaries, Fallback, Replacing, Keyless
  <1>4. PrimarySecrets(list) \subseteq Secrets
    <2>. DEFINE bearers == {i \in Primaries(list) : list[i].method = "bearer"}
                replacing == {i \in DOMAIN list : Replacing(list[i]) /\ ~Keyless(list[i])}
                naming == IF Primaries(list) = {} THEN replacing
                          ELSE {i \in Primaries(list) : i \in bearers => \A j \in bearers : j <= i}
    <2>1. PrimarySecrets(list) = {list[i].secret : i \in naming}
      BY DEF PrimarySecrets
    <2>2. \A i \in naming : i \in DOMAIN list /\ ~Keyless(list[i])
      BY <1>3
    <2>. HIDE DEF naming
    <2>. QED
      BY <1>1, <2>1, <2>2
  <1>5. \A k \in DOMAIN FallbackSecrets(list) : FallbackSecrets(list)[k] \subseteq Secrets
    <2>. DEFINE of(k) == {j \in Fallbacks(list) : Rank(list, j) = k}
    <2>1. \A k : \A i \in of(k) : SecretsOf(list[i]) \subseteq Secrets
      BY <1>2 DEF Fallbacks
    <2>2. \A k : UNION {SecretsOf(list[i]) : i \in of(k)} \subseteq Secrets
      BY <2>1
    <2>. QED
      BY <2>2, FallbackSecretsAre
  <1>. QED
    BY <1>4, <1>5

LEMMA WantedIs ==
    ASSUME TableInv, IsTable(mappings), row \in Served, ~FallbackFirst
    PROVE  /\ Specs = <<>> => registered = <<>> /\ row.scheme \in {"Headers", "Aws"}
           /\ Specs # <<>> =>
                /\ DOMAIN Wanted = DOMAIN Specs
                /\ \A i \in DOMAIN Specs :
                      Wanted[i] = ToSet(SecretNames(Specs[i])) /\ Wanted[i] \subseteq Secrets
  <1>. DEFINE list == Counting
              fallbacks == FallbackSecrets(list)
  <1>1. list = CountingIn(registered)
    BY DEF Counting, CountingIn, ReplacingIn, LastOf
  <1>2. list \in Lists /\ (list = <<>> <=> registered = <<>>) /\ TableFits(list, mappings)
    BY <1>1, CountingIsList DEF TableInv
  <1>. HIDE DEF list
  <1>3. /\ IsList(fallbacks) /\ PrimarySecrets(list) \subseteq Secrets
        /\ \A k \in DOMAIN fallbacks : fallbacks[k] \subseteq Secrets
    BY <1>2, FallbacksCounted, SecretsAreKnown
  <1>4. CASE registered = <<>>
    <2>1. mappings = <<>> /\ row.derived \in Secrets
          /\ row.scheme \in {"Bearer", "Header", "Headers", "BedrockBearer", "Aws", "None"}
      BY <1>2, <1>4, SecretsAssumption, ServedAssumption DEF TableFits
    <2>2. Wanted = IF row.scheme = "None" THEN <<{}>> ELSE <<{row.derived}>>
      BY <1>4 DEF Wanted
    <2>. DEFINE bearer == Http(Auth("Bearer", NoName, row.derived), <<>>)
                header == Http(Auth("Header", row.header, row.derived), <<>>)
                key == BedrockBearer(row.derived)
                none == Http(NoAuth, <<>>)
    <2>3. /\ row.scheme = "Bearer" => Specs = <<bearer>>
          /\ row.scheme = "Header" => Specs = <<header>>
          /\ row.scheme = "BedrockBearer" => Specs = <<key>>
          /\ row.scheme = "None" => Specs = <<none>>
          /\ row.scheme \in {"Headers", "Aws"} => Specs = <<>>
      BY <2>1 DEF Specs
    <2>4. /\ IsMapping(bearer) /\ IsMapping(header) /\ IsMapping(key) /\ IsMapping(none)
          /\ ExtraSecrets(bearer) = {} /\ ExtraSecrets(header) = {} /\ ExtraSecrets(none) = {}
      BY EmptyIsList DEF IsMapping, Http, Auth, NoAuth, BedrockBearer, ExtraSecrets
    <2>5. /\ bearer.kind = "Http" /\ bearer.auth.scheme = "Bearer" /\ bearer.auth.secret = row.derived
          /\ header.kind = "Http" /\ header.auth.scheme = "Header" /\ header.auth.secret = row.derived
          /\ key.kind = "BedrockBearer" /\ key.secret = row.derived
          /\ none.kind = "Http" /\ none.auth.scheme = "None"
      BY DEF Http, Auth, NoAuth, BedrockBearer
    <2>. HIDE DEF bearer, header, key, none
    <2>6. /\ ToSet(SecretNames(bearer)) = {row.derived} /\ ToSet(SecretNames(header)) = {row.derived}
          /\ ToSet(SecretNames(key)) = {row.derived} /\ ToSet(SecretNames(none)) = {}
      BY <2>4, <2>5, SecretNamesAre
    <2>7. ASSUME NEW m, NEW T, Specs = <<m>>, Wanted = <<T>>, ToSet(SecretNames(m)) = T, T \subseteq Secrets
          PROVE  /\ DOMAIN Wanted = DOMAIN Specs
                 /\ \A i \in DOMAIN Specs :
                       Wanted[i] = ToSet(SecretNames(Specs[i])) /\ Wanted[i] \subseteq Secrets
      <3>1. DOMAIN <<m>> = {1} /\ <<m>>[1] = m /\ DOMAIN <<T>> = {1} /\ <<T>>[1] = T
        OBVIOUS
      <3>. QED
        BY <2>7, <3>1
    <2>8. row.scheme \in {"Headers", "Aws"} \/ \E m, T :
             Specs = <<m>> /\ Wanted = <<T>> /\ ToSet(SecretNames(m)) = T /\ T \subseteq Secrets
      BY <2>1, <2>2, <2>3, <2>6
    <2>9. CASE row.scheme \in {"Headers", "Aws"}
      BY <1>4, <2>3, <2>9
    <2>10. CASE row.scheme \notin {"Headers", "Aws"}
      <3>1. Specs # <<>>
        BY <2>1, <2>3, <2>10
      <3>. QED
        BY <2>7, <2>8, <2>10, <3>1
    <2>. QED
      BY <2>9, <2>10
  <1>5. CASE registered # <<>>
    <2>. DEFINE s == Skip(list)
                first == IF Fallbacks(list) = DOMAIN list THEN <<>> ELSE <<PrimarySecrets(list)>>
                wanted == first \o fallbacks
    <2>1. /\ Len(mappings) = s + Len(fallbacks)
          /\ \A k \in DOMAIN fallbacks : ToSet(SecretNames(mappings[s + k])) = fallbacks[k]
          /\ s = 1 => PrimaryFits(list, mappings[1])
      BY <1>2, <1>5 DEF TableFits
    <2>2. Wanted = wanted
      BY <1>5 DEF Wanted, list
    <2>3. /\ IsList(first) /\ Len(first) = s /\ s \in {0, 1}
          /\ s = 1 => first[1] = PrimarySecrets(list)
      <3>1. CASE Fallbacks(list) = DOMAIN list
        BY <3>1, EmptyIsList DEF Skip
      <3>2. CASE Fallbacks(list) # DOMAIN list
        <4>1. first = <<PrimarySecrets(list)>> /\ s = 1
          BY <3>2 DEF Skip
        <4>. HIDE DEF first, s
        <4>. QED
          BY <4>1, OneIsList
      <3>. QED
        BY <3>1, <3>2
    <2>4. DOMAIN fallbacks = 1..Len(fallbacks) /\ Len(fallbacks) \in Nat
      BY <1>3 DEF IsList
    <2>. HIDE DEF first, s, fallbacks
    <2>5. /\ Len(wanted) = s + Len(fallbacks) /\ DOMAIN wanted = 1..Len(wanted)
          /\ s = 1 => wanted[1] = first[1]
          /\ \A k \in DOMAIN fallbacks : wanted[s + k] = fallbacks[k]
      BY <2>3, <2>4 DEF IsList
    <2>. HIDE DEF wanted
    <2>6. Len(wanted) # 0
      <3>1. CASE s = 1
        BY <2>4, <2>5, <3>1
      <3>2. CASE s = 0
        <4>1. Fallbacks(list) = DOMAIN list
          BY <3>2 DEF s, Skip
        <4>2. 1 \in DOMAIN list
          BY <1>2, <1>5 DEF Lists
        <4>3. Len(fallbacks) = Cardinality(Fallbacks(list)) /\ IsFiniteSet(Fallbacks(list))
          BY <1>2, FallbacksCounted DEF fallbacks
        <4>4. Len(fallbacks) # 0
          BY <4>1, <4>2, <4>3, FS_EmptySet
        <4>. QED
          BY <2>4, <2>5, <3>2, <4>4
      <3>. QED
        BY <2>3, <3>1, <3>2
    <2>7. DOMAIN mappings = 1..Len(mappings) /\ Len(mappings) = Len(wanted)
      BY <2>1, <2>5 DEF IsTable, IsList
    <2>8. Specs = mappings /\ mappings # <<>>
      <3>1. mappings # <<>>
        BY <2>6, <2>7
      <3>. QED
        BY <3>1 DEF Specs
    <2>9. ASSUME NEW i \in DOMAIN mappings
          PROVE  wanted[i] = ToSet(SecretNames(mappings[i])) /\ wanted[i] \subseteq Secrets
      <3>1. CASE s = 1 /\ i = 1
        <4>1. IsMapping(mappings[1]) /\ PrimaryFits(list, mappings[1])
          BY <2>1, <3>1 DEF IsTable
        <4>2. ToSet(SecretNames(mappings[1])) = PrimarySecrets(list)
          BY <1>2, <4>1, FittingSecrets
        <4>. QED
          BY <1>3, <2>3, <2>5, <3>1, <4>2
      <3>2. CASE ~(s = 1 /\ i = 1)
        <4>1. i - s \in DOMAIN fallbacks /\ s + (i - s) = i
          BY <2>3, <2>4, <2>5, <2>7, <3>2
        <4>. QED
          BY <1>3, <2>1, <2>5, <4>1
      <3>. QED
        BY <3>1, <3>2
    <2>. QED
      BY <2>2, <2>5, <2>7, <2>8, <2>9
  <1>. QED
    BY <1>4, <1>5

(***************************************************************************)
(* The attempts.                                                           *)
(***************************************************************************)

FailedFor(a, error) == a.kind = "Error" /\ a.error = error

\* What an attempt has done: each value it read was held under its name, each
\* mapping it passed over missed a secret, and the first miss is remembered.
AttemptFits ==
    /\ at \in DOMAIN Specs
    /\ IsList(read) /\ Len(read) <= Len(Names)
    /\ \A k \in DOMAIN read : read[k] \in held[Names[k]] \ {Absent}
    /\ \A i \in 1..(at - 1) : Missed(ToSet(SecretNames(Specs[i])))
    /\ missing = NoName => at = 1
    /\ missing # NoName => missing \in ToSet(SecretNames(Specs[1])) /\ Absent \in held[missing]
    /\ phase = "Reading" => answer = NoAnswer /\ \A s \in Secrets : store[s] \in held[s]
    /\ ~FailedFor(answer, "NotConfigured")
    /\ FailedFor(answer, "MissingSecret") => missing # NoName /\ at = Len(Specs) /\ Missed(ToSet(Names))

StoreType == DOMAIN store = Secrets /\ DOMAIN held = Secrets

ServeInv ==
    /\ TableInv /\ StoreType /\ attempts \in Nat
    /\ phase = "Registering" => attempts = 0
    /\ attempts = 0 => phase \in {"Registering", "Idle"}
    /\ attempts > 0 /\ ~FallbackFirst =>
          \/ Specs = <<>> /\ phase = "Idle" /\ FailedFor(answer, "NotConfigured")
          \/ Specs # <<>> /\ AttemptFits

LEMMA ServeInvStarts == AuthInit => ServeInv
  <1>. SUFFICES ASSUME AuthInit PROVE ServeInv
    OBVIOUS
  <1>1. StoreType
    BY SecretsAssumption DEF AuthInit, StoreType
  <1>. QED
    BY <1>1, TableStarts DEF AuthInit, ServeInv

\* A step that leaves the table leaves what an attempt reads.
LEMMA SameTable ==
    ASSUME UNCHANGED table
    PROVE  /\ registered' = registered /\ mappings' = mappings /\ row' = row
           /\ Specs' = Specs /\ (FallbackFirst' <=> FallbackFirst) /\ (TableInv' <=> TableInv)
  <1>1. registered' = registered /\ mappings' = mappings /\ row' = row
    BY DEF table
  <1>2. Specs' = Specs /\ Counting' = Counting
    BY <1>1 DEF Specs, Counting
  <1>. QED
    BY <1>1, <1>2 DEF FallbackFirst, TableInv

LEMMA NamesAreKnown ==
    ASSUME TableInv, IsTable(mappings), row \in Served, ~FallbackFirst, at \in DOMAIN Specs
    PROVE  /\ IsList(Names) /\ ToSet(Names) = ToSet(SecretNames(Specs[at]))
           /\ \A k \in DOMAIN Names : Names[k] \in Secrets /\ Names[k] \in ToSet(Names) /\ Names[k] # NoName
  <1>1. IsTable(Specs) /\ Specs # <<>>
    BY SpecsAreMappings
  <1>2. IsList(Names)
    BY <1>1, SecretNamesAre DEF Names, IsTable
  <1>3. ToSet(Names) \subseteq Secrets
    BY <1>1, WantedIs DEF Names
  <1>4. \A k \in DOMAIN Names : Names[k] \in ToSet(Names)
    BY DEF ToSet
  <1>. QED
    BY <1>2, <1>3, <1>4, SecretsAssumption DEF Names

\* A step that reads nothing keeps what the attempt has done.
LEMMA AttemptKept ==
    ASSUME AttemptFits, UNCHANGED <<table, at, read, missing>>,
           \A s \in Secrets : held[s] \subseteq held'[s],
           TableInv, IsTable(mappings), row \in Served, ~FallbackFirst,
           \/ /\ phase' = "Reading" /\ answer' = NoAnswer
              /\ \A s \in Secrets : store'[s] \in held'[s]
           \/ /\ phase' # "Reading"
              /\ \/ answer' = answer
                 \/ ~FailedFor(answer', "NotConfigured") /\ ~FailedFor(answer', "MissingSecret")
    PROVE  AttemptFits'
  <1>1. Specs' = Specs /\ at' = at /\ read' = read /\ missing' = missing
    BY SameTable
  <1>2. Names' = Names
    BY <1>1 DEF Names
  <1>3. /\ IsList(Names) /\ \A k \in DOMAIN Names : Names[k] \in Secrets
        /\ DOMAIN Names = 1..Len(Names) /\ Len(Names) \in Nat
    BY NamesAreKnown DEF AttemptFits, IsList
  <1>4. \A k \in DOMAIN read : read[k] \in held'[Names[k]] \ {Absent}
    BY <1>3 DEF AttemptFits, IsList
  <1>5. \A T \in SUBSET Secrets : Missed(T) => Missed(T)'
    BY DEF Missed
  <1>6. \A i \in DOMAIN Specs : ToSet(SecretNames(Specs[i])) \subseteq Secrets
    BY WantedIs DEF AttemptFits
  <1>7. DOMAIN Specs = 1..Len(Specs) /\ Len(Specs) \in Nat /\ at \in 1..Len(Specs)
    BY SpecsAreMappings DEF AttemptFits, IsTable, IsList
  <1>8. \A i \in 1..(at - 1) : Missed(ToSet(SecretNames(Specs[i])))'
    BY <1>1, <1>5, <1>6, <1>7 DEF AttemptFits
  <1>9. missing # NoName => missing \in ToSet(SecretNames(Specs[1])) /\ Absent \in held'[missing]
    BY <1>6, <1>7 DEF AttemptFits
  <1>10. ~FailedFor(NoAnswer, "NotConfigured") /\ ~FailedFor(NoAnswer, "MissingSecret")
    BY DEF FailedFor, NoAnswer
  <1>11. Missed(ToSet(Names)) => Missed(ToSet(Names))'
    BY <1>2, <1>5, <1>6 DEF AttemptFits, Names
  <1>12. /\ ~FailedFor(answer, "NotConfigured")'
         /\ FailedFor(answer, "MissingSecret")' =>
               missing' # NoName /\ at' = Len(Specs') /\ Missed(ToSet(Names))'
    BY <1>1, <1>10, <1>11 DEF AttemptFits
  <1>. QED
    BY <1>1, <1>2, <1>4, <1>8, <1>9, <1>12 DEF AttemptFits

\* A step of an attempt that only answers, or waits for AWS.
LEMMA AnswerKeeps ==
    ASSUME ServeInv, AuthInv, UNCHANGED <<table, at, read, missing, world, attempts>>,
           phase \in {"Reading", "Region", "Signing"}, phase' \in {"Idle", "Region", "Signing"},
           \/ answer' = answer
           \/ ~FailedFor(answer', "NotConfigured") /\ ~FailedFor(answer', "MissingSecret")
    PROVE  ServeInv'
  <1>1. store' = store /\ held' = held /\ attempts' = attempts
    BY DEF world
  <1>2. TableInv' /\ Specs' = Specs /\ (FallbackFirst' <=> FallbackFirst)
    BY SameTable DEF ServeInv
  <1>3. attempts # 0 /\ attempts \in Nat
    BY DEF ServeInv
  <1>4. ASSUME ~FallbackFirst PROVE Specs # <<>> /\ AttemptFits'
    <2>1. Specs # <<>> /\ AttemptFits
      BY <1>3, <1>4 DEF ServeInv
    <2>. QED
      BY <1>1, <1>4, <2>1, AttemptKept DEF ServeInv, AuthInv
  <1>. QED
    BY <1>1, <1>2, <1>3, <1>4 DEF ServeInv, StoreType

LEMMA StartKeeps == ASSUME ServeInv, AuthInv, StartAttempt PROVE ServeInv'
  <1>1. /\ UNCHANGED table /\ store' = store /\ attempts \in Nat /\ attempts' = attempts + 1
        /\ phase = "Idle" /\ phase' \in {"Idle", "Reading"}
    BY DEF StartAttempt, ServeInv
  <1>2. TableInv' /\ Specs' = Specs /\ (FallbackFirst' <=> FallbackFirst)
    BY <1>1, SameTable DEF ServeInv
  <1>3. StoreType'
    BY <1>1 DEF StartAttempt, ServeInv, StoreType
  <1>4. CASE Specs = <<>>
    <2>1. phase' = "Idle" /\ FailedFor(answer', "NotConfigured")
      BY <1>1, <1>4 DEF StartAttempt, Failed, FailedFor
    <2>. QED
      BY <1>1, <1>2, <1>3, <1>4, <2>1 DEF ServeInv, FailedFor
  <1>5. CASE Specs # <<>>
    <2>1. /\ phase' = "Reading" /\ answer' = NoAnswer /\ at' = 1 /\ read' = <<>> /\ missing' = NoName
          /\ held' = [s \in Secrets |-> {store[s]}]
      BY <1>5 DEF StartAttempt
    <2>2. ASSUME ~FallbackFirst PROVE AttemptFits'
      <3>1. 1 \in DOMAIN Specs /\ IsTable(Specs)
        BY <1>5, SpecsAreMappings DEF AuthInv, IsTable, IsList
      <3>2. IsList(SecretNames(Specs[1]))
        BY <3>1, SecretNamesAre DEF IsTable
      <3>3. Names' = SecretNames(Specs[1])
        BY <1>2, <2>1 DEF Names
      <3>4. Len(read') <= Len(Names') /\ IsList(read') /\ DOMAIN read' = {}
        BY <2>1, <3>2, <3>3, EmptyIsList DEF IsList
      <3>5. ~FailedFor(NoAnswer, "NotConfigured") /\ ~FailedFor(NoAnswer, "MissingSecret")
        BY DEF FailedFor, NoAnswer
      <3>6. \A s \in Secrets : store'[s] \in held'[s]
        BY <1>1, <2>1
      <3>. QED
        BY <1>2, <2>1, <3>1, <3>4, <3>5, <3>6 DEF AttemptFits
    <2>. QED
      BY <1>1, <1>2, <1>3, <1>5, <2>1, <2>2 DEF ServeInv
  <1>. QED
    BY <1>4, <1>5

LEMMA ReadKeeps == ASSUME ServeInv, AuthInv, ReadSecret PROVE ServeInv'
  <1>. DEFINE value == store[Names[Len(read) + 1]]
  <1>1. /\ UNCHANGED table /\ store' = store /\ held' = held /\ attempts' = attempts
        /\ phase = "Reading" /\ phase' = phase /\ at' = at /\ missing' = missing /\ answer' = answer
        /\ Len(read) < Len(Names) /\ value # Absent /\ read' = Append(read, value)
    BY DEF ReadSecret, world
  <1>2. TableInv' /\ Specs' = Specs /\ (FallbackFirst' <=> FallbackFirst)
    BY <1>1, SameTable DEF ServeInv
  <1>3. Names' = Names
    BY <1>1, <1>2 DEF Names
  <1>4. attempts # 0
    BY <1>1 DEF ServeInv
  <1>5. ASSUME ~FallbackFirst PROVE Specs # <<>> /\ AttemptFits'
    <2>1. Specs # <<>> /\ AttemptFits
      BY <1>1, <1>4, <1>5 DEF ServeInv
    <2>2. at \in DOMAIN Specs /\ IsList(read) /\ \A s \in Secrets : store[s] \in held[s]
      BY <1>1, <2>1 DEF AttemptFits
    <2>3. IsList(Names) /\ \A k \in DOMAIN Names : Names[k] \in Secrets
      BY <1>5, <2>2, NamesAreKnown DEF ServeInv, AuthInv
    <2>. DEFINE n == Len(read) + 1
    <2>4. n \in DOMAIN Names /\ n \in Nat /\ n <= Len(Names)
      BY <1>1, <2>2, <2>3 DEF IsList
    <2>5. value \in held[Names[n]] \ {Absent}
      BY <1>1, <2>2, <2>3, <2>4
    <2>. HIDE DEF value
    <2>6. /\ IsList(read') /\ Len(read') = n
          /\ \A k \in DOMAIN read' : (k \in DOMAIN read /\ read'[k] = read[k]) \/ (k = n /\ read'[k] = value)
      BY <1>1, <2>2 DEF IsList
    <2>7. \A k \in DOMAIN read' : read'[k] \in held[Names[k]] \ {Absent}
      BY <2>1, <2>5, <2>6 DEF AttemptFits
    <2>8. ~FailedFor(answer, "NotConfigured") /\ ~FailedFor(answer, "MissingSecret")
      BY <1>1, <2>1 DEF AttemptFits, FailedFor, NoAnswer
    <2>9. Len(read') <= Len(Names)
      BY <2>4, <2>6
    <2>10. \A i \in 1..(at - 1) : Missed(ToSet(SecretNames(Specs[i])))'
      BY <1>1, <1>2, <2>1 DEF AttemptFits, Missed
    <2>. HIDE DEF n
    <2>. QED
      BY <1>1, <1>2, <1>3, <2>1, <2>6, <2>7, <2>8, <2>9, <2>10 DEF AttemptFits
  <1>. QED
    BY <1>1, <1>2, <1>4, <1>5 DEF ServeInv, StoreType

LEMMA MissKeeps == ASSUME ServeInv, AuthInv, MissSecret PROVE ServeInv'
  <1>. DEFINE name == Names[Len(read) + 1]
  <1>1. /\ UNCHANGED table /\ store' = store /\ held' = held /\ attempts' = attempts
        /\ phase = "Reading" /\ Len(read) < Len(Names) /\ store[name] = Absent
        /\ missing' = IF missing = NoName THEN name ELSE missing
        /\ \/ /\ at < Len(Specs) /\ at' = at + 1 /\ read' = <<>> /\ phase' = phase /\ answer' = answer
           \/ /\ ~(at < Len(Specs)) /\ phase' = "Idle" /\ answer' = Failed("MissingSecret")
              /\ at' = at /\ read' = read
    BY DEF MissSecret, world, Reported
  <1>2. TableInv' /\ Specs' = Specs /\ (FallbackFirst' <=> FallbackFirst)
    BY <1>1, SameTable DEF ServeInv
  <1>3. attempts # 0
    BY <1>1 DEF ServeInv
  <1>4. ASSUME ~FallbackFirst PROVE Specs # <<>> /\ AttemptFits'
    <2>1. Specs # <<>> /\ AttemptFits
      BY <1>1, <1>3, <1>4 DEF ServeInv
    <2>2. at \in DOMAIN Specs /\ IsList(read) /\ \A s \in Secrets : store[s] \in held[s]
      BY <1>1, <2>1 DEF AttemptFits
    <2>3. /\ IsList(Names) /\ ToSet(Names) = ToSet(SecretNames(Specs[at]))
          /\ \A k \in DOMAIN Names : Names[k] \in Secrets /\ Names[k] \in ToSet(Names) /\ Names[k] # NoName
      BY <1>4, <2>2, NamesAreKnown DEF ServeInv, AuthInv
    <2>4. Len(read) + 1 \in DOMAIN Names
      BY <1>1, <2>2, <2>3 DEF IsList
    <2>5. name \in Secrets /\ name \in ToSet(Names) /\ name # NoName /\ Absent \in held[name]
      BY <1>1, <2>2, <2>3, <2>4
    <2>. HIDE DEF name
    <2>6. Missed(ToSet(Names))
      BY <2>5 DEF Missed
    <2>7. /\ DOMAIN Specs = 1..Len(Specs) /\ Len(Specs) \in Nat /\ at \in 1..Len(Specs)
          /\ IsTable(Specs)
      BY <2>2, SpecsAreMappings DEF AuthInv, IsTable, IsList
    <2>8. \A i \in 1..at : Missed(ToSet(SecretNames(Specs[i])))
      BY <2>1, <2>3, <2>6, <2>7 DEF AttemptFits
    <2>9. /\ missing' # NoName /\ missing' \in ToSet(SecretNames(Specs[1])) /\ Absent \in held[missing']
      <3>1. CASE missing = NoName
        <4>1. at = 1 /\ missing' = name
          BY <1>1, <2>1, <3>1 DEF AttemptFits
        <4>. QED
          BY <2>3, <2>5, <4>1
      <3>2. CASE missing # NoName
        BY <1>1, <2>1, <3>2 DEF AttemptFits
      <3>. QED
        BY <3>1, <3>2
    <2>10. \A T : Missed(T)' <=> Missed(T)
      BY <1>1 DEF Missed
    <2>11. CASE at < Len(Specs)
      <3>1. at' = at + 1 /\ read' = <<>> /\ phase' = "Reading" /\ answer' = answer
        BY <1>1, <2>11
      <3>2. at' \in DOMAIN Specs /\ at' - 1 = at
        BY <2>7, <2>11, <3>1
      <3>3. Names' = SecretNames(Specs[at'])
        BY <1>2 DEF Names
      <3>4. IsList(Names')
        BY <2>7, <3>2, <3>3, SecretNamesAre DEF IsTable
      <3>5. IsList(read') /\ Len(read') <= Len(Names') /\ DOMAIN read' = {}
        BY <3>1, <3>4, EmptyIsList DEF IsList
      <3>6. answer = NoAnswer /\ ~FailedFor(answer, "NotConfigured") /\ ~FailedFor(answer, "MissingSecret")
        BY <1>1, <2>1 DEF AttemptFits, FailedFor, NoAnswer
      <3>7. \A i \in 1..(at' - 1) : Missed(ToSet(SecretNames(Specs[i])))'
        BY <1>2, <2>8, <2>10, <3>2
      <3>. QED
        BY <1>1, <1>2, <2>1, <2>2, <2>9, <3>1, <3>2, <3>5, <3>6, <3>7 DEF AttemptFits
    <2>12. CASE ~(at < Len(Specs))
      <3>1. phase' = "Idle" /\ answer' = Failed("MissingSecret") /\ at' = at /\ read' = read
        BY <1>1, <2>12
      <3>2. at' = Len(Specs)
        <4>1. at \in Nat /\ at <= Len(Specs) /\ Len(Specs) \in Nat
          BY <2>7
        <4>2. at = Len(Specs)
          BY <2>12, <4>1
        <4>. QED
          BY <3>1, <4>2
      <3>3. Names' = Names
        BY <1>2, <3>1 DEF Names
      <3>4. ~FailedFor(answer', "NotConfigured")
        BY <3>1 DEF FailedFor, Failed
      <3>5. \A i \in 1..(at' - 1) : Missed(ToSet(SecretNames(Specs[i])))'
        BY <1>2, <2>7, <2>8, <2>10, <3>1
      <3>6. Missed(ToSet(Names))'
        BY <2>6, <2>10, <3>3 
      <3>7. \A k \in DOMAIN read' : read'[k] \in held'[Names'[k]] \ {Absent}
        BY <1>1, <2>1, <3>1, <3>3 DEF AttemptFits
      <3>8. at' \in DOMAIN Specs /\ IsList(read') /\ Len(read') <= Len(Names')
        BY <2>1, <3>1, <3>3 DEF AttemptFits
      <3>. QED
        BY <1>1, <1>2, <2>9, <3>1, <3>2, <3>4, <3>5, <3>6, <3>7, <3>8 DEF AttemptFits
    <2>. QED
      BY <2>1, <2>11, <2>12
  <1>. QED
    BY <1>1, <1>2, <1>3, <1>4 DEF ServeInv, StoreType

LEMMA RegistrationKeeps ==
    ASSUME ServeInv, AuthInv, NEW r \in Registrations,
           \/ Bearer(r) \/ Header(r) \/ BearerHeader(r) \/ OrHeader(r) \/ OrBearer(r)
           \/ AwsChain(r) \/ OrAwsChain(r) \/ BedrockKey(r) \/ OrBedrockKey(r)
    PROVE  ServeInv'
  <1>1. TableInv'
    BY RegistrationFits DEF ServeInv, AuthInv
  <1>2. phase = "Registering" /\ phase' = phase /\ attempts' = attempts /\ store' = store /\ held' = held
    BY DEF Bearer, Header, BearerHeader, OrHeader, OrBearer, AwsChain, OrAwsChain, BedrockKey,
           OrBedrockKey, Register, world
  <1>3. attempts' = 0
    BY <1>2 DEF ServeInv
  <1>. QED
    BY <1>1, <1>2, <1>3 DEF ServeInv, StoreType

LEMMA StoreKeeps ==
    ASSUME ServeInv, AuthInv, NEW s \in Secrets, NEW value, ChangeStore(s, value)
    PROVE  ServeInv'
  <1>1. /\ UNCHANGED table /\ UNCHANGED <<at, read, missing>> /\ attempts' = attempts /\ phase' = phase
        /\ answer' = answer /\ store' = [store EXCEPT ![s] = value]
        /\ held' = IF phase = "Reading" THEN [held EXCEPT ![s] = @ \cup {value}] ELSE held
        /\ phase # "Registering"
    BY DEF ChangeStore, attempt
  <1>2. TableInv' /\ Specs' = Specs /\ (FallbackFirst' <=> FallbackFirst)
    BY <1>1, SameTable DEF ServeInv
  <1>3. DOMAIN store = Secrets /\ DOMAIN held = Secrets
    BY DEF ServeInv, StoreType
  <1>4. StoreType' /\ \A x \in Secrets : held[x] \subseteq held'[x]
    BY <1>1, <1>3 DEF StoreType
  <1>5. ASSUME attempts > 0, ~FallbackFirst, Specs # <<>>, AttemptFits PROVE AttemptFits'
    <2>1. CASE phase = "Reading"
      <3>1. answer = NoAnswer /\ \A x \in Secrets : store[x] \in held[x]
        BY <1>5, <2>1 DEF AttemptFits
      <3>2. \A x \in Secrets : store'[x] \in held'[x]
        BY <1>1, <1>3, <2>1, <3>1
      <3>. QED
        BY <1>1, <1>4, <1>5, <2>1, <3>1, <3>2, AttemptKept DEF ServeInv, AuthInv
    <2>2. CASE phase # "Reading"
      BY <1>1, <1>4, <1>5, <2>2, AttemptKept DEF ServeInv, AuthInv
    <2>. QED
      BY <2>1, <2>2
  <1>. QED
    BY <1>1, <1>2, <1>4, <1>5 DEF ServeInv

\* A step that leaves all of this.
LEMMA ServeUnchanged ==
    ASSUME ServeInv, AuthInv, UNCHANGED <<table, at, read, missing, world, phase, attempts, answer>>
    PROVE  ServeInv'
  <1>1. TableInv' /\ Specs' = Specs /\ (FallbackFirst' <=> FallbackFirst)
    BY SameTable DEF ServeInv
  <1>2. /\ store' = store /\ held' = held /\ at' = at /\ read' = read /\ missing' = missing
        /\ phase' = phase /\ attempts' = attempts /\ answer' = answer
    BY DEF world
  <1>3. Names' = Names
    BY <1>1, <1>2 DEF Names
  <1>4. AttemptFits' <=> AttemptFits
    BY <1>1, <1>2, <1>3 DEF AttemptFits, Missed
  <1>. QED
    BY <1>1, <1>2, <1>4 DEF ServeInv, StoreType

LEMMA ServeInvHolds == ServeInv /\ AuthInv /\ [AuthNext]_authVars => ServeInv'
  <1>. SUFFICES ASSUME ServeInv, AuthInv, [AuthNext]_authVars PROVE ServeInv'
    OBVIOUS
  <1>a. /\ ~FailedFor(NoAnswer, "NotConfigured") /\ ~FailedFor(NoAnswer, "MissingSecret")
        /\ \A e \in {"Configuration", "Authentication"} :
              ~FailedFor(Failed(e), "NotConfigured") /\ ~FailedFor(Failed(e), "MissingSecret")
        /\ \A c : ~FailedFor(Prepared(c), "NotConfigured") /\ ~FailedFor(Prepared(c), "MissingSecret")
        /\ ~FailedFor(SignedRequest, "NotConfigured") /\ ~FailedFor(SignedRequest, "MissingSecret")
    BY DEF FailedFor, NoAnswer, Failed, Prepared, SignedRequest
  <1>b. ~FailedFor(Prepare, "NotConfigured") /\ ~FailedFor(Prepare, "MissingSecret")
    BY <1>a DEF Prepare
  <1>1. CASE \E r \in Registrations :
                \/ Bearer(r) \/ Header(r) \/ BearerHeader(r) \/ OrHeader(r) \/ OrBearer(r)
                \/ AwsChain(r) \/ OrAwsChain(r) \/ BedrockKey(r) \/ OrBedrockKey(r)
    BY <1>1, RegistrationKeeps
  <1>2. CASE BuildTable
    <2>1. /\ UNCHANGED table /\ attempts = 0 /\ attempts' = attempts /\ phase' = "Idle"
          /\ store' = store /\ held' = held
      BY <1>2 DEF BuildTable, ServeInv, world
    <2>2. TableInv'
      BY <2>1, SameTable DEF ServeInv
    <2>. QED
      BY <2>1, <2>2 DEF ServeInv, StoreType
  <1>3. CASE StartAttempt
    BY <1>3, StartKeeps
  <1>4. CASE ReadSecret
    BY <1>4, ReadKeeps
  <1>5. CASE MissSecret
    BY <1>5, MissKeeps
  <1>6. CASE PrepareHttp \/ PrepareBedrock
    <2>1. phase = "Reading" /\ \/ Answered(Prepare)
                               \/ Answered(Failed("Configuration")) \/ Answered(Failed("Authentication"))
      BY <1>6 DEF PrepareHttp, PrepareBedrock, Resolved
    <2>2. UNCHANGED <<table, at, read, missing, world, attempts>> /\ phase' = "Idle"
      BY <2>1 DEF Answered, attempt
    <2>3. ~FailedFor(answer', "NotConfigured") /\ ~FailedFor(answer', "MissingSecret")
      BY <1>a, <1>b, <2>1 DEF Answered
    <2>. QED
      BY <2>1, <2>2, <2>3, AnswerKeeps
  <1>7. CASE StartSigning
    <2>1. /\ UNCHANGED <<table, at, read, missing, world, attempts>>
          /\ phase = "Reading" /\ phase' = "Region" /\ answer' = answer
      BY <1>7 DEF StartSigning, Resolved, attempt
    <2>. QED
      BY <2>1, AnswerKeeps
  <1>8. CASE DropAttempt \/ \E supplied \in BOOLEAN : Sign(supplied)
    <2>1. /\ UNCHANGED <<table, at, read, missing, world, attempts>>
          /\ phase \in {"Region", "Signing"} /\ phase' = "Idle"
          /\ answer' \in {NoAnswer, SignedRequest, Failed("Authentication")}
      BY <1>8 DEF DropAttempt, Sign, Answered, attempt
    <2>2. ~FailedFor(answer', "NotConfigured") /\ ~FailedFor(answer', "MissingSecret")
      BY <1>a, <2>1
    <2>. QED
      BY <2>1, <2>2, AnswerKeeps
  <1>9. CASE ResolveRegion
    <2>1. /\ UNCHANGED <<table, at, read, missing, world, attempts>>
          /\ phase = "Region" /\ phase' \in {"Idle", "Signing"}
          /\ answer' = answer \/ answer' = Failed("Configuration")
      BY <1>9 DEF ResolveRegion, Answered, attempt
    <2>2. answer' = answer \/ (~FailedFor(answer', "NotConfigured") /\ ~FailedFor(answer', "MissingSecret"))
      BY <1>a, <2>1
    <2>. QED
      BY <2>1, <2>2, AnswerKeeps
  <1>10. CASE \E c \in Chains : LoadConfig(c)
    <2>1. UNCHANGED <<table, at, read, missing, world, phase, attempts, answer>>
      BY <1>10 DEF LoadConfig, attempt
    <2>. QED
      BY <2>1, ServeUnchanged
  <1>11. CASE \E s \in Secrets, value \in Values : ChangeStore(s, value)
    BY <1>11, StoreKeeps
  <1>12. CASE AllAttempted \/ UNCHANGED authVars
    <2>1. UNCHANGED <<table, at, read, missing, world, phase, attempts, answer>>
      BY <1>12 DEF AllAttempted, authVars, attempt
    <2>. QED
      BY <2>1, ServeUnchanged
  <1>. QED
    BY <1>1, <1>2, <1>3, <1>4, <1>5, <1>6, <1>7, <1>8, <1>9, <1>10, <1>11, <1>12 DEF AuthNext

LEMMA ServedByTheFirst == ServeInv /\ AuthInv => FirstCompleteServes
  <1>. SUFFICES ASSUME ServeInv, AuthInv, attempts > 0, phase # "Reading", ~FallbackFirst
                PROVE  FirstCompleteServes
    BY DEF FirstCompleteServes
  <1>1. \/ Specs = <<>> /\ FailedFor(answer, "NotConfigured")
        \/ Specs # <<>> /\ AttemptFits
    BY DEF ServeInv
  <1>2. CASE Specs = <<>> /\ FailedFor(answer, "NotConfigured")
    <2>1. registered = <<>> /\ row.scheme \in {"Headers", "Aws"}
      BY <1>2, WantedIs DEF ServeInv, AuthInv
    <2>. QED
      BY <1>2, <2>1 DEF FirstCompleteServes, FailedFor
  <1>3. CASE Specs # <<>> /\ AttemptFits
    <2>1. /\ DOMAIN Wanted = DOMAIN Specs
          /\ \A i \in DOMAIN Specs : Wanted[i] = ToSet(SecretNames(Specs[i])) /\ Wanted[i] \subseteq Secrets
      BY <1>3, WantedIs DEF ServeInv, AuthInv
    <2>2. IsTable(Specs) /\ DOMAIN Specs = 1..Len(Specs) /\ Len(Specs) \in Nat /\ at \in 1..Len(Specs)
      BY <1>3, SpecsAreMappings DEF AuthInv, AttemptFits, IsTable, IsList
    <2>3. \A i \in 1..(at - 1) : Missed(Wanted[i])
      BY <1>3, <2>1, <2>2 DEF AttemptFits
    <2>4. Wanted[at] = ToSet(Names)
      BY <2>1, <2>2 DEF Names
    <2>5. ~FailedFor(answer, "NotConfigured")
      BY <1>3 DEF AttemptFits
    <2>6. CASE FailedFor(answer, "MissingSecret")
      <3>1. missing \in ToSet(SecretNames(Specs[1])) /\ Absent \in held[missing] /\ at = Len(Specs)
            /\ Missed(ToSet(Names))
        BY <1>3, <2>6 DEF AttemptFits
      <3>2. missing \in Wanted[1]
        BY <2>1, <2>2, <3>1
      <3>3. \A i \in DOMAIN Wanted : Missed(Wanted[i])
        BY <2>1, <2>2, <2>3, <2>4, <3>1
      <3>4. missing \in ToSet(AllSecretNames)
        BY <1>3, <2>2, <3>1, NamesAreShown
      <3>. QED
        BY <2>5, <2>6, <3>1, <3>2, <3>3, <3>4 DEF FirstCompleteServes, FailedFor
    <2>7. CASE ~FailedFor(answer, "MissingSecret")
      <3>1. \A k \in DOMAIN read : read[k] \in held[Names[k]] \ {Absent}
        BY <1>3 DEF AttemptFits
      <3>. QED
        BY <2>3, <2>4, <2>5, <2>7, <3>1 DEF FirstCompleteServes, FailedFor
    <2>. QED
      BY <2>6, <2>7
  <1>. QED
    BY <1>1, <1>2, <1>3

\* Whatever is registered and in whatever order, and whatever another thread
\* does to the store meanwhile, the first registered mapping that is complete
\* serves an attempt: each one before it missed a secret during the attempt,
\* each value read was held under its name, and a failure names a secret of the
\* first mapping, one the operator is shown (credentials.rs, `resolve`,
\* `secret_names`).
THEOREM FirstRegisteredServes == AuthSpec => []FirstCompleteServes
  <1>. DEFINE Inv == ServeInv /\ AuthInv
  <1>1. AuthInit => Inv
    BY ServeInvStarts, AuthInvStarts
  <1>2. Inv /\ [AuthNext]_authVars => Inv'
    BY ServeInvHolds, AuthInvHolds
  <1>3. Inv => FirstCompleteServes
    BY ServedByTheFirst
  <1>. HIDE DEF Inv
  <1>. QED
    BY <1>1, <1>2, <1>3, PTL DEF AuthSpec
=============================================================================
