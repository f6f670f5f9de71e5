--------------------------- MODULE ServingProofs ---------------------------
(***************************************************************************)
(* Proofs about Serving: for any URLs, with and without blanks, any        *)
(* archive, any package source and any number of clients and nested        *)
(* caches.                                                                 *)
(***************************************************************************)
EXTENDS Serving, SequenceTheorems, FiniteSetTheorems, TLAPS

-----------------------------------------------------------------------------
(* The inductive invariant.                                                *)

\* A call that a handler makes of a repository that may be cached.
IsCall(r) == r # Nil /\ r.method # "key" /\ \E u \in Url : r = Route(u.path)

\* Is x what the source, upstream or dynamic, answers r with in version v?
Answer(source, v, r, x) ==
    IF source = "upstream" THEN x = ArchiveHas(v, UpstreamPath(r))
    ELSE CASE r.method \in {"releases", "packages", "by-hash"} ->
                \E u \in Url : x = DynamicAnswer(RenderPackages(Listings[v], u.path.dist), r)
           [] r.method = "pool" -> x \in {Nil, r.of}
           [] OTHER -> FALSE

\* Has the source answered r with x in one of its first n versions?
Answers(source, n, r, x) == x # Failed /\ \E v \in 1..n : Answer(source, v, r, x)

\* Is x an answer the source has given to a call that has the key?
Kept(source, n, key, x) == \E r : IsCall(r) /\ key = Key(r) /\ Answers(source, n, r, x)

\* The chain and its storages: what is stored under a key is what the source answered a
\* call with that key.
StoresOK ==
    /\ DOMAIN store = 1..repo.caches
    /\ \A l \in 1..repo.caches :
         /\ IsFiniteSet(DOMAIN store[l]) /\ Cardinality(DOMAIN store[l]) <= MaxStored
         /\ \A k \in DOMAIN store[l] : Kept(repo.source, version, k, store[l][k])

\* The index is that of some version, for a distribution that was asked for.
IndexOK ==
    /\ repo.source = "upstream" => index = Nil
    /\ index # Nil =>
         \E v \in 1..version : \E u \in Url :
           index = RenderPackages(Listings[v], u.path.dist)

WorldOK ==
    /\ repo.source \in {"upstream", "dynamic"} /\ repo.caches \in Nat
    /\ version \in DOMAIN Archive
    /\ StoresOK /\ IndexOK

\* The call of a request is the one for its URL; what passes the caches by is at the
\* source; what it brings back from below is an answer to a call with its key.
RequestOK(c) ==
    /\ pc[c] \in {"idle", "get", "fetch", "add"}
    /\ at[c] \in 1..(repo.caches + 1)
    /\ pc[c] \in {"get", "add"} => at[c] <= repo.caches
    /\ pc[c] = "idle" <=> request[c] = Nil
    /\ pc[c] # "idle" =>
         /\ url[c] \in Url /\ url[c].repo = Name
         /\ request[c] = Route(url[c].path)
         /\ request[c].method = "key" => pc[c] = "fetch"
         /\ reply[c] = NoReply
    /\ pc[c] = "add" => Kept(repo.source, version, Key(request[c]), got[c])

\* What the handler may be told for a URL: an error, no file where there is no route, and
\* what the source answers to a call with its key.
Told(u, x) ==
    /\ u \in Url
    /\ \/ x = Failed
       \/ x = Nil /\ (u.repo # Name \/ Route(u.path) = Nil)
       \/ /\ Route(u.path) # Nil
          /\ IF Route(u.path).method = "key" THEN x = RepoSource
             ELSE Kept(repo.source, version, Key(Route(u.path)), x)

ReplyOK(c) == reply[c] = NoReply \/ \E x : reply[c] = Write(x) /\ Told(url[c], x)

\* The variables of the clients are functions.
ClientsOK ==
    /\ DOMAIN pc = Client /\ DOMAIN url = Client /\ DOMAIN request = Client
    /\ DOMAIN at = Client /\ DOMAIN got = Client /\ DOMAIN reply = Client
    /\ \A c \in Client : RequestOK(c) /\ ReplyOK(c)

IInv == WorldOK /\ ClientsOK

-----------------------------------------------------------------------------
(* Keys, paths and answers.                                                *)

files == {"repo.source", "InRelease", "Packages", "Translation", "by-hash-SHA256",
          "by-hash-MD5Sum", "deb"}

\* Where a route leads.
LEMMA Routes ==
  ASSUME NEW p
  PROVE  /\ p.file = "repo.source" => Route(p) = Call("key", "-", "-", "-", "-", Nil)
         /\ p.file = "InRelease" => Route(p) = InRelease(p)
         /\ p.file = "Packages" /\ p.suffix \in PackagesSuffix => Route(p) = Packages(p)
         /\ p.file = "Translation" => Route(p) = Translations(p)
         /\ p.file \in {"by-hash-SHA256", "by-hash-MD5Sum"} => Route(p) = ByHash(p)
         /\ p.file = "deb" => Route(p) = Pool(p)
         /\ p.file \notin files => Route(p) = Nil
<1>1. p.file = "repo.source" => Route(p) = Call("key", "-", "-", "-", "-", Nil)
  BY DEF Route
<1>2. p.file = "InRelease" => Route(p) = InRelease(p)
  BY DEF Route
<1>3. p.file = "Packages" /\ p.suffix \in PackagesSuffix => Route(p) = Packages(p)
  BY DEF Route
<1>4. p.file = "Translation" => Route(p) = Translations(p)
  BY DEF Route
<1>5. p.file \in {"by-hash-SHA256", "by-hash-MD5Sum"} => Route(p) = ByHash(p)
  BY DEF Route
<1>6. p.file = "deb" => Route(p) = Pool(p)
  BY DEF Route
<1>7. p.file \notin files => Route(p) = Nil
  BY DEF Route, files
<1> QED
  BY <1>1, <1>2, <1>3, <1>4, <1>5, <1>6, <1>7

\* The fields of a call.
LEMMA CallFields ==
  ASSUME NEW m, NEW d, NEW c, NEW o, NEW z, NEW h
  PROVE  LET r == Call(m, d, c, o, z, h)
         IN /\ r.method = m /\ r.dist = d /\ r.component = c
            /\ r.of = o /\ r.compression = z /\ r.digest = h
  BY DEF Call

\* The calls of the routes.
RouteCall(p, r) ==
    \/ p.file = "repo.source" /\ r = Call("key", "-", "-", "-", "-", Nil)
    \/ p.file = "InRelease" /\ r = Call("releases", p.dist, "-", "-", "-", Nil)
    \/ /\ p.file = "Packages" /\ p.suffix \in PackagesSuffix
       /\ r = Call("packages", p.dist, p.component, p.of, ParseCompression(p.suffix), Nil)
    \/ /\ p.file = "Translation"
       /\ r = Call("translations", p.dist, p.component, p.of, ParseCompression(p.suffix), Nil)
    \/ /\ p.file = "by-hash-SHA256"
       /\ r = Call("by-hash", p.dist, p.component, IF p.dir = "binary" THEN p.of ELSE "-", "-",
                   p.digest)
    \/ p.file = "deb" /\ r = Call("pool", "-", "-", p.of, "-", Nil)

LEMMA RouteCalls ==
  ASSUME NEW p, Route(p) # Nil
  PROVE  RouteCall(p, Route(p))
<1>1. CASE p.file = "by-hash-SHA256"
  BY <1>1, Routes DEF ByHash, RouteCall
<1>2. CASE p.file = "by-hash-MD5Sum"
  BY <1>2, Routes DEF ByHash
<1>3. CASE p.file = "Packages"
  <2>1. CASE p.suffix \in PackagesSuffix
    BY <1>3, <2>1, Routes DEF Packages, RouteCall
  <2>2. CASE p.suffix \notin PackagesSuffix
    BY <1>3, <2>2 DEF Route
  <2> QED
    BY <2>1, <2>2
<1>4. CASE p.file = "Translation"
  BY <1>4, Routes DEF Translations, RouteCall
<1>5. CASE p.file \in {"repo.source", "InRelease", "deb"}
  BY <1>5, Routes DEF InRelease, Pool, RouteCall
<1> QED
  BY <1>1, <1>2, <1>3, <1>4, <1>5, Routes DEF files

IsRecord(r) == r = Call(r.method, r.dist, r.component, r.of, r.compression, r.digest)

\* The parts of a call that its method has no use for.
Unused(r) ==
    /\ r.method = "releases" =>
         r.component = "-" /\ r.of = "-" /\ r.compression = "-" /\ r.digest = Nil
    /\ r.method \in {"packages", "translations"} => r.digest = Nil
    /\ r.method = "by-hash" => r.compression = "-"
    /\ r.method = "pool" =>
         r.dist = "-" /\ r.component = "-" /\ r.compression = "-" /\ r.digest = Nil

methods == {"releases", "packages", "translations", "by-hash", "pool"}

LEMMA CallShapes ==
  ASSUME NEW r, IsCall(r)
  PROVE  IsRecord(r) /\ r.method \in methods /\ Unused(r)
<1>1. PICK u \in Url : r = Route(u.path)
  BY DEF IsCall
<1>2. r.method # "key" /\ RouteCall(u.path, r)
  BY <1>1, RouteCalls DEF IsCall
<1>3. \A m, d, c, o, z, h :
        r = Call(m, d, c, o, z, h) =>
            /\ IsRecord(r)
            /\ r.method = m /\ r.dist = d /\ r.component = c
            /\ r.of = o /\ r.compression = z /\ r.digest = h
  BY CallFields DEF IsRecord
<1> QED
  BY <1>2, <1>3 DEF RouteCall, methods, Unused

\* Sequences of one element, and one after the other.
LEMMA OneLong ==
  ASSUME NEW S, NEW y \in S
  PROVE  <<y>> \in Seq(S) /\ Len(<<y>>) = 1 /\ <<y>>[1] = y
OBVIOUS

Joins(S, all, k, l, m, w) ==
    /\ k \in Seq(S) /\ l \in Seq(S) /\ m \in Seq(S) /\ w \in Seq(S)
    /\ all = k \o l \o m \o w

Pieces(all, k, l, m, w) ==
    /\ Len(k) \in Nat /\ Len(l) \in Nat /\ Len(m) \in Nat /\ Len(w) \in Nat
    /\ Len(all) = Len(k) + Len(l) + Len(m) + Len(w)
    /\ Len(k) = 1 /\ Len(l) = 1 /\ Len(m) = 1 /\ Len(w) = 1 =>
         all[1] = k[1] /\ all[2] = l[1] /\ all[3] = m[1] /\ all[4] = w[1]

LEMMA FourPieces ==
  ASSUME NEW S, NEW all, NEW k, NEW l, NEW m, NEW w, Joins(S, all, k, l, m, w)
  PROVE  Pieces(all, k, l, m, w)
<1> DEFINE kl == k \o l
           klm == kl \o m
<1>1. k \in Seq(S) /\ l \in Seq(S)
  BY DEF Joins
<1>2. m \in Seq(S)
  BY DEF Joins
<1>3. w \in Seq(S) /\ all = klm \o w
  BY DEF Joins
<1>4. Len(k) \in Nat /\ Len(l) \in Nat /\ Len(m) \in Nat /\ Len(w) \in Nat
  BY <1>1, <1>2, <1>3, LenProperties
<1>5. /\ kl \in Seq(S) /\ Len(kl) = Len(k) + Len(l)
      /\ \A i \in 1..(Len(k) + Len(l)) : kl[i] = IF i <= Len(k) THEN k[i] ELSE l[i - Len(k)]
  BY <1>1, ConcatProperties
<1> HIDE DEF kl
<1>6. /\ klm \in Seq(S) /\ Len(klm) = Len(kl) + Len(m)
      /\ \A i \in 1..(Len(kl) + Len(m)) : klm[i] = IF i <= Len(kl) THEN kl[i] ELSE m[i - Len(kl)]
  <2>1. kl \in Seq(S)
    BY <1>5
  <2> QED BY <1>2, <2>1, ConcatProperties
<1> HIDE DEF klm
<1>7. /\ Len(all) = Len(klm) + Len(w)
      /\ \A i \in 1..(Len(klm) + Len(w)) :
           all[i] = IF i <= Len(klm) THEN klm[i] ELSE w[i - Len(klm)]
  <2>1. klm \in Seq(S)
    BY <1>6
  <2> QED BY <1>3, <2>1, ConcatProperties
<1>8. Len(all) = Len(k) + Len(l) + Len(m) + Len(w)
  BY <1>4, <1>5, <1>6, <1>7
<1>9. ASSUME Len(k) = 1, Len(l) = 1, Len(m) = 1, Len(w) = 1
      PROVE  all[1] = k[1] /\ all[2] = l[1] /\ all[3] = m[1] /\ all[4] = w[1]
  <2>1. kl[1] = k[1] /\ kl[2] = l[1]
    BY <1>5, <1>9
  <2>2. klm[1] = kl[1] /\ klm[2] = kl[2] /\ klm[3] = m[1]
    BY <1>5, <1>6, <1>9
  <2>3. all[1] = klm[1] /\ all[2] = klm[2] /\ all[3] = klm[3] /\ all[4] = w[1]
    BY <1>5, <1>6, <1>7, <1>9
  <2> QED BY <2>1, <2>2, <2>3
<1> QED BY <1>4, <1>8, <1>9 DEF Pieces

LEMMA SeqWidens ==
  ASSUME NEW S, NEW T, S \subseteq T, NEW s \in Seq(S)
  PROVE  s \in Seq(T)
<1>1. Len(s) \in Nat /\ s \in [1..Len(s) -> S]
  BY LenProperties
<1>2. s \in [1..Len(s) -> T]
  BY <1>1
<1> QED BY <1>1, <1>2, IsASeq

\* The words of the parts of a call: some for each, and the part itself if it is one.
LEMMA WordsOfCalls ==
  ASSUME NEW r, IsCall(r), NEW part \in {r.dist, r.component, r.of}
  PROVE  /\ Words(part) \in Seq(STRING) /\ Words(part) # <<>>
         /\ Len(Words(part)) = 1 => Words(part) = <<part>>
<1>1. PICK u \in Url : r = Route(u.path)
  BY DEF IsCall
<1>2. part \in {u.path.dist, u.path.component, u.path.of, "-"}
  BY <1>1, RouteCalls, CallFields DEF IsCall, RouteCall
<1> QED BY <1>1, <1>2, WordsAssumption

PlainCall(r) == \A part \in {r.dist, r.component, r.of} : Words(part) = <<part>>

\* Joined, single words meet only the same single words.
LEMMA JoinedApart ==
  ASSUME NEW S, NEW all, NEW a, NEW b, NEW c, NEW v, NEW k, NEW l, NEW m, NEW w,
         Joins(S, all, a, b, c, v), Joins(S, all, k, l, m, w),
         Len(a) = 1, Len(b) = 1, Len(c) = 1, Len(v) = 1,
         Len(k) # 0, Len(l) # 0, Len(m) # 0, Len(w) = 1
  PROVE  Len(k) = 1 /\ Len(l) = 1 /\ Len(m) = 1
         /\ k[1] = a[1] /\ l[1] = b[1] /\ m[1] = c[1] /\ w[1] = v[1]
<1> Pieces(all, a, b, c, v) /\ Pieces(all, k, l, m, w)
  <2>1. Pieces(all, a, b, c, v)
    BY FourPieces
  <2>2. Pieces(all, k, l, m, w)
    BY FourPieces
  <2> QED BY <2>1, <2>2
<1>1. /\ Len(all) = 4
      /\ all[1] = a[1] /\ all[2] = b[1] /\ all[3] = c[1] /\ all[4] = v[1]
  BY DEF Pieces
<1>2. /\ Len(k) \in Nat /\ Len(l) \in Nat /\ Len(m) \in Nat
      /\ Len(all) = Len(k) + Len(l) + Len(m) + 1
      /\ Len(k) = 1 /\ Len(l) = 1 /\ Len(m) = 1 =>
           all[1] = k[1] /\ all[2] = l[1] /\ all[3] = m[1] /\ all[4] = w[1]
  BY DEF Pieces
<1>3. \A x, y, z \in Nat : x # 0 /\ y # 0 /\ z # 0 /\ 4 = x + y + z + 1 =>
                           x = 1 /\ y = 1 /\ z = 1
  OBVIOUS
<1>4. Len(k) = 1 /\ Len(l) = 1 /\ Len(m) = 1
  BY <1>1, <1>2, <1>3
<1> QED BY <1>1, <1>2, <1>4

Joined(r, last) == Words(r.dist) \o Words(r.component) \o Words(r.of) \o <<last>>

\* The two parts of a key.
LEMMA KeyShapes ==
  ASSUME NEW r
  PROVE  /\ r.method \in methods => Key(r)[1] = r.method
         /\ r.method \in {"packages", "translations"} => Key(r)[2] = Joined(r, r.compression)
         /\ r.method = "releases" => Key(r)[2] = Words(r.dist)
         /\ r.method = "by-hash" => Key(r)[2] = Joined(r, r.digest)
         /\ r.method = "pool" => Key(r)[2] = Words(r.of)
<1>1. r.method \in {"packages", "translations"} =>
        Key(r) = <<r.method, Joined(r, r.compression)>>
  BY DEF Key, Joined
<1>2. r.method = "releases" => Key(r) = <<r.method, Words(r.dist)>>
  BY DEF Key
<1>3. r.method = "by-hash" => Key(r) = <<r.method, Joined(r, r.digest)>>
  BY DEF Key, Joined
<1>4. r.method = "pool" => Key(r) = <<r.method, Words(r.of)>>
  BY DEF Key
<1> QED BY <1>1, <1>2, <1>3, <1>4 DEF methods

\* The three parts of a plain call, and what follows them, are those of any other call
\* whose key is the same.
LEMMA PartsAreOneToOne ==
  ASSUME NEW r, NEW q, IsCall(r), IsCall(q), PlainCall(r), NEW z, NEW y,
         Joined(r, z) = Joined(q, y)
  PROVE  r.dist = q.dist /\ r.component = q.component /\ r.of = q.of /\ z = y
<1> DEFINE S == STRING \cup {z, y}
           a == Words(r.dist)
           b == Words(r.component)
           c == Words(r.of)
           v == <<z>>
           k == Words(q.dist)
           l == Words(q.component)
           m == Words(q.of)
           w == <<y>>
<1>1. /\ k \in Seq(STRING) /\ l \in Seq(STRING) /\ m \in Seq(STRING)
      /\ a \in Seq(STRING) /\ b \in Seq(STRING) /\ c \in Seq(STRING)
  BY WordsOfCalls
<1>2. Len(k) # 0 /\ Len(l) # 0 /\ Len(m) # 0
  BY WordsOfCalls, EmptySeq
<1>3. /\ Len(k) = 1 => k = <<q.dist>>
      /\ Len(l) = 1 => l = <<q.component>>
      /\ Len(m) = 1 => m = <<q.of>>
  BY WordsOfCalls
<1>4. a = <<r.dist>> /\ b = <<r.component>> /\ c = <<r.of>>
  BY DEF PlainCall
<1>5. v \in Seq(S) /\ Len(v) = 1 /\ v[1] = z
  BY OneLong
<1>6. w \in Seq(S) /\ Len(w) = 1 /\ w[1] = y
  BY OneLong
<1>7. STRING \subseteq S
  OBVIOUS
<1> DEFINE all == a \o b \o c \o v
<1>8. all = k \o l \o m \o w
  BY DEF Joined
<1> HIDE DEF S, a, b, c, k, l, m, v, w
<1>9. /\ k \in Seq(S) /\ l \in Seq(S) /\ m \in Seq(S)
      /\ a \in Seq(S) /\ b \in Seq(S) /\ c \in Seq(S)
  BY <1>1, <1>7, SeqWidens
<1>10. Joins(S, all, a, b, c, v)
  BY <1>5, <1>9 DEF Joins
<1> HIDE DEF all
<1>11. Joins(S, all, k, l, m, w)
  BY <1>6, <1>8, <1>9 DEF Joins
<1>12. Len(a) = 1 /\ Len(b) = 1 /\ Len(c) = 1
       /\ a[1] = r.dist /\ b[1] = r.component /\ c[1] = r.of
  BY <1>4, OneLong
<1>13. Len(k) = 1 /\ Len(l) = 1 /\ Len(m) = 1
       /\ k[1] = a[1] /\ l[1] = b[1] /\ m[1] = c[1] /\ w[1] = v[1]
  BY <1>2, <1>5, <1>6, <1>10, <1>11, <1>12, JoinedApart
<1>14. k[1] = q.dist /\ l[1] = q.component /\ m[1] = q.of
  BY <1>3, <1>13, OneLong
<1> QED BY <1>5, <1>6, <1>12, <1>13, <1>14

LEMMA SameCall ==
  ASSUME NEW r, NEW q, IsRecord(r), IsRecord(q),
         r.method = q.method, r.dist = q.dist, r.component = q.component, r.of = q.of,
         r.compression = q.compression, r.digest = q.digest
  PROVE  r = q
BY DEF IsRecord

\* A call without a blank shares its entry of a storage with no other call.
LEMMA KeysAreOneToOne ==
  ASSUME NEW r, NEW q, IsCall(r), IsCall(q), PlainCall(r), Key(r) = Key(q)
  PROVE  r = q
<1>1. r.method \in methods /\ q.method \in methods 
      /\ Unused(r) /\ Unused(q) /\ IsRecord(r) /\ IsRecord(q)
  BY CallShapes
<1>2. r.method = q.method
  BY <1>1, KeyShapes DEF methods
<1>3. CASE r.method \in {"packages", "translations"}
  <2>1. /\ r.dist = q.dist /\ r.component = q.component /\ r.of = q.of
        /\ r.compression = q.compression
    BY <1>2, <1>3, KeyShapes, PartsAreOneToOne
  <2> QED BY <1>1, <1>2, <1>3, <2>1, SameCall DEF Unused
<1>4. CASE r.method = "by-hash"
  <2>1. r.dist = q.dist /\ r.component = q.component /\ r.of = q.of /\ r.digest = q.digest
    <3>1. Key(r)[2] = Joined(r, r.digest) /\ Key(q)[2] = Joined(q, q.digest)
      BY <1>2, <1>4, KeyShapes
    <3>2. Joined(r, r.digest) = Joined(q, q.digest)
      BY <3>1
    <3> QED BY <3>2, PartsAreOneToOne
  <2> QED BY <1>1, <1>2, <1>4, <2>1, SameCall DEF Unused
<1>5. CASE r.method = "releases"
  <2>1. Words(q.dist) = <<r.dist>>
    BY <1>2, <1>5, KeyShapes DEF PlainCall
  <2>2. r.dist = q.dist
    <3>1. Len(Words(q.dist)) = 1
      BY <2>1
    <3>2. <<r.dist>> = <<q.dist>>
      BY <2>1, <3>1, WordsOfCalls
    <3> QED BY <3>2
  <2> QED BY <1>1, <1>2, <1>5, <2>2, SameCall DEF Unused
<1>6. CASE r.method = "pool"
  <2>1. Words(q.of) = <<r.of>>
    BY <1>2, <1>6, KeyShapes DEF PlainCall
  <2>2. r.of = q.of
    <3>1. Len(Words(q.of)) = 1
      BY <2>1
    <3>2. <<r.of>> = <<q.of>>
      BY <2>1, <3>1, WordsOfCalls
    <3> QED BY <3>2
  <2> QED BY <1>1, <1>2, <1>6, <2>2, SameCall DEF Unused
<1> QED BY <1>1, <1>3, <1>4, <1>5, <1>6 DEF methods

\* What is kept under the key of a URL without blanks is an answer to its call.
LEMMA PlainIsKept ==
  ASSUME NEW u \in Url, Plain(u.path), IsCall(Route(u.path)), NEW source, NEW n, NEW x,
         Kept(source, n, Key(Route(u.path)), x)
  PROVE  Answers(source, n, Route(u.path), x)
<1> DEFINE r == Route(u.path)
<1>1. \A part \in {u.path.dist, u.path.component, u.path.of} : Words(part) = <<part>>
  BY WordsAssumption DEF Plain
<1>2. {r.dist, r.component, r.of} \subseteq {u.path.dist, u.path.component, u.path.of, "-"}
  BY RouteCalls, CallFields DEF IsCall, RouteCall
<1>3. PlainCall(r)
  BY <1>1, <1>2, WordsAssumption DEF PlainCall
<1>4. PICK q : IsCall(q) /\ Key(r) = Key(q) /\ Answers(source, n, q, x)
  BY DEF Kept
<1> HIDE DEF r
<1>5. r = q
  BY <1>3, <1>4, KeysAreOneToOne DEF r
<1> QED BY <1>4, <1>5 DEF r

-----------------------------------------------------------------------------
(* The invariant is inductive.                                             *)

\* What was answered stays answered as the source changes.
LEMMA AnswersStay ==
  ASSUME NEW source, NEW n \in Nat, NEW m \in Nat, n <= m, NEW r, NEW x,
         Answers(source, n, r, x)
  PROVE  Answers(source, m, r, x)
BY DEF Answers

LEMMA KeptStays ==
  ASSUME NEW source, NEW n \in Nat, NEW m \in Nat, n <= m, NEW key, NEW x,
         Kept(source, n, key, x)
  PROVE  Kept(source, m, key, x)
BY AnswersStay DEF Kept

\* A client that takes no part in a step.
LEMMA Unmoved ==
  ASSUME NEW c \in Client, RequestOK(c), ReplyOK(c),
         repo' = repo, version \in Nat, version' \in Nat, version <= version',
         pc'[c] = pc[c], at'[c] = at[c], got'[c] = got[c], url'[c] = url[c],
         request'[c] = request[c], reply'[c] = reply[c]
  PROVE  RequestOK(c)' /\ ReplyOK(c)'
<1>1. RequestOK(c)'
  BY KeptStays DEF RequestOK
<1>2. ReplyOK(c)'
  <2>1. CASE reply[c] = NoReply
    BY <2>1 DEF ReplyOK, NoReply
  <2>2. CASE reply[c] # NoReply
    <3>1. PICK x : reply[c] = Write(x) /\ Told(url[c], x)
      BY <2>2 DEF ReplyOK
    <3>2. Told(url[c], x)'
      BY <3>1, KeptStays DEF Told, RepoSource
    <3> QED
      BY <3>1, <3>2 DEF ReplyOK, Write
  <2> QED
    BY <2>1, <2>2
<1> QED
  BY <1>1, <1>2

\* The handler is told x, and replies.
LEMMA Finishing ==
  ASSUME NEW c \in Client, IInv, NEW x, Finish(c, x), Told(url'[c], x),
         DOMAIN url' = Client, \A d \in Client \ {c} : url'[d] = url[d],
         repo' = repo, version' = version
  PROVE  ClientsOK'
<1>1. RequestOK(c)'
  BY DEF IInv, WorldOK, ClientsOK, RequestOK, Finish
<1>2. ReplyOK(c)'
  <2>1. reply'[c] = Write(x)
    BY DEF IInv, ClientsOK, Finish
  <2> QED
    BY <2>1 DEF ReplyOK, Told, Write, RepoSource
<1>3. ASSUME NEW d \in Client, d # c
      PROVE  RequestOK(d)' /\ ReplyOK(d)'
  <2>1. /\ pc'[d] = pc[d] /\ at'[d] = at[d] /\ got'[d] = got[d] /\ url'[d] = url[d]
        /\ request'[d] = request[d] /\ reply'[d] = reply[d]
    BY <1>3 DEF IInv, ClientsOK, Finish
  <2> QED
    BY <2>1, Unmoved, ServingAssumption DEF IInv, WorldOK, ClientsOK
<1> QED
  BY <1>1, <1>2, <1>3 DEF IInv, ClientsOK, Finish

\* A call returns, from the source or from a storage, with an error or an answer.
LEMMA Returning ==
  ASSUME NEW c \in Client, IInv, pc[c] # "idle", NEW x, Return(c, at[c], x),
         \/ x = Failed
         \/ request[c].method # "key" /\ Kept(repo.source, version, Key(request[c]), x),
         repo' = repo, version' = version, url' = url
  PROVE  ClientsOK'
<1>1. CASE at[c] = 1 \/ x = Failed
  <2>1. Finish(c, x)
    BY <1>1 DEF Return
  <2>2. Told(url[c], x)
    BY DEF IInv, ClientsOK, RequestOK, Told
  <2> QED
    BY <2>1, <2>2, Finishing DEF IInv, ClientsOK
<1>2. CASE ~(at[c] = 1 \/ x = Failed)
  <2>1. /\ pc' = [pc EXCEPT ![c] = "add"] /\ at' = [at EXCEPT ![c] = at[c] - 1]
        /\ got' = [got EXCEPT ![c] = x] /\ request' = request /\ reply' = reply
    BY <1>2 DEF Return
  <2>2. RequestOK(c)'
    BY <1>2, <2>1 DEF IInv, WorldOK, ClientsOK, RequestOK, NoReply
  <2>3. ReplyOK(c)'
    BY <2>1 DEF IInv, ClientsOK, RequestOK, ReplyOK, NoReply
  <2>4. ASSUME NEW d \in Client, d # c
        PROVE  RequestOK(d)' /\ ReplyOK(d)'
    BY <2>1, <2>4, Unmoved, ServingAssumption DEF IInv, WorldOK, ClientsOK
  <2> QED
    BY <2>1, <2>2, <2>3, <2>4 DEF IInv, ClientsOK
<1> QED
  BY <1>1, <1>2

\* A step that leaves the storages and the index alone.
LEMMA WorldStays ==
  ASSUME WorldOK, repo' = repo, version' = version, index' = index, store' = store
  PROVE  WorldOK'
BY DEF WorldOK, StoresOK, IndexOK

\* A request that goes on to ask somewhere else.
LEMMA Goes ==
  ASSUME NEW c \in Client, IInv, pc[c] \in {"get", "fetch"},
         NEW label \in {"get", "fetch"}, NEW l \in 1..(repo.caches + 1),
         label = "get" => l <= repo.caches,
         request[c].method = "key" => label = "fetch",
         pc' = [pc EXCEPT ![c] = label], at' = [at EXCEPT ![c] = l],
         UNCHANGED <<repo, version, index, store, url, request, got, reply>>
  PROVE  IInv'
<1>1. ASSUME NEW d \in Client, d # c
      PROVE  RequestOK(d)' /\ ReplyOK(d)'
  BY <1>1, Unmoved, ServingAssumption DEF IInv, WorldOK, ClientsOK
<1>2. RequestOK(c)' /\ ReplyOK(c)'
  BY DEF IInv, WorldOK, ClientsOK, RequestOK, ReplyOK
<1> QED
  BY <1>1, <1>2, WorldStays DEF IInv, ClientsOK

LEMMA Initially == Init => IInv
<1> SUFFICES ASSUME Init PROVE IInv
  OBVIOUS
<1>1. PICK setup \in Setups : repo = BuildRepo(setup) /\ repo # Nil
  BY DEF Init
<1>2. Len(setup) - 1 \in Nat
  BY ServingAssumption
<1>3. repo.source \in {"upstream", "dynamic"} /\ repo.caches \in Nat
  BY <1>1, <1>2 DEF BuildRepo
<1>4. StoresOK
  BY <1>3, FS_EmptySet, ServingAssumption DEF StoresOK, Init
<1>5. WorldOK
  BY <1>3, <1>4, ServingAssumption DEF WorldOK, IndexOK, Init
<1>6. ClientsOK
  BY <1>3 DEF ClientsOK, RequestOK, ReplyOK, Init
<1> QED
  BY <1>5, <1>6 DEF IInv

LEMMA ChangeStep == IInv /\ Change => IInv'
<1> SUFFICES ASSUME IInv, Change PROVE IInv'
  OBVIOUS
<1>1. version \in Nat /\ version' = version + 1 /\ version' \in DOMAIN Archive
  BY ServingAssumption DEF IInv, WorldOK, Change
<1>2. StoresOK'
  BY <1>1, KeptStays DEF IInv, WorldOK, StoresOK, Change
<1>3. IndexOK'
  BY <1>1 DEF IInv, WorldOK, IndexOK, Change
<1>4. WorldOK'
  BY <1>1, <1>2, <1>3 DEF IInv, WorldOK, Change
<1>5. ClientsOK'
  BY <1>1, Unmoved DEF IInv, ClientsOK, Change, requestVars
<1> QED
  BY <1>4, <1>5 DEF IInv

LEMMA LoseStep == ASSUME NEW l \in 1..repo.caches, IInv, Lose(l) PROVE IInv'
<1>1. PICK k \in DOMAIN store[l] :
        store' = [store EXCEPT ![l] = [x \in DOMAIN store[l] \ {k} |-> store[l][x]]]
  BY DEF Lose
<1>2. ASSUME NEW i \in 1..repo.caches
      PROVE  /\ DOMAIN store'[i] \subseteq DOMAIN store[i]
             /\ \A x \in DOMAIN store'[i] : store'[i][x] = store[i][x]
  BY <1>1 DEF IInv, WorldOK, StoresOK
<1>3. StoresOK'
  <2>1. DOMAIN store' = 1..repo'.caches
    BY <1>1 DEF IInv, WorldOK, StoresOK, Lose
  <2>2. ASSUME NEW i \in 1..repo.caches
        PROVE  IsFiniteSet(DOMAIN store'[i]) /\ Cardinality(DOMAIN store'[i]) <= MaxStored
    <3>1. IsFiniteSet(DOMAIN store[i]) /\ Cardinality(DOMAIN store[i]) <= MaxStored
      BY DEF IInv, WorldOK, StoresOK
    <3>2. /\ IsFiniteSet(DOMAIN store'[i])
          /\ Cardinality(DOMAIN store'[i]) <= Cardinality(DOMAIN store[i])
      BY <1>2, <3>1, FS_Subset
    <3> QED
      BY <3>1, <3>2, FS_CardinalityType, ServingAssumption
  <2>3. ASSUME NEW i \in 1..repo.caches, NEW x \in DOMAIN store'[i]
        PROVE  Kept(repo.source, version, x, store'[i][x])
    BY <1>2 DEF IInv, WorldOK, StoresOK
  <2> QED
    BY <2>1, <2>2, <2>3 DEF StoresOK, Lose
<1>4. WorldOK'
  BY <1>3 DEF IInv, WorldOK, IndexOK, Lose
<1>5. ClientsOK'
  BY Unmoved, ServingAssumption DEF IInv, WorldOK, ClientsOK, Lose, requestVars
<1> QED
  BY <1>4, <1>5 DEF IInv


LEMMA AskStep == ASSUME NEW c \in Client, IInv, Ask(c) PROVE IInv'
<1>1. PICK u \in Url :
         /\ url' = [url EXCEPT ![c] = u]
         /\ IF u.repo # Name \/ Route(u.path) = Nil
            THEN Finish(c, Nil)
            ELSE /\ request' = [request EXCEPT ![c] = Route(u.path)]
                 /\ at' = [at EXCEPT ![c] = Entrance(Route(u.path))]
                 /\ pc' = [pc EXCEPT ![c] = Enter(Entrance(Route(u.path)))]
                 /\ reply' = [reply EXCEPT ![c] = NoReply]
                 /\ UNCHANGED got
  BY DEF Ask
<1>2. DOMAIN url' = Client /\ url'[c] = u /\ \A d \in Client \ {c} : url'[d] = url[d]
  BY <1>1 DEF IInv, ClientsOK
<1>3. WorldOK'
  BY WorldStays DEF IInv, Ask
<1>4. CASE u.repo # Name \/ Route(u.path) = Nil
  <2>1. Finish(c, Nil) /\ Told(url'[c], Nil)
    BY <1>1, <1>2, <1>4 DEF Told
  <2> QED
    BY <1>2, <1>3, <2>1, Finishing DEF IInv, Ask
<1>5. CASE ~(u.repo # Name \/ Route(u.path) = Nil)
  <2> DEFINE r == Route(u.path)
  <2> HIDE DEF r
  <2>1. /\ request' = [request EXCEPT ![c] = r] /\ at' = [at EXCEPT ![c] = Entrance(r)]
        /\ pc' = [pc EXCEPT ![c] = Enter(Entrance(r))]
        /\ reply' = [reply EXCEPT ![c] = NoReply] /\ got' = got
        /\ r # Nil /\ r = Route(u.path) /\ u.repo = Name
    BY <1>1, <1>5 DEF r
  <2>2. /\ Entrance(r) \in 1..(repo.caches + 1)
        /\ r.method = "key" => Enter(Entrance(r)) = "fetch"
        /\ Enter(Entrance(r)) \in {"get", "fetch"}
        /\ Enter(Entrance(r)) = "get" => Entrance(r) <= repo.caches
    BY DEF IInv, WorldOK, Entrance, Enter
  <2>3. RequestOK(c)' /\ ReplyOK(c)'
    BY <1>2, <2>1, <2>2 DEF IInv, ClientsOK, RequestOK, ReplyOK, Ask
  <2>4. ASSUME NEW d \in Client, d # c
        PROVE  RequestOK(d)' /\ ReplyOK(d)'
    BY <1>2, <2>1, <2>4, Unmoved, ServingAssumption DEF IInv, WorldOK, ClientsOK, Ask
  <2> QED
    BY <1>2, <1>3, <2>1, <2>3, <2>4 DEF IInv, ClientsOK
<1> QED
  BY <1>4, <1>5

LEMMA HitStep == ASSUME NEW c \in Client, IInv, Hit(c) PROVE IInv'
<1> DEFINE x == store[at[c]][Key(request[c])]
<1>1. Kept(repo.source, version, Key(request[c]), x)
  BY DEF IInv, WorldOK, StoresOK, ClientsOK, RequestOK, Hit
<1>2. request[c].method # "key"
  BY DEF IInv, ClientsOK, RequestOK, Hit
<1>3. ClientsOK'
  BY <1>1, <1>2, Returning DEF Hit
<1> QED
  BY <1>3, WorldStays DEF IInv, Hit

LEMMA MissStep == ASSUME NEW c \in Client, IInv, Miss(c) PROVE IInv'
<1>1. /\ pc[c] = "get" /\ at[c] \in 1..(repo.caches + 1) /\ at[c] <= repo.caches
      /\ request[c].method # "key" /\ repo.caches \in Nat /\ at' = [at EXCEPT ![c] = at[c] + 1]
  BY DEF IInv, WorldOK, ClientsOK, RequestOK, Miss
<1>2. /\ at[c] + 1 \in 1..(repo.caches + 1)
      /\ Enter(at[c] + 1) \in {"get", "fetch"}
      /\ Enter(at[c] + 1) = "get" => at[c] + 1 <= repo.caches
  BY <1>1 DEF Enter
<1> QED
  BY <1>1, <1>2, Goes DEF Miss

\* What a source answers, now or, if it has an index, when that was made.
LEMMA FetchStep ==
  ASSUME NEW c \in Client, IInv, pc[c] = "fetch", NEW x, Return(c, at[c], x),
         \/ x = Failed
         \/ /\ request[c].method # "key"
            /\ \E v \in 1..version : Answer(repo.source, v, request[c], x),
         IndexOK', UNCHANGED <<repo, version, store, url>>
  PROVE  IInv'
<1>1. request[c].method # "key" => IsCall(request[c])
  BY DEF IInv, ClientsOK, RequestOK, IsCall
<1>2. x = Failed \/ Kept(repo.source, version, Key(request[c]), x)
  BY <1>1 DEF Kept, Answers
<1>3. ClientsOK'
  BY <1>2, Returning
<1>4. WorldOK'
  BY DEF IInv, WorldOK, StoresOK
<1> QED
  BY <1>3, <1>4 DEF IInv

LEMMA FetchUpstreamStep == ASSUME NEW c \in Client, IInv, FetchUpstream(c) PROVE IInv'
<1>1. Answer(repo.source, version, request[c], UpstreamGet(request[c]))
  BY DEF Answer, UpstreamGet, FetchUpstream
<1>2. version \in 1..version
  BY ServingAssumption DEF IInv, WorldOK
<1> QED
  BY <1>1, <1>2, FetchStep DEF FetchUpstream, IInv, WorldOK, IndexOK

LEMMA FetchIndexedStep == ASSUME NEW c \in Client, IInv, FetchIndexed(c) PROVE IInv'
<1> DEFINE r == request[c]
<1>1. url[c] \in Url /\ r = Route(url[c].path) /\ r # Nil
  BY DEF IInv, ClientsOK, RequestOK, FetchIndexed
<1>2. r.method \in {"releases", "packages", "by-hash"}
  BY DEF FetchIndexed
<1>3. r.dist = url[c].path.dist
  BY <1>1, <1>2, RouteCalls, CallFields DEF RouteCall
<1>4. PICK v \in 1..version, u \in Url : index' = RenderPackages(Listings[v], u.path.dist)
  <2>1. CASE index # Nil /\ UNCHANGED index
    BY <2>1 DEF IInv, WorldOK, IndexOK
  <2>2. CASE index' = RenderPackages(Listings[version], r.dist)
    BY <1>1, <1>3, <2>2, ServingAssumption DEF IInv, WorldOK
  <2> QED
    BY <2>1, <2>2 DEF FetchIndexed, Render
<1>5. Answer(repo.source, v, r, DynamicAnswer(index', r))
  BY <1>2, <1>4 DEF Answer, FetchIndexed
<1>6. IndexOK'
  BY <1>4 DEF IndexOK, FetchIndexed
<1> QED
  BY <1>2, <1>5, <1>6, FetchStep DEF FetchIndexed

LEMMA FetchPoolStep == ASSUME NEW c \in Client, IInv, FetchPool(c) PROVE IInv'
<1>1. PICK deb \in {Nil, request[c].of} : Return(c, at[c], deb)
  BY DEF FetchPool
<1>2. Answer(repo.source, version, request[c], deb) /\ version \in 1..version
  BY ServingAssumption DEF Answer, FetchPool, IInv, WorldOK
<1> QED
  BY <1>1, <1>2, FetchStep DEF FetchPool, IInv, WorldOK, IndexOK

LEMMA FetchKeyStep == ASSUME NEW c \in Client, IInv, FetchKey(c) PROVE IInv'
<1>1. Told(url[c], RepoSource)
  BY DEF FetchKey, IInv, ClientsOK, RequestOK, Told
<1>2. ClientsOK'
  BY <1>1, Finishing DEF FetchKey, IInv, ClientsOK
<1> QED
  BY <1>2, WorldStays DEF FetchKey, IInv

LEMMA FetchFailsStep == ASSUME NEW c \in Client, IInv, FetchFails(c) PROVE IInv'
BY FetchStep DEF FetchFails, IInv, WorldOK, IndexOK

LEMMA AddStep == ASSUME NEW c \in Client, IInv, Add(c) PROVE IInv'
<1> DEFINE l == at[c]
           key == Key(request[c])
<1>1. /\ l \in 1..repo.caches /\ repo.caches \in Nat
      /\ request[c].method # "key" /\ Kept(repo.source, version, key, got[c])
  BY DEF IInv, WorldOK, ClientsOK, RequestOK, Add
<1>2. PICK kept \in SUBSET (DOMAIN store[l] \ {key}) :
        /\ Cardinality(kept) < MaxStored
        /\ store' = [store EXCEPT ![l] =
             [k \in kept \cup {key} |-> IF k = key THEN got[c] ELSE store[l][k]]]
  BY DEF Add
<1>3. ClientsOK'
  BY <1>1, Returning DEF Add
<1>4. IsFiniteSet(kept \cup {key}) /\ Cardinality(kept \cup {key}) <= MaxStored
  <2>1. IsFiniteSet(kept)
    BY <1>1, <1>2, FS_Subset DEF IInv, WorldOK, StoresOK
  <2>2. Cardinality(kept) \in Nat /\ Cardinality(kept) < MaxStored
    BY <1>2, <2>1, FS_CardinalityType
  <2>3. /\ IsFiniteSet(kept \cup {key})
        /\ Cardinality(kept \cup {key}) = Cardinality(kept) + 1
    BY <1>2, <2>1, FS_AddElement
  <2> QED
    BY <2>2, <2>3, ServingAssumption
<1>5. ASSUME NEW i \in 1..repo.caches
      PROVE  /\ IsFiniteSet(DOMAIN store'[i]) /\ Cardinality(DOMAIN store'[i]) <= MaxStored
             /\ \A k \in DOMAIN store'[i] : Kept(repo.source, version, k, store'[i][k])
  <2>1. CASE i = l
    BY <1>1, <1>2, <1>4, <2>1 DEF IInv, WorldOK, StoresOK
  <2>2. CASE i # l
    BY <1>1, <1>2, <2>2 DEF IInv, WorldOK, StoresOK
  <2> QED
    BY <2>1, <2>2
<1>6. UNCHANGED <<repo, version, index>> /\ WorldOK
  BY DEF Add, IInv
<1>7. DOMAIN store' = 1..repo.caches
  BY <1>2, <1>6 DEF WorldOK, StoresOK
<1>8. StoresOK'
  BY <1>5, <1>6, <1>7 DEF StoresOK
<1>9. IndexOK'
  BY <1>6 DEF WorldOK, IndexOK
<1> QED
  BY <1>3, <1>6, <1>8, <1>9 DEF IInv, WorldOK

LEMMA StutterStep == IInv /\ UNCHANGED vars => IInv'
BY WorldStays, Unmoved, ServingAssumption DEF vars, IInv, WorldOK, ClientsOK

\* The invariant holds in every reachable state.
THEOREM Inductive == Spec => []IInv
<1>1. Init => IInv
  BY Initially
<1>2. IInv /\ [Next]_vars => IInv'
  BY ChangeStep, LoseStep, AskStep, HitStep, MissStep, FetchUpstreamStep, FetchIndexedStep,
     FetchPoolStep, FetchKeyStep, FetchFailsStep, AddStep, StutterStep DEF Next, Serve
<1> QED
  BY <1>1, <1>2, PTL DEF Spec

-----------------------------------------------------------------------------
(* What the invariant says of the replies.                                 *)

\* A suffix that is known comes back from its compression.
LEMMA SuffixesComeBack ==
  ASSUME NEW suffix
  PROVE  /\ suffix \in {"-", ".gz", ".xz"} => Extension(ParseCompression(suffix)) = suffix
         /\ ParseCompression(Extension(ParseCompression(suffix))) = ParseCompression(suffix)
<1> DEFINE z == ParseCompression(suffix)
<1>1. CASE suffix \in {"bz2", ".bz2"}
  <2>1. z = "bz2"
    BY <1>1 DEF ParseCompression
  <2>2. Extension(z) = ".bz2"
    BY <2>1 DEF Extension
  <2> QED
    BY <1>1, <2>1, <2>2 DEF ParseCompression
<1>2. CASE suffix \in {"gz", ".gz"}
  <2>1. z = "gz"
    BY <1>2 DEF ParseCompression
  <2>2. Extension(z) = ".gz"
    BY <2>1 DEF Extension
  <2> QED
    BY <1>2, <2>1, <2>2 DEF ParseCompression
<1>3. CASE suffix \in {"xz", ".xz"}
  <2>1. z = "xz"
    BY <1>3 DEF ParseCompression
  <2>2. Extension(z) = ".xz"
    BY <2>1 DEF Extension
  <2> QED
    BY <1>3, <2>1, <2>2 DEF ParseCompression
<1>4. CASE suffix \notin {"bz2", ".bz2", "gz", ".gz", "xz", ".xz"}
  <2>1. z = "-"
    BY <1>4 DEF ParseCompression
  <2>2. Extension(z) = "-"
    BY <2>1 DEF Extension
  <2> QED
    BY <1>4, <2>1, <2>2 DEF ParseCompression
<1> QED
  BY <1>1, <1>2, <1>3, <1>4

\* The parts of a path.
LEMMA PathFields ==
  ASSUME NEW a, NEW b, NEW c, NEW d, NEW e, NEW f, NEW g
  PROVE  LET p == Path(a, b, c, d, e, f, g)
         IN /\ p.dir = a /\ p.dist = b /\ p.component = c /\ p.of = d
            /\ p.file = e /\ p.suffix = f /\ p.digest = g
  BY DEF Path

\* What a path means differs from it in its suffix at most.
LEMMA MeantFields ==
  ASSUME NEW p
  PROVE  /\ Meant(p).dir = p.dir /\ Meant(p).dist = p.dist
         /\ Meant(p).component = p.component /\ Meant(p).of = p.of
         /\ Meant(p).file = p.file /\ Meant(p).digest = p.digest
         /\ ParseCompression(Meant(p).suffix) = ParseCompression(p.suffix)
  BY PathFields, SuffixesComeBack DEF Meant

\* The path that upstream is asked for is the one that is meant.
LEMMA PathsComeBack ==
  ASSUME NEW p, IsPath(p), Route(p) # Nil, Route(p).method # "key",
         p.dir # "i18n" \/ p.file = "Translation"
  PROVE  UpstreamPath(Route(p)) = Meant(p)
<1> DEFINE r == Route(p)
           suffix == Extension(ParseCompression(p.suffix))
<1> HIDE DEF r
<1>1. RouteCall(p, r) /\ r.method # "key"
  BY RouteCalls DEF r
<1>2. CASE p.file = "InRelease"
  <2>1. p = Path("dists", p.dist, "-", "-", "InRelease", "-", Nil)
    BY <1>2, PathFields DEF IsPath
  <2>2. Meant(p) = Path("dists", p.dist, "-", "-", "InRelease", "-", Nil)
    BY <2>1, PathFields, SuffixesComeBack DEF Meant
  <2>3. r.method = "releases" /\ r.dist = p.dist
    BY <1>1, <1>2, CallFields DEF RouteCall
  <2> QED
    BY <2>2, <2>3 DEF UpstreamPath, r
<1>3. CASE p.file = "Packages"
  <2>1. p = Path("binary", p.dist, p.component, p.of, "Packages", p.suffix, Nil)
    BY <1>3, PathFields DEF IsPath
  <2>2. Meant(p) = Path("binary", p.dist, p.component, p.of, "Packages", suffix, Nil)
    BY <2>1, PathFields DEF Meant
  <2>3. /\ r.method = "packages" /\ r.dist = p.dist /\ r.component = p.component
        /\ r.of = p.of /\ Extension(r.compression) = suffix
    BY <1>1, <1>3, CallFields DEF RouteCall
  <2> QED
    BY <2>2, <2>3 DEF UpstreamPath, r
<1>4. CASE p.file = "Translation"
  <2>1. p = Path("i18n", p.dist, p.component, p.of, "Translation", p.suffix, Nil)
    BY <1>4, PathFields DEF IsPath
  <2>2. Meant(p) = Path("i18n", p.dist, p.component, p.of, "Translation", suffix, Nil)
    BY <2>1, PathFields DEF Meant
  <2>3. /\ r.method = "translations" /\ r.dist = p.dist /\ r.component = p.component
        /\ r.of = p.of /\ Extension(r.compression) = suffix
    BY <1>1, <1>4, CallFields DEF RouteCall
  <2> QED
    BY <2>2, <2>3 DEF UpstreamPath, r
<1>5. CASE p.file = "by-hash-SHA256"
  <2>1. p = Path("binary", p.dist, p.component, p.of, "by-hash-SHA256", "-", p.digest)
    BY <1>5, PathFields DEF IsPath
  <2>2. Meant(p) = Path("binary", p.dist, p.component, p.of, "by-hash-SHA256", "-", p.digest)
    BY <2>1, PathFields, SuffixesComeBack DEF Meant
  <2>3. /\ r.method = "by-hash" /\ r.dist = p.dist /\ r.component = p.component
        /\ r.of = p.of /\ r.digest = p.digest
    BY <1>1, <1>5, <2>1, CallFields, PathFields DEF RouteCall
  <2> QED
    BY <2>2, <2>3 DEF UpstreamPath, r
<1>6. CASE p.file = "deb"
  <2>1. p = Path("pool", "-", "-", p.of, "deb", "-", Nil)
    BY <1>6, PathFields DEF IsPath
  <2>2. Meant(p) = Path("pool", "-", "-", p.of, "deb", "-", Nil)
    BY <2>1, PathFields, SuffixesComeBack DEF Meant
  <2>3. r.method = "pool" /\ r.of = p.of
    BY <1>1, <1>6, CallFields DEF RouteCall
  <2> QED
    BY <2>2, <2>3 DEF UpstreamPath, r
<1> QED
  BY <1>1, <1>2, <1>3, <1>4, <1>5, <1>6, CallFields DEF RouteCall

\* By hash, files of i18n are looked for among those of an architecture without a name.
LEMMA NoTranslationsByHash ==
  ASSUME NEW p, IsPath(p), Route(p) # Nil, p.dir = "i18n", p.file # "Translation",
         NEW v \in DOMAIN Archive
  PROVE  ArchiveHas(v, UpstreamPath(Route(p))) = Failed
<1> DEFINE r == Route(p)
           q == Path("binary", r.dist, r.component, "-", "by-hash-SHA256", "-", r.digest)
<1>1. p.file \in {"by-hash-SHA256", "by-hash-MD5Sum"}
  BY PathFields DEF IsPath
<1>2. r.method = "by-hash" /\ r.of = "-"
  BY <1>1, RouteCalls, CallFields DEF RouteCall
<1>3. UpstreamPath(r) = q
  BY <1>2 DEF UpstreamPath
<1>4. q.dir = "binary" /\ q.of = "-" /\ q.file = "by-hash-SHA256"
  BY PathFields
<1> HIDE DEF q
<1> QED
  BY <1>3, <1>4, ArchiveAssumption DEF ArchiveHas, SameDirectory

\* Which method answers for which file.
LEMMA MethodsOfFiles ==
  ASSUME NEW p, Route(p) # Nil
  PROVE  LET r == Route(p)
         IN /\ p.file \in {"repo.source", "InRelease", "Packages", "Translation",
                          "by-hash-SHA256", "deb"}
            /\ p.file = "repo.source" <=> r.method = "key"
            /\ p.file = "InRelease" => r.method = "releases"
            /\ p.file = "Packages" =>
                 /\ r.method = "packages" /\ r.component = p.component /\ r.of = p.of
                 /\ r.compression = ParseCompression(p.suffix)
                 /\ p.suffix \in PackagesSuffix
            /\ p.file = "Translation" => r.method = "translations"
            /\ p.file = "by-hash-SHA256" => r.method = "by-hash" /\ r.digest = p.digest
            /\ p.file = "deb" => r.method = "pool" /\ r.of = p.of
BY RouteCalls, CallFields DEF RouteCall

\* What a dynamic repository answers with some index of a version.
LEMMA IndexAnswers ==
  ASSUME NEW p, Route(p) # Nil, NEW list, NEW dist, NEW x,
         x = DynamicAnswer(RenderPackages(list, dist), Route(p))
  PROVE  /\ p.file = "InRelease" => x = RenderPackages(list, dist).inRelease
         /\ p.file = "Packages" =>
              \/ x = Nil /\ List(list, p.component, p.of) = Nil
              \/ x = Compress(ParseCompression(p.suffix), List(list, p.component, p.of))
         /\ p.file = "by-hash-SHA256" =>
              IF p.digest \in ByHashOf(list) THEN x = p.digest ELSE x = Nil
<1> DEFINE r == Route(p)
           idx == RenderPackages(list, dist)
<1>1. idx.packages = list /\ idx.byHash = ByHashOf(list)
  BY DEF RenderPackages
<1> HIDE DEF idx
<1>2. CASE p.file = "InRelease"
  BY <1>2, MethodsOfFiles DEF DynamicAnswer, idx
<1>3. CASE p.file = "Packages"
  BY <1>1, <1>3, MethodsOfFiles DEF DynamicAnswer, List, idx
<1>4. CASE p.file = "by-hash-SHA256"
  BY <1>1, <1>4, MethodsOfFiles DEF DynamicAnswer, idx
<1> QED
  BY <1>2, <1>3, <1>4

\* What a repository answers for a path is what is at the path that is meant.
LEMMA AnswerFits ==
  ASSUME repo.source \in {"upstream", "dynamic"}, NEW v \in DOMAIN Archive,
         NEW p, \E u \in Url : p = u.path, Route(p) # Nil, Route(p).method # "key",
         NEW x, x \notin {Nil, Failed}, Answer(repo.source, v, Route(p), x)
  PROVE  Fits(v, Meant(p), x)
<1> DEFINE r == Route(p)
           q == Meant(p)
<1> HIDE DEF r, q
<1>1. /\ q.file = p.file /\ q.component = p.component /\ q.of = p.of /\ q.dist = p.dist
      /\ q.digest = p.digest /\ ParseCompression(q.suffix) = ParseCompression(p.suffix)
  BY MeantFields DEF q
<1>2. p.file # "repo.source" /\ q.file # "repo.source"
  BY <1>1, MethodsOfFiles
<1>3. CASE repo.source = "upstream"
  <2>1. x = ArchiveHas(v, UpstreamPath(Route(p)))
    BY <1>3 DEF Answer
  <2>2. UpstreamPath(Route(p)) = q
    BY <2>1, UrlAssumption, PathsComeBack, NoTranslationsByHash DEF q
  <2> QED
    BY <1>2, <1>3, <2>1, <2>2 DEF Fits, q
<1>4. CASE repo.source = "dynamic"
  <2>1. CASE p.file \in {"InRelease", "Packages", "by-hash-SHA256"}
    <3>1. PICK w \in Url :
            x = DynamicAnswer(RenderPackages(Listings[v], w.path.dist), Route(p))
      BY <1>4, <2>1, MethodsOfFiles DEF Answer
    <3>2. CASE p.file = "InRelease"
      <4>1. x.entries = RenderPackages(Listings[v], q.dist).inRelease.entries
        BY <3>1, <3>2, IndexAnswers DEF RenderPackages
      <4> QED
        BY <1>1, <1>4, <3>2, <4>1 DEF Fits, q
    <3>3. CASE p.file = "Packages"
      <4>1. x = Compress(ParseCompression(p.suffix), List(Listings[v], p.component, p.of))
        BY <3>1, <3>3, IndexAnswers
      <4>2. x = ListAt(v, q)
        BY <1>1, <4>1 DEF Compress, ListAt
      <4> QED
        BY <1>1, <1>4, <3>3, <4>2 DEF Fits, q
    <3>4. CASE p.file = "by-hash-SHA256"
      <4>1. x = p.digest
        BY <3>1, <3>4, IndexAnswers
      <4> QED
        BY <1>1, <1>4, <3>4, <4>1 DEF Fits, q
    <3> QED
      BY <2>1, <3>2, <3>3, <3>4
  <2>2. CASE p.file = "Translation"
    BY <1>4, <2>2, MethodsOfFiles DEF Answer
  <2>3. CASE p.file = "deb"
    <3>1. x = p.of
      BY <1>4, <2>3, MethodsOfFiles DEF Answer
    <3> QED
      BY <1>1, <1>4, <2>3, <3>1 DEF Fits, q
  <2> QED
    BY <1>2, <2>1, <2>2, <2>3, MethodsOfFiles
<1> QED
  BY <1>3, <1>4

\* What a repository answers with nothing is empty, or not there, in the source.
LEMMA AnswerLacks ==
  ASSUME repo.source \in {"upstream", "dynamic"}, NEW v \in DOMAIN Archive,
         NEW p, \E u \in Url : p = u.path, Route(p) # Nil, Route(p).method # "key",
         Answer(repo.source, v, Route(p), Nil)
  PROVE  Lacks(v, Meant(p))
<1> DEFINE q == Meant(p)
<1> HIDE DEF q
<1>1. /\ q.file = p.file /\ q.component = p.component /\ q.of = p.of /\ q.dist = p.dist
      /\ q.digest = p.digest
  BY MeantFields DEF q
<1>2. p.file # "repo.source" /\ IsPath(p) /\ Nil # Failed
  BY MethodsOfFiles, UrlAssumption, NilAssumption
<1>3. p.file = "by-hash-SHA256" => p.digest # Nil
  BY <1>2, PathFields DEF IsPath
<1>4. CASE repo.source = "upstream"
  <2>1. ArchiveHas(v, UpstreamPath(Route(p))) = Nil
    BY <1>4 DEF Answer
  <2>2. UpstreamPath(Route(p)) = q
    BY <1>2, <2>1, PathsComeBack, NoTranslationsByHash DEF q
  <2>3. q \in DOMAIN Archive[v] /\ Archive[v][q] = Nil
    BY <1>1, <1>2, <1>3, <2>1, <2>2 DEF ArchiveHas
  <2> QED
    BY <1>4, <2>3 DEF Lacks, q
<1>5. CASE repo.source = "dynamic"
  <2>1. CASE p.file \in {"InRelease", "Packages", "by-hash-SHA256"}
    <3>1. PICK w \in Url :
            Nil = DynamicAnswer(RenderPackages(Listings[v], w.path.dist), Route(p))
      BY <1>5, <2>1, MethodsOfFiles DEF Answer
    <3>2. CASE p.file = "InRelease"
      <4>1. Nil # RenderPackages(Listings[v], w.path.dist).inRelease
        BY NilAssumption, ServingAssumption
      <4> QED
        BY <3>1, <3>2, <4>1, IndexAnswers
    <3>3. CASE p.file = "Packages"
      <4> DEFINE list == List(Listings[v], p.component, p.of)
                 z == ParseCompression(p.suffix)
      <4>1. Nil # [list |-> list, as |-> z]
        BY NilAssumption, ServingAssumption
      <4>2. list = Nil \/ Nil = Compress(z, list)
        BY <3>1, <3>3, IndexAnswers
      <4> HIDE DEF list, z
      <4>3. list = Nil
        BY <1>2, <4>1, <4>2 DEF Compress
      <4> QED
        BY <1>1, <1>5, <3>3, <4>3 DEF Lacks, q, list
    <3>4. CASE p.file = "by-hash-SHA256"
      <4>1. p.digest \notin ByHashOf(Listings[v])
        BY <1>3, <3>1, <3>4, IndexAnswers
      <4> QED
        BY <1>1, <1>5, <3>4, <4>1 DEF Lacks, RenderPackages, q
    <3> QED
      BY <2>1, <3>2, <3>3, <3>4
  <2>2. CASE p.file = "Translation"
    BY <1>5, <2>2, MethodsOfFiles DEF Answer
  <2>3. CASE p.file = "deb"
    BY <1>1, <1>5, <2>3 DEF Lacks, q
  <2> QED
    BY <1>2, <2>1, <2>2, <2>3, MethodsOfFiles
<1> QED
  BY <1>4, <1>5

\* A path without a route.
LEMMA NoRoute ==
  ASSUME NEW u \in Url, Route(u.path) = Nil
  PROVE  \/ u.path.file = "Packages" /\ u.path.suffix = ".bz2"
         \/ u.path.file = "by-hash-MD5Sum"
<1> DEFINE p == u.path
<1>1. IsPath(p)
  BY UrlAssumption
<1>2. p.file \in files
  BY <1>1, PathFields DEF IsPath, files
<1>3. CASE p.file \in {"repo.source", "InRelease", "Translation", "deb"}
  BY <1>3, NilAssumption, Routes
<1>4. CASE p.file = "Packages"
  <2>1. p.suffix \in PackagesSuffix \cup {".bz2"}
    BY <1>1, <1>4, PathFields DEF IsPath
  <2>2. p.suffix \notin PackagesSuffix
    BY <1>4, NilAssumption, Routes
  <2> QED
    BY <1>4, <2>1, <2>2
<1>5. CASE p.file = "by-hash-SHA256"
  <2>1. CASE p.dir = "binary"
    <3>1. Route(p) = Call("by-hash", p.dist, p.component, p.of, "-", p.digest)
      BY <1>5, <2>1, Routes DEF ByHash
    <3> QED
      BY <3>1, NilAssumption
  <2>2. CASE p.dir # "binary"
    <3>1. Route(p) = Call("by-hash", p.dist, p.component, "-", "-", p.digest)
      BY <1>5, <2>2, Routes DEF ByHash
    <3> QED
      BY <3>1, NilAssumption
  <2> QED
    BY <2>1, <2>2
<1> QED
  BY <1>2, <1>3, <1>4, <1>5 DEF files

\* What the handler replies, and what for.
LEMMA Replies ==
  ASSUME NEW x
  PROVE  /\ Write(x).status = 200 => x \notin {Nil, Failed} /\ Write(x).body = x
         /\ Write(x).status = 404 => x = Nil
         /\ Write(x).status \in {200, 404, 500}
         /\ Write(x).status = 200 <=> Write(x).body # Nil
<1>1. CASE x = Failed
  BY <1>1, NilAssumption DEF Write
<1>2. CASE x = Nil
  BY <1>2, NilAssumption DEF Write
<1>3. CASE x \notin {Nil, Failed}
  BY <1>3 DEF Write
<1> QED
  BY <1>1, <1>2, <1>3

LEMMA ReplyTyped ==
  ASSUME NEW c \in Client, ReplyOK(c)
  PROVE  reply[c].status \in {0, 200, 404, 500} /\ (reply[c].status = 200 <=> reply[c].body # Nil)
BY Replies DEF ReplyOK, NoReply

\* A 200 is what the URL means.
LEMMA ReplyFits ==
  ASSUME WorldOK, NEW c \in Client, ReplyOK(c), Plain(url[c].path), reply[c].status = 200
  PROVE  \E v \in 1..version : Fits(v, Meant(url[c].path), reply[c].body)
<1> DEFINE u == url[c]
           r == Route(u.path)
<1>1. PICK x : reply[c] = Write(x) /\ Told(u, x)
  BY DEF ReplyOK, NoReply
<1>2. x \notin {Nil, Failed} /\ reply[c].body = x
  BY <1>1, Replies
<1>3. u \in Url /\ r # Nil
  BY <1>1, <1>2 DEF Told
<1>4. version \in Nat /\ 1 \in 1..version /\ 1..version \subseteq DOMAIN Archive
  BY ServingAssumption DEF WorldOK
<1>5. CASE r.method = "key"
  <2>1. x = RepoSource
    BY <1>1, <1>2, <1>5 DEF Told
  <2>2. Meant(u.path).file = "repo.source"
    BY <1>3, <1>5, MethodsOfFiles, MeantFields
  <2> QED
    BY <1>2, <1>4, <2>1, <2>2 DEF Fits
<1>6. CASE r.method # "key"
  <2>1. PICK v \in 1..version : Answer(repo.source, v, r, x)
    BY <1>1, <1>2, <1>3, <1>6, PlainIsKept DEF Told, Answers, IsCall
  <2>2. Fits(v, Meant(u.path), x)
    BY <1>2, <1>3, <1>4, <1>6, <2>1, AnswerFits DEF WorldOK
  <2> QED
    BY <1>2, <2>2
<1> QED
  BY <1>5, <1>6

\* A 404 is true.
LEMMA ReplyLacks ==
  ASSUME WorldOK, NEW c \in Client, ReplyOK(c), Plain(url[c].path), reply[c].status = 404
  PROVE  \/ url[c].repo # Name
         \/ url[c].path.file = "Packages" /\ url[c].path.suffix = ".bz2"
         \/ url[c].path.file = "by-hash-MD5Sum"
         \/ \E v \in 1..version : Lacks(v, Meant(url[c].path))
<1> DEFINE u == url[c]
           r == Route(u.path)
<1>1. Nil # Failed /\ Told(u, Nil)
  BY Replies, NilAssumption DEF ReplyOK, NoReply
<1>2. u \in Url
  BY <1>1 DEF Told
<1>3. version \in Nat /\ 1..version \subseteq DOMAIN Archive
  BY ServingAssumption DEF WorldOK
<1>4. CASE r = Nil
  BY <1>2, <1>4, NoRoute
<1>5. CASE r # Nil /\ r.method = "key"
  BY <1>1, <1>5, NilAssumption DEF Told, RepoSource
<1>6. CASE r # Nil /\ r.method # "key"
  <2>1. CASE u.repo # Name
    BY <2>1
  <2>2. CASE u.repo = Name
    <3>1. PICK v \in 1..version : Answer(repo.source, v, r, Nil)
      BY <1>1, <1>2, <1>6, <2>2, PlainIsKept DEF Told, Answers, IsCall
    <3> QED
      BY <1>2, <1>3, <1>6, <3>1, AnswerLacks DEF WorldOK
  <2> QED
    BY <2>1, <2>2
<1> QED
  BY <1>4, <1>5, <1>6

\* The release of an index names what the index answers with.
LEMMA ReleaseDescribes ==
  ASSUME NEW list, NEW dist
  PROVE  LET idx == RenderPackages(list, dist)
             answer(e, file, suffix, digest) ==
                 DynamicAnswer(idx, Route(Path("binary", idx.inRelease.codename, e.component,
                                               e.architecture, file, suffix, digest)))
         IN /\ \A e \in idx.inRelease.entries :
                 /\ answer(e, "Packages", e.suffix, Nil) = e.digest
                 /\ answer(e, "by-hash-SHA256", "-", e.digest) = e.digest
            /\ \A l \in Lists(idx.packages) : \A suffix \in {"-", ".gz", ".xz"} :
                 \E e \in idx.inRelease.entries :
                   e.component = l[1] /\ e.architecture = l[2] /\ e.suffix = suffix
<1> DEFINE idx == RenderPackages(list, dist)
<1>1. /\ idx.inRelease.entries = EntriesOf(list) /\ idx.inRelease.codename = dist
      /\ idx.packages = list /\ idx.byHash = ByHashOf(list)
  BY DEF RenderPackages
<1> HIDE DEF idx
<1>2. \A suffix \in {"-", ".gz", ".xz"} :
        /\ Extension(ParseCompression(suffix)) = suffix
        /\ ParseCompression(suffix) \in compressors
  <2>1. ParseCompression("-") = "-" /\ ParseCompression(".gz") = "gz" /\ ParseCompression(".xz") = "xz"
    BY DEF ParseCompression
  <2> QED
    BY <2>1, SuffixesComeBack DEF compressors
<1>3. \A z \in compressors : Extension(z) \in {"-", ".gz", ".xz"} /\ ParseCompression(Extension(z)) = z
  <2>1. Extension("-") = "-" /\ Extension("gz") = ".gz" /\ Extension("xz") = ".xz"
    BY DEF Extension
  <2>2. ParseCompression("-") = "-" /\ ParseCompression(".gz") = "gz" /\ ParseCompression(".xz") = "xz"
    BY DEF ParseCompression
  <2> QED
    BY <2>1, <2>2 DEF compressors
<1>4. ASSUME NEW e \in EntriesOf(list)
      PROVE  \E z \in compressors :
               /\ \E l \in Lists(list) : e.component = l[1] /\ e.architecture = l[2]
               /\ e.suffix = Extension(z)
               /\ e.digest = Compress(z, List(list, e.component, e.architecture))
               /\ e.digest \in ByHashOf(list)
  BY DEF EntriesOf, ByHashOf
<1>5. ASSUME NEW l \in Lists(list), NEW z \in compressors
      PROVE  \E e \in EntriesOf(list) :
               e.component = l[1] /\ e.architecture = l[2] /\ e.suffix = Extension(z)
  <2> DEFINE e == [component |-> l[1], architecture |-> l[2], suffix |-> Extension(z),
                   digest |-> Compress(z, List(list, l[1], l[2]))]
  <2>1. e \in EntriesOf(list)
    BY DEF EntriesOf
  <2> QED
    BY <2>1
<1>6. ASSUME NEW l \in Lists(list)
      PROVE  l[1] \in DOMAIN list
  BY DEF Lists
<1>7. ASSUME NEW e \in EntriesOf(list)
      PROVE  /\ DynamicAnswer(idx, Route(Path("binary", dist, e.component, e.architecture,
                                             "Packages", e.suffix, Nil))) = e.digest
             /\ DynamicAnswer(idx, Route(Path("binary", dist, e.component, e.architecture,
                                             "by-hash-SHA256", "-", e.digest))) = e.digest
  <2>1. PICK z \in compressors :
          /\ \E l \in Lists(list) : e.component = l[1] /\ e.architecture = l[2]
          /\ e.suffix = Extension(z)
          /\ e.digest = Compress(z, List(list, e.component, e.architecture))
          /\ e.digest \in ByHashOf(list)
    BY <1>4
  <2>2. e.component \in DOMAIN list
    BY <1>6, <2>1
  <2>3. Route(Path("binary", dist, e.component, e.architecture, "Packages", e.suffix, Nil))
          = Call("packages", dist, e.component, e.architecture, z, Nil)
    BY <1>3, <2>1, PathFields, Routes DEF Packages, PackagesSuffix
  <2>4. DynamicAnswer(idx, Call("packages", dist, e.component, e.architecture, z, Nil)) = e.digest
    BY <1>1, <2>1, <2>2, CallFields DEF DynamicAnswer
  <2>5. Route(Path("binary", dist, e.component, e.architecture, "by-hash-SHA256", "-", e.digest))
          = Call("by-hash", dist, e.component, e.architecture, "-", e.digest)
    BY PathFields, Routes DEF ByHash
  <2>6. DynamicAnswer(idx, Call("by-hash", dist, e.component, e.architecture, "-", e.digest))
          = e.digest
    BY <1>1, <2>1, CallFields DEF DynamicAnswer
  <2> QED
    BY <2>3, <2>4, <2>5, <2>6
<1> QED
  BY <1>1, <1>2, <1>5, <1>7 DEF idx

-----------------------------------------------------------------------------
(* The theorems.                                                           *)

LEMMA Properties ==
  IInv => TypeOK /\ AnswersFitTheQuestion /\ DenialsAreTrue /\ ReleaseDescribesIndex
<1> SUFFICES ASSUME IInv
             PROVE  TypeOK /\ AnswersFitTheQuestion /\ DenialsAreTrue /\ ReleaseDescribesIndex
  OBVIOUS
<1>1. TypeOK
  BY ReplyTyped DEF IInv, WorldOK, StoresOK, IndexOK, ClientsOK, RequestOK, TypeOK
<1>2. AnswersFitTheQuestion
  BY ReplyFits DEF IInv, ClientsOK, AnswersFitTheQuestion
<1>3. DenialsAreTrue
  BY ReplyLacks DEF IInv, ClientsOK, DenialsAreTrue
<1>4. ReleaseDescribesIndex
  BY ReleaseDescribes DEF IInv, WorldOK, IndexOK, ReleaseDescribesIndex
<1> QED
  BY <1>1, <1>2, <1>3, <1>4

\* The variables have their types, whatever the clients ask for: a reply has a body exactly
\* if its status is 200, and no cache holds more than it may (handler.go, cache.go).
THEOREM TypeCorrect == Spec => []TypeOK
BY Inductive, Properties, PTL

\* Every answer for a URL without blanks is a content that the document under it has or
\* had, through routes, cache keys, caches and upstream paths, whatever else is asked for,
\* blanks included (handler.go, cache.go, key.go, upstream.go).
THEOREM AnswersAreRight == Spec => []AnswersFitTheQuestion
BY Inductive, Properties, PTL

\* A client whose URL has no blanks is told 404 only for what the source lacked or no
\* route is for: the handler and the caches turn no failure into an absence (handler.go,
\* cache.go, upstream.go).
THEOREM DenialsAreRight == Spec => []DenialsAreTrue
BY Inductive, Properties, PTL

\* The release that renderPackages writes and the files it keeps with it agree, by path,
\* by hash and in each compression (repo.go).
THEOREM ReleaseIsRight == Spec => []ReleaseDescribesIndex
BY Inductive, Properties, PTL

=============================================================================
