------------------------------ MODULE Serving ------------------------------
(***************************************************************************)
(* What a URL is answered with: from the routes of the handler             *)
(* (pkg/server/handler.go) through the caches of the configuration         *)
(* (pkg/server/config.go, pkg/repo/cache.go) to an upstream repository     *)
(* (pkg/repo/upstream.go) or the index of a dynamic one                    *)
(* (pkg/dynamic/repo.go), and the way back.                                *)
(*                                                                         *)
(* Which of its contents a document has by now is a matter for PullThrough *)
(* and DynamicRepo: here an entry of a cache may be lost at any time, and  *)
(* an index be refreshed by any request that reaches it.  The module is    *)
(* about WHICH document is answered, under the names each part gives it.   *)
(*                                                                         *)
(* A path is a record: its directory (of a component), whose files they    *)
(* are, the file, its suffix, and the digest of a file named by hash.  A   *)
(* digest is the content it was taken of, and one word.  A dash stands for *)
(* an empty string.  The name of a file in the pool is one that            *)
(* filepath.Join leaves as it is: no element of it is empty, "." or "..".  *)
(*                                                                         *)
(* An operator named Action_Fault is that action with a plausible bug.     *)
(***************************************************************************)
EXTENDS Naturals, Sequences, FiniteSets, SequencesExt

CONSTANTS
    Client,     \* HTTP clients, one request in flight each
    Name,       \* the name of the repository
    Setups,     \* its configurations: the types of the nested repositories
    Url,        \* what is asked for: a repository and a path
    Words(_),   \* the words of a part of a path, a sequence: it is split at its blanks
    Archive,    \* upstream, a sequence: the contents of its files by path, as time goes by
    Listings,   \* a package source, a sequence: packages by component and architecture
    Nil,        \* no bytes, no list, no digest, no index
    Failed,     \* an error
    MaxStored   \* bound: the entries a storage keeps

ASSUME ServingAssumption ==
    /\ Setups \subseteq Seq(STRING) \ {<<>>}
    /\ DOMAIN Archive = 1..Len(Archive) /\ Len(Archive) \in Nat \ {0}
    /\ DOMAIN Listings = DOMAIN Archive
    /\ MaxStored \in Nat \ {0}

VARIABLES
    repo,       \* Handler.repos[Name]: the number of caches, and the source behind them
    version,    \* how often upstream, or the package source, has changed
    index,      \* Repo.rendered of a dynamic repository, or Nil
    store,      \* the entries of each cache's storage
    pc,         \* where each request is: idle, get, fetch, add
    url,        \* what each client asked for last
    request,    \* the call the handler makes for it
    at,         \* the cache it is in
    got,        \* what it got from below, and will add
    reply       \* how each client was answered last: a status and a body

vars == <<repo, version, index, store, pc, url, request, at, got, reply>>
requestVars == <<pc, url, request, at, got, reply>>

-----------------------------------------------------------------------------
(* Compression.                                                            *)

\* ParseCompression, with or without the dot, and Extension.
ParseCompression(suffix) ==
    CASE suffix \in {"bz2", ".bz2"} -> "bz2"
      [] suffix \in {"gz", ".gz"} -> "gz"
      [] suffix \in {"xz", ".xz"} -> "xz"
      [] OTHER -> "-"

Extension(compression) ==
    CASE compression = "bz2" -> ".bz2"
      [] compression = "gz" -> ".gz"
      [] compression = "xz" -> ".xz"
      [] OTHER -> "-"

\* Compress: an empty list is something once it is compressed.
Compress(compression, list) ==
    CASE compression = "bz2" -> Failed
      [] compression = "-" /\ list = Nil -> Nil
      [] OTHER -> [list |-> list, as |-> compression]

-----------------------------------------------------------------------------
(* Paths, the handler's routes, and the calls of repo.Repo.                *)

Path(dir, dist, component, of, file, suffix, digest) ==
    [dir |-> dir, dist |-> dist, component |-> component, of |-> of, file |-> file,
     suffix |-> suffix, digest |-> digest]

Call(method, dist, component, of, compression, digest) ==
    [method |-> method, dist |-> dist, component |-> component, of |-> of,
     compression |-> compression, digest |-> digest]

\* The handlers, each with the call it makes.
InRelease(p) == Call("releases", p.dist, "-", "-", "-", Nil)

Packages(p) ==
    Call("packages", p.dist, p.component, p.of, ParseCompression(p.suffix), Nil)

Translations(p) ==
    Call("translations", p.dist, p.component, p.of, ParseCompression(p.suffix), Nil)

\* i18n/by-hash has no architecture.
ByHash(p) ==
    IF p.file = "by-hash-SHA256"
    THEN Call("by-hash", p.dist, p.component, IF p.dir = "binary" THEN p.of ELSE "-", "-", p.digest)
    ELSE Nil

Pool(p) == Call("pool", "-", "-", p.of, "-", Nil)

PackagesSuffix == {"-", ".gz", ".xz", "-gz", "-xz"}

\* The call for a path, or Nil: a 404 by the router, or by ByHash for another digest.
\* The pattern of Packages knows no .bz2, and its dot is any character.  The client
\* configuration, repo.source, needs the signing key only.
Route(p) ==
    CASE p.file = "repo.source" -> Call("key", "-", "-", "-", "-", Nil)
      [] p.file = "InRelease" -> InRelease(p)
      [] p.file = "Packages" /\ p.suffix \in PackagesSuffix -> Packages(p)
      [] p.file = "Translation" -> Translations(p)
      [] p.file \in {"by-hash-SHA256", "by-hash-MD5Sum"} -> ByHash(p)
      [] p.file = "deb" -> Pool(p)
      [] OTHER -> Nil

\* Fault: one key for all compressions.
Key_AnyCompression(r) ==
    CASE r.method \in {"packages", "translations"} ->
            <<r.method, Words(r.dist) \o Words(r.component) \o Words(r.of)>>
      [] r.method = "releases" -> <<r.method, Words(r.dist)>>
      [] r.method = "by-hash" ->
            <<r.method, Words(r.dist) \o Words(r.component) \o Words(r.of) \o <<r.digest>>>>
      [] r.method = "pool" -> <<r.method, Words(r.of)>>

\* The key of a call: its namespace, and its parts joined by blanks.
Key(r) ==
    CASE r.method \in {"packages", "translations"} ->
            <<r.method,
              Words(r.dist) \o Words(r.component) \o Words(r.of) \o <<r.compression>>>>
      [] r.method = "releases" -> <<r.method, Words(r.dist)>>
      [] r.method = "by-hash" ->
            <<r.method, Words(r.dist) \o Words(r.component) \o Words(r.of) \o <<r.digest>>>>
      [] r.method = "pool" -> <<r.method, Words(r.of)>>

-----------------------------------------------------------------------------
(* Upstream.                                                               *)

\* The path Upstream asks for.
UpstreamPath(r) ==
    CASE r.method = "releases" -> Path("dists", r.dist, "-", "-", "InRelease", "-", Nil)
      [] r.method = "packages" ->
            Path("binary", r.dist, r.component, r.of, "Packages", Extension(r.compression), Nil)
      [] r.method = "translations" ->
            Path("i18n", r.dist, r.component, r.of, "Translation", Extension(r.compression), Nil)
      [] r.method = "by-hash" ->
            Path("binary", r.dist, r.component, r.of, "by-hash-SHA256", "-", r.digest)
      [] r.method = "pool" -> Path("pool", "-", "-", r.of, "deb", "-", Nil)

\* The directories an archive keeps files by hash for: those of the same files.
SameDirectory(p, q) ==
    /\ p.dir = q.dir /\ p.dist = q.dist /\ p.component = q.component
    /\ p.dir = "binary" => p.of = q.of

\* What the archive has at a path in version v, Nil if that is empty.  By hash it keeps
\* what the version before had, too.
ArchiveHas(v, p) ==
    IF p.file = "by-hash-SHA256"
    THEN IF \E w \in {v, v - 1} \cap DOMAIN Archive : \E q \in DOMAIN Archive[w] :
              SameDirectory(p, q) /\ Archive[w][q] = p.digest
         THEN p.digest ELSE Failed
    ELSE IF p \in DOMAIN Archive[v] THEN Archive[v][p] ELSE Failed

\* Fault: the status is not looked at, and a 404 has no body.
UpstreamGet_AnyStatus(r) ==
    LET x == ArchiveHas(version, UpstreamPath(r)) IN IF x = Failed THEN Nil ELSE x

\* get: any status but 200 is an error.
UpstreamGet(r) == ArchiveHas(version, UpstreamPath(r))

-----------------------------------------------------------------------------
(* The index of a dynamic repository.                                      *)

compressors == {"-", "gz", "xz"}

List(packages, component, architecture) ==
    IF component \in DOMAIN packages /\ architecture \in DOMAIN packages[component]
    THEN packages[component][architecture]
    ELSE Nil

\* The lists there are: a component and an architecture each.
Lists(packages) ==
    UNION {{<<c, a>> : a \in DOMAIN packages[c]} : c \in DOMAIN packages}

\* Fault: the digests are those of the lists before they are compressed.
RenderPackages_DigestsRaw(packages, dist) ==
    [packages |-> packages,
     byHash |-> {Compress("-", List(packages, l[1], l[2])) : l \in Lists(packages)},
     inRelease |->
        [codename |-> dist,
         entries |-> {[component |-> l[1], architecture |-> l[2], suffix |-> Extension(z),
                       digest |-> Compress("-", List(packages, l[1], l[2]))] :
                      l \in Lists(packages), z \in compressors}]]

\* What is found by its hash: each list in each compression.
ByHashOf(packages) ==
    {Compress(z, List(packages, l[1], l[2])) : l \in Lists(packages), z \in compressors}

\* The files the release names, with their digests.
EntriesOf(packages) ==
    {[component |-> l[1], architecture |-> l[2], suffix |-> Extension(z),
      digest |-> Compress(z, List(packages, l[1], l[2]))] :
     l \in Lists(packages), z \in compressors}

\* renderPackages.
RenderPackages(packages, dist) ==
    [packages |-> packages,
     byHash |-> ByHashOf(packages),
     inRelease |-> [codename |-> dist, entries |-> EntriesOf(packages)]]

\* RepoSource: who signs, the archive's own keyring if the repository has no key.
RepoSource == IF repo.source = "dynamic" THEN [signedBy |-> "key"]
                                         ELSE [signedBy |-> "debian-archive-keyring"]

\* The answer of a dynamic repository with an index.  Translations are an error.
DynamicAnswer(idx, r) ==
    CASE r.method = "releases" -> idx.inRelease
      [] r.method = "packages" ->
            IF r.component \notin DOMAIN idx.packages THEN Nil
            ELSE Compress(r.compression, List(idx.packages, r.component, r.of))
      [] r.method = "by-hash" -> IF r.digest \in idx.byHash THEN r.digest ELSE Nil
      [] OTHER -> Failed

\* render: the index is kept if it is fresh, or taken for unchanged; else it is made anew,
\* with the distribution that was asked for.
Render(r) ==
    \/ index # Nil /\ UNCHANGED index
    \/ index' = RenderPackages(Listings[version], r.dist)

-----------------------------------------------------------------------------
(* What there may be to ask for and to answer.                             *)

\* The paths of the routes, a Packages file of one kind more, and both digests.
IsPath(p) ==
    \/ p = Path("-", "-", "-", "-", "repo.source", "-", Nil)
    \/ p = Path("dists", p.dist, "-", "-", "InRelease", "-", Nil)
    \/ /\ p = Path("binary", p.dist, p.component, p.of, "Packages", p.suffix, Nil)
       /\ p.suffix \in PackagesSuffix \cup {".bz2"}
    \/ p = Path("i18n", p.dist, p.component, p.of, "Translation", p.suffix, Nil)
    \/ p = Path("pool", "-", "-", p.of, "deb", "-", Nil)
    \/ /\ p \in {Path("binary", p.dist, p.component, p.of, p.file, "-", p.digest),
                Path("i18n", p.dist, p.component, "-", p.file, "-", p.digest)}
       /\ p.file \in {"by-hash-SHA256", "by-hash-MD5Sum"}
       /\ p.digest # Nil

ASSUME UrlAssumption == \A u \in Url : IsPath(u.path)

\* What has one word is that word, as an empty part is.
ASSUME WordsAssumption ==
    /\ Len(Words("-")) = 1
    /\ \A u \in Url : \A part \in {u.path.dist, u.path.component, u.path.of, "-"} :
         /\ Words(part) \in Seq(STRING) \ {<<>>}
         /\ Len(Words(part)) = 1 => Words(part) = <<part>>

\* An archive has no directory for an architecture without a name.
ASSUME ArchiveAssumption ==
    \A v \in DOMAIN Archive : \A q \in DOMAIN Archive[v] : q.dir = "binary" => q.of # "-"

\* Nil is neither an error, nor a call, nor a document of a dynamic repository.
ASSUME NilAssumption ==
    /\ Nil \notin {Failed, [signedBy |-> "key"], [signedBy |-> "debian-archive-keyring"]}
    /\ \A u \in Url :
         LET p == u.path
         IN /\ Nil \notin {Call("key", "-", "-", "-", "-", Nil), InRelease(p), Packages(p),
                           Translations(p), Pool(p),
                           Call("by-hash", p.dist, p.component, p.of, "-", p.digest),
                           Call("by-hash", p.dist, p.component, "-", "-", p.digest)}
            /\ \A v \in DOMAIN Listings :
                 Nil \notin {RenderPackages(Listings[v], p.dist).inRelease,
                            [list |-> List(Listings[v], p.component, p.of),
                             as |-> ParseCompression(p.suffix)]}

-----------------------------------------------------------------------------
(* BuildRepo, and the world around.                                        *)

CacheTypes == {"file-cache", "memory-cache"}

\* A configuration of caches around a source, or Nil: the program does not start.
BuildRepo(types) ==
    IF /\ \A i \in 1..(Len(types) - 1) : types[i] \in CacheTypes
       /\ Last(types) \in {"upstream", "dynamic"}
    THEN [caches |-> Len(types) - 1, source |-> Last(types)]
    ELSE Nil

NoUrl == [repo |-> Nil, path |-> Path("-", "-", "-", "-", "-", "-", Nil)]
NoReply == [status |-> 0, body |-> Nil]

Init ==
    /\ repo \in {BuildRepo(setup) : setup \in Setups} \ {Nil}
    /\ version = 1
    /\ index = Nil
    /\ store = [l \in 1..repo.caches |-> [k \in {} |-> Nil]]
    /\ pc = [c \in Client |-> "idle"]
    /\ url = [c \in Client |-> NoUrl]
    /\ request = [c \in Client |-> Nil]
    /\ at = [c \in Client |-> 1]
    /\ got = [c \in Client |-> Nil]
    /\ reply = [c \in Client |-> NoReply]

Change ==
    /\ version < Len(Archive)
    /\ version' = version + 1
    /\ UNCHANGED <<repo, index, store, requestVars>>

\* An entry expires, or is evicted.
Lose(l) ==
    /\ \E k \in DOMAIN store[l] :
         store' = [store EXCEPT ![l] = [x \in DOMAIN store[l] \ {k} |-> store[l][x]]]
    /\ UNCHANGED <<repo, version, index, requestVars>>

-----------------------------------------------------------------------------
(* A request.                                                              *)

\* Fault: the length is not looked at.
Write_Empty(x) ==
    IF x = Failed THEN [status |-> 500, body |-> Nil] ELSE [status |-> 200, body |-> x]

\* The handler's reply: what is empty is not found.
Write(x) ==
    CASE x = Failed -> [status |-> 500, body |-> Nil]
      [] x = Nil -> [status |-> 404, body |-> Nil]
      [] OTHER -> [status |-> 200, body |-> x]

Finish(c, x) ==
    /\ pc' = [pc EXCEPT ![c] = "idle"]
    /\ at' = [at EXCEPT ![c] = 1]
    /\ got' = [got EXCEPT ![c] = Nil]
    /\ request' = [request EXCEPT ![c] = Nil]
    /\ reply' = [reply EXCEPT ![c] = Write(x)]

\* The call of the repository at level l returns x, to the handler or to a cache.
Return(c, l, x) ==
    IF l = 1 \/ x = Failed THEN Finish(c, x)
    ELSE /\ pc' = [pc EXCEPT ![c] = "add"]
         /\ at' = [at EXCEPT ![c] = l - 1]
         /\ got' = [got EXCEPT ![c] = x]
         /\ UNCHANGED <<request, reply>>

\* Where a call comes in: SigningKeyPEM passes by the caches.
Entrance(r) == IF r.method = "key" THEN repo.caches + 1 ELSE 1

\* Where a call at level l goes on.
Enter(l) == IF l <= repo.caches THEN "get" ELSE "fetch"

Ask(c) ==
    /\ pc[c] = "idle"
    /\ \E u \in Url :
         /\ url' = [url EXCEPT ![c] = u]
         /\ IF u.repo # Name \/ Route(u.path) = Nil
            THEN Finish(c, Nil)
            ELSE /\ request' = [request EXCEPT ![c] = Route(u.path)]
                 /\ at' = [at EXCEPT ![c] = Entrance(Route(u.path))]
                 /\ pc' = [pc EXCEPT ![c] = Enter(Entrance(Route(u.path)))]
                 /\ reply' = [reply EXCEPT ![c] = NoReply]
                 /\ UNCHANGED got
    /\ UNCHANGED <<repo, version, index, store>>

Hit(c) ==
    /\ pc[c] = "get"
    /\ Key(request[c]) \in DOMAIN store[at[c]]
    /\ Return(c, at[c], store[at[c]][Key(request[c])])
    /\ UNCHANGED <<repo, version, index, store, url>>

Miss(c) ==
    /\ pc[c] = "get"
    /\ Key(request[c]) \notin DOMAIN store[at[c]]
    /\ at' = [at EXCEPT ![c] = @ + 1]
    /\ pc' = [pc EXCEPT ![c] = Enter(at[c] + 1)]
    /\ UNCHANGED <<repo, version, index, store, url, request, got, reply>>

FetchUpstream(c) ==
    /\ pc[c] = "fetch"
    /\ repo.source = "upstream"
    /\ request[c].method # "key"
    /\ Return(c, at[c], UpstreamGet(request[c]))
    /\ UNCHANGED <<repo, version, index, store, url>>

\* InRelease, Packages and ByHash render first.
FetchIndexed(c) ==
    /\ pc[c] = "fetch"
    /\ repo.source = "dynamic"
    /\ request[c].method \in {"releases", "packages", "by-hash"}
    /\ Render(request[c])
    /\ Return(c, at[c], DynamicAnswer(index', request[c]))
    /\ UNCHANGED <<repo, version, store, url>>

\* Pool asks the package source: for a file it has, has not, or has no more.
FetchPool(c) ==
    /\ pc[c] = "fetch"
    /\ repo.source = "dynamic"
    /\ request[c].method = "pool"
    /\ \E deb \in {Nil, request[c].of} : Return(c, at[c], deb)
    /\ UNCHANGED <<repo, version, index, store, url>>

FetchKey(c) ==
    /\ pc[c] = "fetch"
    /\ request[c].method = "key"
    /\ Finish(c, RepoSource)
    /\ UNCHANGED <<repo, version, index, store, url>>

\* Any source may fail, and a dynamic one has no translations.
FetchFails(c) ==
    /\ pc[c] = "fetch"
    /\ Return(c, at[c], Failed)
    /\ UNCHANGED <<repo, version, index, store, url>>

\* The storage keeps what was got, and of the rest as much as it has room for.
Add(c) ==
    /\ pc[c] = "add"
    /\ LET l == at[c]
           key == Key(request[c])
       IN /\ \E kept \in SUBSET (DOMAIN store[l] \ {key}) :
               /\ Cardinality(kept) < MaxStored
               /\ store' = [store EXCEPT ![l] =
                    [k \in kept \cup {key} |-> IF k = key THEN got[c] ELSE store[l][k]]]
          /\ Return(c, l, got[c])
    /\ UNCHANGED <<repo, version, index, url>>

Serve(c) ==
    \/ Hit(c) \/ Miss(c)
    \/ FetchUpstream(c) \/ FetchIndexed(c) \/ FetchPool(c) \/ FetchKey(c) \/ FetchFails(c)
    \/ Add(c)

Next ==
    \/ Change
    \/ \E l \in 1..repo.caches : Lose(l)
    \/ \E c \in Client : Ask(c) \/ Serve(c)

Spec == Init /\ [][Next]_vars

-----------------------------------------------------------------------------
(* Properties.                                                             *)

\* The variables have their types; a request is in a cache that there is, storages keep
\* to their size, and a 200 has a body.
TypeOK ==
    /\ repo.source \in {"upstream", "dynamic"}
    /\ version \in DOMAIN Archive
    /\ repo.source = "upstream" => index = Nil
    /\ DOMAIN store = 1..repo.caches
    /\ \A l \in DOMAIN store : Cardinality(DOMAIN store[l]) <= MaxStored
    /\ \A c \in Client :
         /\ pc[c] \in {"idle", "get", "fetch", "add"}
         /\ pc[c] = "idle" <=> request[c] = Nil
         /\ at[c] \in 1..(repo.caches + 1)
         /\ pc[c] \in {"get", "add"} => at[c] <= repo.caches
         /\ reply[c].status \in {0, 200, 404, 500}
         /\ reply[c].status = 200 <=> reply[c].body # Nil

\* The packages of a file Packages<suffix>, compressed as the suffix says.
ListAt(v, p) ==
    [list |-> List(Listings[v], p.component, p.of), as |-> ParseCompression(p.suffix)]

\* The path a URL is taken for: a suffix that Translations does not know stands for the
\* plain file.
Meant(p) ==
    Path(p.dir, p.dist, p.component, p.of, p.file, Extension(ParseCompression(p.suffix)),
         p.digest)

\* Is x what the source has, in version v, at a path?
Fits(v, p, x) ==
    IF p.file = "repo.source" THEN x = RepoSource
    ELSE IF repo.source = "upstream" THEN x = ArchiveHas(v, p)
    ELSE CASE p.file = "InRelease" ->
                x.entries = RenderPackages(Listings[v], p.dist).inRelease.entries
           [] p.file = "Packages" -> x = ListAt(v, p)
           [] p.file = "by-hash-SHA256" -> x = p.digest
           [] p.file = "deb" -> x = p.of
           [] OTHER -> FALSE

\* No part of the path has a blank in it.
Plain(p) == \A part \in {p.dist, p.component, p.of} : Len(Words(part)) = 1

\* What a client is given is a content that the document under its URL has, or had:
\* not another component's or architecture's, not in another compression, and by hash
\* the one with the hash, through routes, keys, caches and upstream paths, and whatever
\* other requests do meanwhile.  Of a URL without blanks, that is: the keys of others may
\* meet, and they share an entry then, with one another but not with one of those.
AnswersFitTheQuestion ==
    \A c \in Client :
        Plain(url[c].path) /\ reply[c].status = 200 =>
            \E v \in 1..version : Fits(v, Meant(url[c].path), reply[c].body)

\* Could the source deny the path in version v?
Lacks(v, p) ==
    IF repo.source = "upstream" THEN p \in DOMAIN Archive[v] /\ Archive[v][p] = Nil
    ELSE CASE p.file = "Packages" -> List(Listings[v], p.component, p.of) = Nil
           [] p.file = "by-hash-SHA256" ->
                p.digest \notin RenderPackages(Listings[v], p.dist).byHash
           [] p.file = "deb" -> TRUE
           [] OTHER -> FALSE

\* A client is told that there is no such file only if it asks for another repository or
\* for what no route is for, or if the source lacked the file: a failure, upstream's
\* own 404 included, is not passed off as an absence, and none is cached as one.  Of a URL
\* without blanks, again.
DenialsAreTrue ==
    \A c \in Client :
        Plain(url[c].path) /\ reply[c].status = 404 =>
            \/ url[c].repo # Name
            \/ url[c].path.file = "Packages" /\ url[c].path.suffix = ".bz2"
            \/ url[c].path.file = "by-hash-MD5Sum"
            \/ \E v \in 1..version : Lacks(v, Meant(url[c].path))

\* The release of an index and its files agree: under the path of each entry, and by its
\* hash, is the file that has the digest, and each list is in it in each compression
\* that can be asked for.
ReleaseDescribesIndex ==
    index # Nil =>
        /\ \A e \in index.inRelease.entries :
             LET answer(file, suffix, digest) ==
                    DynamicAnswer(index, Route(Path("binary", index.inRelease.codename,
                        e.component, e.architecture, file, suffix, digest)))
             IN /\ answer("Packages", e.suffix, Nil) = e.digest
                /\ answer("by-hash-SHA256", "-", e.digest) = e.digest
        /\ \A l \in Lists(index.packages) : \A suffix \in {"-", ".gz", ".xz"} :
             \E e \in index.inRelease.entries :
                 e.component = l[1] /\ e.architecture = l[2] /\ e.suffix = suffix

\* "ByHash fetches metadata (e.g. an architecture's package list) by its hash", and the
\* release says "Acquire-By-Hash": a digest that the InRelease in a cache names is not
\* denied.
PromisedIsServed ==
    [][\A c \in Client : \A l \in 1..repo.caches :
        LET key == Key(InRelease(url[c].path))
        IN /\ pc[c] # "idle" /\ reply'[c].status = 404
           /\ url[c].path.file = "by-hash-SHA256"
           /\ key \in DOMAIN store[l]
           => \A e \in store[l][key].entries : e.digest # url[c].path.digest]_vars

=============================================================================
