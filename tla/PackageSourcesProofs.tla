------------------------ MODULE PackageSourcesProofs ------------------------
(***************************************************************************)
(* Proofs about PackageSources: for any repositories, releases, assets,    *)
(* configurations and evidence, any directory, and any times.              *)
(***************************************************************************)
EXTENDS PackageSources, SignaturesProofs

-----------------------------------------------------------------------------
(* The inductive invariant.                                                *)

IsRecord(l) ==
    DOMAIN l = {"phase", "todo", "repo", "releases", "assets", "sums", "hasDeb", "bytes"}

\* What is left of the releases are some of the repository, with timestamps of the past.
ReleasesOK(repo, releases, n) ==
    /\ DOMAIN releases \subseteq Nat
    /\ \A i \in DOMAIN releases : /\ Contains(Catalog[repo], releases[i].tag)
                                  /\ releases[i].uploaded \in 0..n

\* What is left of the assets are some of the first release that is left.
Underway(l, n) ==
    /\ l.repo \in Repo
    /\ ReleasesOK(l.repo, l.releases, n) /\ ~Done(l.releases)
    /\ DOMAIN l.assets \subseteq Nat
    /\ \A i \in DOMAIN l.assets :
         /\ Contains(Assets[First(l.releases).tag], l.assets[i])
         /\ l.phase \in {"sums", "judge-sums"} =>
              File[l.assets[i]].name = SumsName[First(l.releases).tag]
    /\ l.phase \in {"judge-sums", "judge-deb"} =>
         ~Done(l.assets) /\ l.bytes = First(l.assets)

\* The verifier of a repository says yes to an asset of a release, on the evidence att.
SaysYes(c, att, repo, rel, a) ==
    Verify(SignerOf(Config[c], repo), rel, Evidences(a, att[a])) = "yes"

\* The sums come from a checksum file of the release that was accepted, and it had some;
\* without one configured there are none.
SumsFrom(c, att, repo, rel, sums) ==
    IF Config[c].repos[repo].checksums
    THEN /\ sums # NoSums
         /\ \E s \in Asset :
              /\ Contains(Assets[rel], s)
              /\ File[s].name = SumsName[rel]
              /\ SaysYes(c, att, repo, rel, s)
              /\ sums = ParseSums(File[s].sums)
    ELSE sums = NoSums

LoopAt(l, n, c, att) ==
    /\ IsRecord(l)
    /\ l.phase \in {"idle", "repo", "sums", "judge-sums", "assets", "judge-deb"}
    /\ l.todo \subseteq Repo
    /\ l.phase \notin {"idle", "repo"} => Underway(l, n)
    /\ l.phase \in {"sums", "judge-sums"} => Config[c].repos[l.repo].checksums
    /\ l.phase \in {"assets", "judge-deb"} =>
         SumsFrom(c, att, l.repo, First(l.releases).tag, l.sums)

LoopOK == LoopAt(loop, now, config, attested)

Located(repo, rel, a) ==
    /\ repo \in Repo /\ rel \in Release /\ a \in Asset
    /\ Contains(Catalog[repo], rel) /\ Contains(Assets[rel], a)

\* A package is made of one asset, under the name of its repository, that is accepted.
IsPackage(pkg) ==
    \E repo, rel, a :
        /\ Located(repo, rel, a)
        /\ pkg = Package(Key(repo, a), a, a, a)
        /\ Accepted(a)

ListOK == \A pkg \in list \cup rendered : IsPackage(pkg)

\* What is cached under the key of an asset is that asset.
CacheOK ==
    \A k \in DOMAIN cache :
        \E repo \in Repo : \E a \in Asset : k = Key(repo, a) /\ cache[k].bytes = a

\* The walk has left some of the names; the file it looks at is the first of them.  If that
\* has not changed since the walk began, it is what the walk has read of it so far.
WalkOK ==
    /\ DOMAIN walk = {"names", "file", "info", "control"}
    /\ DOMAIN walk.names \subseteq DOMAIN Names
    /\ \A i \in DOMAIN walk.names : walk.names[i] = Names[i]
    /\ walk.file = Gone => walk.control = Gone
    /\ walk.file # Gone => ~Done(walk.names) /\ walk.file = First(walk.names)
    /\ walk.file # Gone /\ walk.file \notin touched =>
         /\ files[walk.file] # Gone
         /\ walk.info = files[walk.file].content
         /\ walk.control # Gone => /\ walk.control = files[walk.file].content
                                   /\ Readings[walk.control].status = "ok"

\* What an index should have of a file.
Due(f) ==
    IF LocalDeb(f) = Gone THEN {}
    ELSE LET c == LocalDeb(f)
         IN {LocalPackage(f, c, c, c) : x \in {x \in {c} : Readings[x].status = "ok"}}

Of(f, packages) == {pkg \in packages : pkg.filename = f}

Left == {walk.names[i] : i \in DOMAIN walk.names}

\* A walk has listed what it should of the files behind it, and nothing of those ahead.
WalkedOK ==
    listing => \A f \in DebFile \ touched :
                  Of(f, list) = IF f \in Left THEN {} ELSE Due(f)

\* The index has what it should of the files that have not changed.
IndexOK == renderTime # 0 => \A f \in DebFile \ dirty : Of(f, rendered) = Due(f)

IInv ==
    /\ TypeOK
    /\ source = "github" => LoopOK /\ ListOK /\ CacheOK
    /\ source = "files" => WalkOK /\ WalkedOK /\ IndexOK

-----------------------------------------------------------------------------
(* What is next.                                                           *)

LEMMA MinIsLeast ==
  ASSUME NEW T \in SUBSET Nat, T # {}
  PROVE  Min(T) \in T /\ \A y \in T : Min(T) <= y
BY Least DEF Min

\* What a loop has next is one of what is left, and the rest is left.
LEMMA NextUp ==
  ASSUME NEW todo, DOMAIN todo \subseteq Nat, ~Done(todo)
  PROVE  \E i \in DOMAIN todo :
            /\ First(todo) = todo[i]
            /\ DOMAIN Rest(todo) = DOMAIN todo \ {i}
            /\ \A j \in DOMAIN Rest(todo) : Rest(todo)[j] = todo[j]
<1>1. Min(DOMAIN todo) \in DOMAIN todo
  BY MinIsLeast DEF Done
<1> QED BY <1>1 DEF First, Rest

-----------------------------------------------------------------------------
(* Checksums.                                                              *)

\* What counts for a file is a line about it.
LEMMA SumIsALine ==
  ASSUME NEW a \in Asset, NEW f \in DOMAIN ParseSums(File[a].sums)
  PROVE  \E k \in DOMAIN File[a].sums :
            /\ File[a].sums[k].file = f
            /\ File[a].sums[k].digest = ParseSums(File[a].sums)[f]
<1> DEFINE lines == File[a].sums
           T == {i \in DOMAIN lines : lines[i].file = f}
           n == Len(lines)
<1>1. n \in Nat /\ DOMAIN lines = 1..n
  BY FileAssumption
<1>2. f \in {lines[i].file : i \in DOMAIN lines}
  BY DEF ParseSums
<1>3. T \in SUBSET (1..n) /\ T # {}
  BY <1>1, <1>2
<1>4. PICK x \in T : \A y \in T : y <= x
  <2> HIDE DEF n, T
  <2> QED BY <1>1, <1>3, Greatest
<1> DEFINE LastLeft(i) == lines[i].file = f /\ \A j \in DOMAIN lines : lines[j].file = f => j <= i
<1>5. x \in DOMAIN lines /\ LastLeft(x)
  BY <1>4
<1>6. (CHOOSE i \in DOMAIN lines : LastLeft(i)) \in DOMAIN lines /\ LastLeft(CHOOSE i \in DOMAIN lines : LastLeft(i))
  <2> HIDE DEF lines, LastLeft
  <2> QED BY <1>5
<1>7. ParseSums(lines)[f] = lines[CHOOSE i \in DOMAIN lines : LastLeft(i)].digest
  BY <1>2 DEF ParseSums
<1> QED BY <1>6, <1>7

\* A checksum file that can be used has sums.
LEMMA UsableHasSums ==
  ASSUME NEW a \in Asset, Usable(File[a].sums)
  PROVE  ParseSums(File[a].sums) # NoSums
<1> DEFINE lines == File[a].sums
<1>1. \E i : i \in DOMAIN lines
  BY DEF Usable, SumsAlgorithms
<1>2. DOMAIN ParseSums(lines) # {}
  BY <1>1 DEF ParseSums
<1>3. DOMAIN NoSums = {}
  BY DEF NoSums
<1> QED BY <1>2, <1>3

-----------------------------------------------------------------------------
(* Verifiers.                                                              *)

LEMMA Signers ==
  ASSUME NEW c \in DOMAIN Config, NEW repo \in Repo
  PROVE  SignerOf(Config[c], repo).kind \in {"fixed", "rekor", "github"}
BY ConfigAssumption DEF SignerOf

LEMMA EvidencesType ==
  ASSUME NEW a \in Asset, NEW e \in 0..Len(Testimony[a])
  PROVE  Evidences(a, e) \in Seq(Evidence)
<1> DEFINE Some == Seq(Evidence)
<1>1. Testimony[a] \in Seq(Some)
  BY EvidenceAssumption
<1>2. <<>> \in Some
  OBVIOUS
<1>3. CASE e = 0
  BY <1>2, <1>3 DEF Evidences
<1>4. CASE e # 0
  <2>1. e \in DOMAIN Testimony[a] /\ Testimony[a][e] \in Some
    <3> HIDE DEF Some
    <3> QED BY <1>1, <1>4
  <2> QED BY <1>4, <2>1 DEF Evidences
<1> QED BY <1>3, <1>4

\* The verdict on the bytes in hand is that of the verifier of the repository.
LEMMA VerdictIs ==
  ASSUME TypeOK, loop.repo \in Repo, tag \in Release, loop.bytes \in Asset
  PROVE  Verdict = Verify(SignerOf(Config[config], loop.repo), tag,
                          Evidences(loop.bytes, attested[loop.bytes]))
<1>1. config \in DOMAIN Config /\ attested[loop.bytes] \in 0..Len(Testimony[loop.bytes])
  BY DEF TypeOK
<1> QED BY <1>1 DEF Verdict, Verdicts

\* Without evidence, only the verifier that is always content says yes.
LEMMA NoEvidence ==
  ASSUME NEW signed, NEW rel, signed.kind \in {"fixed", "rekor", "github"},
         Verify(signed, rel, <<>>) = "yes"
  PROVE  \A evs : Verify(signed, rel, evs) = "yes"
<1>1. CASE signed.kind = "fixed"
  BY <1>1 DEF Verify
<1>2. CASE signed.kind \in {"rekor", "github"}
  <2>1. \E i \in DOMAIN <<>> : TRUE
    BY <1>2, YesOfOne
  <2> QED BY <2>1
<1> QED BY <1>1, <1>2

\* A yes stays one: evidence is added where there is none, and never taken away.
LEMMA StaysYes ==
  ASSUME NEW c \in DOMAIN Config, NEW repo \in Repo, NEW rel, NEW a \in Asset,
         \/ UNCHANGED attested
         \/ \E r \in Release, x \in Asset : TypeOK /\ Attest(r, x),
         SaysYes(c, attested, repo, rel, a)
  PROVE  SaysYes(c, attested', repo, rel, a)
<1>1. CASE UNCHANGED attested
  BY <1>1
<1>2. ASSUME NEW r \in Release, NEW x \in Asset, TypeOK, Attest(r, x)
      PROVE  SaysYes(c, attested', repo, rel, a)
  <2>1. CASE a # x
    BY <1>2, <2>1 DEF Attest, TypeOK, SaysYes
  <2>2. CASE a = x
    <3>1. Evidences(a, attested[a]) = <<>>
      BY <1>2, <2>2 DEF Attest, Evidences
    <3>2. Verify(SignerOf(Config[c], repo), rel, <<>>) = "yes"
      BY <3>1 DEF SaysYes
    <3> QED BY <3>2, Signers, NoEvidence DEF SaysYes
  <2> QED BY <2>1, <2>2
<1> QED BY <1>1, <1>2

-----------------------------------------------------------------------------
(* Packages.                                                               *)

LEMMA InCatalog ==
  ASSUME NEW repo \in Repo, NEW rel, Contains(Catalog[repo], rel)
  PROVE  rel \in Release
BY CatalogAssumption DEF Contains

LEMMA InRelease ==
  ASSUME NEW rel \in Release, NEW a, Contains(Assets[rel], a)
  PROVE  a \in Asset
BY ReleaseAssumption DEF Contains

\* There is one way to an asset.
LEMMA OneWay ==
  ASSUME NEW repo, NEW rel, NEW a, Located(repo, rel, a)
  PROVE  ReleaseOf(a) = rel /\ RepoOf(rel) = repo
<1>1. /\ rel \in Release /\ Contains(Assets[rel], a)
      /\ \A other \in Release : Contains(Assets[other], a) => other = rel
  BY ReleaseAssumption DEF Located
<1>2. /\ repo \in Repo /\ Contains(Catalog[repo], rel)
      /\ \A other \in Repo : Contains(Catalog[other], rel) => other = repo
  BY CatalogAssumption DEF Located
<1> QED BY <1>1, <1>2 DEF ReleaseOf, RepoOf

\* To accept an asset is to say yes to it, or to a checksum file of its release.
LEMMA AcceptedIs ==
  ASSUME NEW repo, NEW rel, NEW a, Located(repo, rel, a)
  PROVE  /\ \A file \in ToBeSigned(a) : file \in Asset
         /\ Accepted(a) <=>
              \E file \in ToBeSigned(a) : SaysYes(config, attested, repo, rel, file)
<1>1. ReleaseOf(a) = rel /\ RepoOf(rel) = repo /\ rel \in Release /\ a \in Asset
  BY OneWay DEF Located
<1>2. ToSet(Assets[rel]) \subseteq Asset
  BY <1>1, ReleaseAssumption DEF ToSet
<1>3. \A file \in ToBeSigned(a) : file \in Asset
  BY <1>1, <1>2 DEF ToBeSigned, ChecksumsOf
<1>4. SignerFor(a) = SignerOf(Config[config], repo)
  BY <1>1 DEF SignerFor, signer, Setup
<1> QED BY <1>1, <1>3, <1>4 DEF Accepted, SaysYes, evidence

\* What is accepted stays so.
LEMMA StaysAccepted ==
  ASSUME NEW repo, NEW rel, NEW a, Located(repo, rel, a), TypeOK, UNCHANGED config,
         \/ UNCHANGED attested
         \/ \E r \in Release, x \in Asset : TypeOK /\ Attest(r, x),
         Accepted(a)
  PROVE  Accepted(a)'
<1>1. repo \in Repo /\ config \in DOMAIN Config
  BY DEF Located, TypeOK
<1>2. PICK file \in ToBeSigned(a) : file \in Asset /\ SaysYes(config, attested, repo, rel, file)
  BY AcceptedIs
<1>3. SaysYes(config, attested', repo, rel, file)
  BY <1>1, <1>2, StaysYes
<1>4. ToBeSigned(a)' = ToBeSigned(a) /\ SignerFor(a)' = SignerOf(Config[config], repo)
      /\ ReleaseOf(a) = rel
  BY OneWay DEF ToBeSigned, SignerFor, signer, Setup
<1> QED BY <1>2, <1>3, <1>4 DEF Accepted, SaysYes, evidence

-----------------------------------------------------------------------------
(* The loops.                                                              *)

LEMMA BetweenOK ==
  ASSUME NEW phase \in {"idle", "repo"}, NEW todo \in SUBSET Repo, NEW n, NEW c, NEW att
  PROVE  LoopAt(Between(phase, todo), n, c, att)
<1> DEFINE l == Between(phase, todo)
<1>1. IsRecord(l) /\ l.phase = phase /\ l.todo = todo
  BY DEF Between, IsRecord
<1> HIDE DEF l
<1>2. LoopAt(l, n, c, att)
  BY <1>1 DEF LoopAt
<1> QED BY <1>2 DEF l

\* A listing of the first release begins, with the sums there are.
LEMMA LookingOK ==
  ASSUME TypeOK, NEW todo \in SUBSET Repo, NEW repo \in Repo, NEW releases, NEW sums,
         ReleasesOK(repo, releases, now), ~Done(releases), NEW phase \in {"sums", "assets"},
         phase = "sums" => Setup.repos[repo].checksums,
         phase = "assets" => SumsFrom(config, attested, repo, First(releases).tag, sums)
  PROVE  LoopAt(Looking(phase, todo, repo, releases, sums), now, config, attested)
<1> DEFINE l == Looking(phase, todo, repo, releases, sums)
<1>1. PICK rel \in Release : rel = First(releases).tag
  <2>1. PICK i \in DOMAIN releases : First(releases) = releases[i]
    BY NextUp DEF ReleasesOK
  <2> QED BY <2>1, InCatalog DEF ReleasesOK
<1>2. DOMAIN Assets[rel] = 1..Len(Assets[rel]) /\ Len(Assets[rel]) \in Nat
  BY ReleaseAssumption
<1> DEFINE left == AssetsFor(phase, rel)
<1>3. /\ DOMAIN left \subseteq Nat
      /\ \A j \in DOMAIN left : /\ Contains(Assets[rel], left[j])
                                /\ phase = "sums" => File[left[j]].name = SumsName[rel]
  <2>1. /\ DOMAIN left \subseteq DOMAIN Assets[rel]
        /\ \A j \in DOMAIN left : left[j] = Assets[rel][j] /\ Wanted(phase, rel, left[j])
    BY DEF AssetsFor
  <2> HIDE DEF left
  <2> QED BY <1>2, <2>1 DEF Wanted, Contains
<1> HIDE DEF left
<1>4. /\ l.phase = phase /\ l.todo = todo /\ l.repo = repo /\ l.releases = releases
      /\ l.assets = left /\ l.sums = sums
  BY <1>1 DEF Looking, left
<1>5. IsRecord(l)
  BY DEF Looking, IsRecord
<1> HIDE DEF l
<1>6. Underway(l, now)
  BY <1>1, <1>3, <1>4 DEF Underway
<1>7. LoopAt(l, now, config, attested)
  BY <1>1, <1>4, <1>5, <1>6 DEF LoopAt, Setup
<1> QED BY <1>7 DEF l

LEMMA NextReleaseOK ==
  ASSUME TypeOK, NEW todo \in SUBSET Repo, NEW repo \in Repo, NEW releases,
         ReleasesOK(repo, releases, now)
  PROVE  LoopAt(NextRelease(todo, repo, releases), now, config, attested)
<1>1. CASE Done(releases)
  BY <1>1, BetweenOK DEF NextRelease, NextRepo
<1>2. CASE ~Done(releases) /\ Setup.repos[repo].checksums
  BY <1>2, LookingOK DEF NextRelease
<1>3. CASE ~Done(releases) /\ ~Setup.repos[repo].checksums
  <2>1. SumsFrom(config, attested, repo, First(releases).tag, NoSums)
    BY <1>3 DEF SumsFrom, Setup
  <2> QED BY <1>3, <2>1, LookingOK DEF NextRelease
<1> QED BY <1>1, <1>2, <1>3

\* Time passes, evidence is added: what the loop has stays right.
LEMMA LoopStays ==
  ASSUME TypeOK, LoopOK, UNCHANGED <<loop, config>>, now' \in Nat, now <= now',
         \/ UNCHANGED attested
         \/ \E r \in Release, x \in Asset : TypeOK /\ Attest(r, x)
  PROVE  LoopOK'
<1>1. ASSUME Underway(loop, now) PROVE Underway(loop, now')
  BY <1>1 DEF Underway, ReleasesOK, TypeOK
<1>2. ASSUME NEW rel, loop.repo \in Repo, SumsFrom(config, attested, loop.repo, rel, loop.sums)
      PROVE  SumsFrom(config, attested', loop.repo, rel, loop.sums)
  <2>1. config \in DOMAIN Config
    BY DEF TypeOK
  <2> QED BY <1>2, <2>1, StaysYes DEF SumsFrom
<1> QED BY <1>1, <1>2 DEF LoopOK, LoopAt, Underway

\* The asset in hand, and where it is.
LEMMA InHand ==
  ASSUME TypeOK, LoopOK, loop.phase \notin {"idle", "repo"}
  PROVE  /\ loop.repo \in Repo /\ tag \in Release /\ Contains(Catalog[loop.repo], tag)
         /\ CurrentRelease.uploaded \in 0..now
         /\ ~Done(loop.assets) => Located(loop.repo, tag, CurrentAsset)
         /\ loop.phase \in {"judge-sums", "judge-deb"} =>
              ~Done(loop.assets) /\ loop.bytes = CurrentAsset
<1>1. Underway(loop, now)
  BY DEF LoopOK, LoopAt
<1>2. PICK i \in DOMAIN loop.releases : First(loop.releases) = loop.releases[i]
  BY <1>1, NextUp DEF Underway, ReleasesOK
<1>3. /\ loop.repo \in Repo /\ Contains(Catalog[loop.repo], tag)
      /\ CurrentRelease.uploaded \in 0..now
  BY <1>1, <1>2 DEF Underway, ReleasesOK, tag, CurrentRelease
<1>4. tag \in Release
  BY <1>3, InCatalog
<1>5. ASSUME ~Done(loop.assets) PROVE Located(loop.repo, tag, CurrentAsset)
  <2>1. PICK j \in DOMAIN loop.assets : First(loop.assets) = loop.assets[j]
    BY <1>1, <1>5, NextUp DEF Underway
  <2>2. Contains(Assets[tag], CurrentAsset)
    BY <1>1, <2>1 DEF Underway, CurrentAsset, tag, CurrentRelease
  <2> QED BY <1>3, <1>4, <2>2, InRelease DEF Located
<1> QED BY <1>1, <1>3, <1>4, <1>5 DEF Underway, CurrentAsset

-----------------------------------------------------------------------------
(* Types.                                                                  *)

\* What the clock and the flags of a rendering may be.
Times == /\ now \in Nat /\ renderTime \in 0..now /\ latest \in 0..now /\ began \in 0..now
         /\ {listing, quiet, raced} \subseteq BOOLEAN

LEMMA ChangesTimes ==
  ASSUME Times, NEW shows, Changes(shows)
  PROVE  Times' /\ UNCHANGED <<now, renderTime, rendered, listingVars>>
<1>1. {listing', quiet', raced'} \subseteq BOOLEAN
  BY DEF Times, Changes, listingVars
<1>2. UNCHANGED <<now, renderTime, rendered, listingVars>>
  BY DEF Changes
<1> QED BY <1>1, <1>2 DEF Times, listingVars

LEMMA BeginTimes ==
  ASSUME Times, BeginListing
  PROVE  Times' /\ now' = now
<1>1. {listing', quiet', raced'} \subseteq BOOLEAN
  BY DEF Times, BeginListing
<1>2. /\ now' = now /\ renderTime' = renderTime
      /\ latest' = 0 /\ began' = now
  BY DEF BeginListing
<1> QED BY <1>1, <1>2 DEF Times

LEMMA EndTimes ==
  ASSUME Times, EndListing
  PROVE  Times' /\ now' = now
<1>1. {listing', quiet', raced'} \subseteq BOOLEAN
  BY DEF Times, EndListing, Return
<1> QED BY <1>1 DEF Times, EndListing, Return

LEMMA FailTimes ==
  ASSUME Times, FailListing
  PROVE  Times' /\ now' = now
<1>1. {listing', quiet', raced'} \subseteq BOOLEAN
  BY DEF Times, FailListing, Return
<1>2. /\ now' = now /\ renderTime' = renderTime
      /\ latest' = 0 /\ began' = began
  BY DEF FailListing, Return
<1> QED BY <1>1, <1>2 DEF Times

LEMMA FoundTimes ==
  ASSUME Times, NEW pkg, NEW stamp \in 0..now, Found(pkg, stamp)
  PROVE  Times' /\ now' = now
BY DEF Times, Found, Later

LEMMA TickTimes ==
  ASSUME Times, Tick
  PROVE  Times' /\ now' \in Nat /\ now <= now' /\ UNCHANGED <<rendered, list>>
BY DEF Times, Tick, listingVars

LEMMA StillTimes ==
  ASSUME Times, UNCHANGED <<now, renderTime, latest, began, listing, quiet, raced>>
  PROVE  Times'
BY DEF Times

\* The rest of the types.
World ==
    /\ source \in {"github", "files"}
    /\ config \in DOMAIN Config
    /\ world \in [Release -> [state : ReleaseState, uploaded : 0..now]]
    /\ attested \in [Asset -> Nat] /\ \A a \in Asset : attested[a] <= Len(Testimony[a])
    /\ \A k \in DOMAIN cache : cache[k] \in [bytes : Asset, added : 0..now]
    /\ files \in [DebFile -> {Gone} \cup [content : Text, mtime : 0..now]]
    /\ touched \cup dirty \subseteq DebFile

LEMMA Types ==
  /\ TypeOK <=> Times /\ World
  /\ TypeOK' <=> Times' /\ World'
<1>1. TypeOK => Times /\ World
  BY DEF TypeOK, Times, World
<1>2. Times /\ World => TypeOK
  BY DEF TypeOK, Times, World
<1>3. TypeOK' => Times' /\ World'
  BY DEF TypeOK, Times, World
<1>4. Times' /\ World' => TypeOK'
  BY DEF TypeOK, Times, World
<1> QED BY <1>1, <1>2, <1>3, <1>4

LEMMA WorldStays ==
  ASSUME Times, World, now' \in Nat, now <= now',
         UNCHANGED <<source, config, world, attested, cache, files, touched, dirty>>
  PROVE  World'
<1>1. 0..now \subseteq 0..now'
  BY DEF Times
<1>2. /\ [state : ReleaseState, uploaded : 0..now] \subseteq [state : ReleaseState, uploaded : 0..now']
      /\ [bytes : Asset, added : 0..now] \subseteq [bytes : Asset, added : 0..now']
      /\ [content : Text, mtime : 0..now] \subseteq [content : Text, mtime : 0..now']
  BY <1>1
<1> DEFINE States(n) == [state : ReleaseState, uploaded : 0..n]
           Entries(n) == [bytes : Asset, added : 0..n]
           Contained(n) == [content : Text, mtime : 0..n]
<1> HIDE DEF States, Entries, Contained
<1>3. World'
  BY <1>2 DEF World, States, Entries, Contained
<1> QED BY <1>3

-----------------------------------------------------------------------------
(* Steps of the loops.                                                     *)

LEMMA PackagesStay ==
  ASSUME TypeOK, ListOK, UNCHANGED config, list' \cup rendered' \subseteq list \cup rendered,
         \/ UNCHANGED attested
         \/ \E r \in Release, x \in Asset : TypeOK /\ Attest(r, x)
  PROVE  ListOK'
<1> SUFFICES ASSUME NEW pkg \in list' \cup rendered' PROVE IsPackage(pkg)'
  BY DEF ListOK
<1>1. PICK repo, rel, a : /\ Located(repo, rel, a)
                          /\ pkg = Package(Key(repo, a), a, a, a)
                          /\ Accepted(a)
  BY DEF ListOK, IsPackage
<1>2. Accepted(a)'
  BY <1>1, StaysAccepted
<1> QED BY <1>1, <1>2 DEF IsPackage

LEMMA JudgingOK ==
  ASSUME LoopOK, Fetching, Judging(CurrentAsset), UNCHANGED <<now, config, attested>>
  PROVE  LoopOK'
<1>1. /\ loop'.todo = loop.todo /\ loop'.repo = loop.repo /\ loop'.releases = loop.releases
      /\ loop'.assets = loop.assets /\ loop'.sums = loop.sums
      /\ loop'.bytes = First(loop.assets) /\ IsRecord(loop')
      /\ loop.phase = "sums" => loop'.phase = "judge-sums"
      /\ loop.phase = "assets" => loop'.phase = "judge-deb"
  BY DEF Fetching, Judging, CurrentAsset, LoopOK, LoopAt, IsRecord
<1>2. loop.phase \in {"sums", "assets"} /\ ~Done(loop.assets)
  BY DEF Fetching
<1>3. Underway(loop', now)
  BY <1>1, <1>2 DEF LoopOK, LoopAt, Underway
<1> QED BY <1>1, <1>2, <1>3 DEF LoopOK, LoopAt

LEMMA NextAssetOK ==
  ASSUME LoopOK, loop.phase \in {"judge-sums", "judge-deb"}, NEW hasDeb, NextAsset(hasDeb),
         UNCHANGED <<now, config, attested>>
  PROVE  LoopOK'
<1>1. /\ loop'.todo = loop.todo /\ loop'.repo = loop.repo /\ loop'.releases = loop.releases
      /\ loop'.assets = Rest(loop.assets) /\ loop'.sums = loop.sums /\ IsRecord(loop')
      /\ loop.phase = "judge-sums" => loop'.phase = "sums"
      /\ loop.phase = "judge-deb" => loop'.phase = "assets"
  BY DEF NextAsset, LoopOK, LoopAt, IsRecord
<1>2. Underway(loop, now)
  BY DEF LoopOK, LoopAt
<1>3. /\ DOMAIN Rest(loop.assets) \subseteq DOMAIN loop.assets
      /\ \A j \in DOMAIN Rest(loop.assets) : Rest(loop.assets)[j] = loop.assets[j]
  BY <1>2, NextUp DEF Underway
<1>4. Underway(loop', now)
  BY <1>1, <1>2, <1>3 DEF Underway
<1> QED BY <1>1, <1>4 DEF LoopOK, LoopAt

LEMMA ListReleasesOK ==
  ASSUME TypeOK, LoopOK, NEW repo \in Repo, ListReleases(repo)
  PROVE  LoopOK'
<1>1. UNCHANGED <<now, config, attested>> /\ loop.todo \ {repo} \in SUBSET Repo
  BY DEF ListReleases, renderingVars, LoopOK, LoopAt
<1>2. Catalog[repo] \in Seq(Release)
  BY CatalogAssumption
<1>3. ReleasesOK(repo, Listed(repo), now)
  <2>1. /\ DOMAIN Catalog[repo] = 1..Len(Catalog[repo])
        /\ \A i \in DOMAIN Catalog[repo] :
             Catalog[repo][i] \in Release /\ world[Catalog[repo][i]].uploaded \in 0..now
    BY <1>2 DEF TypeOK
  <2>2. DOMAIN Listed(repo) \subseteq Page(repo) /\ Page(repo) \subseteq DOMAIN Catalog[repo]
    BY DEF Listed, Page
  <2>3. \A i \in DOMAIN Listed(repo) :
          /\ Listed(repo)[i].tag = Catalog[repo][i]
          /\ Listed(repo)[i].uploaded = world[Catalog[repo][i]].uploaded
    BY DEF Listed
  <2> QED BY <2>1, <2>2, <2>3 DEF ReleasesOK, Contains
<1>4. LoopAt(NextRelease(loop.todo \ {repo}, repo, Listed(repo)), now, config, attested)
  BY <1>1, <1>3, NextReleaseOK
<1> QED BY <1>1, <1>4 DEF ListReleases, LoopOK

LEMMA EndReleaseOK ==
  ASSUME TypeOK, LoopOK, EndRelease
  PROVE  LoopOK'
<1>1. UNCHANGED <<now, config, attested>> /\ loop.todo \in SUBSET Repo
  BY DEF EndRelease, renderingVars, LoopOK, LoopAt
<1>2. Underway(loop, now)
  BY DEF LoopOK, LoopAt, EndRelease, InPhase
<1>3. /\ DOMAIN Rest(loop.releases) \subseteq DOMAIN loop.releases
      /\ \A j \in DOMAIN Rest(loop.releases) : Rest(loop.releases)[j] = loop.releases[j]
  BY <1>2, NextUp DEF Underway, ReleasesOK
<1>4. ReleasesOK(loop.repo, Rest(loop.releases), now)
  BY <1>2, <1>3 DEF Underway, ReleasesOK
<1>5. LoopAt(NextRelease(loop.todo, loop.repo, Rest(loop.releases)), now, config, attested)
  BY <1>1, <1>2, <1>4, NextReleaseOK DEF Underway
<1>6. LoopAt(NextRepo(loop.todo), now, config, attested)
  BY <1>1, BetweenOK DEF NextRepo
<1> QED BY <1>1, <1>5, <1>6 DEF EndRelease, LoopOK

LEMMA JudgeSumsOK ==
  ASSUME TypeOK, LoopOK, JudgeSums
  PROVE  LoopOK'
<1>1. UNCHANGED <<now, config, attested>> /\ loop.todo \in SUBSET Repo
  BY DEF JudgeSums, renderingVars, LoopOK, LoopAt
<1>2. loop.phase = "judge-sums"
  BY DEF JudgeSums, InPhase
<1>3. CASE NextAsset(FALSE)
  BY <1>1, <1>2, <1>3, NextAssetOK
<1>4. CASE /\ Verdict = "yes"
           /\ Usable(File[loop.bytes].sums)
           /\ loop' = Looking("assets", loop.todo, loop.repo, loop.releases,
                              ParseSums(File[loop.bytes].sums))
  <2> DEFINE s == loop.bytes
  <2>1. /\ loop.repo \in Repo /\ tag \in Release /\ s = CurrentAsset
        /\ Located(loop.repo, tag, s)
    BY <1>2, InHand
  <2>2. s \in Asset /\ Contains(Assets[tag], s)
    BY <2>1 DEF Located
  <2>3. Underway(loop, now)
    BY <1>2 DEF LoopOK, LoopAt
  <2>4. File[s].name = SumsName[tag]
    <3>1. PICK j \in DOMAIN loop.assets : First(loop.assets) = loop.assets[j]
      BY <2>3, <1>2, NextUp DEF Underway
    <3> QED BY <1>2, <2>1, <2>3, <3>1 DEF Underway, CurrentAsset, tag, CurrentRelease
  <2>5. SaysYes(config, attested, loop.repo, tag, s)
    BY <1>4, <2>1, <2>2, VerdictIs DEF SaysYes
  <2>6. ParseSums(File[s].sums) # NoSums
    BY <1>4, <2>2, UsableHasSums
  <2>7. Config[config].repos[loop.repo].checksums
    BY <1>2 DEF LoopOK, LoopAt
  <2>8. SumsFrom(config, attested, loop.repo, tag, ParseSums(File[s].sums))
    BY <2>2, <2>4, <2>5, <2>6, <2>7 DEF SumsFrom
  <2>9. LoopAt(Looking("assets", loop.todo, loop.repo, loop.releases,
                       ParseSums(File[s].sums)), now, config, attested)
    BY <1>1, <2>1, <2>3, <2>8, LookingOK DEF Underway, tag, CurrentRelease
  <2> QED BY <1>1, <1>4, <2>9 DEF LoopOK
<1> QED BY <1>3, <1>4 DEF JudgeSums

-----------------------------------------------------------------------------
(* What is listed, and what is cached.                                     *)

\* A yes on the .deb in hand: the verifier accepts it, or the checksum file.
LEMMA YesIsAccepted ==
  ASSUME TypeOK, LoopOK, loop.phase = "judge-deb", DebVerdict = "yes"
  PROVE  Accepted(CurrentAsset)
<1> DEFINE a == CurrentAsset
<1>1. /\ Located(loop.repo, tag, a) /\ loop.bytes = a
      /\ loop.repo \in Repo /\ tag \in Release /\ a \in Asset
  BY InHand DEF Located
<1>2. ReleaseOf(a) = tag /\ RepoOf(tag) = loop.repo
  BY <1>1, OneWay
<1>3. SumsFrom(config, attested, loop.repo, tag, loop.sums)
  BY DEF LoopOK, LoopAt, tag, CurrentRelease
<1> HIDE DEF a
<1>4. CASE Setup.repos[loop.repo].checksums
  <2>1. PICK s \in Asset : /\ Contains(Assets[tag], s)
                           /\ File[s].name = SumsName[tag]
                           /\ SaysYes(config, attested, loop.repo, tag, s)
                           /\ loop.sums = ParseSums(File[s].sums)
    BY <1>3, <1>4 DEF SumsFrom, Setup
  <2>2. File[a].name \in DOMAIN loop.sums /\ loop.sums[File[a].name] = a
    BY <1>1, <1>3, <1>4 DEF DebVerdict, SumsFrom, Setup, a
  <2>3. PICK k \in DOMAIN File[s].sums :
          File[s].sums[k].file = File[a].name /\ File[s].sums[k].digest = a
    BY <2>1, <2>2, SumIsALine
  <2>4. s \in ToSet(Assets[tag])
    <3>1. Assets[tag] \in Seq(Asset)
      BY <1>1, ReleaseAssumption
    <3> QED BY <2>1, <3>1 DEF Contains, ToSet
  <2>5. s \in ToBeSigned(a)
    BY <1>2, <1>4, <2>1, <2>3, <2>4 DEF ToBeSigned, ChecksumsOf
  <2> QED BY <1>1, <2>1, <2>5, AcceptedIs DEF a
<1>5. CASE ~Setup.repos[loop.repo].checksums
  <2>1. Verdict = "yes"
    BY <1>3, <1>5 DEF DebVerdict, SumsFrom, Setup
  <2>2. SaysYes(config, attested, loop.repo, tag, a)
    BY <1>1, <2>1, VerdictIs DEF SaysYes
  <2>3. a \in ToBeSigned(a)
    BY <1>2, <1>5 DEF ToBeSigned
  <2> QED BY <1>1, <2>2, <2>3, AcceptedIs DEF a
<1> QED BY <1>4, <1>5

LEMMA ListDebOK ==
  ASSUME TypeOK, LoopOK, ListOK, ListDeb
  PROVE  LoopOK' /\ ListOK' /\ Times'
<1>1. /\ loop.phase = "judge-deb" /\ DebVerdict = "yes" /\ UNCHANGED <<config, attested>>
      /\ Found(Package(AssetKey, loop.bytes, loop.bytes, loop.bytes), CurrentRelease.uploaded)
      /\ NextAsset(TRUE)
  BY DEF ListDeb, InPhase
<1>2. CurrentRelease.uploaded \in 0..now
  BY <1>1, InHand
<1>3. Times' /\ now' = now
  BY <1>1, <1>2, Types, FoundTimes
<1>4. LoopOK'
  BY <1>1, <1>3, NextAssetOK
<1> DEFINE new == Package(AssetKey, loop.bytes, loop.bytes, loop.bytes)
<1>5. IsPackage(new)
  <2>1. Located(loop.repo, tag, CurrentAsset) /\ loop.bytes = CurrentAsset
    BY <1>1, InHand
  <2>2. Accepted(CurrentAsset)
    BY <1>1, YesIsAccepted
  <2> QED BY <2>1, <2>2 DEF IsPackage, AssetKey
<1>6. list' = list \cup {new} /\ rendered' = rendered
  BY <1>1 DEF Found
<1>7. ASSUME NEW pkg \in list' \cup rendered' PROVE IsPackage(pkg)'
  <2> HIDE DEF new
  <2>1. IsPackage(pkg)
    BY <1>5, <1>6, <1>7 DEF ListOK
  <2>2. PICK repo, rel, a : /\ Located(repo, rel, a)
                            /\ pkg = Package(Key(repo, a), a, a, a)
                            /\ Accepted(a)
    BY <2>1 DEF IsPackage
  <2>3. Accepted(a)'
    BY <1>1, <2>2, StaysAccepted
  <2> QED BY <2>2, <2>3 DEF IsPackage
<1> QED BY <1>3, <1>4, <1>7 DEF ListOK

\* What is in the cache under the key of the asset in hand is that asset.
LEMMA CachedIsIt ==
  ASSUME TypeOK, LoopOK, CacheOK, Fetching, Cached(AssetKey)
  PROVE  cache[AssetKey].bytes = CurrentAsset
<1>1. PICK repo \in Repo, a \in Asset : AssetKey = Key(repo, a) /\ cache[AssetKey].bytes = a
  BY DEF CacheOK, Cached
<1>2. AssetKey = Key(loop.repo, CurrentAsset)
  BY DEF AssetKey
<1>3. a = CurrentAsset
  BY <1>1, <1>2 DEF Key
<1> QED BY <1>1, <1>3

LEMMA DownloadOK ==
  ASSUME TypeOK, LoopOK, CacheOK, Download
  PROVE  /\ LoopOK' /\ CacheOK'
         /\ \A k \in DOMAIN cache' : cache'[k] \in [bytes : Asset, added : 0..now]
<1>1. /\ Fetching /\ Judging(CurrentAsset) /\ AddToCache(AssetKey, CurrentAsset)
      /\ UNCHANGED <<now, config, attested>>
  BY DEF Download, renderingVars
<1>2. LoopOK'
  BY <1>1, JudgingOK
<1>3. loop.repo \in Repo /\ CurrentAsset \in Asset
  BY <1>1, InHand DEF Fetching, Located
<1>4. /\ DOMAIN cache' = DOMAIN cache \cup {AssetKey}
      /\ \A k \in DOMAIN cache' \ {AssetKey} : cache'[k] = cache[k]
      /\ cache'[AssetKey] = [bytes |-> CurrentAsset, added |-> now]
  BY <1>1 DEF AddToCache
<1>5. AssetKey = Key(loop.repo, CurrentAsset)
  BY DEF AssetKey
<1>6. CacheOK'
  BY <1>3, <1>4, <1>5 DEF CacheOK
<1>7. now \in Nat /\ \A k \in DOMAIN cache : cache[k] \in [bytes : Asset, added : 0..now]
  BY DEF TypeOK
<1>8. [bytes |-> CurrentAsset, added |-> now] \in [bytes : Asset, added : 0..now]
  BY <1>3, <1>7
<1>9. \A k \in DOMAIN cache' : cache'[k] \in [bytes : Asset, added : 0..now]
  BY <1>4, <1>7, <1>8
<1> QED BY <1>2, <1>6, <1>9

-----------------------------------------------------------------------------
(* The invariant.                                                          *)

LEMMA InvInit == Init => IInv
<1> SUFFICES ASSUME Init PROVE IInv
  OBVIOUS
<1>1. {listing, quiet, raced} \subseteq BOOLEAN
  BY DEF Init, RenderingInit
<1>2. Times
  BY <1>1, RenderingAssumption DEF Init, RenderingInit, Times
<1>3. World
  <2>1. \A k \in DOMAIN cache : cache[k] \in [bytes : Asset, added : 0..now]
    BY DEF Init
  <2>2. touched \cup dirty \subseteq DebFile
    BY DEF Init
  <2>3. config \in DOMAIN Config /\ source \in {"github", "files"}
    BY ConfigAssumption DEF Init
  <2>4. 0 \in 0..now
    BY <1>2 DEF Times
  <2>5. world \in [Release -> [state : ReleaseState, uploaded : 0..now]]
    BY <2>4, WorldAssumption DEF Init, ReleaseState
  <2>6. files \in [DebFile -> {Gone} \cup [content : Text, mtime : 0..now]]
    BY <2>4, LocalAssumption DEF Init
  <2>7. /\ DOMAIN attested = Asset /\ attested = [a \in Asset |-> attested[a]]
        /\ \A a \in Asset : attested[a] = 0 \/ attested[a] \in DOMAIN Testimony[a]
    BY DEF Init
  <2>8. \A a \in Asset : /\ Len(Testimony[a]) \in Nat
                         /\ DOMAIN Testimony[a] = 1..Len(Testimony[a])
    BY EvidenceAssumption
  <2>9. attested \in [Asset -> Nat] /\ \A a \in Asset : attested[a] <= Len(Testimony[a])
    BY <2>7, <2>8
  <2> QED BY <2>1, <2>2, <2>3, <2>5, <2>6, <2>9 DEF World
<1>4. LoopOK
  BY BetweenOK DEF Init, NoLoop, LoopOK
<1>5. ListOK /\ CacheOK
  BY DEF Init, RenderingInit, ListOK, CacheOK
<1>6. WalkOK
  BY DEF Init, NoWalk, WalkOK
<1>7. WalkedOK /\ IndexOK
  BY DEF Init, RenderingInit, WalkedOK, IndexOK
<1> QED BY <1>2, <1>3, <1>4, <1>5, <1>6, <1>7, Types DEF IInv

\* A step that changes nothing of GitHub but what it has of a release.
LEMMA ReleaseStep ==
  ASSUME IInv, source = "github", UNCHANGED <<source, localVars>>,
         NEW rel \in Release, Create(rel) \/ PublishRelease(rel) \/ Delete(rel)
  PROVE  IInv'
<1>1. UNCHANGED <<config, attested, cache, loop>> /\ UNCHANGED <<files, dirty, touched>>
  BY DEF Create, PublishRelease, Delete, localVars
<1>2. PICK state \in ReleaseState, at \in 0..now : Set(rel, state, at)
  <2>1. now \in Nat /\ world[rel].uploaded \in 0..now
    BY DEF IInv, TypeOK
  <2>2. now \in 0..now /\ "published" \in ReleaseState /\ "draft" \in ReleaseState
        /\ "gone" \in ReleaseState
    BY <2>1 DEF ReleaseState
  <2> QED BY <2>1, <2>2 DEF Create, PublishRelease, Delete
<1>3. PICK shows : Changes(shows)
  BY DEF Create, PublishRelease, Delete
<1>4. Times' /\ UNCHANGED <<now, renderTime, rendered, listingVars>>
  BY <1>3, ChangesTimes, Types DEF IInv
<1>5. world' \in [Release -> [state : ReleaseState, uploaded : 0..now]]
  BY <1>2 DEF Set, IInv, TypeOK
<1>6. World'
  BY <1>1, <1>4, <1>5, Types DEF World, IInv
<1>7. LoopOK' /\ CacheOK'
  BY <1>1, <1>4 DEF IInv, LoopOK, CacheOK
<1>8. ListOK'
  BY <1>1, <1>4, PackagesStay DEF IInv, listingVars
<1> QED BY <1>4, <1>6, <1>7, <1>8, Types DEF IInv

LEMMA AttestStep ==
  ASSUME IInv, source = "github", UNCHANGED <<source, localVars>>,
         NEW rel \in Release, NEW a \in Asset, Attest(rel, a)
  PROVE  IInv'
<1>1. UNCHANGED <<config, world, cache, loop>> /\ UNCHANGED <<files, dirty, touched>>
  BY DEF Attest, localVars
<1>2. Times' /\ UNCHANGED <<now, renderTime, rendered, listingVars>>
  BY ChangesTimes, Types DEF IInv, Attest
<1>3. PICK e \in DOMAIN Testimony[a] : attested' = [attested EXCEPT ![a] = e]
  BY DEF Attest
<1>4. e \in Nat /\ e <= Len(Testimony[a])
  <2>1. Testimony[a] \in Seq(Seq(Evidence))
    BY EvidenceAssumption
  <2> QED BY <2>1
<1>5. attested' \in [Asset -> Nat] /\ \A x \in Asset : attested'[x] <= Len(Testimony[x])
  BY <1>3, <1>4 DEF IInv, TypeOK
<1>6. World'
  BY <1>1, <1>2, <1>5, Types DEF World, IInv
<1>7. LoopOK'
  BY <1>1, <1>2, LoopStays DEF IInv, TypeOK
<1>8. ListOK' /\ CacheOK'
  BY <1>1, <1>2, PackagesStay DEF IInv, listingVars, CacheOK
<1> QED BY <1>2, <1>6, <1>7, <1>8, Types DEF IInv

LEMMA EvictStep ==
  ASSUME IInv, source = "github", UNCHANGED <<source, localVars>>, NEW k, Evict(k)
  PROVE  IInv'
<1>1. /\ UNCHANGED <<now, renderTime, rendered, listingVars, quiet, raced>>
      /\ UNCHANGED <<config, world, attested, loop, files, dirty, touched>>
  BY DEF Evict, localVars
<1>2. DOMAIN cache' \subseteq DOMAIN cache /\ \A j \in DOMAIN cache' : cache'[j] = cache[j]
  BY DEF Evict
<1>3. Times'
  BY <1>1, StillTimes, Types DEF IInv, listingVars
<1>4. World'
  BY <1>1, <1>2, Types DEF World, IInv
<1>5. LoopOK' /\ CacheOK'
  BY <1>1, <1>2 DEF IInv, LoopOK, CacheOK
<1>6. ListOK'
  BY <1>1, PackagesStay DEF IInv, listingVars
<1> QED BY <1>3, <1>4, <1>5, <1>6, Types DEF IInv

\* A step of the loops that leaves the world alone.
LEMMA LoopStep ==
  ASSUME IInv, source = "github", UNCHANGED <<source, localVars, config, world, attested, cache>>,
         Times', now' = now, LoopOK', list' \cup rendered' \subseteq list \cup rendered
  PROVE  IInv'
<1>1. World'
  BY WorldStays, Types DEF IInv, TypeOK, localVars
<1>2. ListOK' /\ CacheOK'
  BY PackagesStay DEF IInv, CacheOK
<1> QED BY <1>1, <1>2, Types DEF IInv

LEMMA GitHubStep ==
  ASSUME IInv, source = "github", UNCHANGED <<source, localVars>>,
         GitHubChanges \/ GitHubListing
  PROVE  IInv'
<1>0. TypeOK /\ Times /\ World /\ LoopOK /\ ListOK /\ CacheOK
  BY Types DEF IInv
<1>1. ASSUME NEW rel \in Release, Create(rel) \/ PublishRelease(rel) \/ Delete(rel) PROVE IInv'
  BY <1>1, ReleaseStep
<1>2. ASSUME NEW rel \in Release, NEW a \in Asset, Attest(rel, a) PROVE IInv'
  BY <1>2, AttestStep
<1>3. ASSUME NEW k, Evict(k) PROVE IInv'
  BY <1>3, EvictStep
<1>4. CASE BeginGitHub
  <2>1. BeginListing /\ loop' = NextRepo(Repo) /\ UNCHANGED <<config, world, attested, cache>>
    BY <1>4 DEF BeginGitHub
  <2>2. Times' /\ now' = now /\ list' \cup rendered' \subseteq list \cup rendered
    BY <1>0, <2>1, BeginTimes DEF BeginListing
  <2>3. LoopOK'
    BY <2>1, BetweenOK DEF LoopOK, NextRepo
  <2> QED BY <2>1, <2>2, <2>3, LoopStep
<1>5. ASSUME UNCHANGED <<renderingVars, config, world, attested, cache>>, LoopOK' PROVE IInv'
  <2>1. Times'
    BY <1>0, <1>5, StillTimes DEF renderingVars
  <2> QED BY <1>5, <2>1, LoopStep DEF renderingVars
<1>6. ASSUME NEW repo \in Repo, ListReleases(repo) PROVE IInv'
  BY <1>0, <1>5, <1>6, ListReleasesOK DEF ListReleases
<1>7. CASE GetCached
  <2>1. Judging(CurrentAsset) /\ Fetching
    BY <1>0, <1>7, CachedIsIt DEF GetCached
  <2>2. LoopOK'
    BY <1>0, <1>7, <2>1, JudgingOK DEF GetCached, renderingVars
  <2> QED BY <1>5, <1>7, <2>2 DEF GetCached
<1>8. CASE Download
  <2>1. UNCHANGED <<renderingVars, config, world, attested, files, dirty, touched>>
    BY <1>8 DEF Download, localVars
  <2>2. Times' /\ now' = now /\ list' \cup rendered' \subseteq list \cup rendered
    BY <1>0, <2>1, StillTimes DEF renderingVars
  <2>3. LoopOK' /\ CacheOK' /\ \A k \in DOMAIN cache' : cache'[k] \in [bytes : Asset, added : 0..now]
    BY <1>0, <1>8, DownloadOK
  <2>4. World'
    BY <1>0, <2>1, <2>2, <2>3 DEF World
  <2>5. ListOK'
    BY <1>0, <2>1, <2>2, PackagesStay
  <2> QED BY <2>2, <2>3, <2>4, <2>5, Types DEF IInv
<1>9. CASE JudgeSums
  BY <1>0, <1>5, <1>9, JudgeSumsOK DEF JudgeSums
<1>10. CASE ListDeb
  <2>1. LoopOK' /\ ListOK' /\ Times'
    BY <1>0, <1>10, ListDebOK
  <2>2. UNCHANGED <<config, world, attested, cache, files, dirty, touched>> /\ now' = now
    BY <1>10 DEF ListDeb, Found, localVars
  <2>3. World' /\ CacheOK'
    BY <1>0, <2>2, WorldStays DEF Times, CacheOK
  <2> QED BY <2>1, <2>3, Types DEF IInv
<1>11. CASE PassOverDeb
  <2>1. LoopOK'
    BY <1>0, <1>11, NextAssetOK DEF PassOverDeb, InPhase, renderingVars
  <2> QED BY <1>5, <1>11, <2>1 DEF PassOverDeb
<1>12. CASE EndRelease
  BY <1>0, <1>5, <1>12, EndReleaseOK DEF EndRelease
<1>13. CASE EndGitHub
  <2>1. EndListing /\ loop' = NoLoop /\ UNCHANGED <<config, world, attested, cache>>
    BY <1>13 DEF EndGitHub
  <2>2. Times' /\ now' = now
    BY <1>0, <2>1, EndTimes
  <2>3. list' \cup rendered' \subseteq list \cup rendered
    BY <2>1 DEF EndListing, Return
  <2>4. LoopOK'
    BY <2>1, BetweenOK DEF LoopOK, NoLoop
  <2> QED BY <2>1, <2>2, <2>3, <2>4, LoopStep
<1>14. CASE FailGitHub
  <2>1. FailListing /\ loop' = NoLoop /\ UNCHANGED <<config, world, attested, cache>>
    BY <1>14 DEF FailGitHub
  <2>2. Times' /\ now' = now
    BY <1>0, <2>1, FailTimes
  <2>3. list' \cup rendered' \subseteq list \cup rendered
    BY <2>1 DEF FailListing, Return
  <2>4. LoopOK'
    BY <2>1, BetweenOK DEF LoopOK, NoLoop
  <2> QED BY <2>1, <2>2, <2>3, <2>4, LoopStep
<1> QED
  BY <1>1, <1>2, <1>3, <1>4, <1>6, <1>7, <1>8, <1>9, <1>10, <1>11, <1>12, <1>13, <1>14
  DEF GitHubChanges, GitHubListing

-----------------------------------------------------------------------------
(* Steps of the walk.                                                      *)

LEMMA NamesOK ==
  DOMAIN Names \subseteq Nat /\ \A i \in DOMAIN Names : Names[i] \in DebFile /\ Names[i] # Gone
BY LocalAssumption DEF DebFile, ToSet

\* The name that is next, and the names after it.
LEMMA AheadOK ==
  ASSUME WalkOK, ~Done(walk.names)
  PROVE  /\ First(walk.names) \in DebFile /\ First(walk.names) \in Left
         /\ First(walk.names) # Gone
         /\ DOMAIN Rest(walk.names) \subseteq DOMAIN walk.names
         /\ \A i \in DOMAIN Rest(walk.names) : Rest(walk.names)[i] = Names[i]
         /\ {Rest(walk.names)[i] : i \in DOMAIN Rest(walk.names)} = Left \ {First(walk.names)}
<1>1. PICK i \in DOMAIN walk.names :
        /\ First(walk.names) = walk.names[i]
        /\ DOMAIN Rest(walk.names) = DOMAIN walk.names \ {i}
        /\ \A j \in DOMAIN Rest(walk.names) : Rest(walk.names)[j] = walk.names[j]
  <2>1. DOMAIN walk.names \subseteq Nat
    BY NamesOK DEF WalkOK
  <2> QED BY <2>1, NextUp
<1>2. i \in DOMAIN Names /\ First(walk.names) = Names[i]
  BY <1>1 DEF WalkOK
<1>3. \A j \in DOMAIN walk.names : walk.names[j] = Names[j] /\ j \in DOMAIN Names
  BY DEF WalkOK
<1>4. \A j \in DOMAIN walk.names : walk.names[j] = walk.names[i] => j = i
  BY <1>1, <1>3, LocalAssumption
<1>5. {Rest(walk.names)[j] : j \in DOMAIN Rest(walk.names)} = Left \ {First(walk.names)}
  BY <1>1, <1>4 DEF Left
<1> QED BY <1>1, <1>2, <1>3, <1>5, NamesOK DEF Left

\* A file is what one of its readings says, and is Gone or is not.
LEMMA FileTypes ==
  ASSUME World, NEW f \in DebFile, files[f] # Gone
  PROVE  /\ files[f].content \in Text /\ files[f].mtime \in 0..now
         /\ files[f].content # Gone
         /\ LocalDeb(f) = files[f].content
BY LocalAssumption DEF World, LocalDeb

\* What an index should have of a file depends on that file alone.
LEMMA DueStays ==
  ASSUME NEW f, files'[f] = files[f]
  PROVE  Due(f)' = Due(f)
BY DEF Due, LocalDeb

\* A file changes: nothing is claimed of it any more.
LEMMA TouchOK ==
  ASSUME IInv, source = "files", NEW f \in DebFile, NEW content \in Text \cup {Gone},
         NEW mtime \in 0..now, Touch(f, content, mtime)
  PROVE  /\ WalkOK' /\ WalkedOK' /\ IndexOK' /\ Times' /\ now' = now
         /\ files' \in [DebFile -> {Gone} \cup [content : Text, mtime : 0..now]]
         /\ touched' \cup dirty' \subseteq DebFile
<1>0. Times /\ World /\ WalkOK /\ WalkedOK /\ IndexOK
  BY Types DEF IInv
<1>1. /\ UNCHANGED walk /\ dirty' = dirty \cup {f} /\ touched' = touched \cup {f}
      /\ \A g \in DebFile \ {f} : files'[g] = files[g]
      /\ files' \in [DebFile -> {Gone} \cup [content : Text, mtime : 0..now]]
  BY <1>0 DEF Touch, World
<1>2. Times' /\ UNCHANGED <<now, renderTime, rendered, listingVars>>
  BY <1>0, ChangesTimes DEF Touch
<1>3. \A g \in DebFile \ {f} : Due(g)' = Due(g)
  BY <1>1, DueStays
<1>4. walk.file # Gone => walk.file \in DebFile
  BY <1>0, AheadOK DEF WalkOK
<1>5. WalkOK'
  BY <1>0, <1>1, <1>4 DEF WalkOK
<1>6. WalkedOK'
  BY <1>0, <1>1, <1>2, <1>3 DEF WalkedOK, Left, listingVars, Of
<1>7. IndexOK'
  BY <1>0, <1>1, <1>2, <1>3 DEF IndexOK, Of
<1>8. touched' \cup dirty' \subseteq DebFile
  BY <1>0, <1>1 DEF World
<1> QED BY <1>1, <1>2, <1>5, <1>6, <1>7, <1>8

LEMMA BeginWalkOK ==
  ASSUME IInv, source = "files", BeginWalk
  PROVE  WalkOK' /\ WalkedOK' /\ IndexOK'
<1>0. Times /\ World /\ IndexOK
  BY Types DEF IInv
<1> DEFINE there == {i \in DOMAIN Names : files[Names[i]] # Gone}
<1>1. /\ walk' = [NoWalk EXCEPT !.names = [i \in there |-> Names[i]]]
      /\ touched' = {} /\ UNCHANGED <<files, dirty, renderTime, rendered>> /\ list' = {}
  BY DEF BeginWalk, BeginListing
<1>2. /\ walk'.names = [i \in there |-> Names[i]] /\ walk'.file = Gone /\ walk'.control = Gone
      /\ DOMAIN walk' = {"names", "file", "info", "control"}
  BY <1>1 DEF NoWalk
<1>3. WalkOK'
  BY <1>2 DEF WalkOK
<1>4. ASSUME NEW f \in DebFile PROVE Of(f, list') = IF f \in Left' THEN {} ELSE Due(f)'
  <2>1. Of(f, list') = {}
    BY <1>1 DEF Of
  <2>2. CASE f \notin Left'
    <3>1. PICK i \in DOMAIN Names : f = Names[i]
      BY LocalAssumption DEF DebFile, ToSet
    <3>2. files[f] = Gone
      BY <1>2, <2>2, <3>1 DEF Left
    <3>3. Due(f)' = {}
      BY <1>1, <3>2 DEF Due, LocalDeb
    <3> QED BY <2>1, <2>2, <3>3
  <2> QED BY <2>1, <2>2
<1>5. WalkedOK'
  BY <1>4 DEF WalkedOK
<1>6. IndexOK'
  BY <1>0, <1>1, DueStays DEF IndexOK
<1> QED BY <1>3, <1>5, <1>6

LEMMA LstatOK ==
  ASSUME IInv, source = "files", NEW f \in DebFile, Lstat(f)
  PROVE  WalkOK' /\ WalkedOK' /\ IndexOK' /\ Times' /\ now' = now
<1>0. Times /\ World /\ WalkOK /\ WalkedOK /\ IndexOK
  BY Types DEF IInv
<1>1. /\ files[f] # Gone /\ LookingAt(f) /\ ~Done(walk.names) /\ f = First(walk.names)
      /\ latest' = Later(latest, files[f].mtime) /\ walk.file = Gone
      /\ UNCHANGED <<now, renderTime, rendered, listing, began, list, quiet, raced,
                     files, dirty, touched>>
  BY DEF Lstat, Visiting
<1>2. files[f].mtime \in 0..now
  BY <1>0, <1>1, FileTypes
<1>3. Times'
  <2>1. latest' \in 0..now
    BY <1>0, <1>1, <1>2 DEF Times, Later
  <2> QED BY <1>0, <1>1, <2>1 DEF Times
<1>4. /\ walk'.names = walk.names /\ walk'.file = f /\ walk'.info = files[f].content
      /\ walk'.control = walk.control /\ DOMAIN walk' = DOMAIN walk
  BY <1>0, <1>1 DEF LookingAt, WalkOK
<1>5. WalkOK'
  BY <1>0, <1>1, <1>4 DEF WalkOK
<1>6. WalkedOK' /\ IndexOK'
  BY <1>0, <1>1, <1>4, DueStays DEF WalkedOK, IndexOK, Left
<1> QED BY <1>1, <1>3, <1>5, <1>6

\* The walk goes on to the next name, with what the file it leaves should have listed.
LEMMA GoOnOK ==
  ASSUME WalkOK, WalkedOK, listing, walk.file # Gone, NextName,
         UNCHANGED <<files, touched>>,
         \A g \in DebFile \ {walk.file} : Of(g, list') = Of(g, list),
         walk.file \notin touched => Of(walk.file, list') = Due(walk.file)
  PROVE  WalkOK' /\ WalkedOK'
<1>1. /\ walk'.names = Rest(walk.names) /\ walk'.file = Gone /\ walk'.control = Gone
      /\ DOMAIN walk' = {"names", "file", "info", "control"}
  BY DEF NextName, NoWalk
<1>2. ~Done(walk.names) /\ walk.file = First(walk.names)
  BY DEF WalkOK
<1>3. WalkOK'
  BY <1>1, <1>2, AheadOK DEF WalkOK
<1>4. Left' = Left \ {walk.file}
  BY <1>1, <1>2, AheadOK DEF Left
<1>5. ASSUME NEW g \in DebFile \ touched
      PROVE  Of(g, list') = IF g \in Left' THEN {} ELSE Due(g)'
  <2>1. Due(g)' = Due(g)
    BY DueStays
  <2>2. CASE g = walk.file
    BY <1>4, <1>5, <2>1, <2>2
  <2>3. CASE g # walk.file
    BY <1>4, <1>5, <2>1, <2>3 DEF WalkedOK
  <2> QED BY <2>2, <2>3
<1>6. WalkedOK'
  BY <1>5 DEF WalkedOK
<1> QED BY <1>3, <1>6

LEMMA ReadControlOK ==
  ASSUME IInv, source = "files", ReadControl
  PROVE  WalkOK' /\ WalkedOK' /\ IndexOK'
<1>0. Times /\ World /\ WalkOK /\ WalkedOK /\ IndexOK
  BY Types DEF IInv
<1>1. /\ listing /\ walk.file # Gone /\ walk.control = Gone /\ files[walk.file] # Gone
      /\ UNCHANGED <<renderingVars, files, dirty, touched>>
  BY DEF ReadControl, Parsing, There
<1>2. IndexOK'
  BY <1>0, <1>1, DueStays DEF IndexOK, renderingVars
<1> DEFINE c == files[walk.file].content
<1>3. walk.file \in DebFile /\ walk.file \in Left
  BY <1>0, <1>1, AheadOK DEF WalkOK
<1>4. c \in Text /\ c # Gone /\ LocalDeb(walk.file) = c
  BY <1>0, <1>1, <1>3, FileTypes
<1>5. CASE Readings[c].status = "ok" /\ walk' = [walk EXCEPT !.control = c]
  <2>1. /\ walk'.names = walk.names /\ walk'.file = walk.file /\ walk'.info = walk.info
        /\ walk'.control = c /\ DOMAIN walk' = DOMAIN walk
    BY <1>0, <1>5 DEF WalkOK
  <2>2. WalkOK'
    BY <1>0, <1>1, <1>5, <2>1 DEF WalkOK
  <2>3. WalkedOK'
    BY <1>0, <1>1, <2>1, DueStays DEF WalkedOK, Left, renderingVars
  <2> QED BY <1>2, <2>2, <2>3
<1>6. CASE Readings[c].status = "nothing" /\ NextName
  <2>1. Due(walk.file) = {}
    BY <1>4, <1>6 DEF Due
  <2>2. walk.file \notin touched => Of(walk.file, list) = {}
    BY <1>0, <1>1, <1>3 DEF WalkedOK
  <2>3. list' = list
    BY <1>1 DEF renderingVars
  <2>4. WalkOK' /\ WalkedOK'
    BY <1>0, <1>1, <1>6, <2>1, <2>2, <2>3, GoOnOK
  <2> QED BY <1>2, <2>4
<1> QED BY <1>5, <1>6 DEF ReadControl, Parsed

LEMMA AddFileDataOK ==
  ASSUME IInv, source = "files", AddFileData
  PROVE  WalkOK' /\ WalkedOK' /\ IndexOK' /\ Times' /\ now' = now
<1>0. Times /\ World /\ WalkOK /\ WalkedOK /\ IndexOK
  BY Types DEF IInv
<1> DEFINE c == files[walk.file].content
           new == LocalPackage(walk.file, walk.info, walk.control, c)
<1>1. /\ listing /\ walk.file # Gone /\ walk.control # Gone /\ files[walk.file] # Gone
      /\ UNCHANGED <<files, dirty, touched>> /\ Found(new, 0) /\ NextName
  BY DEF AddFileData, Hashing, There
<1>2. /\ UNCHANGED <<now, renderTime, rendered>> /\ list' = list \cup {new}
  BY <1>1 DEF Found
<1>3. Times'
  <2>1. 0 \in 0..now
    BY <1>0 DEF Times
  <2> QED BY <1>0, <1>1, <2>1, FoundTimes
<1>4. IndexOK'
  BY <1>0, <1>1, <1>2, DueStays DEF IndexOK
<1>5. walk.file \in DebFile /\ walk.file \in Left
  BY <1>0, <1>1, AheadOK DEF WalkOK
<1>6. c \in Text /\ c # Gone /\ LocalDeb(walk.file) = c
  BY <1>0, <1>1, <1>5, FileTypes
<1>7. new.filename = walk.file
  BY DEF LocalPackage
<1>8. \A g \in DebFile \ {walk.file} : Of(g, list') = Of(g, list)
  <2> HIDE DEF new
  <2> QED BY <1>2, <1>7 DEF Of
<1>9. ASSUME walk.file \notin touched PROVE Of(walk.file, list') = Due(walk.file)
  <2>1. walk.info = c /\ walk.control = c /\ Readings[c].status = "ok"
    BY <1>0, <1>1, <1>9 DEF WalkOK
  <2>2. Of(walk.file, list) = {}
    BY <1>0, <1>1, <1>5, <1>9 DEF WalkedOK
  <2>3. Of(walk.file, list') = {new}
    <3> HIDE DEF new
    <3> QED BY <1>2, <1>7, <2>2 DEF Of
  <2>4. Due(walk.file) = {LocalPackage(walk.file, c, c, c)}
    <3> HIDE DEF c
    <3> QED BY <1>6, <2>1 DEF Due
  <2> QED BY <2>1, <2>3, <2>4
<1>10. WalkOK' /\ WalkedOK'
  BY <1>0, <1>1, <1>8, <1>9, GoOnOK
<1> QED BY <1>2, <1>3, <1>4, <1>10

LEMMA EndWalkOK ==
  ASSUME IInv, source = "files", EndWalk
  PROVE  WalkOK' /\ WalkedOK' /\ IndexOK'
<1>0. Times /\ World /\ WalkOK /\ WalkedOK /\ IndexOK
  BY Types DEF IInv
<1>1. /\ listing /\ Done(walk.names) /\ EndListing /\ walk' = NoWalk /\ UNCHANGED files
      /\ dirty' = IF TakenForUnchanged THEN dirty ELSE touched
  BY DEF EndWalk
<1>2. WalkOK' /\ WalkedOK'
  BY <1>1 DEF NoWalk, WalkOK, WalkedOK, EndListing, Return
<1>3. CASE TakenForUnchanged
  <2>1. renderTime # 0
    BY <1>0, <1>3 DEF TakenForUnchanged, Times
  <2> QED BY <1>0, <1>1, <1>2, <1>3, <2>1, DueStays DEF IndexOK, EndListing
<1>4. CASE ~TakenForUnchanged
  <2>1. Left = {}
    BY <1>1 DEF Left, Done
  <2>2. rendered' = list /\ dirty' = touched
    BY <1>1, <1>4 DEF EndListing
  <2>3. \A f \in DebFile \ touched : Of(f, list) = Due(f)
    BY <1>0, <1>1, <2>1 DEF WalkedOK
  <2>4. IndexOK'
    BY <1>1, <2>2, <2>3, DueStays DEF IndexOK
  <2> QED BY <1>2, <2>4
<1> QED BY <1>3, <1>4

LEMMA FailWalkOK ==
  ASSUME IInv, source = "files", FailWalk
  PROVE  WalkOK' /\ WalkedOK' /\ IndexOK'
<1>1. IndexOK
  BY DEF IInv
<1>2. /\ FailListing /\ walk' = NoWalk /\ UNCHANGED <<files, dirty>>
  BY DEF FailWalk
<1>3. WalkOK' /\ WalkedOK'
  BY <1>2 DEF NoWalk, WalkOK, WalkedOK, FailListing, Return
<1>4. IndexOK'
  BY <1>1, <1>2, DueStays DEF IndexOK, FailListing
<1> QED BY <1>3, <1>4

LEMMA LocalStep ==
  ASSUME IInv, source = "files", UNCHANGED <<source, githubVars>>,
         LocalChanges \/ LocalListing
  PROVE  IInv'
<1>0. TypeOK /\ Times /\ World /\ WalkOK /\ WalkedOK /\ IndexOK
  BY Types DEF IInv
<1>1. UNCHANGED <<source, config, world, attested, cache>>
  BY DEF githubVars
<1>2. ASSUME Times', now' = now, WalkOK' /\ WalkedOK' /\ IndexOK',
             files' \in [DebFile -> {Gone} \cup [content : Text, mtime : 0..now]],
             touched' \cup dirty' \subseteq DebFile
      PROVE  IInv'
  <2>1. World'
    BY <1>0, <1>1, <1>2 DEF World
  <2> QED BY <1>1, <1>2, <2>1, <1>0, Types DEF IInv
<1>3. ASSUME NEW f \in DebFile, WriteFile(f) \/ MoveIn(f) \/ RemoveFile(f) PROVE IInv'
  <2>1. now \in Nat
    BY <1>0 DEF Times
  <2>2. PICK content \in Text \cup {Gone}, mtime \in 0..now : Touch(f, content, mtime)
    <3>1. now \in 0..now /\ 0..(now - 1) \subseteq 0..now
      BY <2>1
    <3> QED BY <1>3, <3>1 DEF WriteFile, MoveIn, RemoveFile
  <2> QED BY <1>0, <1>2, <2>2, TouchOK
<1>4. files \in [DebFile -> {Gone} \cup [content : Text, mtime : 0..now]]
      /\ touched \subseteq DebFile /\ dirty \subseteq DebFile
  BY <1>0 DEF World
<1>5. CASE BeginWalk
  BY <1>0, <1>2, <1>4, <1>5, BeginWalkOK, BeginTimes DEF BeginWalk
<1>6. ASSUME NEW f \in DebFile, Lstat(f) PROVE IInv'
  BY <1>2, <1>4, <1>6, LstatOK DEF Lstat
<1>7. CASE ReadControl
  <2>1. UNCHANGED <<renderingVars, files, dirty, touched>>
    BY <1>7 DEF ReadControl
  <2>2. Times' /\ now' = now
    BY <1>0, <2>1, StillTimes DEF renderingVars
  <2> QED BY <1>2, <1>4, <1>7, <2>1, <2>2, ReadControlOK
<1>8. CASE AddFileData
  BY <1>2, <1>4, <1>8, AddFileDataOK DEF AddFileData
<1>9. CASE EndWalk
  <2>1. Times' /\ now' = now
    BY <1>0, <1>9, EndTimes DEF EndWalk
  <2>2. files' = files /\ touched' \cup dirty' \subseteq DebFile
    BY <1>4, <1>9 DEF EndWalk
  <2> QED BY <1>2, <1>4, <1>9, <2>1, <2>2, EndWalkOK
<1>10. CASE FailWalk
  <2>1. Times' /\ now' = now
    BY <1>0, <1>10, FailTimes DEF FailWalk
  <2> QED BY <1>2, <1>4, <1>10, <2>1, FailWalkOK DEF FailWalk
<1> QED
  BY <1>3, <1>5, <1>6, <1>7, <1>8, <1>9, <1>10 DEF LocalChanges, LocalListing

\* Time passes, a request uses the index, or nothing happens.
LEMMA IdleStep ==
  ASSUME IInv, UNCHANGED <<source, githubVars, localVars>>,
         Tick \/ UNCHANGED renderingVars
  PROVE  IInv'
<1>0. TypeOK /\ Times /\ World
  BY Types DEF IInv
<1>1. UNCHANGED <<source, config, world, attested, cache, loop, files, walk, dirty, touched>>
  BY DEF githubVars, localVars
<1>2. /\ Times' /\ now' \in Nat /\ now <= now'
      /\ UNCHANGED <<rendered, list, renderTime, listing>>
  <2>1. CASE Tick
    BY <1>0, <2>1, TickTimes DEF Tick, listingVars
  <2>2. CASE UNCHANGED renderingVars
    <3>1. Times' /\ UNCHANGED <<now, rendered, list, renderTime, listing>>
      BY <1>0, <2>2, StillTimes DEF renderingVars
    <3> QED BY <1>0, <3>1 DEF Times
  <2> QED BY <2>1, <2>2
<1>3. World'
  BY <1>0, <1>1, <1>2, WorldStays
<1>4. source = "github" => LoopOK' /\ ListOK' /\ CacheOK'
  BY <1>0, <1>1, <1>2, LoopStays, PackagesStay DEF IInv, CacheOK
<1>5. source = "files" => WalkOK' /\ WalkedOK' /\ IndexOK'
  BY <1>1, <1>2, DueStays DEF IInv, WalkOK, WalkedOK, IndexOK, Left
<1> QED BY <1>1, <1>2, <1>3, <1>4, <1>5, Types DEF IInv

\* The invariant holds in every reachable state.
THEOREM Inductive == Spec => []IInv
<1>1. Init => IInv
  BY InvInit
<1>2. IInv /\ [Next]_vars => IInv'
  <2> SUFFICES ASSUME IInv, [Next]_vars PROVE IInv'
    OBVIOUS
  <2>1. CASE (Tick \/ UseIndex) /\ UNCHANGED <<source, githubVars, localVars>>
    BY <2>1, IdleStep DEF UseIndex
  <2>2. CASE /\ source = "github" /\ (GitHubChanges \/ GitHubListing)
             /\ UNCHANGED <<source, localVars>>
    BY <2>2, GitHubStep
  <2>3. CASE /\ source = "files" /\ (LocalChanges \/ LocalListing)
             /\ UNCHANGED <<source, githubVars>>
    BY <2>3, LocalStep
  <2>4. CASE UNCHANGED vars
    BY <2>4, IdleStep DEF vars
  <2> QED BY <2>1, <2>2, <2>3, <2>4 DEF Next
<1> QED BY <1>1, <1>2, PTL DEF Spec

-----------------------------------------------------------------------------
(* The properties.                                                         *)

\* Every reachable state is well typed, and no stamp or entry is from the future.
THEOREM TypeCorrect == Spec => []TypeOK
<1>1. IInv => TypeOK
  BY DEF IInv
<1> QED BY <1>1, Inductive, PTL

\* For a package in the index of GitHub releases there is evidence, of it or of a checksum
\* file with its digest, signed under the tag of its release by the identity configured, but
\* for one field if the certificate's name is counted twice: whatever comes and goes while
\* the loops run and whatever is cached.
THEOREM PackagesAreTrusted == Spec => []ListedIsTrusted
<1>1. IInv => ListedIsTrusted
  <2> SUFFICES ASSUME IInv, source = "github", NEW pkg \in rendered
               PROVE  pkg.digest = pkg.filename[2] /\ Trusted(pkg.digest)
    BY DEF ListedIsTrusted
  <2>1. PICK repo, rel, a : /\ Located(repo, rel, a)
                            /\ pkg = Package(Key(repo, a), a, a, a) /\ Accepted(a)
    BY DEF IInv, ListOK, IsPackage
  <2>2. PICK file \in ToBeSigned(a) : file \in Asset /\ SaysYes(config, attested, repo, rel, file)
    BY <2>1, AcceptedIs
  <2>3. /\ config \in DOMAIN Config /\ repo \in Repo
        /\ attested[file] \in 0..Len(Testimony[file])
    BY <2>1, <2>2 DEF IInv, TypeOK, Located
  <2>4. Evidences(file, attested[file]) \in Seq(Evidence)
    BY <2>2, <2>3, EvidencesType
  <2>5. VouchedAsCounted(SignerOf(Config[config], repo), rel, Evidences(file, attested[file]))
    BY <2>2, <2>3, <2>4, Signers, VerifiedIsVouched DEF SaysYes
  <2>6. SignerFor(a) = SignerOf(Config[config], repo) /\ ReleaseOf(a) = rel
    BY <2>1, OneWay DEF SignerFor, signer, Setup
  <2>7. Trusted(a)
    BY <2>2, <2>5, <2>6 DEF Trusted, evidence
  <2> QED BY <2>1, <2>7 DEF Package, Key
<1> QED BY <1>1, Inductive, PTL

\* The pool holds under a listed name the file whose digest the index gives, or nothing.
THEOREM PoolAgrees == Spec => []PoolHoldsWhatIsListed
<1>1. IInv => PoolHoldsWhatIsListed
  <2> SUFFICES ASSUME IInv, source = "github", NEW pkg \in rendered
               PROVE  Deb(pkg.filename) \in {pkg.digest, Unset}
    BY DEF PoolHoldsWhatIsListed
  <2>1. PICK repo, a : pkg = Package(Key(repo, a), a, a, a)
    BY DEF IInv, ListOK, IsPackage
  <2>2. pkg.filename = Key(repo, a) /\ pkg.digest = a
    BY <2>1 DEF Package
  <2>3. ASSUME Key(repo, a) \in DOMAIN cache PROVE cache[Key(repo, a)].bytes = a
    <3>1. PICK r \in Repo, x \in Asset : Key(repo, a) = Key(r, x) /\ cache[Key(repo, a)].bytes = x
      BY <2>3 DEF IInv, CacheOK
    <3> QED BY <3>1 DEF Key
  <2> QED BY <2>2, <2>3 DEF Deb, Cached
<1> QED BY <1>1, Inductive, PTL

\* What the index has of a file that rests since before the walk is one reading of it.
THEOREM RestingFilesListed == Spec => []RestingFilesAreListed
<1>1. IInv => RestingFilesAreListed
  BY DEF IInv, IndexOK, Of, Due, TypeOK, RestingFilesAreListed
<1> QED BY <1>1, Inductive, PTL

=============================================================================
