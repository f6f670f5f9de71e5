--------------------------- MODULE ListingProofs ---------------------------
(***************************************************************************)
(* More about PackageSources: that a listing nothing happens in finds what *)
(* is right to list, no more and no less, and what follows for the index   *)
(* that is made of it, or kept because nothing seems to have changed.      *)
(***************************************************************************)
EXTENDS PackageSourcesProofs

-----------------------------------------------------------------------------
(* The inductive invariant.                                                *)

\* The positions of the page that are listed, and those of them that yield a package.
Shown(repo) == {i \in Page(repo) : IsPublished(Catalog[repo][i])}

Yielding(repo) == {i \in Page(repo) : /\ IsPublished(Catalog[repo][i])
                                      /\ Yield(Catalog[repo][i]) # {}}

Newest(repo) == Catalog[repo][Min(Yielding(repo))]

PackagesFrom(repo, assets) == {Package(<<repo, a>>, a, a, a) : a \in assets}

\* What an index should have of a repository, and what one has of it.
Rightful(repo) == PackagesFrom(repo, NewestYield(repo))

Ours(repo, packages) == {pkg \in packages : pkg.filename[1] = repo}

\* The loop has no repository in hand, or one that it will not come to again.
BetweenRepos == loop.phase \in {"idle", "repo"}

Behind(repo) == repo \notin loop.todo /\ (BetweenRepos \/ repo # loop.repo)

\* A repository that the loop is through with is listed as it should be; one that it has
\* not come to is not.
ListedSoFar ==
    \A repo \in Repo :
        /\ repo \in loop.todo => Ours(repo, list) = {}
        /\ Behind(repo) =>
             /\ Ours(repo, list) = Rightful(repo)
             /\ Yielding(repo) # {} => world[Newest(repo)].uploaded <= latest

\* The releases that are left are as GitHub has them, and the others yield nothing.
LeftExact(repo, releases) ==
    /\ DOMAIN releases \subseteq Shown(repo)
    /\ \A i \in DOMAIN releases :
         /\ releases[i].tag = Catalog[repo][i]
         /\ releases[i].uploaded = world[Catalog[repo][i]].uploaded
    /\ \A i \in Shown(repo) \ DOMAIN releases : Yield(Catalog[repo][i]) = {}

ReleasesExact == loop.repo \notin loop.todo /\ LeftExact(loop.repo, loop.releases)

Debs == AssetsFor("assets", tag)

\* The assets of the release in hand that the loop is through with.
Passed == {Debs[j] : j \in DOMAIN Debs \ DOMAIN loop.assets}

\* Those of them that should be listed are.
AssetsExact ==
    IF loop.phase \in {"sums", "judge-sums"}
    THEN Ours(loop.repo, list) = {}
    ELSE /\ DOMAIN loop.assets \subseteq DOMAIN Debs
         /\ \A j \in DOMAIN loop.assets : loop.assets[j] = Debs[j]
         /\ Ours(loop.repo, list) = PackagesFrom(loop.repo, Passed \cap Yield(tag))
         /\ loop.hasDeb <=> Passed \cap Yield(tag) # {}
         /\ loop.hasDeb => world[tag].uploaded <= latest

LoopExact ==
    listing /\ ~raced =>
        /\ loop.phase # "idle"
        /\ ListedSoFar
        /\ ~BetweenRepos => ReleasesExact /\ AssetsExact

\* The index is what it should be, or what a listing would find shows that it is not.
IndexExact ==
    ~quiet => \A repo \in Repo :
        \/ Ours(repo, rendered) = Rightful(repo)
        \/ Yielding(repo) # {} /\ world[Newest(repo)].uploaded >= renderTime

RacesAreQuiet == listing /\ raced => quiet

\* Something is in the cache, and was at some time since the listing began.
Back(key) == key \in DOMAIN cache /\ began <= cache[key].added + AssetTTL

CameBack ==
    /\ listing => renderTime + MaxAge <= now
    /\ Setup.storage = "file" =>
         /\ listing => \A pkg \in list : Back(pkg.filename)
         /\ listing /\ loop.phase \in {"judge-sums", "judge-deb"} => Back(AssetKey)
         /\ ~quiet /\ now < renderTime + MaxAge => \A pkg \in rendered : Back(pkg.filename)

\* A change while a walk is under way is noted, and a quiet one too: what has changed since
\* the walk behind the index leaves an mtime.
QuietFiles ==
    /\ listing /\ ~raced => touched = {}
    /\ ~quiet => \A f \in dirty : files[f] # Gone /\ files[f].mtime >= renderTime

\* The latest timestamp is not before that of any file the walk has looked at.
Looked ==
    listing => \A f \in DebFile \ touched :
        (f \notin Left \/ f = walk.file) /\ files[f] # Gone => files[f].mtime <= latest

NamesFiles == \A pkg \in list \cup rendered : pkg.filename \in DebFile

GitHubExact == RacesAreQuiet /\ LoopExact /\ IndexExact /\ CameBack

FilesExact == RacesAreQuiet /\ QuietFiles /\ Looked /\ NamesFiles

Exact ==
    /\ source = "github" => GitHubExact
    /\ source = "files" => FilesExact

-----------------------------------------------------------------------------
(* What is right to list.                                                  *)

\* It depends on the configuration, the evidence and what GitHub has.
LEMMA SameYield ==
  ASSUME UNCHANGED <<config, attested>>, NEW rel
  PROVE  Yield(rel)' = Yield(rel)
<1>1. \A repo : signer(repo)' = signer(repo)
  BY DEF signer, Setup
<1>2. \A a : evidence(a)' = evidence(a)
  BY DEF evidence
<1>3. \A a : ToBeSigned(a)' = ToBeSigned(a) /\ SignerFor(a)' = SignerFor(a)
  BY <1>1 DEF ToBeSigned, SignerFor, Setup
<1>4. \A a : Accepted(a)' <=> Accepted(a)
  BY <1>2, <1>3 DEF Accepted
<1>5. architectures' = architectures
  BY DEF architectures, Setup
<1> QED BY <1>4, <1>5 DEF Yield

LEMMA SameRight ==
  ASSUME UNCHANGED <<config, attested, world>>, NEW repo
  PROVE  /\ Page(repo)' = Page(repo) /\ Shown(repo)' = Shown(repo)
         /\ Yielding(repo)' = Yielding(repo) /\ Newest(repo)' = Newest(repo)
         /\ Rightful(repo)' = Rightful(repo)
<1>1. Page(repo)' = Page(repo)
  BY DEF Page, Exists
<1>2. Shown(repo)' = Shown(repo)
  BY <1>1 DEF Shown, IsPublished
<1>3. Yielding(repo)' = Yielding(repo)
  BY <1>1, SameYield DEF Yielding, IsPublished
<1>4. Newest(repo)' = Newest(repo)
  BY <1>3 DEF Newest
<1>5. NewestYield(repo)' = NewestYield(repo)
  BY <1>3, SameYield DEF NewestYield, Yielding
<1>6. Rightful(repo)' = Rightful(repo)
  BY <1>5 DEF Rightful, PackagesFrom
<1> QED BY <1>1, <1>2, <1>3, <1>4, <1>6

\* The newest of the releases that yield a package.
NewestOf(repo) ==
    /\ Shown(repo) \in SUBSET Nat /\ Yielding(repo) \in SUBSET Shown(repo)
    /\ Shown(repo) \subseteq DOMAIN Catalog[repo]
    /\ Yielding(repo) = {i \in Shown(repo) : Yield(Catalog[repo][i]) # {}}
    /\ Yielding(repo) = {} => Rightful(repo) = {}
    /\ Yielding(repo) # {} => Newest(repo) \in Release
    /\ \A i \in Yielding(repo) :
         (\A j \in Yielding(repo) : i <= j) =>
           /\ Newest(repo) = Catalog[repo][i]
           /\ Rightful(repo) = PackagesFrom(repo, Yield(Catalog[repo][i]))

NewestFacts == \A repo \in Repo : NewestOf(repo)

LEMMA NewestIs == NewestFacts
<1> SUFFICES ASSUME NEW repo \in Repo PROVE NewestOf(repo)
  BY DEF NewestFacts
<1>1. DOMAIN Catalog[repo] \subseteq Nat
  BY CatalogAssumption
<1>2. Page(repo) \subseteq DOMAIN Catalog[repo]
  BY DEF Page
<1>3. /\ Yielding(repo) = {i \in Shown(repo) : Yield(Catalog[repo][i]) # {}}
      /\ Shown(repo) \subseteq Page(repo)
  BY DEF Yielding, Shown
<1>4. Yielding(repo) = {} => Rightful(repo) = {}
  BY DEF Rightful, NewestYield, Yielding, PackagesFrom
<1>5. ASSUME NEW i \in Yielding(repo), \A j \in Yielding(repo) : i <= j
      PROVE  Newest(repo) = Catalog[repo][i] /\ NewestYield(repo) = Yield(Catalog[repo][i])
  <2>1. Yielding(repo) \in SUBSET Nat /\ Yielding(repo) # {}
    BY <1>1, <1>2, <1>3, <1>5
  <2>2. Min(Yielding(repo)) \in Yielding(repo) /\ Min(Yielding(repo)) <= i
    BY <2>1, MinIsLeast
  <2>3. Min(Yielding(repo)) = i
    BY <1>5, <2>1, <2>2
  <2>4. NewestYield(repo) = Yield(Catalog[repo][Min(Yielding(repo))])
    BY <2>1 DEF NewestYield, Yielding
  <2> QED BY <2>3, <2>4 DEF Newest
<1>6. ASSUME Yielding(repo) # {} PROVE Newest(repo) \in Release
  <2>1. Min(Yielding(repo)) \in Yielding(repo)
    BY <1>1, <1>2, <1>3, <1>6, MinIsLeast
  <2>2. Min(Yielding(repo)) \in DOMAIN Catalog[repo] /\ Catalog[repo] \in Seq(Release)
    BY <1>2, <1>3, <2>1, CatalogAssumption
  <2> QED BY <2>2 DEF Newest
<1> QED BY <1>1, <1>2, <1>3, <1>4, <1>5, <1>6 DEF Rightful, NewestOf

LEMMA FromOne ==
  ASSUME NEW repo, NEW assets
  PROVE  /\ \A pkg \in PackagesFrom(repo, assets) : pkg.filename[1] = repo
         /\ PackagesFrom(repo, assets) = {} <=> assets = {}
         /\ \A a : PackagesFrom(repo, assets \cup {a}) =
                     PackagesFrom(repo, assets) \cup {Package(<<repo, a>>, a, a, a)}
<1>1. \A a : Package(<<repo, a>>, a, a, a).filename[1] = repo
  BY DEF Package
<1> QED BY <1>1 DEF PackagesFrom

-----------------------------------------------------------------------------
(* Steps of the loops.                                                     *)

\* What the loops have found so far is what they should have, but for the repository in
\* hand.
OthersListed(hand, todo) ==
    \A repo \in Repo :
        /\ repo \in todo => Ours(repo, list) = {}
        /\ repo \notin todo /\ repo # hand =>
             /\ Ours(repo, list) = Rightful(repo)
             /\ Yielding(repo) # {} => world[Newest(repo)].uploaded <= latest

\* The first release that is left is looked at, and nothing of the repository is listed.
LEMMA LookingExact ==
  ASSUME NEW phase \in {"sums", "assets"}, NEW todo, NEW repo \in Repo, NEW releases, NEW sums,
         loop' = Looking(phase, todo, repo, releases, sums),
         repo \notin todo, ~Done(releases), LeftExact(repo, releases), Ours(repo, list) = {},
         UNCHANGED <<config, world, attested, list, latest>>,
         OthersListed(repo, todo)
  PROVE  ListedSoFar' /\ (~BetweenRepos => ReleasesExact /\ AssetsExact)' /\ loop'.phase # "idle"
<1> DEFINE rel == First(releases).tag
           l == Looking(phase, todo, repo, releases, sums)
<1>1. /\ l.phase = phase /\ l.todo = todo /\ l.repo = repo /\ l.releases = releases
      /\ l.assets = AssetsFor(phase, rel) /\ l.hasDeb = FALSE
  BY DEF Looking
<1>2. /\ loop'.phase = phase /\ loop'.todo = todo /\ loop'.repo = repo
      /\ loop'.releases = releases
      /\ loop'.assets = AssetsFor(phase, rel) /\ loop'.hasDeb = FALSE
  <2> HIDE DEF l, rel
  <2> QED BY <1>1 DEF l
<1>3. tag' = rel
  BY <1>2 DEF tag, CurrentRelease
<1>4. AssetsFor("assets", rel)' = AssetsFor("assets", rel)
  BY <1>2 DEF AssetsFor, Wanted, architectures, Setup
<1>5. Debs' = AssetsFor("assets", rel)
  <2> HIDE DEF rel
  <2> QED BY <1>3, <1>4 DEF Debs
<1> HIDE DEF l, rel
<1>6. ListedSoFar'
  BY <1>2, SameRight DEF ListedSoFar, OthersListed, Behind, BetweenRepos
<1>7. ReleasesExact'
  BY <1>2, SameRight, SameYield DEF ReleasesExact, LeftExact
<1>8. AssetsExact'
  <2>1. CASE phase = "sums"
    BY <1>2, <2>1 DEF AssetsExact, Ours
  <2>2. CASE phase = "assets"
    <3>1. Passed' = {}
      BY <1>2, <1>5, <2>2 DEF Passed
    <3>2. PackagesFrom(repo, Passed' \cap Yield(tag)') = {}
      BY <3>1 DEF PackagesFrom
    <3> QED BY <1>2, <1>5, <2>2, <3>1, <3>2 DEF AssetsExact, Ours, PackagesFrom
  <2> QED BY <2>1, <2>2
<1> QED BY <1>2, <1>6, <1>7, <1>8

\* The loop goes on to the next release, or is through with a repository that yields
\* nothing.
LEMMA NextReleaseExact ==
  ASSUME NEW todo, NEW repo \in Repo, NEW releases,
         loop' = NextRelease(todo, repo, releases),
         repo \notin todo, LeftExact(repo, releases), Ours(repo, list) = {},
         UNCHANGED <<config, world, attested, list, latest>>,
         OthersListed(repo, todo)
  PROVE  ListedSoFar' /\ (~BetweenRepos => ReleasesExact /\ AssetsExact)' /\ loop'.phase # "idle"
<1>1. CASE Done(releases)
  <2>1. loop'.phase = "repo" /\ loop'.todo = todo
    BY <1>1 DEF NextRelease, NextRepo, Between
  <2>2. BetweenRepos'
    BY <2>1 DEF BetweenRepos
  <2>3. Yielding(repo) = {} /\ Rightful(repo) = {}
    <3>1. \A i \in Shown(repo) : Yield(Catalog[repo][i]) = {}
      BY <1>1 DEF LeftExact, Done
    <3> QED BY <3>1, NewestIs DEF NewestFacts, NewestOf
  <2>4. ListedSoFar'
    BY <2>1, <2>3, SameRight DEF ListedSoFar, OthersListed, Behind, BetweenRepos
  <2> QED BY <2>1, <2>2, <2>4
<1>2. CASE ~Done(releases)
  <2>1. PICK phase \in {"sums", "assets"} : loop' = Looking(phase, todo, repo, releases, NoSums)
    BY <1>2 DEF NextRelease
  <2> QED BY <1>2, <2>1, LookingExact
<1> QED BY <1>1, <1>2

\* Steps that list nothing and change nothing that matters here.
LEMMA SameExact ==
  ASSUME LoopExact, UNCHANGED <<config, world, attested, listing, raced, list, latest>>,
         /\ loop'.todo = loop.todo /\ loop'.repo = loop.repo /\ loop'.releases = loop.releases
         /\ loop'.hasDeb <=> loop.hasDeb,
         \/ loop'.phase = loop.phase /\ loop'.assets = loop.assets
         \/ loop.phase = "sums" /\ loop'.phase = "judge-sums"
         \/ loop.phase = "judge-sums" /\ loop'.phase = "sums"
         \/ loop.phase = "assets" /\ loop'.phase = "judge-deb" /\ loop'.assets = loop.assets
  PROVE  LoopExact'
<1> SUFFICES ASSUME listing, ~raced
             PROVE  /\ loop'.phase # "idle" /\ ListedSoFar'
                    /\ ~BetweenRepos' => ReleasesExact' /\ AssetsExact'
  BY DEF LoopExact
<1>1. /\ loop.phase # "idle" /\ ListedSoFar
      /\ ~BetweenRepos => ReleasesExact /\ AssetsExact
  BY DEF LoopExact
<1>2. BetweenRepos' <=> BetweenRepos
  BY DEF BetweenRepos
<1>3. ListedSoFar'
  <2>1. \A repo : Behind(repo)' <=> Behind(repo)
    BY <1>2 DEF Behind
  <2>2. \A repo : Rightful(repo)' = Rightful(repo)
    BY SameRight
  <2>3. \A repo : Yielding(repo)' = Yielding(repo) /\ Newest(repo)' = Newest(repo)
    BY SameRight
  <2> QED BY <1>1, <2>1, <2>2, <2>3 DEF ListedSoFar
<1>4. ASSUME ReleasesExact PROVE ReleasesExact'
  BY <1>4, SameRight, SameYield DEF ReleasesExact, LeftExact
<1>5. ASSUME AssetsExact PROVE AssetsExact'
  <2>1. tag' = tag
    BY DEF tag, CurrentRelease
  <2>2. Debs' = Debs
    BY <2>1 DEF Debs, AssetsFor, Wanted, architectures, Setup
  <2>3. Yield(tag)' = Yield(tag)
    BY <2>1, SameYield DEF Yield, Accepted, ToBeSigned, SignerFor, signer, Setup, evidence,
                           architectures
  <2>4. CASE loop.phase \in {"sums", "judge-sums"}
    BY <1>5, <2>4 DEF AssetsExact, Ours
  <2>5. CASE loop.phase \notin {"sums", "judge-sums"}
    <3>1. Passed' = Passed
      BY <2>2, <2>5 DEF Passed
    <3>2. Ours(loop.repo, list) = PackagesFrom(loop.repo, (Passed \cap Yield(tag))')
      BY <1>5, <2>3, <2>5, <3>1 DEF AssetsExact
    <3>3. loop'.hasDeb <=> (Passed \cap Yield(tag))' # {}
      BY <1>5, <2>3, <2>5, <3>1 DEF AssetsExact
    <3>4. /\ DOMAIN loop'.assets \subseteq DOMAIN Debs'
          /\ \A j \in DOMAIN loop'.assets : loop'.assets[j] = Debs'[j]
      BY <1>5, <2>2, <2>5 DEF AssetsExact
    <3>5. loop'.hasDeb => world[tag].uploaded <= latest
      BY <1>5, <2>5 DEF AssetsExact
    <3> QED BY <2>1, <2>5, <3>2, <3>3, <3>4, <3>5 DEF AssetsExact, Ours, PackagesFrom
  <2> QED BY <2>4, <2>5
<1>6. loop'.phase # "idle"
  BY <1>1
<1> QED BY <1>1, <1>2, <1>3, <1>4, <1>5, <1>6

LEMMA BeginExact ==
  ASSUME BeginGitHub
  PROVE  LoopExact'
<1>1. loop'.phase = "repo" /\ loop'.todo = Repo /\ list' = {}
  BY DEF BeginGitHub, BeginListing, NextRepo, Between
<1>2. BetweenRepos'
  BY <1>1 DEF BetweenRepos
<1>3. ListedSoFar'
  BY <1>1 DEF ListedSoFar, Behind, Ours
<1> QED BY <1>1, <1>2, <1>3 DEF LoopExact

LEMMA ListReleasesExact ==
  ASSUME LoopExact, NEW repo \in Repo, ListReleases(repo)
  PROVE  LoopExact'
<1> SUFFICES ASSUME listing, ~raced
             PROVE  /\ loop'.phase # "idle" /\ ListedSoFar'
                    /\ ~BetweenRepos' => ReleasesExact' /\ AssetsExact'
  BY DEF ListReleases, renderingVars, LoopExact
<1>1. /\ loop.phase = "repo" /\ repo \in loop.todo
      /\ loop' = NextRelease(loop.todo \ {repo}, repo, Listed(repo))
      /\ UNCHANGED <<config, world, attested, list, latest>>
  BY DEF ListReleases, InPhase, renderingVars
<1>2. ListedSoFar
  BY DEF LoopExact
<1>3. LeftExact(repo, Listed(repo))
  <2>1. DOMAIN Listed(repo) = Shown(repo)
    BY DEF Listed, Shown
  <2>2. \A i \in DOMAIN Listed(repo) :
          /\ Listed(repo)[i].tag = Catalog[repo][i]
          /\ Listed(repo)[i].uploaded = world[Catalog[repo][i]].uploaded
    BY DEF Listed
  <2> QED BY <2>1, <2>2 DEF LeftExact
<1>4. Ours(repo, list) = {} /\ OthersListed(repo, loop.todo \ {repo})
  BY <1>1, <1>2 DEF ListedSoFar, OthersListed, Behind, BetweenRepos
<1>5. ListedSoFar' /\ (~BetweenRepos => ReleasesExact /\ AssetsExact)' /\ loop'.phase # "idle"
  BY <1>1, <1>3, <1>4, NextReleaseExact
<1> QED BY <1>5

\* Where a listing is that has a repository in hand.
LEMMA ExactInHand ==
  ASSUME LoopOK, LoopExact, listing, ~raced, loop.phase \notin {"idle", "repo"}
  PROVE  /\ ListedSoFar /\ ReleasesExact /\ AssetsExact
         /\ loop.repo \in Repo /\ loop.repo \notin loop.todo
         /\ LeftExact(loop.repo, loop.releases)
         /\ OthersListed(loop.repo, loop.todo)
<1>1. ListedSoFar /\ ReleasesExact /\ AssetsExact
  BY DEF LoopExact, BetweenRepos
<1>2. loop.repo \in Repo
  BY DEF LoopOK, LoopAt, Underway
<1>3. OthersListed(loop.repo, loop.todo)
  BY <1>1 DEF ListedSoFar, OthersListed, Behind
<1> QED BY <1>1, <1>2, <1>3 DEF ReleasesExact

LEMMA JudgeSumsExact ==
  ASSUME TypeOK, LoopOK, LoopExact, JudgeSums
  PROVE  LoopExact'
<1>1. /\ listing /\ loop.phase = "judge-sums"
      /\ UNCHANGED <<config, world, attested, listing, raced, list, latest>>
  BY DEF JudgeSums, InPhase, renderingVars
<1>2. CASE NextAsset(FALSE)
  <2>1. /\ loop'.todo = loop.todo /\ loop'.repo = loop.repo /\ loop'.releases = loop.releases
        /\ loop'.hasDeb <=> loop.hasDeb
        /\ loop'.phase = "sums"
    BY <1>1, <1>2 DEF NextAsset, LoopOK, LoopAt, IsRecord
  <2> QED BY <1>1, <2>1, SameExact
<1>3. CASE loop' = Looking("assets", loop.todo, loop.repo, loop.releases,
                           ParseSums(File[loop.bytes].sums))
  <2> SUFFICES ASSUME ~raced
               PROVE  /\ loop'.phase # "idle" /\ ListedSoFar'
                      /\ ~BetweenRepos' => ReleasesExact' /\ AssetsExact'
    BY <1>1 DEF LoopExact
  <2>1. /\ LeftExact(loop.repo, loop.releases) /\ OthersListed(loop.repo, loop.todo)
        /\ Ours(loop.repo, list) = {} /\ loop.repo \in Repo /\ loop.repo \notin loop.todo
    BY <1>1, ExactInHand DEF AssetsExact
  <2>2. ~Done(loop.releases)
    BY <1>1 DEF LoopOK, LoopAt, Underway
  <2>3. ListedSoFar' /\ (~BetweenRepos => ReleasesExact /\ AssetsExact)' /\ loop'.phase # "idle"
    BY <1>1, <1>3, <2>1, <2>2, LookingExact
  <2> QED BY <2>3
<1> QED BY <1>2, <1>3 DEF JudgeSums

\* The loop is through with a .deb, and has listed it if that is right.
LEMMA NextDebExact ==
  ASSUME TypeOK, LoopOK, LoopExact, listing, loop.phase = "judge-deb",
         NEW right \in BOOLEAN, ~raced => (right <=> CurrentAsset \in Yield(tag)),
         NextAsset(right), UNCHANGED <<config, world, attested, listing, raced>>,
         IF right
         THEN /\ list' = list \cup {Package(AssetKey, CurrentAsset, CurrentAsset, CurrentAsset)}
              /\ latest' = Later(latest, CurrentRelease.uploaded)
         ELSE UNCHANGED <<list, latest>>
  PROVE  LoopExact'
<1> SUFFICES ASSUME ~raced
             PROVE  /\ loop'.phase # "idle" /\ ListedSoFar'
                    /\ ~BetweenRepos' => ReleasesExact' /\ AssetsExact'
  BY DEF LoopExact
<1>1. /\ ListedSoFar /\ ReleasesExact /\ AssetsExact
      /\ loop.repo \in Repo /\ loop.repo \notin loop.todo
      /\ LeftExact(loop.repo, loop.releases)
  BY ExactInHand
<1>2. /\ loop'.todo = loop.todo /\ loop'.repo = loop.repo /\ loop'.releases = loop.releases
      /\ loop'.assets = Rest(loop.assets) /\ loop'.hasDeb = (loop.hasDeb \/ right)
      /\ loop'.phase = "assets"
  BY DEF NextAsset, LoopOK, LoopAt, IsRecord
<1>3. Underway(loop, now) /\ ~Done(loop.assets)
  BY DEF LoopOK, LoopAt, Underway
<1>4. PICK j \in DOMAIN loop.assets :
        /\ CurrentAsset = loop.assets[j]
        /\ DOMAIN Rest(loop.assets) = DOMAIN loop.assets \ {j}
        /\ \A k \in DOMAIN Rest(loop.assets) : Rest(loop.assets)[k] = loop.assets[k]
  BY <1>3, NextUp DEF Underway, CurrentAsset
<1>5. /\ DOMAIN loop.assets \subseteq DOMAIN Debs
      /\ \A k \in DOMAIN loop.assets : loop.assets[k] = Debs[k]
      /\ Ours(loop.repo, list) = PackagesFrom(loop.repo, Passed \cap Yield(tag))
      /\ loop.hasDeb <=> Passed \cap Yield(tag) # {}
      /\ loop.hasDeb => world[tag].uploaded <= latest
  BY <1>1 DEF AssetsExact
<1>6. tag' = tag
  BY <1>2 DEF tag, CurrentRelease
<1>7. Debs' = Debs
  BY <1>6 DEF Debs, AssetsFor, Wanted, architectures, Setup
<1>8. Yield(tag)' = Yield(tag)
  BY <1>6, SameYield DEF Yield, Accepted, ToBeSigned, SignerFor, signer, Setup, evidence,
                         architectures
<1>9. Passed' = Passed \cup {CurrentAsset}
  BY <1>2, <1>4, <1>5, <1>7 DEF Passed
<1>10. (Passed \cap Yield(tag))' =
         IF right THEN (Passed \cap Yield(tag)) \cup {CurrentAsset} ELSE Passed \cap Yield(tag)
  BY <1>8, <1>9
<1>11. CurrentRelease.uploaded = world[tag].uploaded /\ tag \in Release
       /\ world[tag].uploaded \in 0..now
  <2>1. PICK i \in DOMAIN loop.releases : First(loop.releases) = loop.releases[i]
    BY <1>3, NextUp DEF Underway, ReleasesOK
  <2>2. CurrentRelease.uploaded = world[tag].uploaded
    BY <1>1, <2>1 DEF LeftExact, CurrentRelease, tag
  <2> QED BY <2>2, InHand
<1>12. /\ latest \in Nat /\ latest' \in Nat /\ latest <= latest'
       /\ right => world[tag].uploaded <= latest'
  BY <1>11 DEF TypeOK, Later
<1>13. AssetKey = <<loop.repo, CurrentAsset>>
  BY DEF AssetKey, Key
<1>14. \A repo \in Repo \ {loop.repo} : Ours(repo, list') = Ours(repo, list)
  BY <1>13 DEF Ours, Package
<1>15. ListedSoFar'
  <2>1. \A repo : (Behind(repo)' <=> repo # loop.repo /\ repo \notin loop.todo)
    BY <1>2 DEF Behind, BetweenRepos
  <2>2. \A repo : (Behind(repo) <=> repo # loop.repo /\ repo \notin loop.todo)
    BY DEF Behind, BetweenRepos
  <2>3. \A repo \in Repo : Yielding(repo) # {} => world[Newest(repo)].uploaded \in Nat
    BY NewestIs DEF TypeOK, NewestFacts, NewestOf
  <2>4. ASSUME NEW repo \in Repo, repo \in loop.todo PROVE Ours(repo, list') = {}
    BY <1>1, <1>14, <2>4 DEF ListedSoFar
  <2>5. ASSUME NEW repo \in Repo, Behind(repo)'
        PROVE  /\ Ours(repo, list') = Rightful(repo)'
               /\ Yielding(repo)' # {} => world'[Newest(repo)'].uploaded <= latest'
    <3>1. /\ Ours(repo, list) = Rightful(repo)
          /\ Yielding(repo) # {} => world[Newest(repo)].uploaded <= latest
      BY <1>1, <2>1, <2>2, <2>5 DEF ListedSoFar
    <3>2. Yielding(repo) # {} => world[Newest(repo)].uploaded <= latest'
      BY <1>12, <2>3, <3>1
    <3> QED BY <1>14, <2>1, <2>5, <3>1, <3>2, SameRight
  <2> QED BY <1>2, <2>4, <2>5 DEF ListedSoFar, Ours
<1>16. ReleasesExact'
  BY <1>1, <1>2, SameRight, SameYield DEF ReleasesExact, LeftExact
<1>17. AssetsExact'
  <2>1. Ours(loop.repo, list') = PackagesFrom(loop.repo, (Passed \cap Yield(tag))')
    <3>1. CASE right
      <4>1. Ours(loop.repo, list') = Ours(loop.repo, list)
              \cup {Package(<<loop.repo, CurrentAsset>>, CurrentAsset, CurrentAsset, CurrentAsset)}
        BY <1>13, <3>1 DEF Ours, Package
      <4> QED BY <1>5, <1>10, <3>1, <4>1, FromOne
    <3>2. CASE ~right
      BY <1>5, <1>10, <3>2
    <3> QED BY <3>1, <3>2
  <2>2. loop'.hasDeb <=> (Passed \cap Yield(tag))' # {}
    BY <1>2, <1>5, <1>10
  <2>3. loop'.hasDeb => world[tag].uploaded <= latest'
    BY <1>2, <1>5, <1>11, <1>12
  <2>4. /\ DOMAIN loop'.assets \subseteq DOMAIN Debs'
        /\ \A k \in DOMAIN loop'.assets : loop'.assets[k] = Debs'[k]
    BY <1>2, <1>4, <1>5, <1>7
  <2> QED BY <1>2, <1>6, <2>1, <2>2, <2>3, <2>4 DEF AssetsExact, Ours, PackagesFrom
<1> QED BY <1>2, <1>15, <1>16, <1>17

\* The asset in hand is one of its release, and a .deb that is asked for.
LEMMA DebInHand ==
  ASSUME TypeOK, LoopOK, LoopExact, listing, ~raced, loop.phase = "judge-deb"
  PROVE  /\ Located(loop.repo, tag, CurrentAsset) /\ loop.bytes = CurrentAsset
         /\ CurrentAsset \in ToSet(Assets[tag])
         /\ File[CurrentAsset].ext = ".deb" /\ File[CurrentAsset].arch \in architectures
<1>1. /\ Located(loop.repo, tag, CurrentAsset) /\ loop.bytes = CurrentAsset
      /\ ~Done(loop.assets)
  BY InHand
<1>2. PICK j \in DOMAIN loop.assets : CurrentAsset = loop.assets[j]
  <2>1. DOMAIN loop.assets \subseteq Nat
    BY DEF LoopOK, LoopAt, Underway
  <2> QED BY <1>1, <2>1, NextUp DEF CurrentAsset
<1>3. j \in DOMAIN Debs /\ CurrentAsset = Debs[j]
  BY <1>2, ExactInHand DEF AssetsExact
<1>4. j \in DOMAIN Assets[tag] /\ CurrentAsset = Assets[tag][j]
      /\ Wanted("assets", tag, CurrentAsset)
  BY <1>3 DEF Debs, AssetsFor
<1> QED BY <1>1, <1>4 DEF Wanted, ToSet

LEMMA ListDebExact ==
  ASSUME TypeOK, LoopOK, LoopExact, ListDeb
  PROVE  LoopExact'
<1>1. /\ listing /\ loop.phase = "judge-deb" /\ DebVerdict = "yes" /\ Content.status = "ok"
      /\ Found(Package(AssetKey, loop.bytes, loop.bytes, loop.bytes), CurrentRelease.uploaded)
      /\ NextAsset(TRUE) /\ UNCHANGED <<config, world, attested>>
  BY DEF ListDeb, InPhase
<1>2. loop.bytes = CurrentAsset /\ CurrentAsset \in Asset
  BY <1>1, InHand DEF Located
<1>3. ASSUME ~raced PROVE CurrentAsset \in Yield(tag)
  <2>1. Accepted(CurrentAsset)
    BY <1>1, YesIsAccepted
  <2>2. Contents[CurrentAsset].status = "ok"
    BY <1>1, <1>2 DEF Content
  <2> QED BY <1>1, <1>3, <2>1, <2>2, DebInHand DEF Yield
<1> QED BY <1>1, <1>2, <1>3, NextDebExact DEF Found

LEMMA PassOverDebExact ==
  ASSUME TypeOK, LoopOK, LoopExact, PassOverDeb
  PROVE  LoopExact'
<1>1. /\ listing /\ loop.phase = "judge-deb" /\ DebVerdict # "error"
      /\ DebVerdict = "yes" => Content.status = "nothing"
      /\ NextAsset(FALSE) /\ UNCHANGED <<renderingVars, config, world, attested>>
  BY DEF PassOverDeb, InPhase
<1>2. /\ loop.bytes = CurrentAsset /\ Located(loop.repo, tag, CurrentAsset)
      /\ loop.repo \in Repo /\ tag \in Release /\ CurrentAsset \in Asset
  BY <1>1, InHand DEF Located
<1>3. CurrentAsset \notin Yield(tag)
  <2>1. CASE DebVerdict = "yes"
    BY <1>1, <1>2, <2>1 DEF Content, Yield
  <2>2. CASE DebVerdict # "yes"
    <3>1. Verdict \in {"yes", "no", "error"}
      <4>1. config \in DOMAIN Config
        BY <1>2 DEF TypeOK
      <4>2. SignerOf(Config[config], loop.repo).kind \in {"fixed", "rekor", "github"}
        BY <1>2, <4>1, Signers
      <4> QED BY <1>2, <4>2, VerdictIs DEF Verify, VerifyLoop
    <3>2. loop.sums = NoSums /\ Verdict = "no"
      BY <1>1, <2>2, <3>1 DEF DebVerdict
    <3>3. ~Setup.repos[loop.repo].checksums
      BY <1>1, <3>2 DEF LoopOK, LoopAt, SumsFrom, Setup
    <3>4. ToBeSigned(CurrentAsset) = {CurrentAsset}
      BY <1>2, <3>3, OneWay DEF ToBeSigned
    <3>5. ~SaysYes(config, attested, loop.repo, tag, CurrentAsset)
      BY <1>2, <3>2, VerdictIs DEF SaysYes
    <3> QED BY <1>2, <3>4, <3>5, AcceptedIs DEF Yield
  <2> QED BY <2>1, <2>2
<1> QED BY <1>1, <1>3, NextDebExact DEF renderingVars

\* A release that has a package is the newest of its repository that does.
LEMMA EndReleaseExact ==
  ASSUME TypeOK, LoopOK, LoopExact, EndRelease
  PROVE  LoopExact'
<1>1. /\ listing /\ loop.phase = "assets" /\ Done(loop.assets)
      /\ UNCHANGED <<config, world, attested, listing, raced, list, latest>>
  BY DEF EndRelease, InPhase, renderingVars
<1> SUFFICES ASSUME ~raced
             PROVE  /\ loop'.phase # "idle" /\ ListedSoFar'
                    /\ ~BetweenRepos' => ReleasesExact' /\ AssetsExact'
  BY <1>1 DEF LoopExact
<1>2. /\ AssetsExact /\ LeftExact(loop.repo, loop.releases) /\ OthersListed(loop.repo, loop.todo)
      /\ loop.repo \in Repo /\ loop.repo \notin loop.todo
  BY <1>1, ExactInHand
<1>3. Underway(loop, now)
  BY <1>1 DEF LoopOK, LoopAt
<1> DEFINE releases == loop.releases
           i == Min(DOMAIN releases)
<1>4. /\ i \in DOMAIN releases /\ \A j \in DOMAIN releases : i <= j
      /\ tag = Catalog[loop.repo][i]
      /\ DOMAIN Rest(releases) = DOMAIN releases \ {i}
      /\ \A j \in DOMAIN Rest(releases) : Rest(releases)[j] = releases[j]
  <2>1. i \in DOMAIN releases /\ \A j \in DOMAIN releases : i <= j
    BY <1>3, MinIsLeast DEF Underway, ReleasesOK, Done
  <2>2. tag = releases[i].tag
    BY DEF tag, CurrentRelease, First
  <2> QED BY <1>2, <2>1, <2>2 DEF LeftExact, Rest
<1> HIDE DEF i
<1>5. Passed \cap Yield(tag) = Yield(tag)
  <2>1. DOMAIN Debs = {j \in DOMAIN Assets[tag] : Wanted("assets", tag, Assets[tag][j])}
        /\ \A j \in DOMAIN Debs : Debs[j] = Assets[tag][j]
    BY DEF Debs, AssetsFor
  <2>2. ASSUME NEW a \in Yield(tag) PROVE a \in Passed
    <3>1. PICK j \in DOMAIN Assets[tag] : a = Assets[tag][j]
      BY <2>2 DEF Yield, ToSet
    <3>2. Wanted("assets", tag, a)
      BY <2>2 DEF Yield, Wanted
    <3> QED BY <1>1, <2>1, <3>1, <3>2 DEF Passed, Done
  <2> QED BY <2>2
<1>6. /\ Ours(loop.repo, list) = PackagesFrom(loop.repo, Yield(tag))
      /\ loop.hasDeb <=> Yield(tag) # {}
      /\ loop.hasDeb => world[tag].uploaded <= latest
  BY <1>1, <1>2, <1>5 DEF AssetsExact
<1>7. CASE loop.hasDeb
  <2>1. loop' = NextRepo(loop.todo)
    BY <1>7 DEF EndRelease
  <2>2. loop'.phase = "repo" /\ loop'.todo = loop.todo
    BY <2>1 DEF NextRepo, Between
  <2>3. i \in Yielding(loop.repo) /\ \A j \in Yielding(loop.repo) : i <= j
    <3>1. Yielding(loop.repo) = {j \in Shown(loop.repo) : Yield(Catalog[loop.repo][j]) # {}}
      BY <1>2, NewestIs DEF NewestFacts, NewestOf
    <3>2. Yielding(loop.repo) \subseteq DOMAIN releases
      BY <1>2, <3>1 DEF LeftExact
    <3>3. i \in Shown(loop.repo) /\ Yield(Catalog[loop.repo][i]) # {}
      BY <1>2, <1>4, <1>6, <1>7 DEF LeftExact
    <3> QED BY <1>4, <3>1, <3>2, <3>3
  <2>4. Newest(loop.repo) = tag /\ Rightful(loop.repo) = PackagesFrom(loop.repo, Yield(tag))
    BY <1>2, <1>4, <2>3, NewestIs DEF NewestFacts, NewestOf
  <2>5. \A repo \in Repo : repo \notin loop.todo =>
             /\ Ours(repo, list) = Rightful(repo)
             /\ Yielding(repo) # {} => world[Newest(repo)].uploaded <= latest
    BY <1>2, <1>6, <1>7, <2>4 DEF OthersListed
  <2>6. BetweenRepos'
    BY <2>2 DEF BetweenRepos
  <2>7. ListedSoFar'
    BY <1>1, <1>2, <2>2, <2>5, SameRight DEF ListedSoFar, OthersListed, Behind
  <2> QED BY <2>2, <2>6, <2>7
<1>8. CASE ~loop.hasDeb
  <2>1. loop' = NextRelease(loop.todo, loop.repo, Rest(releases))
    BY <1>8 DEF EndRelease
  <2>2. Yield(tag) = {} /\ Ours(loop.repo, list) = {}
    BY <1>6, <1>8, FromOne
  <2>3. LeftExact(loop.repo, Rest(releases))
    BY <1>2, <1>4, <2>2 DEF LeftExact
  <2>4. ListedSoFar' /\ (~BetweenRepos => ReleasesExact /\ AssetsExact)' /\ loop'.phase # "idle"
    BY <1>1, <1>2, <2>1, <2>2, <2>3, NextReleaseExact
  <2> QED BY <2>4
<1> QED BY <1>7, <1>8

\* A listing that nothing happened in ends with what is right to list.
LEMMA ListIsRight ==
  ASSUME ListOK, LoopExact, listing, ~raced, loop.phase = "repo", loop.todo = {}
  PROVE  /\ \A repo \in Repo : Ours(repo, list) = Rightful(repo)
         /\ \A repo \in Repo : Yielding(repo) # {} => world[Newest(repo)].uploaded <= latest
         /\ list = UNION {Rightful(repo) : repo \in Repo}
<1>1. \A repo \in Repo : Behind(repo)
  BY DEF Behind, BetweenRepos
<1>2. \A repo \in Repo : /\ Ours(repo, list) = Rightful(repo)
                         /\ Yielding(repo) # {} => world[Newest(repo)].uploaded <= latest
  BY <1>1 DEF LoopExact, ListedSoFar
<1>3. \A pkg \in list : pkg.filename[1] \in Repo
  BY DEF ListOK, IsPackage, Located, Package, Key
<1>4. list = UNION {Rightful(repo) : repo \in Repo}
  BY <1>2, <1>3 DEF Ours
<1> QED BY <1>2, <1>4

-----------------------------------------------------------------------------
(* The page.                                                               *)

Existing(repo) == {i \in DOMAIN Catalog[repo] : Exists(Catalog[repo][i])}

Before(repo, i) == {j \in Existing(repo) : j < i}

LEMMA PageIs ==
  ASSUME NEW repo \in Repo
  PROVE  /\ Len(Catalog[repo]) \in Nat /\ Existing(repo) \in SUBSET (1..Len(Catalog[repo]))
         /\ Existing(repo) \in SUBSET Nat /\ IsFiniteSet(Existing(repo))
         /\ Page(repo) = {i \in Existing(repo) : Cardinality(Before(repo, i)) < PerPage}
         /\ \A i : Before(repo, i) \in SUBSET Existing(repo) /\ IsFiniteSet(Before(repo, i))
         /\ \A i : Cardinality(Before(repo, i)) \in Nat
         /\ IsFiniteSet(Page(repo)) /\ Cardinality(Page(repo)) \in Nat
<1>1. Catalog[repo] \in Seq(Release)
  BY CatalogAssumption
<1>2. Len(Catalog[repo]) \in Nat /\ DOMAIN Catalog[repo] = 1..Len(Catalog[repo])
  BY <1>1
<1>3. Existing(repo) \in SUBSET (1..Len(Catalog[repo])) /\ Existing(repo) \in SUBSET Nat
  BY <1>2 DEF Existing
<1>4. IsFiniteSet(Existing(repo))
  <2>1. IsFiniteSet(1..Len(Catalog[repo]))
    BY <1>2, FS_Interval
  <2> QED BY <1>3, <2>1, FS_Subset
<1>5. Page(repo) = {i \in Existing(repo) : Cardinality(Before(repo, i)) < PerPage}
  BY DEF Page, Existing, Before
<1>6. \A i : Before(repo, i) \in SUBSET Existing(repo)
  BY DEF Before
<1>7. \A i : IsFiniteSet(Before(repo, i))
  BY <1>4, <1>6, FS_Subset
<1>8. IsFiniteSet(Page(repo))
  BY <1>4, <1>5, FS_Subset
<1> QED BY <1>2, <1>3, <1>4, <1>5, <1>6, <1>7, <1>8, FS_CardinalityType

\* A page has PerPage releases at most, and that many if it does not have all.
LEMMA PageBound ==
  ASSUME NEW repo \in Repo
  PROVE  /\ Cardinality(Page(repo)) <= PerPage
         /\ Page(repo) # Existing(repo) => Cardinality(Page(repo)) = PerPage
<1>0. PerPage \in Nat
  BY LimitsAssumption
<1>1. Cardinality(Page(repo)) <= PerPage
  <2>1. CASE Page(repo) = {}
    BY <1>0, <2>1, FS_EmptySet
  <2>2. CASE Page(repo) # {}
    <3>1. Page(repo) \in SUBSET (1..Len(Catalog[repo])) /\ Len(Catalog[repo]) \in Nat
      BY PageIs
    <3>2. PICK k \in Page(repo) : \A i \in Page(repo) : i <= k
      BY <2>2, <3>1, Greatest
    <3>3. k \notin Before(repo, k) /\ k \in Nat
      BY <3>1, <3>2 DEF Before
    <3>4. Page(repo) \subseteq Before(repo, k) \cup {k}
      <4>1. \A i \in Page(repo) : i \in Existing(repo) /\ i \in Nat /\ k \in Nat /\ i <= k
        BY <3>1, <3>2, PageIs
      <4> QED BY <4>1 DEF Before
    <3>5. /\ IsFiniteSet(Before(repo, k) \cup {k})
          /\ Cardinality(Before(repo, k) \cup {k}) = Cardinality(Before(repo, k)) + 1
      BY <3>3, PageIs, FS_AddElement
    <3>6. Cardinality(Page(repo)) <= Cardinality(Before(repo, k) \cup {k})
      BY <3>4, <3>5, FS_Subset
    <3>7. Cardinality(Before(repo, k)) < PerPage
      BY <3>2, PageIs
    <3> QED BY <1>0, <3>5, <3>6, <3>7, PageIs
  <2> QED BY <2>1, <2>2
<1>2. ASSUME Page(repo) # Existing(repo) PROVE Cardinality(Page(repo)) >= PerPage
  <2> DEFINE T == Existing(repo) \ Page(repo)
  <2>1. T \in SUBSET Nat /\ T # {}
    BY <1>2, PageIs
  <2>2. PICK m \in T : \A i \in T : m <= i
    <3> HIDE DEF T
    <3> QED BY <2>1, Least
  <2>3. Cardinality(Before(repo, m)) >= PerPage
    BY <1>0, <2>2, PageIs
  <2>4. Before(repo, m) \subseteq Page(repo)
    <3>1. \A i \in Before(repo, m) : i \in Existing(repo) /\ i \in Nat /\ m \in Nat /\ i < m
      BY <2>1, <2>2, PageIs DEF Before
    <3> QED BY <2>2, <3>1
  <2>5. Cardinality(Before(repo, m)) <= Cardinality(Page(repo))
    BY <2>4, PageIs, FS_Subset
  <2> QED BY <1>0, <2>3, <2>5, PageIs
<1> QED BY <1>0, <1>1, <1>2, PageIs

\* A page that is not full has room for a new release.
LEMMA RoomOnPage ==
  ASSUME TypeOK, NEW rel \in Release, Create(rel), ~FullPage(rel), NEW repo \in Repo
  PROVE  /\ Page(repo) \subseteq Page(repo)'
         /\ \A i \in Page(repo)' \ Page(repo) : Catalog[repo][i] = rel
<1>1. /\ \A other \in Release \ {rel} : world'[other] = world[other]
      /\ world[rel].state = "absent" /\ world'[rel].state \in {"draft", "published"}
  BY DEF Create, Set, TypeOK
<1>2. /\ Len(Catalog[repo]) \in Nat /\ DOMAIN Catalog[repo] = 1..Len(Catalog[repo])
      /\ \A i \in DOMAIN Catalog[repo] : Catalog[repo][i] \in Release
  BY CatalogAssumption
<1>3. \A i \in DOMAIN Catalog[repo] : Catalog[repo][i] # rel =>
        (Exists(Catalog[repo][i])' <=> Exists(Catalog[repo][i]))
  BY <1>1, <1>2 DEF Exists
<1>4. ~Exists(rel) /\ Exists(rel)'
  BY <1>1 DEF Exists
<1>5. CASE ~Contains(Catalog[repo], rel)
  <2>1. \A i \in DOMAIN Catalog[repo] : Catalog[repo][i] # rel
    BY <1>2, <1>5 DEF Contains
  <2>2. Page(repo)' = Page(repo)
    BY <1>3, <2>1 DEF Page
  <2> QED BY <2>2
<1>6. CASE Contains(Catalog[repo], rel)
  <2>1. PICK p \in DOMAIN Catalog[repo] : Catalog[repo][p] = rel
    BY <1>2, <1>6 DEF Contains
  <2>2. ASSUME NEW i \in DOMAIN Catalog[repo], Catalog[repo][i] = rel PROVE i = p
    <3>1. \A k, j \in 1..Len(Catalog[repo]) :
            k < j /\ Catalog[repo][k] = rel => world[Catalog[repo][j]].state # "absent"
      BY DEF Create
    <3>2. ~(i < p) /\ ~(p < i) /\ i \in Nat /\ p \in Nat
      BY <1>1, <1>2, <2>1, <2>2, <3>1
    <3> QED BY <3>2
  <2>3. Existing(repo)' = Existing(repo) \cup {p} /\ p \notin Existing(repo)
    BY <1>3, <1>4, <2>1, <2>2 DEF Existing
  <2>4. /\ Cardinality(Page(repo)) < PerPage /\ Page(repo) = Existing(repo)
    <3>1. Cardinality(Page(repo)) # PerPage
      BY <1>6 DEF FullPage
    <3> QED BY <3>1, PageBound, PageIs, LimitsAssumption
  <2>5. Page(repo)' \subseteq Page(repo) \cup {p}
    BY <2>3, <2>4 DEF Page, Existing
  <2>6. ASSUME NEW i \in Page(repo) PROVE i \in Page(repo)'
    <3>1. /\ IsFiniteSet(Existing(repo)')
          /\ Cardinality(Existing(repo)') = Cardinality(Page(repo)) + 1
      BY <2>3, <2>4, PageIs, FS_AddElement
    <3>2. i \in Existing(repo)'
      BY <2>3, <2>4
    <3>3. /\ IsFiniteSet(Existing(repo)' \ {i})
          /\ Cardinality(Existing(repo)' \ {i}) = Cardinality(Page(repo))
      <4>1. /\ IsFiniteSet(Existing(repo)' \ {i})
            /\ Cardinality(Existing(repo)' \ {i}) = Cardinality(Existing(repo)') - 1
        BY <3>1, <3>2, FS_RemoveElement
      <4>2. Cardinality(Page(repo)) \in Nat
        BY PageIs
      <4> QED BY <3>1, <4>1, <4>2
    <3>4. Before(repo, i)' \subseteq Existing(repo)' \ {i}
      <4>1. i \in Nat
        BY PageIs
      <4> QED BY <4>1 DEF Before
    <3>5. Cardinality(Before(repo, i)') <= Cardinality(Page(repo)) /\ IsFiniteSet(Before(repo, i)')
      BY <3>3, <3>4, FS_Subset
    <3>6. Cardinality(Before(repo, i)') < PerPage
      BY <2>4, <3>5, FS_CardinalityType, PageIs, LimitsAssumption
    <3> QED BY <3>2, <3>6 DEF Page, Existing, Before
  <2> QED BY <2>1, <2>5, <2>6
<1> QED BY <1>5, <1>6

-----------------------------------------------------------------------------
(* Changes, and the index.                                                 *)

\* A change of one release that adds it to what is shown, or to what it yields, and leaves
\* it not older than the index: a repository is as it was, or its newest packages are not
\* older than the index.
LEMMA ChangeShows ==
  ASSUME TypeOK, TypeOK', IndexExact, ~quiet, UNCHANGED <<config, rendered, renderTime>>,
         NEW rel \in Release, world'[rel].uploaded >= renderTime,
         \A other \in Release \ {rel} :
            world'[other] = world[other] /\ Yield(other)' = Yield(other),
         NEW repo \in Repo,
         Shown(repo) \subseteq Shown(repo)',
         \A i \in Shown(repo)' \ Shown(repo) : Catalog[repo][i] = rel,
         \A i \in Shown(repo) : Catalog[repo][i] = rel /\ Yield(rel) # {} => Yield(rel)' # {}
  PROVE  \/ Ours(repo, rendered)' = Rightful(repo)'
         \/ Yielding(repo)' # {} /\ world'[Newest(repo)'].uploaded >= renderTime'
<1>1. \A i \in DOMAIN Catalog[repo] : Catalog[repo][i] \in Release
  BY CatalogAssumption
<1>2. /\ Shown(repo) \in SUBSET Nat /\ Shown(repo) \subseteq DOMAIN Catalog[repo]
      /\ Yielding(repo) = {i \in Shown(repo) : Yield(Catalog[repo][i]) # {}}
      /\ Yielding(repo) = {} => Rightful(repo) = {}
  BY NewestIs DEF NewestFacts, NewestOf
<1>3. /\ Shown(repo)' \in SUBSET Nat /\ Shown(repo)' \subseteq DOMAIN Catalog[repo]
      /\ Yielding(repo)' = {i \in Shown(repo)' : Yield(Catalog[repo][i])' # {}}
      /\ Yielding(repo)' = {} => Rightful(repo)' = {}
      /\ \A i \in Yielding(repo)' :
           (\A j \in Yielding(repo)' : i <= j) =>
              /\ Newest(repo)' = Catalog[repo][i]
              /\ Rightful(repo)' = PackagesFrom(repo, Yield(Catalog[repo][i])')
  <2>1. NewestFacts'
    BY NewestIs, PTL
  <2> QED BY <2>1 DEF NewestFacts, NewestOf
<1>4. Yielding(repo) \subseteq Yielding(repo)'
  BY <1>1, <1>2, <1>3
<1>5. CASE Yielding(repo)' = {}
  BY <1>2, <1>3, <1>4, <1>5 DEF IndexExact, Ours
<1>6. CASE Yielding(repo)' # {}
  <2>1. PICK i \in Yielding(repo)' : \A j \in Yielding(repo)' : i <= j
    <3>1. Yielding(repo)' \in SUBSET Nat
      BY <1>3
    <3> QED BY <1>6, <3>1, Least
  <2>2. Newest(repo)' = Catalog[repo][i] /\ Rightful(repo)' = PackagesFrom(repo, Yield(Catalog[repo][i])')
    BY <1>3, <2>1
  <2>3. CASE Catalog[repo][i] = rel
    BY <1>6, <2>2, <2>3
  <2>4. CASE Catalog[repo][i] # rel
    <3>1. Catalog[repo][i] \in Release \ {rel} /\ i \in Shown(repo)
      BY <1>1, <1>3, <2>1, <2>4
    <3>2. i \in Yielding(repo) /\ \A j \in Yielding(repo) : i <= j
      BY <1>2, <1>3, <1>4, <2>1, <3>1
    <3>3. Newest(repo) = Catalog[repo][i] /\ Rightful(repo) = PackagesFrom(repo, Yield(Catalog[repo][i]))
      BY <3>2, NewestIs DEF NewestFacts, NewestOf
    <3>4. Newest(repo)' = Newest(repo) /\ Rightful(repo)' = Rightful(repo)
          /\ world'[Newest(repo)] = world[Newest(repo)]
      BY <2>2, <3>1, <3>3
    <3> QED BY <1>6, <3>4 DEF IndexExact, Ours
  <2> QED BY <2>3, <2>4
<1> QED BY <1>5, <1>6

LEMMA IndexStays ==
  ASSUME IndexExact, UNCHANGED <<config, world, attested, rendered, renderTime, quiet>>
  PROVE  IndexExact'
BY SameRight DEF IndexExact, Ours

LEMMA ReleaseIndex ==
  ASSUME TypeOK, TypeOK', IndexExact, NEW rel \in Release,
         Create(rel) \/ PublishRelease(rel) \/ Delete(rel)
  PROVE  IndexExact'
<1>1. PICK shows : /\ Changes(shows)
                   /\ shows => world'[rel].uploaded >= renderTime
                   /\ shows => \/ Create(rel) /\ ~FullPage(rel)
                               \/ PublishRelease(rel)
  <2>1. world \in [Release -> [state : ReleaseState, uploaded : 0..now]] /\ renderTime <= now
        /\ renderTime \in Nat /\ now \in Nat
    BY DEF TypeOK
  <2>2. CASE Create(rel)
    <3>1. world'[rel].uploaded = now
      BY <2>1, <2>2 DEF Create, Set
    <3>2. now >= renderTime
      BY <2>1
    <3> QED BY <2>2, <3>1, <3>2 DEF Create
  <2>3. CASE PublishRelease(rel)
    BY <2>1, <2>3 DEF PublishRelease, Set
  <2>4. CASE Delete(rel)
    BY <2>4 DEF Delete
  <2> QED BY <2>2, <2>3, <2>4
<1> SUFFICES ASSUME ~quiet', NEW repo \in Repo
             PROVE  \/ Ours(repo, rendered)' = Rightful(repo)'
                    \/ Yielding(repo)' # {} /\ world'[Newest(repo)'].uploaded >= renderTime'
  BY DEF IndexExact
<1>2. ~quiet /\ shows /\ UNCHANGED <<rendered, renderTime>>
  BY <1>1 DEF Changes
<1>3. UNCHANGED <<config, attested>> /\ \A other \in Release \ {rel} : world'[other] = world[other]
  BY DEF Create, PublishRelease, Delete, Set, TypeOK
<1>4. /\ Shown(repo) \subseteq Shown(repo)'
      /\ \A i \in Shown(repo)' \ Shown(repo) : Catalog[repo][i] = rel
  <2>1. \A i \in DOMAIN Catalog[repo] : Catalog[repo][i] \in Release
    BY CatalogAssumption
  <2>2. Page(repo) \subseteq DOMAIN Catalog[repo] /\ Page(repo)' \subseteq DOMAIN Catalog[repo]
    BY DEF Page
  <2>3. \A i \in DOMAIN Catalog[repo] : Catalog[repo][i] # rel =>
          (IsPublished(Catalog[repo][i])' <=> IsPublished(Catalog[repo][i]))
    BY <1>3, <2>1 DEF IsPublished
  <2>4. world[rel].state # "published"
    BY <1>1, <1>2 DEF Create, PublishRelease
  <2>5. /\ Page(repo) \subseteq Page(repo)'
        /\ \A i \in Page(repo)' \ Page(repo) : Catalog[repo][i] = rel
    <3>1. CASE Create(rel) /\ ~FullPage(rel)
      BY <3>1, RoomOnPage
    <3>2. CASE PublishRelease(rel)
      <4>1. \A i \in DOMAIN Catalog[repo] : Exists(Catalog[repo][i])' <=> Exists(Catalog[repo][i])
        BY <1>3, <2>1, <3>2 DEF PublishRelease, Set, Exists, TypeOK
      <4>2. Page(repo)' = Page(repo)
        BY <4>1 DEF Page
      <4> QED BY <4>2
    <3> QED BY <1>1, <1>2, <3>1, <3>2
  <2> QED BY <2>2, <2>3, <2>4, <2>5 DEF Shown, IsPublished
<1> QED BY <1>1, <1>2, <1>3, <1>4, SameYield, ChangeShows

\* Evidence about an asset changes what its own release yields, and adds to it.
LEMMA AttestYield ==
  ASSUME TypeOK, TypeOK', NEW rel \in Release, NEW asset \in Asset, Attest(rel, asset)
  PROVE  /\ \A other \in Release \ {rel} : Yield(other)' = Yield(other)
         /\ \A repo \in Repo : Contains(Catalog[repo], rel) => Yield(rel) \subseteq Yield(rel)'
<1>1. /\ UNCHANGED <<config, world>> /\ Contains(Assets[rel], asset)
      /\ \A a \in Asset \ {asset} : attested'[a] = attested[a]
  BY DEF Attest, TypeOK
<1>2. /\ \A repo : signer(repo)' = signer(repo)
      /\ architectures' = architectures
  BY <1>1 DEF signer, Setup, architectures
<1>3. \A r \in Release : Assets[r] \in Seq(Asset)
  BY ReleaseAssumption
<1>4. ASSUME NEW other \in Release \ {rel} PROVE Yield(other)' = Yield(other)
  <2>1. ASSUME NEW i \in DOMAIN Assets[other]
        PROVE  /\ evidence(Assets[other][i])' = evidence(Assets[other][i])
               /\ ReleaseOf(Assets[other][i]) = other
    <3>1. Assets[other][i] \in Asset /\ Contains(Assets[other], Assets[other][i])
      BY <1>3 DEF Contains
    <3>2. Assets[other][i] # asset
      BY <1>1, <3>1, ReleaseAssumption
    <3>3. ReleaseOf(Assets[other][i]) = other
      BY <3>1, ReleaseAssumption DEF ReleaseOf
    <3> QED BY <1>1, <3>1, <3>2, <3>3 DEF evidence
  <2>2. \A a \in ToSet(Assets[other]) : ReleaseOf(a) = other /\ evidence(a)' = evidence(a)
    BY <2>1 DEF ToSet
  <2>3. ASSUME NEW a \in ToSet(Assets[other]) PROVE Accepted(a)' <=> Accepted(a)
    <3>1. ReleaseOf(a) = other
      BY <2>2
    <3>2. ToBeSigned(a) \subseteq ToSet(Assets[other])
      BY <3>1 DEF ToBeSigned, ChecksumsOf
    <3>3. ToBeSigned(a)' = ToBeSigned(a) /\ SignerFor(a)' = SignerFor(a)
      BY <1>1, <1>2 DEF ToBeSigned, SignerFor, Setup
    <3> QED BY <2>2, <3>2, <3>3 DEF Accepted
  <2> QED BY <1>2, <2>3 DEF Yield
<1>5. ASSUME NEW repo \in Repo, Contains(Catalog[repo], rel), NEW a \in Yield(rel)
      PROVE  a \in Yield(rel)'
  <2>1. Contains(Assets[rel], a) /\ a \in Asset
    BY <1>3 DEF Yield, ToSet, Contains
  <2>2. Located(repo, rel, a)
    BY <1>5, <2>1 DEF Located
  <2>3. Accepted(a)'
    BY <1>1, <2>2, StaysAccepted DEF Attest, Yield
  <2> QED BY <1>2, <2>3 DEF Yield
<1> QED BY <1>4, <1>5

LEMMA AttestIndex ==
  ASSUME TypeOK, TypeOK', IndexExact, NEW rel \in Release, NEW asset \in Asset,
         Attest(rel, asset)
  PROVE  IndexExact'
<1>1. /\ Changes(world[rel].uploaded >= renderTime) /\ UNCHANGED <<config, world>>
  BY DEF Attest
<1> SUFFICES ASSUME ~quiet', NEW repo \in Repo
             PROVE  \/ Ours(repo, rendered)' = Rightful(repo)'
                    \/ Yielding(repo)' # {} /\ world'[Newest(repo)'].uploaded >= renderTime'
  BY DEF IndexExact
<1>2. ~quiet /\ world[rel].uploaded >= renderTime /\ UNCHANGED <<rendered, renderTime>>
  BY <1>1 DEF Changes
<1>3. Shown(repo)' = Shown(repo)
  BY <1>1 DEF Shown, Page, Exists, IsPublished
<1>4. \A i \in Shown(repo) : Catalog[repo][i] = rel /\ Yield(rel) # {} => Yield(rel)' # {}
  <2>1. \A i \in Shown(repo) : i \in DOMAIN Catalog[repo]
    BY NewestIs DEF NewestFacts, NewestOf
  <2>2. ASSUME NEW i \in Shown(repo), Catalog[repo][i] = rel PROVE Contains(Catalog[repo], rel)
    BY <2>1, <2>2, CatalogAssumption DEF Contains
  <2> QED BY <2>2, AttestYield
<1> QED BY <1>1, <1>2, <1>3, <1>4, AttestYield, ChangeShows

\* The index is kept only if it is what the listing found, or after a quiet change.
LEMMA KeptIsRight ==
  ASSUME TypeOK, ListOK, LoopExact, IndexExact, RacesAreQuiet, listing, ~quiet,
         loop.phase = "repo", loop.todo = {}, TakenForUnchanged
  PROVE  /\ \A repo \in Repo : Ours(repo, rendered) = Rightful(repo)
         /\ rendered = list
<1>1. ~raced
  BY DEF RacesAreQuiet
<1>2. /\ \A repo \in Repo : Ours(repo, list) = Rightful(repo)
      /\ \A repo \in Repo : Yielding(repo) # {} => world[Newest(repo)].uploaded <= latest
  BY <1>1, ListIsRight
<1>3. ASSUME NEW repo \in Repo PROVE Ours(repo, rendered) = Rightful(repo)
  <2>1. Yielding(repo) # {} => ~(world[Newest(repo)].uploaded >= renderTime)
    <3>1. Yielding(repo) # {} => world[Newest(repo)].uploaded \in Nat
      BY NewestIs DEF NewestFacts, NewestOf, TypeOK
    <3>2. latest \in Nat /\ renderTime \in Nat /\ latest < renderTime
      BY DEF TypeOK, TakenForUnchanged
    <3> QED BY <1>2, <3>1, <3>2
  <2> QED BY <2>1 DEF IndexExact
<1>4. \A pkg \in list \cup rendered : pkg.filename[1] \in Repo
  BY DEF ListOK, IsPackage, Located, Package, Key
<1>5. ASSUME NEW pkg \in list \cup rendered PROVE pkg \in rendered <=> pkg \in list
  <2>1. Ours(pkg.filename[1], rendered) = Ours(pkg.filename[1], list)
    BY <1>2, <1>3, <1>4
  <2> QED BY <2>1 DEF Ours
<1>6. rendered = list
  BY <1>5
<1> QED BY <1>3, <1>6

LEMMA EndIndex ==
  ASSUME TypeOK, ListOK, LoopExact, IndexExact, RacesAreQuiet, EndGitHub
  PROVE  IndexExact'
<1>1. /\ listing /\ loop.phase = "repo" /\ loop.todo = {} /\ EndListing
      /\ UNCHANGED <<config, world, attested>>
  BY DEF EndGitHub, InPhase
<1>2. ASSUME ~quiet' PROVE \A repo \in Repo : Ours(repo, rendered') = Rightful(repo)
  <2>1. CASE TakenForUnchanged
    BY <1>1, <1>2, <2>1, KeptIsRight DEF EndListing
  <2>2. CASE ~TakenForUnchanged
    BY <1>1, <1>2, <2>2, ListIsRight DEF EndListing
  <2> QED BY <2>1, <2>2
<1> QED BY <1>1, <1>2, SameRight DEF IndexExact, Ours

-----------------------------------------------------------------------------
(* The cache.                                                              *)

\* Steps that add nothing to the list, and leave the cache and the index alone.
LEMMA BackStays ==
  ASSUME TypeOK, TypeOK', CameBack, UNCHANGED <<config, cache, listing, began, list, renderTime, rendered>>,
         now <= now', ~quiet' => ~quiet,
         loop' = loop \/ loop'.phase \notin {"judge-sums", "judge-deb"}
  PROVE  CameBack'
<1>1. /\ listing => renderTime + MaxAge <= now'
      /\ now' < renderTime + MaxAge => now < renderTime + MaxAge
  BY RenderingAssumption DEF TypeOK, CameBack
<1>2. Setup' = Setup /\ \A k : Back(k)' <=> Back(k)
  BY DEF Setup, Back
<1>3. ASSUME Setup.storage = "file", listing PROVE \A pkg \in list : Back(pkg.filename)
  BY <1>3 DEF CameBack
<1>4. ASSUME Setup.storage = "file", listing, loop'.phase \in {"judge-sums", "judge-deb"}
      PROVE  Back(AssetKey)'
  BY <1>2, <1>4 DEF CameBack, AssetKey, CurrentAsset
<1>5. ASSUME Setup.storage = "file", ~quiet', now' < renderTime + MaxAge
      PROVE  \A pkg \in rendered : Back(pkg.filename)
  BY <1>1, <1>5 DEF CameBack
<1> QED BY <1>1, <1>2, <1>3, <1>4, <1>5 DEF CameBack

\* The next thing is in no hand yet.
LEMMA NotJudging ==
  ASSUME NEW todo, NEW repo, NEW releases
  PROVE  /\ NextRepo(todo).phase \notin {"judge-sums", "judge-deb"}
         /\ NextRelease(todo, repo, releases).phase \notin {"judge-sums", "judge-deb"}
BY DEF NextRelease, NextRepo, Between, Looking

LEMMA BeginBack ==
  ASSUME TypeOK, CameBack, BeginGitHub
  PROVE  CameBack'
<1>1. /\ now' = now /\ renderTime' = renderTime /\ renderTime + MaxAge <= now /\ list' = {}
      /\ loop' = NextRepo(Repo)
  BY RenderingAssumption DEF BeginGitHub, BeginListing, TypeOK
<1>2. ~(now < renderTime + MaxAge)
  BY <1>1, RenderingAssumption DEF TypeOK
<1> QED BY <1>1, <1>2, NotJudging DEF CameBack

LEMMA JudgingBack ==
  ASSUME TypeOK, CameBack, GetCached \/ Download
  PROVE  CameBack'
<1>1. /\ Fetching /\ UNCHANGED <<config, renderingVars>>
      /\ \E bytes : Judging(bytes)
  BY DEF GetCached, Download
<1>2. /\ AssetKey' = AssetKey
  BY <1>1 DEF Judging, AssetKey, CurrentAsset
<1>3. /\ \A k : Back(k) => Back(k)'
      /\ Back(AssetKey)'
  <2>1. /\ began \in Nat /\ now \in Nat /\ began <= now /\ AssetTTL \in Nat
        /\ \A k \in DOMAIN cache : cache[k].added \in Nat
    BY LimitsAssumption DEF TypeOK
  <2>2. CASE GetCached
    <3>1. cache' = cache /\ Cached(AssetKey)
      BY <2>2 DEF GetCached
    <3> QED BY <1>1, <1>2, <2>1, <3>1 DEF Back, Cached, renderingVars
  <2>3. CASE Download
    <3>1. /\ DOMAIN cache' = DOMAIN cache \cup {AssetKey}
          /\ cache'[AssetKey].added = now
          /\ \A k \in DOMAIN cache' \ {AssetKey} : cache'[k] = cache[k]
      BY <2>3 DEF Download, AddToCache
    <3> QED BY <1>1, <1>2, <2>1, <3>1 DEF Back, renderingVars
  <2> QED BY <2>2, <2>3
<1> QED BY <1>1, <1>2, <1>3 DEF CameBack, Setup, renderingVars

LEMMA ListDebBack ==
  ASSUME TypeOK, CameBack, ListDeb
  PROVE  CameBack'
<1>1. /\ listing /\ loop.phase = "judge-deb" /\ UNCHANGED <<config, cache>>
      /\ UNCHANGED <<now, renderTime, rendered, listing, began, quiet>>
      /\ list' = list \cup {Package(AssetKey, loop.bytes, loop.bytes, loop.bytes)}
  BY DEF ListDeb, InPhase, Found
<1>2. loop'.phase \notin {"judge-sums", "judge-deb"}
  BY <1>1 DEF ListDeb, NextAsset
<1>3. \A k : Back(k)' <=> Back(k)
  BY <1>1 DEF Back
<1>4. Package(AssetKey, loop.bytes, loop.bytes, loop.bytes).filename = AssetKey
  BY DEF Package
<1> QED BY <1>1, <1>2, <1>3, <1>4 DEF CameBack, Setup

LEMMA EndBack ==
  ASSUME TypeOK, ListOK, LoopExact, IndexExact, RacesAreQuiet, CameBack, EndGitHub
  PROVE  CameBack'
<1>1. /\ listing /\ loop.phase = "repo" /\ loop.todo = {} /\ EndListing
      /\ UNCHANGED <<config, cache, began>> /\ listing' = FALSE
  BY DEF EndGitHub, InPhase, EndListing, Return
<1>2. ASSUME ~quiet' PROVE rendered' = list
  BY <1>1, <1>2, KeptIsRight DEF EndListing
<1> QED BY <1>1, <1>2 DEF CameBack, Back, Setup

LEMMA FailBack ==
  ASSUME TypeOK, CameBack, FailGitHub
  PROVE  CameBack'
<1>1. /\ listing /\ listing' = FALSE /\ UNCHANGED <<now, renderTime>>
  BY DEF FailGitHub, FailListing, Return
<1>2. ~(now < renderTime + MaxAge)
  BY <1>1, RenderingAssumption DEF CameBack, TypeOK
<1> QED BY <1>1, <1>2 DEF CameBack

-----------------------------------------------------------------------------
(* The invariant, of GitHub releases.                                      *)

\* Whatever happens to a source while a listing runs is noted.
LEMMA RacesStay ==
  ASSUME RacesAreQuiet,
         \/ \E shows : Changes(shows)
         \/ BeginListing \/ EndListing \/ FailListing
         \/ UNCHANGED <<listing, quiet, raced>>
  PROVE  RacesAreQuiet'
BY DEF RacesAreQuiet, Changes, BeginListing, EndListing, FailListing, Return

LEMMA GitHubChangesExact ==
  ASSUME TypeOK, TypeOK', GitHubExact, GitHubChanges
  PROVE  GitHubExact'
<1>1. ASSUME NEW shows, Changes(shows), UNCHANGED <<config, cache, loop>>, IndexExact'
      PROVE  GitHubExact'
  <2>1. /\ UNCHANGED <<listing, began, list, renderTime, rendered, now>>
        /\ ~quiet' => ~quiet
        /\ listing => raced'
    BY <1>1 DEF Changes, listingVars
  <2>2. RacesAreQuiet' /\ LoopExact'
    BY <1>1, <2>1, RacesStay DEF GitHubExact, LoopExact
  <2>3. CameBack'
    BY <1>1, <2>1, BackStays DEF GitHubExact, TypeOK
  <2> QED BY <1>1, <2>2, <2>3 DEF GitHubExact
<1>2. ASSUME NEW rel \in Release, Create(rel) \/ PublishRelease(rel) \/ Delete(rel)
      PROVE  GitHubExact'
  <2>1. IndexExact'
    BY <1>2, ReleaseIndex DEF GitHubExact
  <2> QED BY <1>1, <1>2, <2>1 DEF Create, PublishRelease, Delete
<1>3. ASSUME NEW rel \in Release, NEW a \in Asset, Attest(rel, a) PROVE GitHubExact'
  <2>1. IndexExact'
    BY <1>3, AttestIndex DEF GitHubExact
  <2> QED BY <1>1, <1>3, <2>1 DEF Attest
<1>4. ASSUME NEW k, Evict(k) PROVE GitHubExact'
  <2>1. /\ UNCHANGED <<now, renderTime, rendered, listing, began, list, latest, quiet, raced>>
        /\ UNCHANGED <<config, world, attested, loop>>
        /\ Setup.storage # "file"
    BY <1>4 DEF Evict, listingVars
  <2>2. RacesAreQuiet' /\ LoopExact' /\ IndexExact'
    BY <2>1, RacesStay, SameExact, IndexStays DEF GitHubExact
  <2>3. CameBack'
    BY <2>1 DEF GitHubExact, CameBack, Setup
  <2> QED BY <2>2, <2>3 DEF GitHubExact
<1> QED BY <1>2, <1>3, <1>4 DEF GitHubChanges

LEMMA GitHubListingExact ==
  ASSUME TypeOK, TypeOK', LoopOK, ListOK, CacheOK, GitHubExact, GitHubListing
  PROVE  GitHubExact'
<1>0. RacesAreQuiet /\ LoopExact /\ IndexExact /\ CameBack
  BY DEF GitHubExact
<1>1. ASSUME UNCHANGED <<renderingVars, config, world, attested>>, LoopExact', CameBack'
      PROVE  GitHubExact'
  <2>1. UNCHANGED <<listing, quiet, raced, rendered, renderTime>>
    BY <1>1 DEF renderingVars
  <2> QED BY <1>0, <1>1, <2>1, RacesStay, IndexStays DEF GitHubExact
<1>2. ASSUME UNCHANGED <<renderingVars, config, cache>>,
             loop'.phase \notin {"judge-sums", "judge-deb"}
      PROVE  CameBack'
  BY <1>0, <1>2, BackStays DEF renderingVars, TypeOK
<1>3. CASE BeginGitHub
  <2>1. BeginListing /\ UNCHANGED <<config, world, attested, rendered, renderTime, quiet>>
    BY <1>3 DEF BeginGitHub, BeginListing
  <2> QED BY <1>0, <1>3, <2>1, RacesStay, BeginExact, IndexStays, BeginBack DEF GitHubExact
<1>4. ASSUME NEW repo \in Repo, ListReleases(repo) PROVE GitHubExact'
  <2>1. CameBack'
    BY <1>2, <1>4, NotJudging DEF ListReleases
  <2>2. LoopExact'
    BY <1>0, <1>4, ListReleasesExact
  <2> QED BY <1>1, <1>4, <2>1, <2>2 DEF ListReleases
<1>5. CASE GetCached \/ Download
  <2>1. /\ loop.phase \in {"sums", "assets"} /\ UNCHANGED <<renderingVars, config, world, attested>>
        /\ \E bytes : Judging(bytes)
    BY <1>5 DEF GetCached, Download, Fetching
  <2>2. /\ loop'.todo = loop.todo /\ loop'.repo = loop.repo /\ loop'.releases = loop.releases
        /\ loop'.hasDeb = loop.hasDeb /\ loop'.assets = loop.assets
        /\ loop'.phase = IF loop.phase = "sums" THEN "judge-sums" ELSE "judge-deb"
    BY <2>1 DEF Judging, LoopOK, LoopAt, IsRecord
  <2>3. LoopExact'
    BY <1>0, <2>1, <2>2, SameExact DEF renderingVars
  <2> QED BY <1>0, <1>1, <1>5, <2>1, <2>3, JudgingBack
<1>6. CASE JudgeSums
  <2>1. loop'.phase \notin {"judge-sums", "judge-deb"}
    <3>1. CASE NextAsset(FALSE)
      BY <1>6, <3>1 DEF JudgeSums, InPhase, NextAsset, LoopOK, LoopAt, IsRecord
    <3>2. CASE loop' = Looking("assets", loop.todo, loop.repo, loop.releases,
                               ParseSums(File[loop.bytes].sums))
      BY <3>2 DEF Looking
    <3> QED BY <1>6, <3>1, <3>2 DEF JudgeSums
  <2>2. UNCHANGED <<renderingVars, config, world, attested, cache>>
    BY <1>6 DEF JudgeSums
  <2> QED BY <1>0, <1>1, <1>2, <1>6, <2>1, <2>2, JudgeSumsExact
<1>7. CASE ListDeb
  <2>1. UNCHANGED <<config, world, attested, rendered, renderTime, listing, quiet, raced>>
    BY <1>7 DEF ListDeb, Found
  <2> QED BY <1>0, <1>7, <2>1, RacesStay, ListDebExact, IndexStays, ListDebBack DEF GitHubExact
<1>8. CASE PassOverDeb
  <2>1. loop'.phase \notin {"judge-sums", "judge-deb"}
    BY <1>8 DEF PassOverDeb, InPhase, NextAsset, LoopOK, LoopAt, IsRecord
  <2>2. UNCHANGED <<renderingVars, config, world, attested, cache>>
    BY <1>8 DEF PassOverDeb
  <2> QED BY <1>0, <1>1, <1>2, <1>8, <2>1, <2>2, PassOverDebExact
<1>9. CASE EndRelease
  <2>1. loop'.phase \notin {"judge-sums", "judge-deb"}
    BY <1>9, NotJudging DEF EndRelease
  <2>2. UNCHANGED <<renderingVars, config, world, attested, cache>>
    BY <1>9 DEF EndRelease
  <2> QED BY <1>0, <1>1, <1>2, <1>9, <2>1, <2>2, EndReleaseExact
<1>10. CASE EndGitHub
  <2>1. EndListing /\ listing' = FALSE
    BY <1>10 DEF EndGitHub, EndListing, Return
  <2>2. LoopExact'
    BY <2>1 DEF LoopExact
  <2> QED BY <1>0, <1>10, <2>1, <2>2, RacesStay, EndIndex, EndBack DEF GitHubExact
<1>11. CASE FailGitHub
  <2>1. /\ FailListing /\ listing' = FALSE
        /\ UNCHANGED <<config, world, attested, rendered, renderTime, quiet>>
    BY <1>11 DEF FailGitHub, FailListing, Return
  <2>2. LoopExact'
    BY <2>1 DEF LoopExact
  <2> QED BY <1>0, <1>11, <2>1, <2>2, RacesStay, IndexStays, FailBack DEF GitHubExact
<1> QED BY <1>3, <1>4, <1>5, <1>6, <1>7, <1>8, <1>9, <1>10, <1>11 DEF GitHubListing

-----------------------------------------------------------------------------
(* The invariant, of a directory.                                          *)

LEMMA TouchExact ==
  ASSUME IInv, TypeOK', source = "files", FilesExact, NEW f \in DebFile,
         NEW content \in Text \cup {Gone}, NEW mtime \in 0..now, Touch(f, content, mtime)
  PROVE  FilesExact'
<1>1. /\ Changes(content # Gone /\ mtime >= renderTime)
      /\ files' = [files EXCEPT ![f] = IF content = Gone THEN Gone
                                       ELSE [content |-> content, mtime |-> mtime]]
      /\ dirty' = dirty \cup {f} /\ touched' = touched \cup {f} /\ walk' = walk
  BY DEF Touch
<1>2. /\ UNCHANGED <<renderTime, rendered, listing, list, latest>>
      /\ ~quiet' => ~quiet /\ content # Gone /\ mtime >= renderTime
      /\ listing => raced'
  BY <1>1 DEF Changes, listingVars
<1>3. RacesAreQuiet'
  BY <1>1, RacesStay DEF FilesExact
<1>4. /\ files'[f] = IF content = Gone THEN Gone ELSE [content |-> content, mtime |-> mtime]
      /\ \A g \in DebFile \ {f} : files'[g] = files[g]
  BY <1>1 DEF IInv, TypeOK
<1>5. dirty \subseteq DebFile
  BY DEF IInv, TypeOK
<1>6. content # Gone => files'[f] # Gone
  <2>1. content # Gone => [content |-> content, mtime |-> mtime] # Gone
    <3>1. content # Gone => [content |-> content, mtime |-> mtime] \in [content : Text, mtime : Nat]
      BY DEF IInv, TypeOK
    <3> QED BY <3>1, LocalAssumption
  <2> QED BY <1>4, <2>1
<1>7. QuietFiles'
  <2>1. ASSUME ~quiet', NEW g \in dirty' PROVE files'[g] # Gone /\ files'[g].mtime >= renderTime
    BY <1>1, <1>2, <1>4, <1>5, <1>6, <2>1 DEF FilesExact, QuietFiles
  <2> QED BY <1>2, <2>1 DEF QuietFiles
<1>8. Looked'
  BY <1>1, <1>2, <1>4 DEF FilesExact, Looked, Left
<1>9. NamesFiles'
  BY <1>2 DEF FilesExact, NamesFiles
<1> QED BY <1>3, <1>7, <1>8, <1>9 DEF FilesExact

\* A walk that ends and keeps the index, without a quiet change: no file has changed.
LEMMA KeptFiles ==
  ASSUME IInv, source = "files", FilesExact, EndWalk, TakenForUnchanged, ~quiet
  PROVE  dirty = {} /\ touched = {} /\ Left = {}
<1>1. /\ listing /\ Done(walk.names) /\ walk.file = Gone
  BY DEF EndWalk
<1>2. touched = {}
  BY <1>1 DEF FilesExact, RacesAreQuiet, QuietFiles
<1>3. Left = {}
  BY <1>1 DEF Left, Done
<1>4. ASSUME NEW f \in dirty PROVE FALSE
  <2>1. f \in DebFile
    BY <1>4 DEF IInv, TypeOK
  <2>2. files[f] # Gone /\ files[f].mtime >= renderTime
    BY <1>4 DEF FilesExact, QuietFiles
  <2>3. files[f].mtime <= latest
    BY <1>1, <1>2, <1>3, <2>1, <2>2 DEF FilesExact, Looked
  <2>4. files[f].mtime \in Nat /\ latest \in Nat /\ renderTime \in Nat /\ latest < renderTime
    BY <2>1, <2>2, FileTypes, Types DEF IInv, Times, TakenForUnchanged
  <2> QED BY <2>2, <2>3, <2>4
<1> QED BY <1>2, <1>3, <1>4

\* The walk finds a later time, or the same, and has no fewer files behind it.
LEMMA LookedOn ==
  ASSUME Looked, UNCHANGED <<files, touched, listing>>, latest <= latest', latest \in Nat,
         latest' \in Nat, World,
         \A f \in DebFile \ touched :
            /\ f \notin Left' \/ f = walk'.file
            /\ files[f] # Gone
            => \/ f \notin Left \/ f = walk.file
               \/ files[f].mtime <= latest'
  PROVE  Looked'
<1> SUFFICES ASSUME listing, NEW f \in DebFile \ touched,
                    f \notin Left' \/ f = walk'.file, files[f] # Gone
             PROVE  files[f].mtime <= latest'
  BY DEF Looked
<1>1. files[f].mtime \in Nat
  BY FileTypes DEF World
<1> QED BY <1>1 DEF Looked

LEMMA WalkExact ==
  ASSUME IInv, TypeOK', source = "files", FilesExact, LocalListing
  PROVE  FilesExact'
<1>0. /\ RacesAreQuiet /\ QuietFiles /\ Looked /\ NamesFiles
      /\ Times /\ World /\ WalkOK
      /\ latest \in Nat /\ latest' \in Nat
  BY Types DEF FilesExact, IInv, TypeOK
<1>1. CASE BeginWalk
  <2>1. /\ BeginListing /\ UNCHANGED <<files, dirty, renderTime, rendered, quiet>>
        /\ touched' = {} /\ list' = {}
    BY <1>1 DEF BeginWalk, BeginListing
  <2>2. QuietFiles' /\ NamesFiles'
    BY <1>0, <2>1 DEF QuietFiles, NamesFiles
  <2>3. Looked'
    <3>1. /\ walk'.file = Gone
          /\ walk'.names = [i \in {i \in DOMAIN Names : files[Names[i]] # Gone} |-> Names[i]]
      BY <1>1 DEF BeginWalk, NoWalk
    <3>2. ASSUME NEW f \in DebFile, f \notin Left' PROVE files[f] = Gone
      <4>1. PICK i \in DOMAIN Names : f = Names[i]
        BY LocalAssumption DEF DebFile, ToSet
      <4> QED BY <3>1, <3>2, <4>1 DEF Left
    <3>3. Gone \notin DebFile
      BY LocalAssumption
    <3> QED BY <2>1, <3>1, <3>2, <3>3 DEF Looked
  <2> QED BY <1>0, <2>1, <2>2, <2>3, RacesStay DEF FilesExact
<1>2. ASSUME NEW f \in DebFile, Lstat(f) PROVE FilesExact'
  <2>1. /\ UNCHANGED <<renderTime, rendered, listing, list, quiet, raced, files, dirty, touched>>
        /\ latest' = Later(latest, files[f].mtime) /\ LookingAt(f) /\ files[f] # Gone
    BY <1>2 DEF Lstat
  <2>2. RacesAreQuiet' /\ QuietFiles' /\ NamesFiles'
    BY <1>0, <2>1, RacesStay DEF QuietFiles, NamesFiles
  <2>3. walk'.file = f /\ walk'.names = walk.names
    BY <1>0, <2>1 DEF LookingAt, WalkOK
  <2>4. Left' = Left
    BY <2>3 DEF Left
  <2>5. latest <= latest' /\ files[f].mtime <= latest'
    <3>1. files[f].mtime \in Nat
      BY <1>0, <2>1, FileTypes DEF World
    <3> QED BY <1>0, <2>1, <3>1 DEF Later
  <2>6. Looked'
    BY <1>0, <2>1, <2>3, <2>4, <2>5, LookedOn
  <2> QED BY <2>2, <2>6 DEF FilesExact
<1>3. ASSUME walk.file # Gone, NextName PROVE Left' = Left \ {walk.file} /\ walk'.file = Gone
  <2>1. /\ ~Done(walk.names) /\ walk.file = First(walk.names)
        /\ walk'.names = Rest(walk.names) /\ walk'.file = Gone
    BY <1>0, <1>3 DEF WalkOK, NextName, NoWalk
  <2>2. {Rest(walk.names)[i] : i \in DOMAIN Rest(walk.names)} = Left \ {First(walk.names)}
    BY <1>0, <2>1, AheadOK
  <2> QED BY <2>1, <2>2 DEF Left
<1>4. CASE ReadControl
  <2>1. /\ UNCHANGED <<renderTime, rendered, listing, list, latest, quiet, raced,
                       files, dirty, touched>>
        /\ walk.file # Gone
    BY <1>4 DEF ReadControl, Parsing, renderingVars
  <2>2. RacesAreQuiet' /\ QuietFiles' /\ NamesFiles'
    BY <1>0, <2>1, RacesStay DEF QuietFiles, NamesFiles
  <2>3. /\ \A f : f \notin Left' => f \notin Left \/ f = walk.file
        /\ walk'.file \in {walk.file, Gone}
    <3>1. CASE NextName
      BY <1>3, <2>1, <3>1
    <3>2. CASE walk' = [walk EXCEPT !.control = files[walk.file].content]
      <4>1. walk'.names = walk.names /\ walk'.file = walk.file
        BY <1>0, <3>2 DEF WalkOK
      <4> QED BY <4>1 DEF Left
    <3> QED BY <1>4, <3>1, <3>2 DEF ReadControl
  <2>4. Gone \notin DebFile
    BY LocalAssumption
  <2>5. Looked'
    BY <1>0, <2>1, <2>3, <2>4, LookedOn
  <2> QED BY <2>2, <2>5 DEF FilesExact
<1>5. CASE AddFileData
  <2> DEFINE new == LocalPackage(walk.file, walk.info, walk.control, files[walk.file].content)
  <2>1. /\ UNCHANGED <<renderTime, rendered, listing, quiet, raced, files, dirty, touched>>
        /\ list' = list \cup {new} /\ latest' = Later(latest, 0)
        /\ walk.file # Gone /\ NextName
    BY <1>5 DEF AddFileData, Hashing, Found
  <2>2. RacesAreQuiet' /\ QuietFiles'
    BY <1>0, <2>1, RacesStay DEF QuietFiles
  <2>3. walk.file \in DebFile
    BY <1>0, <2>1, AheadOK DEF WalkOK
  <2>4. NamesFiles'
    <3>1. new.filename = walk.file
      BY DEF LocalPackage
    <3> HIDE DEF new
    <3> QED BY <1>0, <2>1, <2>3, <3>1 DEF NamesFiles
  <2>5. latest <= latest'
    BY <1>0, <2>1 DEF Later
  <2>6. Gone \notin DebFile
    BY LocalAssumption
  <2>7. Looked'
    BY <1>0, <1>3, <2>1, <2>5, <2>6, LookedOn
  <2> QED BY <2>2, <2>4, <2>7 DEF FilesExact
<1>6. CASE EndWalk
  <2>1. /\ listing' = FALSE /\ EndListing /\ UNCHANGED files /\ listing
        /\ dirty' = IF TakenForUnchanged THEN dirty ELSE touched
    BY <1>6 DEF EndWalk, EndListing, Return
  <2>2. Looked' /\ RacesAreQuiet'
    BY <1>0, <2>1, RacesStay DEF Looked
  <2>3. NamesFiles'
    BY <1>0, <2>1 DEF NamesFiles, EndListing, Return
  <2>4. ASSUME ~quiet' PROVE dirty' = {}
    <3>1. CASE TakenForUnchanged
      BY <1>6, <2>1, <2>4, <3>1, KeptFiles DEF EndListing
    <3>2. CASE ~TakenForUnchanged
      BY <1>0, <2>1, <2>4, <3>2 DEF EndListing, QuietFiles
    <3> QED BY <3>1, <3>2
  <2>5. QuietFiles'
    BY <2>1, <2>4 DEF QuietFiles
  <2> QED BY <2>2, <2>3, <2>5 DEF FilesExact
<1>7. CASE FailWalk
  <2>1. /\ listing' = FALSE /\ FailListing /\ UNCHANGED <<files, dirty, renderTime, rendered, quiet>>
        /\ list' = {}
    BY <1>7 DEF FailWalk, FailListing, Return
  <2> QED BY <1>0, <2>1, RacesStay DEF FilesExact, QuietFiles, Looked, NamesFiles
<1> QED BY <1>1, <1>2, <1>4, <1>5, <1>6, <1>7 DEF LocalListing

-----------------------------------------------------------------------------
(* The invariant.                                                          *)

\* No listing has run, and no index is fresh.
LEMMA InitExact == Init => Exact
<1> SUFFICES ASSUME Init PROVE Exact
  OBVIOUS
<1>1. /\ listing = FALSE /\ rendered = {} /\ list = {} /\ quiet = FALSE /\ renderTime = 0
      /\ dirty = {} /\ touched = {}
  BY DEF Init, RenderingInit
<1>2. TypeOK
  BY InvInit DEF IInv
<1>3. IndexExact
  <2>1. ASSUME NEW repo \in Repo, Yielding(repo) # {} PROVE world[Newest(repo)].uploaded >= 0
    <3>1. world[Newest(repo)].uploaded \in Nat
      BY <1>2, <2>1, NewestIs DEF NewestFacts, NewestOf, TypeOK
    <3> QED BY <3>1
  <2>2. ASSUME NEW repo \in Repo, Yielding(repo) = {}
        PROVE  Ours(repo, rendered) = Rightful(repo)
    <3>1. NewestYield(repo) = {}
      BY <2>2 DEF NewestYield, Yielding
    <3> QED BY <1>1, <3>1 DEF Ours, Rightful, PackagesFrom
  <2> QED BY <1>1, <2>1, <2>2 DEF IndexExact
<1>4. RacesAreQuiet /\ LoopExact /\ CameBack
  BY <1>1 DEF RacesAreQuiet, LoopExact, CameBack
<1>5. QuietFiles /\ Looked /\ NamesFiles
  BY <1>1 DEF QuietFiles, Looked, NamesFiles
<1> QED BY <1>3, <1>4, <1>5 DEF Exact, GitHubExact, FilesExact

LEMMA IdleExact ==
  ASSUME IInv, IInv', Exact, UNCHANGED <<source, githubVars, localVars>>,
         Tick \/ UNCHANGED renderingVars
  PROVE  Exact'
<1>1. /\ UNCHANGED <<source, config, world, attested, cache, loop, files, walk, dirty, touched>>
      /\ TypeOK /\ TypeOK'
  BY DEF githubVars, localVars, IInv
<1>2. /\ UNCHANGED <<rendered, list, latest, renderTime, listing, began, quiet, raced>>
      /\ now <= now'
  <2>1. now \in Nat
    BY <1>1 DEF TypeOK
  <2> QED BY <2>1 DEF Tick, listingVars, renderingVars
<1>3. CASE source = "github"
  <2>1. RacesAreQuiet /\ LoopExact /\ IndexExact /\ CameBack
    BY <1>3 DEF Exact, GitHubExact
  <2>2. LoopExact'
    BY <1>1, <1>2, <2>1, SameExact
  <2>3. CameBack'
    BY <1>1, <1>2, <2>1, BackStays
  <2> QED BY <1>1, <1>2, <1>3, <2>1, <2>2, <2>3, RacesStay, IndexStays DEF Exact, GitHubExact
<1>4. CASE source = "files"
  BY <1>1, <1>2, <1>4 DEF Exact, FilesExact, RacesAreQuiet, QuietFiles, Looked, Left, NamesFiles
<1> QED BY <1>1, <1>3, <1>4 DEF TypeOK

LEMMA LocalExact ==
  ASSUME IInv, IInv', source = "files", source' = source, Exact,
         LocalChanges \/ LocalListing
  PROVE  Exact'
<1>1. TypeOK /\ TypeOK' /\ FilesExact
  BY DEF IInv, Exact
<1>2. ASSUME NEW f \in DebFile, WriteFile(f) \/ MoveIn(f) \/ RemoveFile(f) PROVE FilesExact'
  <2>1. PICK content \in Text \cup {Gone}, mtime \in 0..now : Touch(f, content, mtime)
    <3>1. now \in 0..now /\ 0..(now - 1) \subseteq 0..now
      BY <1>1 DEF TypeOK
    <3> QED BY <1>2, <3>1 DEF WriteFile, MoveIn, RemoveFile
  <2> QED BY <1>1, <2>1, TouchExact
<1>3. ASSUME LocalListing PROVE FilesExact'
  BY <1>1, <1>3, WalkExact
<1> QED BY <1>2, <1>3 DEF LocalChanges, Exact

LEMMA GitHubExactStep ==
  ASSUME IInv, IInv', source = "github", source' = source, Exact,
         GitHubChanges \/ GitHubListing
  PROVE  Exact'
<1>1. TypeOK /\ TypeOK' /\ LoopOK /\ ListOK /\ CacheOK /\ GitHubExact
  BY DEF IInv, Exact
<1>2. GitHubExact'
  BY <1>1, GitHubChangesExact, GitHubListingExact
<1> QED BY <1>2 DEF Exact

\* What the loop of a listing has found so far is exact, and so is the index or there is
\* something to show that it is not.
THEOREM ListingIsExact == Spec => []Exact
<1>1. IInv /\ IInv' /\ Exact /\ [Next]_vars => Exact'
  <2> SUFFICES ASSUME IInv, IInv', Exact, [Next]_vars PROVE Exact'
    OBVIOUS
  <2>1. CASE (Tick \/ UseIndex) /\ UNCHANGED <<source, githubVars, localVars>>
    BY <2>1, IdleExact DEF UseIndex
  <2>2. CASE /\ source = "github" /\ (GitHubChanges \/ GitHubListing)
             /\ UNCHANGED <<source, localVars>>
    BY <2>2, GitHubExactStep
  <2>3. CASE /\ source = "files" /\ (LocalChanges \/ LocalListing)
             /\ UNCHANGED <<source, githubVars>>
    BY <2>3, LocalExact
  <2>4. CASE UNCHANGED vars
    BY <2>4, IdleExact DEF vars
  <2> QED BY <2>1, <2>2, <2>3, <2>4 DEF Next
<1> QED BY <1>1, InitExact, Inductive, PTL DEF Spec

-----------------------------------------------------------------------------
(* The properties.                                                         *)

\* A package in a fresh index was in the asset cache at some time since the listing began
\* that made or confirmed the index, unless a quiet change has come since: a listing
\* downloads anew what has expired, whether or not the index is then kept.
THEOREM ComesBack == Spec => []ListedComesBack
<1>1. IInv /\ Exact => ListedComesBack
  BY DEF Exact, GitHubExact, CameBack, Back, ListedComesBack
<1> QED BY <1>1, Inductive, ListingIsExact, PTL

\* The index is made or confirmed at the end of a listing, and only there.
LEMMA OnlyAtTheEnd ==
  ASSUME IInv, [Next]_vars, UNCHANGED <<rendered, renderTime>> => FALSE
  PROVE  \/ source = "github" /\ EndGitHub
         \/ source = "files" /\ EndWalk
<1>1. /\ \A shows : Changes(shows) => UNCHANGED <<rendered, renderTime>>
      /\ \A pkg, stamp : Found(pkg, stamp) => UNCHANGED <<rendered, renderTime>>
      /\ BeginListing \/ FailListing \/ Tick \/ UseIndex => UNCHANGED <<rendered, renderTime>>
      /\ UNCHANGED renderingVars => UNCHANGED <<rendered, renderTime>>
  BY DEF Changes, Found, BeginListing, FailListing, Tick, UseIndex, renderingVars
<1>2. ~GitHubChanges
  BY <1>1 DEF GitHubChanges, Create, PublishRelease, Delete, Attest, Evict
<1>3. GitHubListing => EndGitHub
  BY <1>1 DEF GitHubListing, BeginGitHub, ListReleases, GetCached, Download, JudgeSums, ListDeb,
              PassOverDeb, EndRelease, FailGitHub
<1>4. ~LocalChanges
  BY <1>1 DEF LocalChanges, WriteFile, MoveIn, RemoveFile, Touch
<1>5. LocalListing => EndWalk
  BY <1>1 DEF LocalListing, BeginWalk, Lstat, ReadControl, AddFileData, FailWalk
<1>6. ~UNCHANGED vars
  BY <1>1 DEF vars
<1> QED BY <1>1, <1>2, <1>3, <1>4, <1>5, <1>6 DEF Next

\* An index made while nothing happened has, of each repository, the packages of the newest
\* release that has any, and of no other: drafts and releases without a package are passed
\* over, and whatever the cache holds, none is left out.
THEOREM NewestIsListed == Spec => ListsNewestRelease
<1> DEFINE P == source = "github" /\ listing /\ ~raced /\ rendered' # rendered =>
                  rendered' = UNION {{Package(<<repo, a>>, a, a, a) : a \in NewestYield(repo)} :
                                     repo \in Repo}
<1>1. IInv /\ Exact /\ [Next]_vars => [P]_vars
  <2> SUFFICES ASSUME IInv, Exact, [Next]_vars,
                      source = "github", listing, ~raced, rendered' # rendered
               PROVE  rendered' = UNION {Rightful(repo) : repo \in Repo}
    BY DEF Rightful, PackagesFrom
  <2>1. EndGitHub
    BY OnlyAtTheEnd
  <2>2. loop.phase = "repo" /\ loop.todo = {} /\ rendered' = list
    BY <2>1 DEF EndGitHub, InPhase, EndListing
  <2> QED BY <2>2, ListIsRight DEF IInv, Exact, GitHubExact
<1> QED BY <1>1, Inductive, ListingIsExact, PTL DEF Spec, ListsNewestRelease

\* A walk that keeps the index without a quiet change has listed what is in it.
LEMMA KeptWalk ==
  ASSUME IInv, source = "files", FilesExact, EndWalk, TakenForUnchanged, ~quiet
  PROVE  rendered = list
<1>1. dirty = {} /\ touched = {} /\ Left = {}
  BY KeptFiles
<1>2. /\ listing /\ WalkedOK /\ IndexOK /\ NamesFiles
  BY DEF EndWalk, IInv, FilesExact
<1>3. renderTime # 0
  BY DEF TakenForUnchanged, IInv, TypeOK
<1>4. \A f \in DebFile : Of(f, list) = Due(f) /\ Of(f, rendered) = Due(f)
  BY <1>1, <1>2, <1>3 DEF WalkedOK, IndexOK
<1>5. ASSUME NEW pkg \in list \cup rendered PROVE pkg \in list <=> pkg \in rendered
  <2>1. pkg.filename \in DebFile
    BY <1>2 DEF NamesFiles
  <2>2. Of(pkg.filename, list) = Of(pkg.filename, rendered)
    BY <1>4, <2>1
  <2> QED BY <2>2 DEF Of
<1> QED BY <1>5

\* "If packages have not changed since the last render, we can skip": the listing that is
\* thrown away, because none of its timestamps is as new as the index, is the index, unless
\* a change has come that need not show in a timestamp.
THEOREM SkipsAreSound == Spec => SkipsLoseOnlyQuietChanges
<1> DEFINE P == listing /\ renderTime' # renderTime /\ rendered' # list => quiet
<1>1. IInv /\ Exact /\ [Next]_vars => [P]_renderingVars
  <2> SUFFICES ASSUME IInv, Exact, [Next]_vars,
                      listing, renderTime' # renderTime, rendered' # list, ~quiet
               PROVE  FALSE
    OBVIOUS
  <2>1. \/ source = "github" /\ EndGitHub
        \/ source = "files" /\ EndWalk
    BY OnlyAtTheEnd
  <2>2. EndListing /\ TakenForUnchanged /\ rendered' = rendered
    BY <2>1 DEF EndGitHub, EndWalk, EndListing
  <2>3. CASE source = "github" /\ EndGitHub
    BY <2>2, <2>3, KeptIsRight DEF IInv, Exact, GitHubExact, EndGitHub, InPhase
  <2>4. CASE source = "files" /\ EndWalk
    BY <2>2, <2>4, KeptWalk DEF Exact
  <2> QED BY <2>1, <2>3, <2>4
<1> QED BY <1>1, Inductive, ListingIsExact, PTL DEF Spec, SkipsLoseOnlyQuietChanges

=============================================================================
