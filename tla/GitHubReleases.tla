--------------------------- MODULE GitHubReleases ---------------------------
(***************************************************************************)
(* The package source that lists the .debs of GitHub releases              *)
(* (pkg/dynamic/github.go).  A listing goes through the repositories, the  *)
(* releases of each from the newest on until one yields a package, and the *)
(* assets of a release; it asks GitHub for each of them, and the verifier, *)
(* while releases come and go.  Assets are kept in a cache under their id; *)
(* Deb, which serves the pool, reads that cache and nothing else.          *)
(*                                                                         *)
(* The content of an asset never changes, and is named like the asset; a   *)
(* SHA256 is the content it was taken of.  The cache is what CacheStorage  *)
(* promises: an entry is there until its TTL is over, an LRU may drop it.  *)
(*                                                                         *)
(* An operator named Action_Fault is that action with a plausible bug.     *)
(***************************************************************************)
EXTENDS Rendering, Signatures, ControlFile

CONSTANTS
    Repo,       \* the configured repositories
    Release,    \* releases; a release is also its tag
    Asset,      \* assets; an asset is also its id and its content
    Catalog,    \* the releases each repository may ever have, the newest first
    Assets,     \* the assets of each release
    Worlds,     \* what GitHub may have at the start: a state of each release
    File,       \* of each asset: name, ext, arch, and what its content is read as
    SumsName,   \* the name of each release's checksum file ({{VERSION}} replaced)
    Testimony,  \* what evidence there may be about each asset: a sequence of choices
    Early,      \* the assets that have it from the start
    Config,     \* the configurations, a sequence: architectures, storage, a RepoConfig each
    PerPage,    \* ListOptions.PerPage
    AssetTTL    \* how long the asset cache keeps an entry

\* A release belongs to one repository, an asset to one release.
ASSUME CatalogAssumption ==
    /\ Catalog \in [Repo -> Seq(Release)]
    /\ \A r, s \in Repo :
         (\E rel \in Release : Contains(Catalog[r], rel) /\ Contains(Catalog[s], rel)) => r = s

ASSUME ReleaseAssumption ==
    /\ Release \subseteq FieldValue
    /\ Assets \in [Release -> Seq(Asset)]
    /\ \A rel, other \in Release :
         (\E a \in Asset : Contains(Assets[rel], a) /\ Contains(Assets[other], a)) => rel = other

ASSUME FileAssumption == \A a \in Asset :
    Len(File[a].sums) \in Nat /\ DOMAIN File[a].sums = 1..Len(File[a].sums)

ASSUME EvidenceAssumption == Testimony \in [Asset -> Seq(Seq(Evidence))]

ASSUME ConfigAssumption ==
    /\ 1 \in DOMAIN Config
    /\ \A c \in DOMAIN Config : \A repo \in Repo :
         /\ Config[c].repos[repo].signer \in {"none", "rekor", "github"}
         /\ Config[c].repos[repo].checksums \in BOOLEAN

ASSUME LimitsAssumption == {PerPage, AssetTTL} \subseteq Nat

VARIABLES
    config,     \* the index of the configuration
    world,      \* what GitHub has of each release: its state, when it was uploaded
    attested,   \* the index of what can be found about each asset, 0 for nothing
    cache,      \* the asset cache: entries by key
    loop        \* where the listing is

githubVars == <<config, world, attested, cache, loop>>

\* A prerelease is treated as a draft.
ReleaseState == {"absent", "draft", "published", "gone"}

ASSUME WorldAssumption == Worlds \subseteq [Release -> ReleaseState]

Setup == Config[config]

Evidences(asset, e) == IF e = 0 THEN <<>> ELSE Testimony[asset][e]

evidence(asset) == Evidences(asset, attested[asset])

\* Fault: assets are cached under their names.
Key_ByName(repo, asset) == <<repo, File[asset].name>>

Key(repo, asset) == <<repo, asset>>

-----------------------------------------------------------------------------
(* NewGitHubReleasesSource.                                                *)

architectures ==
    IF Setup.architectures = {} THEN {"amd64", "Linux-64bit"}
    ELSE Setup.architectures
         \cup {hack \in {"Linux-64bit"} : "amd64" \in Setup.architectures}
         \cup {hack \in {"Linux-ARM64"} : "arm64" \in Setup.architectures}

\* A signer of GitHub's own is expected to be the repository, unless told otherwise.
SignerId(repo, id) ==
    IF id.value["Issuer"] \in {Unset, GitHubActions} /\ id.value["Repository"] = Unset
    THEN [id EXCEPT !.value["Repository"] = repo]
    ELSE id

SignerOf(c, repo) ==
    IF c.repos[repo].signer = "none" THEN [kind |-> "fixed"]
    ELSE [kind |-> c.repos[repo].signer, id |-> SignerId(repo, c.repos[repo].id)]

signer(repo) == SignerOf(Setup, repo)

-----------------------------------------------------------------------------
(* GitHub.                                                                 *)

Exists(rel) == world[rel].state \notin {"absent", "gone"}

\* ListReleases: where in the catalog the newest releases are that a repository has.
Page(repo) ==
    LET found == {i \in DOMAIN Catalog[repo] : Exists(Catalog[repo][i])}
    IN {i \in found : Cardinality({j \in found : j < i}) < PerPage}

IsPublished(rel) == world[rel].state = "published"

FullPage(rel) ==
    \E r \in Repo : Contains(Catalog[r], rel) /\ Cardinality(Page(r)) = PerPage

Set(rel, state, uploaded) ==
    world' = [world EXCEPT ![rel] = [state |-> state, uploaded |-> uploaded]]

\* Releases are made in the order of the catalog, their assets uploaded at once.  One
\* that pushes another off the page may change the list and leave no timestamp in it.
Create(rel) ==
    /\ world[rel].state = "absent"
    /\ \A r \in Repo : \A i, j \in 1..Len(Catalog[r]) :
         i < j /\ Catalog[r][i] = rel => world[Catalog[r][j]].state # "absent"
    /\ \E state \in {"draft", "published"} : Set(rel, state, now)
    /\ Changes(~FullPage(rel))
    /\ UNCHANGED <<config, attested, cache, loop>>

\* A draft is published; its assets keep their timestamps.
PublishRelease(rel) ==
    /\ world[rel].state = "draft"
    /\ Set(rel, "published", world[rel].uploaded)
    /\ Changes(world[rel].uploaded >= renderTime)
    /\ UNCHANGED <<config, attested, cache, loop>>

Delete(rel) ==
    /\ Exists(rel)
    /\ Set(rel, "gone", world[rel].uploaded)
    /\ Changes(FALSE)
    /\ UNCHANGED <<config, attested, cache, loop>>

\* Evidence about an asset is published, as a rule after the asset.
Attest(rel, asset) ==
    /\ Contains(Assets[rel], asset)
    /\ attested[asset] = 0
    /\ \E e \in DOMAIN Testimony[asset] : attested' = [attested EXCEPT ![asset] = e]
    /\ Changes(world[rel].uploaded >= renderTime)
    /\ UNCHANGED <<config, world, cache, loop>>

-----------------------------------------------------------------------------
(* The asset cache.                                                        *)

Cached(key) == key \in DOMAIN cache /\ now <= cache[key].added + AssetTTL

\* Fault: the expiry is kept for the time of adding.
AddToCache_Expiry(key, bytes) ==
    cache' = [k \in DOMAIN cache \cup {key} |->
        IF k = key THEN [bytes |-> bytes, added |-> now + AssetTTL] ELSE cache[k]]

AddToCache(key, bytes) ==
    cache' = [k \in DOMAIN cache \cup {key} |->
        IF k = key THEN [bytes |-> bytes, added |-> now] ELSE cache[k]]

\* GitHubReleasesSource.Deb: what the pool has under a name, or nothing.
Deb(filename) == IF Cached(filename) THEN cache[filename].bytes ELSE Unset

Evict(key) ==
    /\ Setup.storage = "memory"
    /\ key \in DOMAIN cache
    /\ cache' = [k \in DOMAIN cache \ {key} |-> cache[k]]
    /\ Incident
    /\ UNCHANGED <<now, renderTime, rendered, listingVars, quiet, raced,
                   config, world, attested, loop>>

-----------------------------------------------------------------------------
(* Packages: the loops.                                                    *)

NoSums == [f \in {} |-> Unset]

\* Its variables: the repositories that are left; the repository, and what is left of
\* its releases and of the assets of the first of them; checkSums, hasDeb, and the bytes
\* of the asset in hand.
Between(phase, todo) ==
    [phase |-> phase, todo |-> todo, repo |-> Unset, releases |-> <<>>,
     assets |-> <<>>, sums |-> NoSums, hasDeb |-> FALSE, bytes |-> Unset]

NoLoop == Between("idle", {})

InPhase(phase) == listing /\ loop.phase = phase

CurrentRelease == First(loop.releases)

tag == CurrentRelease.tag

NextRepo(todo) == Between("repo", todo)

BeginGitHub ==
    /\ BeginListing
    /\ loop' = NextRepo(Repo)
    /\ UNCHANGED <<config, world, attested, cache>>

\* Is an asset looked at: by getCheckSums the files named like the checksum file, by
\* Packages the .debs of the architectures asked for?
Wanted(phase, rel, asset) ==
    IF phase = "sums" THEN File[asset].name = SumsName[rel]
    ELSE File[asset].ext = ".deb" /\ File[asset].arch \in architectures

\* The assets of a release that are.
AssetsFor(phase, rel) ==
    [i \in {i \in DOMAIN Assets[rel] : Wanted(phase, rel, Assets[rel][i])} |-> Assets[rel][i]]

\* On to the assets of the first release of the list.
Looking(phase, todo, repo, releases, sums) ==
    [phase |-> phase, todo |-> todo, repo |-> repo, releases |-> releases,
     assets |-> AssetsFor(phase, First(releases).tag),
     sums |-> sums, hasDeb |-> FALSE, bytes |-> Unset]

\* On to the next release: its checksum file, if the configuration names one, or its
\* assets.
NextRelease(todo, repo, releases) ==
    IF Done(releases) THEN NextRepo(todo)
    ELSE Looking(IF Setup.repos[repo].checksums THEN "sums" ELSE "assets",
                 todo, repo, releases, NoSums)

\* The releases of the page, without the drafts.
Listed(repo) ==
    [i \in {i \in Page(repo) : IsPublished(Catalog[repo][i])} |->
        [tag |-> Catalog[repo][i], uploaded |-> world[Catalog[repo][i]].uploaded]]

\* A repository is listed, in no particular order.  What GitHub has later is not seen.
ListReleases(repo) ==
    /\ InPhase("repo")
    /\ repo \in loop.todo
    /\ loop' = NextRelease(loop.todo \ {repo}, repo, Listed(repo))
    /\ UNCHANGED <<renderingVars, config, world, attested, cache>>

Fetching ==
    /\ listing
    /\ loop.phase \in {"sums", "assets"}
    /\ ~Done(loop.assets)

CurrentAsset == First(loop.assets)

AssetKey == Key(loop.repo, CurrentAsset)

Judging(bytes) ==
    loop' = [loop EXCEPT !.phase = IF @ = "sums" THEN "judge-sums" ELSE "judge-deb",
                         !.bytes = bytes]

\* get: an asset that is in the cache is not downloaded.
GetCached ==
    /\ Fetching
    /\ Cached(AssetKey)
    /\ Judging(cache[AssetKey].bytes)
    /\ UNCHANGED <<renderingVars, config, world, attested, cache>>

\* Fault: what was downloaded is not kept.
Download_NotKept ==
    /\ Fetching
    /\ ~Cached(AssetKey)
    /\ Exists(tag)
    /\ Judging(CurrentAsset)
    /\ UNCHANGED <<renderingVars, config, world, attested, cache>>

Download ==
    /\ Fetching
    /\ ~Cached(AssetKey)
    /\ Exists(tag)
    /\ AddToCache(AssetKey, CurrentAsset)
    /\ Judging(CurrentAsset)
    /\ UNCHANGED <<renderingVars, config, world, attested>>

\* continue: on to the next asset, which is as good a checksum file as this one.
NextAsset(hasDeb) ==
    loop' = [loop EXCEPT !.phase = IF @ = "judge-sums" THEN "sums" ELSE "assets",
                         !.assets = Rest(@),
                         !.hasDeb = @ \/ hasDeb,
                         !.bytes = Unset]

\* What the verifier answers, for each configuration, repository, tag and evidence.
Verdicts ==
    [c \in DOMAIN Config |-> [repo \in Repo |-> [rel \in Release |-> [a \in Asset |->
        [e \in 0..Len(Testimony[a]) |->
            Verify(SignerOf(Config[c], repo), rel, Evidences(a, e))]]]]]

\* The verifier's answer on the bytes in hand.
Verdict == Verdicts[config][loop.repo][tag][loop.bytes][attested[loop.bytes]]

-----------------------------------------------------------------------------
(* getCheckSums.                                                           *)

\* The lines that match lineRe: a digest, how it was made, and a file.  The lengths of
\* all digests must agree and be known.
SumsAlgorithms(lines) == {lines[i].algorithm : i \in DOMAIN lines}

Usable(lines) == SumsAlgorithms(lines) \in {{"sha256"}, {"sha512"}}

\* Of two lines for a file the last one counts.
ParseSums(lines) ==
    [f \in {lines[i].file : i \in DOMAIN lines} |->
        lines[CHOOSE i \in DOMAIN lines :
                lines[i].file = f /\ \A j \in DOMAIN lines : lines[j].file = f => j <= i].digest]

JudgeSums ==
    /\ InPhase("judge-sums")
    /\ \/ Verdict = "no" /\ NextAsset(FALSE)
       \/ /\ Verdict = "yes"
          /\ Usable(File[loop.bytes].sums)
          /\ loop' = Looking("assets", loop.todo, loop.repo, loop.releases,
                             ParseSums(File[loop.bytes].sums))
    /\ UNCHANGED <<renderingVars, config, world, attested, cache>>

\* The checksum file is not there, is not verified, or makes no sense.
SumsFail ==
    \/ InPhase("sums") /\ Done(loop.assets)
    \/ /\ InPhase("judge-sums")
       /\ Verdict # "no"
       /\ Verdict = "yes" => ~Usable(File[loop.bytes].sums)

-----------------------------------------------------------------------------
(* Packages: what is done with a .deb.                                     *)

\* An entry of the index: the name and digest of a file, and what the fields of its
\* paragraph were read from.
Package(filename, size, control, digest) ==
    [filename |-> filename, size |-> size, control |-> control, digest |-> digest]

\* Is the .deb in hand what the configuration asks for?  With a checksum file it must
\* be in it; without, the verifier decides.
DebVerdict ==
    IF loop.sums = NoSums THEN Verdict
    ELSE LET name == File[CurrentAsset].name
         IN IF name \in DOMAIN loop.sums /\ loop.sums[name] = loop.bytes THEN "yes" ELSE "error"

Contents == [a \in Asset |-> ParagraphFromDeb(File[a].deb)]

Content == Contents[loop.bytes]

ListDeb ==
    /\ InPhase("judge-deb")
    /\ DebVerdict = "yes"
    /\ Content.status = "ok"
    /\ Found(Package(AssetKey, loop.bytes, loop.bytes, loop.bytes), CurrentRelease.uploaded)
    /\ NextAsset(TRUE)
    /\ UNCHANGED <<config, world, attested, cache>>

\* Not verified, or no package: the asset is passed over.
PassOverDeb ==
    /\ InPhase("judge-deb")
    /\ DebVerdict # "error"
    /\ DebVerdict = "yes" => Content.status = "nothing"
    /\ NextAsset(FALSE)
    /\ UNCHANGED <<renderingVars, config, world, attested, cache>>

DebFails ==
    /\ InPhase("judge-deb")
    /\ DebVerdict # "no"
    /\ DebVerdict = "yes" => Content.status = "error"

\* Fault: the older releases of the repository are listed too.
EndRelease_NoBreak ==
    /\ InPhase("assets")
    /\ Done(loop.assets)
    /\ loop' = NextRelease(loop.todo, loop.repo, Rest(loop.releases))
    /\ UNCHANGED <<renderingVars, config, world, attested, cache>>

\* A release that has a package is the last one of its repository.
EndRelease ==
    /\ InPhase("assets")
    /\ Done(loop.assets)
    /\ loop' = IF loop.hasDeb THEN NextRepo(loop.todo)
               ELSE NextRelease(loop.todo, loop.repo, Rest(loop.releases))
    /\ UNCHANGED <<renderingVars, config, world, attested, cache>>

EndGitHub ==
    /\ InPhase("repo")
    /\ loop.todo = {}
    /\ EndListing
    /\ loop' = NoLoop
    /\ UNCHANGED <<config, world, attested, cache>>

\* What asks a server may fail: a listing of releases, a download, a verifier.
AsksServer ==
    \/ InPhase("repo") /\ loop.todo # {}
    \/ Fetching /\ ~Cached(AssetKey)
    \/ /\ InPhase("judge-sums") \/ (InPhase("judge-deb") /\ loop.sums = NoSums)
       /\ signer(loop.repo).kind # "fixed"

\* What is sure to fail: what is deleted cannot be downloaded any more.
MustFail ==
    \/ Fetching /\ ~Cached(AssetKey) /\ ~Exists(tag)
    \/ SumsFail
    \/ DebFails

\* One failure fails the listing, all repositories of it.
FailGitHub ==
    /\ FailListing
    /\ \/ MustFail /\ UNCHANGED incidents
       \/ AsksServer /\ ~MustFail /\ Incident
    /\ loop' = NoLoop
    /\ UNCHANGED <<config, world, attested, cache>>

=============================================================================
