--------------------------- MODULE PackageSources ---------------------------
(***************************************************************************)
(* A dynamic repository over the package source of its configuration: a    *)
(* directory (LocalSource) or GitHub releases (GitHubReleases).  Listings  *)
(* are those Rendering makes; between and during them the source changes,  *)
(* time passes and entries of the asset cache are lost.                    *)
(***************************************************************************)
EXTENDS GitHubReleases, LocalSource

VARIABLE source     \* the kind of source, of RepoConfig

vars == <<source, renderingVars, githubVars, localVars>>

\* RepoFromConfig: a directory if there is one, else GitHub.  What the other source
\* would look at does not matter.
Init ==
    /\ RenderingInit
    /\ loop = NoLoop
    /\ walk = NoWalk
    /\ cache = [k \in {} |-> Gone]
    /\ dirty = {}
    /\ touched = {}
    /\ \/ /\ source = "github"
          /\ config \in DOMAIN Config
          /\ \E states \in Worlds :
               world = [rel \in Release |-> [state |-> states[rel], uploaded |-> 0]]
          /\ attested \in [Asset -> UNION {0..Len(Testimony[a]) : a \in Asset}]
          /\ \A a \in Asset : attested[a] \in IF a \in Early THEN DOMAIN Testimony[a] ELSE {0}
          /\ files = [f \in DebFile |-> Gone]
       \/ /\ source = "files"
          /\ config = 1
          /\ world = [rel \in Release |-> [state |-> "absent", uploaded |-> 0]]
          /\ attested = [a \in Asset |-> 0]
          /\ \E contents \in Directories :
               files = [f \in DebFile |-> IF contents[f] = Gone THEN Gone
                                         ELSE [content |-> contents[f], mtime |-> 0]]

GitHubChanges ==
    \/ \E rel \in Release : Create(rel) \/ PublishRelease(rel) \/ Delete(rel)
    \/ \E rel \in Release : \E a \in Asset : Attest(rel, a)
    \/ \E key \in DOMAIN cache : Evict(key)

GitHubListing ==
    \/ BeginGitHub
    \/ \E repo \in Repo : ListReleases(repo)
    \/ GetCached \/ Download
    \/ JudgeSums \/ ListDeb \/ PassOverDeb \/ EndRelease
    \/ EndGitHub \/ FailGitHub

LocalChanges ==
    \E f \in DebFile : WriteFile(f) \/ MoveIn(f) \/ RemoveFile(f)

LocalListing ==
    \/ BeginWalk
    \/ \E f \in DebFile : Lstat(f)
    \/ ReadControl \/ AddFileData \/ EndWalk \/ FailWalk

Next ==
    \/ (Tick \/ UseIndex) /\ UNCHANGED <<source, githubVars, localVars>>
    \/ source = "github" /\ (GitHubChanges \/ GitHubListing) /\ UNCHANGED <<source, localVars>>
    \/ source = "files" /\ (LocalChanges \/ LocalListing) /\ UNCHANGED <<source, githubVars>>

Spec == Init /\ [][Next]_vars

-----------------------------------------------------------------------------
(* What is right to list.                                                  *)

ReleaseOf(asset) == CHOOSE rel \in Release : Contains(Assets[rel], asset)
RepoOf(rel) == CHOOSE r \in Repo : Contains(Catalog[r], rel)

\* The checksum files of a release that have the digest of an asset.
ChecksumsOf(rel, asset) ==
    {sums \in ToSet(Assets[rel]) :
        /\ File[sums].name = SumsName[rel]
        /\ \E k \in DOMAIN File[sums].sums :
             /\ File[sums].sums[k].file = File[asset].name
             /\ File[sums].sums[k].digest = asset}

\* What has to be signed for a package to be listed: it, or a checksum file of it.
ToBeSigned(asset) ==
    LET rel == ReleaseOf(asset)
    IN IF Setup.repos[RepoOf(rel)].checksums THEN ChecksumsOf(rel, asset) ELSE {asset}

SignerFor(asset) == signer(RepoOf(ReleaseOf(asset)))

\* The verifier says yes, as things stand.
Accepted(asset) ==
    \E signed \in ToBeSigned(asset) :
        Verify(SignerFor(asset), ReleaseOf(asset), evidence(signed)) = "yes"

\* The signer vouches for it, as far as the verifiers count, or in all that is asked for.
Trusted(asset) ==
    \E signed \in ToBeSigned(asset) :
        VouchedAsCounted(SignerFor(asset), ReleaseOf(asset), evidence(signed))

OfIdentity(asset) ==
    \E signed \in ToBeSigned(asset) :
        Vouched(SignerFor(asset), ReleaseOf(asset), evidence(signed))

\* The packages of a release: accepted .debs of the right architecture.
Yield(rel) ==
    {a \in ToSet(Assets[rel]) :
        /\ File[a].ext = ".deb"
        /\ File[a].arch \in architectures
        /\ Accepted(a)
        /\ Contents[a].status = "ok"}

\* Of each repository, those of the newest release on the page that yields any.
NewestYield(repo) ==
    LET yielding == {i \in Page(repo) : /\ IsPublished(Catalog[repo][i])
                                        /\ Yield(Catalog[repo][i]) # {}}
    IN IF yielding = {} THEN {} ELSE Yield(Catalog[repo][Min(yielding)])

\* The paragraph of a package, as Packages sets its fields.
Paragraph(pkg) ==
    LET read == IF source = "github" THEN Contents[pkg.control] ELSE Readings[pkg.control]
    IN ("Filename" :> <<pkg.filename>>) @@ ("Size" :> <<pkg.size>>)
         @@ ("MD5sum" :> <<pkg.digest>>) @@ ("SHA256" :> <<pkg.digest>>) @@ read.graph

-----------------------------------------------------------------------------
(* Properties.                                                             *)

\* The variables have their types, and no stamp or entry is from the future.
TypeOK ==
    /\ source \in {"github", "files"}
    /\ now \in Nat /\ renderTime \in 0..now /\ latest \in 0..now
    /\ began \in 0..now
    /\ {listing, quiet, raced} \subseteq BOOLEAN
    /\ config \in DOMAIN Config
    /\ world \in [Release -> [state : ReleaseState, uploaded : 0..now]]
    /\ attested \in [Asset -> Nat] /\ \A a \in Asset : attested[a] <= Len(Testimony[a])
    /\ \A k \in DOMAIN cache : cache[k] \in [bytes : Asset, added : 0..now]
    /\ files \in [DebFile -> {Gone} \cup [content : Text, mtime : 0..now]]
    /\ touched \cup dirty \subseteq DebFile

\* Whatever comes and goes while the loops run, and whatever is cached from an earlier
\* listing, for a package in the index of GitHub releases there is evidence, signed under
\* the tag of its release, of it or of a checksum file with its digest: by the identity that
\* is configured, but for one field if the certificate's name is one that is counted twice.
ListedIsTrusted ==
    source = "github" =>
        \A pkg \in rendered : pkg.digest = pkg.filename[2] /\ Trusted(pkg.digest)

\* Without that exception: a certificate of another issuer, say, is refused.
ListedMeetsIdentity ==
    source = "github" => \A pkg \in rendered : OfIdentity(pkg.digest)

\* The pool holds under a listed name the file whose digest the index gives, or none.
PoolHoldsWhatIsListed ==
    source = "github" =>
        \A pkg \in rendered : Deb(pkg.filename) \in {pkg.digest, Unset}

\* An index made while nothing happened has, of each repository, the packages of the
\* newest release that has any, and of no other.
ListsNewestRelease ==
    [][source = "github" /\ listing /\ ~raced /\ rendered' # rendered =>
          rendered' = UNION {{Package(<<repo, a>>, a, a, a) : a \in NewestYield(repo)} :
                             repo \in Repo}]_vars

\* A package in a fresh index was in the asset cache at some time since the listing
\* began that made or confirmed the index: a listing downloads anew what has expired,
\* whether or not the index is then kept.  Not after a quiet change, when the index may
\* show what is not listed any more.
ListedComesBack ==
    source = "github" /\ Setup.storage = "file" /\ ~quiet /\ now < renderTime + MaxAge =>
        \A pkg \in rendered :
            pkg.filename \in DOMAIN cache /\ began <= cache[pkg.filename].added + AssetTTL

\* What the index has of a file that rests since before the walk began is one reading of
\* it: present if it holds a package, with one content for size, fields and digest.
RestingFilesAreListed ==
    source = "files" /\ renderTime # 0 =>
        \A f \in DebFile \ dirty :
            {pkg \in rendered : pkg.filename = f} =
                IF LocalDeb(f) = Gone THEN {}
                ELSE LET c == LocalDeb(f)
                     IN {LocalPackage(f, c, c, c) : x \in {x \in {c} :
                            Readings[x].status = "ok"}}

\* Written as a Packages list and read again: the same paragraphs?
ReadsBack(index) ==
    LET order == SetToSeq(index)
        graphs == [i \in DOMAIN order |-> Paragraph(order[i])]
        read == ParseControlFile(WriteControlFile(graphs))
    IN /\ Len(read) = Len(graphs)
       /\ \A i \in DOMAIN read : Essence(read[i]) = Essence(graphs[i])

\* Whenever an index is made, its Packages list reads back paragraph by paragraph: none
\* runs into the next, none is lost, and the fields are those of the control files with
\* the name, size and digest that debcache gives.
IndexReadsBack ==
    [][rendered' # rendered => \A index \in {rendered'} : ReadsBack(index)]_vars

=============================================================================
