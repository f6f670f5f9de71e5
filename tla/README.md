# A verification of debcache

debcache is a caching proxy for Debian packages: an HTTP server with one
*repository* per configured name, which is an upstream archive, an archive
rendered on the fly from a directory or from GitHub releases, or a cache in front
of another repository. This directory holds TLA+ models of its parts,
configurations that check them with TLC, and proofs checked by TLAPS. Paths below
are relative to `src/`.

Contents: [inventory](#inventory) · [modules](#modules) · [runs](#runs) ·
[bounds](#bounds) · [fairness and assumptions](#fairness-and-assumptions) ·
[proofs](#proofs) · [findings](#findings) · [not modelled](#not-modelled) ·
[plan](#plan)

## Inventory

Each request is a goroutine. Goroutines meet in four places: the rendered index of
a dynamic repository, the in-memory storage, the files of the on-disk storage, and
the asset cache of a GitHub source, which is one of those two storages.

| Component | State | Operations | Uses | Hard |
|---|---|---|---|---|
| dynamic repository, `pkg/dynamic/repo.go` | `renderTime`, `rendered`, an `RWMutex` | `InRelease`, `Packages`, `ByHash` (each through `render`), `Pool` | a package source, a signing key | a double-checked lock; `rendered` read without it; failures between two assignments; "unchanged" judged by a timestamp |
| package sources, `pkg/dynamic/local.go`, `github.go`, `packages.go` | the GitHub asset cache | `Packages`, `Deb` | the file system, GitHub, a storage, verifiers | a listing is not a snapshot; it fails as a whole; `Deb` reads a cache that only listings fill |
| in-memory storage, `pkg/cache/lru.go` | a map from namespace to LRU, an `RWMutex` | `Get`, `Add`, `NamespaceTTL` | the hashicorp expirable LRU | creation on demand; an LRU used after the lock is released; eviction |
| on-disk storage, `pkg/cache/file.go` | a file per key, whose mtime is its age | `Get`, `Add`, `NamespaceTTL` | the file system | non-atomic writes; failed writes; a crash; a restart on what is on disk |
| pull-through cache, `pkg/repo/cache.go` | a storage | the five repository calls | a storage, another repository | concurrent misses; slow fetches; empty answers cached; documents that expire apart |
| upstream, `pkg/repo/upstream.go` | none | the five repository calls | an HTTP server | the path of each document, statuses |
| HTTP handler, `pkg/server/handler.go` | none after start | one handler per document | the repositories | routes, empty answers, suffixes |
| server, configuration, `pkg/server/*.go` | none after start | start, shutdown | everything | the process may exit while requests run |
| control files and debs, `pkg/debian/*.go` | none | parse, write | | continuation lines, a round trip |
| signatures, `pkg/signature/*.go` | none | `Verify` | sigstore, GitHub | remote services; evidence in any order; fields found are counted, not checked off |
| keys, compression, `pkg/cache/key.go`, `pkg/repo/compression.go` | none | string functions | | two documents on one key |

What makes each component correct:

* **dynamic repository**: however many requests find the index old, it is refreshed (and stamped) at most
  once per `maxAge`, and the source is asked only while it is old; a listing that fails stamps nothing, and the
  next request asks again; an index is replaced only by a newer one; a client never
  goes back to an older one; nobody dereferences a nil one; a change of the source is
  in the index at most `maxAge` later; a rendering is skipped only if nothing changed;
  no failure leaves the lock held.
* **storages**: a hit returns what was last added under the key, whole and unexpired;
  nothing is lost but to expiry, a full namespace or a new TTL.
* **pull-through cache**: an answer is what the source would have said not long ago;
  failures are not cached; old contents die out; a document that a cached index lists can be fetched.
* **GitHub source**: only what the signer vouches for, as far as its verifier counts, is listed, from the newest
  release that has any; what the pool holds under a listed name is what was listed, and
  it can be fetched, or can again soon.
* **local source**: a file at rest is in the index as one reading of it.
* **both**: an index is kept for unchanged only if what changed left no timestamp.
* **handler, keys, upstream**: a client that asks without blanks gets a content of the document it
  asked for, and a 404 only for what is not there; a release agrees with the files it names.
* **signatures**: a yes means that a good certificate holds all the identity asks for, but for one field
  if its name is of a form that is counted twice; a no, that none does whose name is counted once.
* **control files**: paragraphs written to a list are read back as the same paragraphs.

The hazards behind these properties are listed in `PROJECT.json` at the line where
each of them bites, with the properties that would notice.

## Modules

| Module | Models | State and steps |
|---|---|---|
| `DynamicRepo` | `pkg/dynamic/repo.go`, with the source as its environment | `renderTime`, `rendered`, `lock` are the fields; a request is `Ask`, `FastPath`, `SlowPath`, then `Refresh` (list, skip or render, publish, unlock) under the lock, then `Read` without it |
| `DynamicRepoProofs` | | theorems about `DynamicRepo` |
| `CacheStorage` | what `pkg/cache/storage.go` promises | one atomic map from key to value and expiry |
| `LRUStorage` | `pkg/cache/lru.go` over the external LRU | `data` and the LRUs created so far; a call is `Lookup`, `Create` if need be, then `Get` or `Add` on the LRU it holds |
| `LRUStorageProofs` | | theorems about `LRUStorage`, the refinement of `CacheStorage` among them |
| `FileStorage` | `pkg/cache/file.go` over the file system | a file's blocks and mtime; `Add` is `Open` (truncate), `Write` per block, `Close`; `Get` is `Stat`, `Read` per block; each may fail, and the process may `Crash` |
| `FileStorageProofs` | | theorems about `FileStorage` |
| `PullThrough` | `pkg/repo/cache.go`, nested as `pkg/server/config.go` allows | a chain of storages and the requests in them; a call is `Hit`, or `Miss`, `Fetch` at the end of the chain, and `Add` on the way back |
| `PullThroughProofs` | | theorems about `PullThrough` |
| `ControlFile` | `pkg/debian/control.go`, `deb.go` | functions: parser and writer on classified lines, the search of a .deb |
| `Signatures` | `pkg/signature/*.go` | functions: what an identity asks of a certificate, the verifiers' loops over evidence |
| `SignaturesProofs` | | theorems about `Signatures` |
| `Rendering` | the refresh in `pkg/dynamic/repo.go` as a source sees it | `BeginListing`, `Found`, then `EndListing` (an index, or a skip) or `FailListing`; time passes meanwhile |
| `GitHubReleases` | `pkg/dynamic/github.go` over GitHub | `loop` is the program counter and the locals of `Packages`, `cache` the asset cache; one step per call of GitHub, of the verifier or of the cache |
| `LocalSource` | `pkg/dynamic/local.go` over a directory | `walk` holds the names still to visit and the file looked at; `Lstat`, `ReadControl`, `AddFileData` per file |
| `PackageSources` | `RepoFromConfig`: one of the two sources | composes the four modules above; properties of an index |
| `PackageSourcesProofs` | | theorems about both sources: what is listed is trusted, typed, and one reading of a file |
| `ListingProofs` | | further theorems about both: a listing finds what is right to list, and a skip loses nothing that shows |
| `Serving` | `handler.go`, `config.go`, the keys of `cache.go`, `upstream.go`, `renderPackages`, `compression.go` | requests through route, caches, source and back: `Ask`, `Hit`, `Miss`, `Fetch*`, `Add` |
| `ServingProofs` | | theorems about `Serving` |
| `MC*` | | the constants of each model for TLC, and its symmetry |

Three models are about a dynamic repository and its caches, each with another
abstraction: `DynamicRepo` (who refreshes when; a listing is one step), `PackageSources` (how
a listing comes about; one goroutine refreshes, which is what `DynamicRepo` shows)
and `Serving` (which document is answered; refreshes and losses come at any time).
`PullThrough` is about time in caches, `Serving` about names in them.

A step of a model is what the code does between two points at which another
goroutine can be seen: under a lock a whole critical section would be one step, but
`render` is split where it reads the clock, asks the source, or publishes, because
`rendered` is read outside the lock. A file operation is split by system call.

Data is abstracted to what the properties tell apart. A package list is a version
number and a timestamp; the index rendered from it is that number, and nil is 0. A
value in the LRU is a model value; in a file it is a sequence of blocks, so that a torn
value can be seen. Variables marked *history* are read by properties only.

An operator named `Action_Fault` is that action with a plausible bug, such as a lock
not released or a second look left out. No specification uses it: put in the place of
the action it makes TLC refute the property it is written for (`mutants` in
`PROJECT.json`), which shows the property can fail.

### How `DynamicRepo` follows `render`

`FastPath` is lines 137-143, `SlowPath` 145-151, `List` and `ListFails` 153-156,
`SkipRender` 158-162, `StartRender` 164-165, `RenderFails` and `Publish` 166-171,
`Unlock` the deferred call. `Publish` and `Unlock` are two steps since a goroutine that
is already past `render` may read `rendered` in between. `StartRender` moves
`renderTime` before the rendering, as the code does; `RenderFails` is possible exactly
when the key cannot sign (`clearsign.Encode` refuses an encrypted key; the other
errors of `renderPackages` are of writes to memory). `Read` answers with the index,
with a panic if it is nil, or with an empty result, which the handler turns into a 404:
the component is not in the list, the digest belongs to a replaced index, or, on a
weakly ordered machine, the fields of a new index are not visible yet to a reader that
holds no lock.

### How `LRUStorage` implements `CacheStorage`

The abstract store maps a key to the entry in the *current* LRU of its namespace. The calls linearize at their
last step, the library call on the LRU. A call that holds an LRU which `NamespaceTTL` has replaced is
*overtaken*: it acts on entries nobody sees, so what it adds is lost and what it gets may be gone; the
abstract specification allows that of overtaken calls only. (The method is part of the interface; the program
never calls it, its tests do.) Without the second look in `dataMap` a call would be lost with no
`NamespaceTTL` about, and the refinement fails. The mapping is `storeBar`, `callBar` and `overtakenBar`;
`Lookup` and `Create` change nothing of the map, every other step is the step of the same name, `Reap` an
`Expire` or, in an LRU no namespace has any more, nothing.

### How `PullThrough` abstracts its parts

The storages in it are what `CacheStorage` promises, reduced to one key: an entry is found until its TTL is
over, and it may be dropped, or an `Add` fail, at any time. A torn file (finding 3) is outside that promise.
The source is any repository: it holds a content, nil (`Absent`) being one of them, or fails. The chain is
sequential in one request and concurrent between requests; nothing merges two misses, so the slower of two
fetches adds last whatever it fetched. Time is relative, ticks left and ticks taken, so behaviours are
infinite and `Settles` is about all of them.

For a dynamic repository behind a chain, the source's content is the index it serves,
which may itself lag by `maxAge` (`BoundedStaleness`): the two bounds add up.

### How `PackageSources` follows the sources

`loop.phase` says what `Packages` of the GitHub source does next: list a repository's releases (`repo`), fetch
an asset of a release (`sums` for checksum files, `assets`), judge its bytes (`judge-sums`, `judge-deb`). Each
of the nested loops keeps what is left of what it iterates over as a function from positions, so that the loop
that breaks out forgets the rest. What the code decides from the listed release alone, its flags and the names
of its assets, is decided with the listing; a prerelease stands with the drafts, which are passed over alike.
Other steps may come between any two, so that a release may be deleted after it was listed, evidence published
after the checksum file was judged, an entry of the cache expire between a listing and the download it serves.
`GetCached` and `Download` are the two ways through `get`, `EndRelease` has the early exit, and every `return
nil, ..., err` is `FailGitHub`: what is sure to fail at a point (`MustFail`), or what asks a server
(`AsksServer`). The verifier's answers come from `Signatures`, evaluated on the evidence there is at that
moment.

`Walk` reads the names of a directory once and calls back for each; the callback looks at
a file three times. A content stands for the size, the digests and the control data taken of it, so
that an entry made of three contents can be seen.

A *quiet* change is one that need not show in a timestamp of the next listing: a removal, an
old file moved in, a release published after its assets were uploaded, an
attestation made late, any change while a listing runs. `Rendering!SkipsLoseOnlyQuietChanges`
says that a list is thrown away only after one; finding 1 is what happens then.

Control data come in lines a parser's tests tell apart (field, continuation,
empty, junk), with values of tokens; `IndexReadsBack` writes the index of every reachable state
and parses it again.

### How `Serving` follows a request

`Route` is the router with the six handlers, `Key` the keys of `pkg/repo/cache.go`, `UpstreamPath`
the paths of `pkg/repo/upstream.go`, `RenderPackages` and `DynamicAnswer` the index and what is read from
it, `Write` the end of every handler. A path is a record of what these functions take it apart
into, a digest is the content it was taken of. Under a cache a request stops at each storage;
another may have filled it by the time it comes back with its own answer.

`Words` says which words a part of a URL has, and a key is the namespace and the words of all
the parts, one after the other: that is what parts joined by blanks can be told apart by. A part with a blank has
several, so that two calls may share a key, as two of the run's URLs do. Their answers may be one another's,
and the properties do not speak of them; they do say that none of it reaches a URL without blanks.

## Runs

| Run | Shows |
|---|---|
| `dynamic_any` | Whatever the source does (any stamp, changes at any time) and whether or not the key can sign: `RefreshSpacing`, stamps are `maxAge` apart and the source is asked only when the last is that old; `NeverGoesBack`, `NoNilIndex`, `TypeOK`; and `EveryRequestAnswered` under fair scheduling, through every error path. |
| `dynamic_prompt` | If a change stamps the list with the current time and does not fall between the listing and `time.Now()`: `SkipOnlyUnchanged`, and `BoundedStaleness`, that no request is let through with an index replaced `maxAge` or more before. |
| `dynamic_skip` | Refutes `SkipOnlyUnchanged` when a change may leave an older stamp. |
| `dynamic_nil` | Refutes `IndexBehindEveryPass` when the key cannot sign. |
| `lru_atomic` | The in-memory storage implements the atomic map, with evictions, expiry and TTL changes. |
| `file_alone` | `AnswersLastAdd`: an `Add` that runs alone and to its end repairs what crashes, failures and overlapping writes left; a `Get` that no `Add` crosses returns it whole. |
| `file_torn` | Refutes `HitsAreWhole` by a `Get` that crosses an `Add`. |
| `pull_chain` | Two requests race through two nested caches: `AnswersAreRecent`, an answer is a content the source held no longer ago than the TTLs and one `Patience` per cache add up to, and no error is turned into a 404; `Settles`, when the source comes to rest the caches do. |
| `listing` | A directory, or two GitHub repositories, one with attestations or with a checksum file and log entries, one signed under an email address, changing while they are listed: `ListedIsTrusted`, `ListsNewestRelease`, `PoolHoldsWhatIsListed`, `ListedComesBack`, `RestingFilesAreListed`, `SkipsLoseOnlyQuietChanges`, `IndexReadsBack`. |
| `listing_issuer` | Refutes `ListedMeetsIdentity`: with the name of a certificate counted twice, its issuer is not looked at. |
| `serving` | Two clients, seventeen URLs (two of which share a key), an upstream or a dynamic repository, with and without a cache: `AnswersFitTheQuestion`, `DenialsAreTrue`, `ReleaseDescribesIndex`. |
| `by_hash` | Refutes `PromisedIsServed`: a refresh takes away the by-hash files of a release that clients still have. |

Every action of every model is taken by a passing run. Deadlock is checked in all of
them: an idle client may always ask again.

## Bounds

* `MaxTime`, the last instant of the clock: 4 to 8 (6 in `dynamic_any`) with `MaxAge` = 2, so that an index
  ages twice or more and a missed change has time to be found; 2 with a TTL of 1 in
  the storages, which is an entry written, still valid, and expired.
* `MaxVersion`, the changes of the source: 2 or 3, a change before and one after a
  refresh, which is what the skip can confuse.
* `MaxResets`, the calls of `NamespaceTTL`: 2, so that a call may hold an LRU replaced
  once or twice.
* Clients: two in `DynamicRepo` and `LRUStorage`, where the protocols are between one
  goroutine in the critical section and one that waits or reads; three in `FileStorage`,
  two that write and one that reads. The theorems hold for any number.
* Values in a file have two blocks and one: a longer value before a shorter leaves a
  tail, a shorter one before a longer a hole.
* `Depth` is 2 in `PullThrough`, with TTLs of 2 and 1 and a `Patience` of 2: a request may
  sit on an old content at each level while another adds a newer one. The bound
  `Staleness[1]` = 7 is attained: with 6 TLC finds a violation. `Old` = 8 caps the
  history variable above it.
* `Size` is 1 with two keys: every `Add` of the other key evicts.

* `listing`: `MaxAge`, `Patience` and `AssetTTL` of 1 and `MaxTime` of 3 give three listings, and an entry
  that expires between two of them or under one; `MaxIncidents` of 2 a change or failure in each of two
  listings, or two in one. An entry of the first listing is too old in the third, which is what
  `ListedComesBack` is about. `PerPage` is 2 (5 in the code) with up to three releases in a repository: `r2`,
  which has no assets, fills the page or pushes the oldest off it, and with it perhaps the only packages; that
  counts as a quiet change (`FullPage`). `Worlds` and `Directories` say what may be there at the start; the
  incidents lead on from it. The evidence has each way a piece can be bad, before and after a good one, and
  one of another issuer under the address that is asked for, in a certificate whose name is counted twice.
* `serving`: `MaxStored` is 1, so that every entry pushes out the one before. A request looks at one key, so
  another entry beside its own changes nothing for it but that `Add` may push it out, which is `Lose`; the
  theorems hold for any `MaxStored`. It is 2 in `by_hash`, where a release and what it names are both cached;
  two versions of the source; one cache. A second cache adds no key and no route, and `PullThrough` has
  chains. A request takes 4 steps at most, and two of them interleave.

Symmetry is declared over clients (and over keys and values where the constants make
them interchangeable), never in a run with a liveness property.

## Fairness and assumptions

`DynamicRepo!Fairness`: a goroutine that can take a step eventually does (weak
fairness of `Refresh` and `Read`). The two steps that wait for the lock are strongly
fair, since Go's `RWMutex` starves nobody: a writer that leaves admits the readers
that wait before the next writer, and a writer that waits holds off new readers. No
fairness is assumed of clients, the clock or changes of the source. That the source
eventually answers or fails is an assumption on the source: `render` sets no timeout,
and a GitHub or disk call that hangs holds the lock forever.

`PullThrough!Fairness`: time passes, and a request that can take a step does. `Patience`
bounds the time a request takes; the code sets no such bound, so `AnswersAreRecent` is
relative to it.

`PackageSources` and `Serving` state no fairness and no liveness: whether a listing ends is a matter of
servers. `Patience` bounds the time of a listing in `Rendering`, a bound the code does not
set. `ListedComesBack` counts from the moment a listing began, so it needs no such bound.

`Signatures` assumes of a certificate that x509 accepted it: no extension twice (`Certificate`).
`GitHubReleases` takes an asset's id for its content: GitHub never changes the content under an id.

`Serving` assumes of a URL that its path is one a route can match, of `Words` that a part is what its only word is,
and of the name of a file in the pool that `filepath.Join` leaves it as it is, so that a key is a file of its
own in a file cache. `AnswersFitTheQuestion` and `DenialsAreTrue` are about `Plain` paths, without a
blank in a part.

Two constants select the environment of a dynamic repository. `ArbitraryStamps` lets a change leave any stamp
up to now: a file is removed, or copied in with an old mtime, a release is deleted. `RacyChanges` lets a
change fall after the source was listed and before `time.Now()`: its stamp then lies before `renderTime` and
the next listing is taken for unchanged, with the outcome of finding 1 though no stamp is older than the
change. Both happen in practice; the runs and theorems that rule them out say so.

Go's zero time is instant 0 and the clock starts at `MaxAge`: at any real instant the
zero `renderTime` is older than `maxAge`.

## Proofs

`DynamicRepoProofs` proves, for every set of clients, `MaxAge` and bounds (assumed:
`MaxAge` is a positive natural number, the bounds are natural, `None` is not a client):

* `TypeCorrect`, `NilFree`, `RefreshesAreSpaced`, `ClientsNeverGoBack`: the four
  properties of `dynamic_any`;
* `SkipsAreSound` and `StalenessIsBounded`: the two of `dynamic_prompt`, under
  `~ArbitraryStamps` and `~RacyChanges`.

None of these is inductive as it stands. The first four follow from `IInv`:

* `Locked`: a goroutine is in the critical section iff it holds the lock. Mutual
  exclusion follows, as the lock has one holder.
* `Versions`: versions flow from the source to the listing, to the index, to the client,
  and never past one another; a listing under way is at least as new as the index.
* `Nils`: while the index is nil, `renderTime` is zero or a rendering is under way, and
  nobody is past `render`. This needs `now >= MaxAge`: with a zero `renderTime` the
  index is old.
* `Spaced`: between the second look at `renderTime` and its assignment the index stays
  old, because the holder of the lock alone assigns it.

`NextIInv` takes the actions one by one. The two staleness theorems add `Fresh`, over `IInv`:
`Stamps` (a list replaced since a listing has a stamp no older than that listing's
version was retired), `Listings` (what is listed is current, or was retired no earlier than
`renderTime`) and `Indexes` (the same of the published index, up to what a rendering
under way is about to publish), and `BoundedStaleness` itself.

`PullThroughProofs` proves `TypeCorrect` and `AnswersRecent` (the property
`AnswersAreRecent` of `pull_chain`) for any clients, contents, depth, TTLs and patience;
`Staleness` is a constant assumed to satisfy the recurrence it stands for. The
invariant adds to typing: `Held` (the source's content has age 0), `Entries` (an entry is
as stale as its cache may answer, less the time it has left), `Carried` (what a request got
from below is as stale as answers there may be, plus the time the request has taken) and
`Unanswered` (a request under way has no reply yet). The property alone is not
inductive: it says nothing of entries that are old but will be handed out later, or of a
fetch that is on its way.

`SignaturesProofs` proves, for any identity, certificate and evidence, `AcceptedMeets` (what a yes of
`CertificateVerifier.Verify` means) and `VerifiedIsVouched` (a yes of a verifier rests on a piece of evidence
that is signed, with such a certificate). What it means is `MeetsAsCounted`: the certificate has the name,
every match and every value asked for, except that it may lack one value if its name is `CountedTwice`
(finding 5); `Meets`, with no exception, if it is not. The code decides by counters that reach zero. The
argument: the places that were counted, each with a field that was asked for and no two with the same, map one
to one into the fields asked for; with as many places as fields the map is onto, so every field was found, and
none differed or the loop would have ended; a name counted twice is one place too many, and leaves out one
field at most. The other direction is `RefusedLacks` (a no means that the certificate lacks something) and
`UnverifiedIsNotVouched` (a no of a verifier, that no piece of evidence holds with a certificate that meets
the identity), both for names counted once: a field that was found is a place that was counted, so all of them
found leave no counter above zero. (A name counted twice can take the counter past zero, and a good
certificate is then refused.) An error is neither a yes nor a no, and says nothing of the evidence.

`PackageSourcesProofs` proves, for any catalog of repositories, releases, assets, evidence and
configurations, and for any directories:

* `TypeCorrect`, and `PoolAgrees` (`PoolHoldsWhatIsListed`): by the invariant on the cache, that what is
  kept under the key of an asset is that asset, and the one on the list, that every package names its
  file by that key.
* `PackagesAreTrusted` (`ListedIsTrusted`): for any identities, with the exception that `Trusted` makes for a name counted
  twice. The invariant `LoopOK` says of `loop` what each phase has established: the releases left are
  of the repository at hand, the bytes under judgement are those of the first asset left, the sums come from
  a file of the release that its signer vouches for. Evidence only ever comes in, so a yes, which is
  `VerifiedIsVouched`, stays one.
* `RestingFilesListed` (`RestingFilesAreListed`): `WalkOK` says of the file the walk is looking at that
  what was read of it so far is what it is, unless it changed since the walk began;
  `WalkedOK`, that the list has what it should of the files behind the walk and nothing of those ahead; `IndexOK`
  hands this on to the index, through renderings that are skipped too, and there it
  needs the clock: a file that is new to the list has a stamp no older than the last rendering.

`ListingProofs` proves, for the same constants, `NewestIsListed` (`ListsNewestRelease`), `SkipsAreSound`
(`SkipsLoseOnlyQuietChanges`) and `ComesBack` (`ListedComesBack`). All three rest on `ListingIsExact`. What a
listing should have is stated by what the verifiers answer (`Accepted`), of which the theorems before say what
it means. The properties speak of the end of a listing, so the invariant `Exact`, over `IInv`, says of every
point of it what has been found. Of the GitHub source, while nothing has happened (`LoopExact`): repositories
the loop is through with are listed as they should be and the others not at all (`ListedSoFar`); the releases
left are as GitHub has them and the ones passed over yield nothing (`ReleasesExact`); of the release in hand,
the assets passed are listed if they are in its `Yield`, and `hasDeb` says whether there is one
(`AssetsExact`). A release is passed over after a *no* for each of its packages, which stays a no while
nothing happens. `IndexExact` says of the index that, short of a quiet change, it has of each repository what
it should or a listing will find a timestamp that is not older. To keep it, each change of GitHub is shown to
be quiet, or to leave as the newest release with a package one uploaded since (`ChangeShows`); the page makes
this delicate, since a new release pushes the oldest off it, whence `RoomOnPage`. `CameBack` follows a package
from the moment it is in hand to the index. Of a directory: `QuietFiles` (without a quiet change, files
changed since the walk behind the index have an mtime that is not older than it), `Looked` (the latest
timestamp is not before that of any file the walk is through with), `NamesFiles`. So a walk whose latest
timestamp is older than the index has no changed file behind it, and `WalkedOK` and `IndexOK` make the list
and the index the same. `Exact` was checked with TLC on the constants of `listing` before it was proved.

`ServingProofs` proves `TypeCorrect`, `AnswersAreRight`, `DenialsAreRight` and `ReleaseIsRight` (the four
properties of `serving`) for any URLs (those that are asked with blanks are in the caches, too), contents,
codename and length of the chain of caches. The invariant says that a request under way calls what its URL is
routed to (`RequestOK`), that what is stored under a key, and what a request brings back, was answered by the
source to a call with that key (`StoresOK`, `RequestOK`), and that the index is one of some version
(`IndexOK`). It works because a call without blanks shares its key with no other call (`KeysAreOneToOne`, up
to what the source does not look at), and because an upstream answer is that of the path it was asked for. A
key joins three parts and a word; four words in all, and no part without one, leave one word to each part
(`JoinedApart`), so a call with a blank has another key. What calls with blanks leave in the storages, `Kept`
says nothing of. Assumed: a path in a URL is a record a route can match (`UrlAssumption`); a part has a word,
and is that word if it has one (`WordsAssumption`); the archive has no binary list for no architecture
(`ArchiveAssumption`: no route leads there, a URL names one); and `Nil`, no body, is no body
(`NilAssumption`). The first attempt at `DenialsAreRight` failed: a suffix that `Translations` does not know
is read as the plain file, so a 404 for it tells of the plain file; `Meant` is the path that a URL is taken
for.

`FileStorageProofs` proves `TypeCorrect` and `LastAddIsAnswered` (`AnswersLastAdd`) for any goroutines, any values of
any lengths, with and without failures. `Undisturbed`: an `Add` that nothing has disturbed is alone, and the file
holds exactly the blocks it has written; `Uncrossed`: a `Get` that no `Add` crosses has read what
the file begins with; `Fresh`: who is about to open the file has read or written nothing yet.

`LRUStorageProofs` proves `TypeCorrect` and `IsAtomicMap` (`ImplementsCacheStorage`): for any goroutines, keys,
namespaces, TTLs and size, the storage implements the atomic map. The invariant the simulation needs
is `OwnersOK`: an LRU is the current one of one namespace at most, holds keys of that namespace only, and
whoever works on it does so for a key of that namespace. So a call that is overtaken works on an LRU which
is nobody's, and changes nothing of the map; one that is not works on the LRU the map is made of. What the library
does to the order of the entries (`Touched`, `Added`) is reduced by lemmas to which entries there are: the
map is blind to the order but for the one that is evicted, which an `Add` of a full namespace chooses.

The assumptions on constants are named in the modules that declare them, and TLC evaluates them on every run:
an asset belongs to one release and a release to one repository (`CatalogAssumption`,
`ReleaseAssumption`), which is what ids are; names in a directory differ (`LocalAssumption`); `None`,
`Nil` and `Gone` are none of the values they are told from; bounds are natural numbers.

Model-checked only:

* liveness (`EveryRequestAnswered`, `Settles`), which needs fairness;
* `IndexReadsBack`, since what the parser and the writer of control files compute is defined by
  recursion over lists, and calls for induction over them.

## Findings

1. `dynamic_skip`: "If packages have not changed since the last render, we can skip"
   (`pkg/dynamic/repo.go:157`) is decided by the latest timestamp of the list. A removal, or a file copied
   with its mtime, does not advance it: the change is listed, taken for none, and never rendered until a later
   change has a newer stamp.
2. `dynamic_nil`: `renderTime` moves before a rendering that may fail (`pkg/dynamic/repo.go:165`). If the
   first one does, requests within `maxAge` are let through to a nil index and panic (chi's recoverer is not
   installed; `net/http` drops the connection).
3. `file_torn`: a `Get` during an `Add` hits on an empty or partial value with a fresh mtime
   (`pkg/cache/file.go:74`); the storage's test asks that a hit be the value stored.
4. `by_hash`: "ByHash fetches metadata (e.g. an architecture's package list) by its hash"
   (`pkg/repo/repo.go:32`) and the release says `Acquire-By-Hash`; a refresh replaces the index and all its
   by-hash files, so a client with the InRelease from before, or one from a cache, is denied what it names,
   and the denial is cached.
5. `listing_issuer`: a subject alternative name that is an email address is counted down before the loop over
   the extensions (`pkg/signature/certificate.go:68`) and in it (line 86). The identity of
   `pkg/signature/cosign_test.go:73-74` asks for an issuer and such a name; both counts are used up by the
   name, and the issuer of the certificate is never compared, where the test `issuer mismatch`
   (`pkg/signature/certificate_test.go:51`, with a name that is a URI) expects a no.

Without a run: "Size is the number of entries to store in the cache" (`pkg/cache/lru.go:19`), yet each
namespace gets an LRU of that size (lines 58, 74).

## Not modelled

* Bytes: the layout of archives, the format of signatures, what compression does to a list, the wording of
  replies and logs. `repo.source` is reduced to who signs; the suite in it is a fixed text chosen by the
  repository's name.
* The limit of `bufio.Scanner` on a line, and failures of readers and writers in memory, in `ControlFile`.
* `FileStorage.NamespaceTTL`: it writes a map without a lock, and nothing calls it once requests are served; a
  TTL per namespace is chosen at the start of a behaviour.
* The chi router, sigstore, the GitHub client, the HTTP server, the LRU library: external. What the code sees
  of the LRU is in `LRUStorage`; what it sees of sigstore is whether a piece of evidence is readable and
  signed.
* Names of files in the pool that are no plain names: a file cache makes a path of a key with `filepath.Join`
  (`pkg/cache/file.go:41`, 68), which removes `..` and empty elements, so that such a name may lead to another
  key's file; and `LocalSource.Deb` (`pkg/dynamic/local.go:75`) reads whatever file a name leads to, listed or
  not, so that the pool of a directory is more than its index.
* What a URL with a blank in a part is answered with, when another has its key.
* The Codename of an index (one index serves every distribution), start-up, shutdown, configuration decoding,
  logging.
* The key file of the signer: read once at start. `canSign` of `DynamicRepo` says whether it can sign.

## Plan

The modules planned exist: `DynamicRepo`, the storages, `PullThrough`, the package sources,
`Serving`, `ControlFile`, `Signatures`. Every invariant and every action property of a passing run is proved but
`IndexReadsBack`, and so is the refinement of `CacheStorage`. What is left, in order of importance:

1. That the abstractions fit: a theorem that `PackageSources`, with listings taken for one step, makes the
   steps `DynamicRepo` allows its source, and under `~ArbitraryStamps` when no change is quiet. Today the two models agree
   by their definitions, side by side, and no proof relates them.
2. The lemmas about `ControlFile` that need no induction: what the writer makes of one field, and what the parser
   makes of one line.
