---------------------------- MODULE DynamicRepo ----------------------------
(***************************************************************************)
(* The dynamic repository (pkg/dynamic/repo.go): an index (InRelease, the  *)
(* Packages lists and their by-hash copies) rendered from a PackageSource, *)
(* kept in memory and refreshed by whichever request finds it older than   *)
(* maxAge.  Requests are goroutines; they share renderTime and rendered,   *)
(* which render() guards with an RWMutex, and then read r.rendered WITHOUT *)
(* the lock (repo.go:88, 96, 113).                                         *)
(*                                                                         *)
(* Data is abstracted to what the properties tell apart.  A package list   *)
(* is a version number, each change of the source makes the next one; the  *)
(* index rendered from a list, and the digest of its Packages file, are    *)
(* that number too, and 0 is no index.  Time is discrete; 0 is Go's zero   *)
(* time, which lies maxAge or more before any instant of the clock.        *)
(*                                                                         *)
(* An operator named Action_Fault is that action with a plausible bug: no  *)
(* specification uses it, it shows which property the bug would break.     *)
(***************************************************************************)
EXTENDS Naturals

CONSTANTS
    Client,          \* HTTP clients, one request in flight each
    None,            \* no lock holder
    MaxAge,          \* Repo.maxAge
    MaxTime,         \* bound: the last instant of the clock
    MaxVersion,      \* bound: the last version of the package list
    ArbitraryStamps, \* may a changed source report a timestamp other than now?
    RacyChanges      \* may the source change between the listing and time.Now()?

ASSUME MaxAgeAssumption == MaxAge \in Nat \ {0}
ASSUME BoundsAssumption == MaxTime \in Nat /\ MaxVersion \in Nat \ {0}
ASSUME NoneAssumption == None \notin Client
ASSUME EnvironmentAssumption == ArbitraryStamps \in BOOLEAN /\ RacyChanges \in BOOLEAN

VARIABLES
    now,         \* the wall clock
    source,      \* what the PackageSource holds: its version, and the latest
                 \* package timestamp it would report
    canSign,     \* whether the configured key can sign (it may be encrypted)
    lock,        \* the goroutine that holds r.mu for writing
    renderTime,  \* Repo.renderTime
    rendered,    \* Repo.rendered: the version it was rendered from, 0 for nil
    pc,          \* where each request is
    listed,      \* what src.Packages returned to a goroutine, until it unlocks
    reply,       \* how each client's last request was answered
    seen,        \* history: the version each client was last served from
    checkedAt,   \* history: when render() last read the clock for the request
    retired      \* history: when each version of the source was replaced

vars == <<now, source, canSign, lock, renderTime, rendered, pc, listed, reply,
          seen, checkedAt, retired>>

environment == <<now, source, canSign, retired>>
repoVars == <<lock, renderTime, rendered>>
clientVars == <<reply, seen>>

Listing == [version : Nat, stamp : Nat]
NoListing == [version |-> 0, stamp |-> 0]
Reply == {"none", "ok", "notFound", "error", "panic"}

\* The labels at which a goroutine is inside render()'s critical section.
Critical == {"list", "stamp", "render", "unlock"}

\* The state has its types: renderTime is a past instant, the lock is free or a goroutine's.
TypeOK ==
    /\ now \in Nat
    /\ source \in Listing
    /\ canSign \in BOOLEAN
    /\ lock \in Client \cup {None}
    /\ renderTime \in 0..now
    /\ rendered \in Nat
    /\ pc \in [Client -> {"idle", "fast", "slow", "read"} \cup Critical]
    /\ listed \in [Client -> Listing]
    /\ reply \in [Client -> Reply]
    /\ seen \in [Client -> Nat]
    /\ checkedAt \in [Client -> Nat]
    /\ retired \in [1..MaxVersion -> Nat]

Goto(c, label) == pc' = [pc EXCEPT ![c] = label]

Finish(c, answer) ==
    /\ Goto(c, "idle")
    /\ reply' = [reply EXCEPT ![c] = answer]

-----------------------------------------------------------------------------
Init ==
    /\ now = MaxAge
    /\ source \in [version : {1}, stamp : 0..now]
    /\ canSign \in BOOLEAN
    /\ lock = None
    /\ renderTime = 0
    /\ rendered = 0
    /\ pc = [c \in Client |-> "idle"]
    /\ listed = [c \in Client |-> NoListing]
    /\ reply = [c \in Client |-> "none"]
    /\ seen = [c \in Client |-> 0]
    /\ checkedAt = [c \in Client |-> 0]
    /\ retired = [v \in 1..MaxVersion |-> 0]

-----------------------------------------------------------------------------
(* The environment: the clock and the package source.                      *)

Tick ==
    /\ now < MaxTime
    /\ now' = now + 1
    /\ UNCHANGED <<source, canSign, retired, repoVars, pc, listed, clientVars,
                   checkedAt>>

\* A package is added, replaced or removed.  Writing a package now stamps the
\* list with now; a removal, a copy that keeps its mtime or the publication of a
\* release created earlier may leave any stamp.
SourceChanges ==
    /\ source.version < MaxVersion
    /\ RacyChanges \/ \A c \in Client : pc[c] # "stamp"
    /\ \E t \in IF ArbitraryStamps THEN 0..now ELSE {now} :
         source' = [version |-> source.version + 1, stamp |-> t]
    /\ retired' = [retired EXCEPT ![source.version] = now]
    /\ UNCHANGED <<now, canSign, repoVars, pc, listed, clientVars, checkedAt>>

-----------------------------------------------------------------------------
(* A request: InRelease, Packages or ByHash, each of which calls render.   *)

Ask(c) ==
    /\ pc[c] = "idle"
    /\ reply' = [reply EXCEPT ![c] = "none"]
    /\ Goto(c, "fast")
    /\ UNCHANGED <<environment, repoVars, listed, seen, checkedAt>>

Young == now - renderTime < MaxAge

Forget(c) == listed' = [listed EXCEPT ![c] = NoListing]

ReadClock(c) == checkedAt' = [checkedAt EXCEPT ![c] = now]

\* render() lets the request through.
Pass(c) == Goto(c, "read") /\ ReadClock(c)

\* The read-locked look at renderTime: it waits for a writer, and holds nothing
\* when it is over.
FastPath(c) ==
    /\ pc[c] = "fast"
    /\ lock = None
    /\ IF Young THEN Pass(c) ELSE Goto(c, "slow") /\ UNCHANGED checkedAt
    /\ UNCHANGED <<environment, repoVars, listed, clientVars>>

\* Fault: the goroutine that waited for the lock does not look again.
SlowPath_NoSecondLook(c) ==
    /\ pc[c] = "slow"
    /\ lock = None
    /\ Goto(c, "list")
    /\ lock' = c
    /\ UNCHANGED <<environment, renderTime, rendered, listed, clientVars, checkedAt>>

\* The write lock, and the second look at renderTime under it: the lock is kept
\* only when the index is still old.
SlowPath(c) ==
    /\ pc[c] = "slow"
    /\ lock = None
    /\ IF Young
       THEN Pass(c) /\ UNCHANGED lock
       ELSE Goto(c, "list") /\ lock' = c /\ UNCHANGED checkedAt
    /\ UNCHANGED <<environment, renderTime, rendered, listed, clientVars>>

\* Fault: the failure returns without unlocking.
ListFails_KeepsLock(c) ==
    /\ pc[c] = "list"
    /\ Finish(c, "error")
    /\ UNCHANGED <<environment, repoVars, listed, seen, checkedAt>>

\* Fault: the failure stamps the old index, to try again only a maxAge later.
ListFails_BacksOff(c) ==
    /\ pc[c] = "list"
    /\ lock' = None
    /\ renderTime' = now
    /\ Finish(c, "error")
    /\ UNCHANGED <<environment, rendered, listed, seen, checkedAt>>

\* src.Packages fails (or the client that asked went away): nothing is changed.
ListFails(c) ==
    /\ pc[c] = "list"
    /\ lock' = None
    /\ Finish(c, "error")
    /\ UNCHANGED <<environment, renderTime, rendered, listed, seen, checkedAt>>

List(c) ==
    /\ pc[c] = "list"
    /\ listed' = [listed EXCEPT ![c] = source]
    /\ Goto(c, "stamp")
    /\ UNCHANGED <<environment, repoVars, clientVars, checkedAt>>

\* Fault: !pkgTime.After(r.renderTime), which takes a change of the same instant
\* for no change.
TakenForUnchanged_NotAfter(c) == listed[c].stamp <= renderTime

\* pkgTime.Before(r.renderTime): render() takes the list for unchanged.
TakenForUnchanged(c) == listed[c].stamp < renderTime

SkipRender(c) ==
    /\ pc[c] = "stamp"
    /\ TakenForUnchanged(c)
    /\ renderTime' = now
    /\ lock' = None
    /\ Pass(c)
    /\ Forget(c)
    /\ UNCHANGED <<environment, rendered, clientVars>>

\* Fault: the lock is given up before the slow rendering.
StartRender_Unlocks(c) ==
    /\ pc[c] = "stamp"
    /\ ~TakenForUnchanged(c)
    /\ renderTime' = now
    /\ lock' = None
    /\ ReadClock(c)
    /\ Goto(c, "render")
    /\ UNCHANGED <<environment, rendered, listed, clientVars>>

\* Fault: the time at which the index grows old is stored, as an expiry.
StartRender_StoresExpiry(c) ==
    /\ pc[c] = "stamp"
    /\ ~TakenForUnchanged(c)
    /\ renderTime' = now + MaxAge
    /\ ReadClock(c)
    /\ Goto(c, "render")
    /\ UNCHANGED <<environment, lock, rendered, listed, clientVars>>

\* renderTime advances before the rendering, which may still fail.
StartRender(c) ==
    /\ pc[c] = "stamp"
    /\ ~TakenForUnchanged(c)
    /\ renderTime' = now
    /\ ReadClock(c)
    /\ Goto(c, "render")
    /\ UNCHANGED <<environment, lock, rendered, listed, clientVars>>

\* renderPackages fails: only signing can, and it does with a key that cannot sign.
RenderFails(c) ==
    /\ pc[c] = "render"
    /\ ~canSign
    /\ lock' = None
    /\ Finish(c, "error")
    /\ Forget(c)
    /\ UNCHANGED <<environment, renderTime, rendered, seen, checkedAt>>

Publish(c) ==
    /\ pc[c] = "render"
    /\ canSign
    /\ rendered' = listed[c].version
    /\ Goto(c, "unlock")
    /\ Forget(c)
    /\ UNCHANGED <<environment, lock, renderTime, clientVars, checkedAt>>

Unlock(c) ==
    /\ pc[c] = "unlock"
    /\ lock' = None
    /\ Goto(c, "read")
    /\ UNCHANGED <<environment, renderTime, rendered, listed, clientVars, checkedAt>>

\* r.rendered is read outside the lock.  A nil one is dereferenced all the same.
\* A component the index does not list, or the digest of an index that has been
\* replaced, is nil, which the HTTP handler answers with 404; so it is when the
\* reader races with a writer on a weakly ordered machine (arm64 is built) and
\* finds the fields of the new index still zero.
Read(c) ==
    /\ pc[c] = "read"
    /\ \/ /\ rendered = 0
          /\ Finish(c, "panic")
          /\ UNCHANGED seen
       \/ /\ rendered # 0
          /\ Finish(c, "ok")
          /\ seen' = [seen EXCEPT ![c] = rendered]
       \/ /\ rendered # 0
          /\ Finish(c, "notFound")
          /\ UNCHANGED seen
    /\ checkedAt' = [checkedAt EXCEPT ![c] = 0]
    /\ UNCHANGED <<environment, repoVars, listed>>

-----------------------------------------------------------------------------
Refresh(c) ==
    \/ ListFails(c)
    \/ List(c)
    \/ SkipRender(c)
    \/ StartRender(c)
    \/ RenderFails(c)
    \/ Publish(c)
    \/ Unlock(c)

Next ==
    \/ Tick
    \/ SourceChanges
    \/ \E c \in Client :
         Ask(c) \/ FastPath(c) \/ SlowPath(c) \/ Refresh(c) \/ Read(c)

\* A goroutine that can run runs.  Go's RWMutex starves nobody (a writer that
\* leaves admits the readers that wait, and writers queue), so the two steps that
\* wait for it are strongly fair.  That the source eventually answers or fails is
\* an assumption on the source: the code sets no timeout.
Fairness ==
    \A c \in Client :
        /\ SF_vars(FastPath(c))
        /\ SF_vars(SlowPath(c))
        /\ WF_vars(Refresh(c))
        /\ WF_vars(Read(c))

Spec == Init /\ [][Next]_vars

FairSpec == Spec /\ Fairness

-----------------------------------------------------------------------------
(* Properties that hold whatever the source does.                          *)

\* However many requests find the index old at once, it is stamped, as rendered anew or
\* as unchanged, at most once per maxAge; and whoever asks the source does so while the
\* index is old: a goroutine that waited for the lock looks at renderTime again
\* (repo.go:148).  A listing that fails stamps nothing, and those that wait list again.
RefreshSpacing ==
    [][/\ renderTime' # renderTime => renderTime' >= renderTime + MaxAge
       /\ \A c \in Client : pc[c] = "list" /\ pc'[c] # "list" => ~Young]_vars

\* No client is ever served from an older index than it was served from before,
\* although indexes are replaced behind its back and read without the lock.
NeverGoesBack == [][\A c \in Client : seen'[c] >= seen[c]]_seen

\* With a key that can sign, no request dereferences a nil index: a goroutine gets
\* past render() only after an index was published (repo.go:88, 96, 113).
NoNilIndex == canSign => \A c \in Client : reply[c] # "panic"

\* Every request is answered: no error path leaves the lock behind.
EveryRequestAnswered ==
    \A c \in Client : pc[c] = "fast" ~> pc[c] = "idle"

-----------------------------------------------------------------------------
(* Properties that hold when a change stamps the list with the current time *)
(* and does not fall between the listing and time.Now().                    *)

\* "If packages have not changed since the last render, we can skip": the skip is
\* taken only when the source holds what the index was rendered from.
SkipOnlyUnchanged ==
    canSign => \A c \in Client :
        pc[c] = "stamp" /\ TakenForUnchanged(c) => listed[c].version = rendered

\* v is what the source holds, or was until less than maxAge before t.
Current(v, t) == v = source.version \/ retired[v] + MaxAge > t

\* An index is served for at most maxAge after the source replaced what it shows,
\* counted to the moment render() last read the clock for the request.
BoundedStaleness ==
    \A c \in Client :
        pc[c] = "read" /\ rendered # 0 => Current(rendered, checkedAt[c])

-----------------------------------------------------------------------------
(* A property a configured key may break.                                  *)

\* A request that got past render() without an error finds an index to read: it is
\* what TestRepo asks of its second InRelease (repo_test.go:68-74), with a key that
\* cannot sign it fails.
IndexBehindEveryPass == \A c \in Client : reply[c] # "panic"

=============================================================================
