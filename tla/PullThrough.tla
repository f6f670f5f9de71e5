---------------------------- MODULE PullThrough ----------------------------
(***************************************************************************)
(* The pull-through cache (pkg/repo/cache.go): a request looks into a      *)
(* storage, asks the source on a miss, and adds what it got.  A source may *)
(* be another cache (pkg/server/config.go), so a configuration is a chain  *)
(* of Depth caches before one source.  Requests are goroutines: two that   *)
(* miss both ask the source, and whichever is slower adds last.            *)
(*                                                                         *)
(* The five documents (InRelease, Packages, Translations, ByHash, Pool)    *)
(* take the same steps under keys of their own, so one key is modelled.    *)
(* Each storage is what CacheStorage promises of it, where an entry may    *)
(* also be dropped, and an Add fail, at any time.                          *)
(*                                                                         *)
(* Time is relative: nothing counts up for ever.  An entry knows the ticks *)
(* it has left, a request those it has taken, and a history variable those *)
(* since the source last held each content, none beyond the bound Old.     *)
(*                                                                         *)
(* An operator named Action_Fault is that action with a plausible bug.     *)
(***************************************************************************)
EXTENDS Naturals

CONSTANTS
    Client,     \* HTTP clients, one request in flight each
    Content,    \* what the document may hold, Absent included
    Absent,     \* nil: the source has no such document, the handler answers 404
    None,       \* no entry, no content
    Depth,      \* the caches in the chain, 1 is the one the handler asks
    TTL,        \* how long the storage of each cache keeps an entry
    Patience,   \* how long a request may take (no timeout is set: an assumption)
    Staleness,  \* how stale an answer of each cache may be; the source is Depth + 1
    Old         \* bound: the time since the source held a content

ASSUME ContentAssumption == Absent \in Content /\ {None, "failed"} \cap Content = {}
ASSUME DepthAssumption ==
    Depth \in Nat \ {0} /\ Patience \in Nat /\ TTL \in [1..Depth -> Nat]
ASSUME StalenessAssumption ==
    /\ Staleness \in [1..(Depth + 1) -> Nat]
    /\ Staleness[Depth + 1] = 0
    /\ \A l \in 1..Depth : Staleness[l] = Staleness[l + 1] + TTL[l] + Patience
ASSUME OldAssumption == Old \in Nat /\ Old > Staleness[1]

VARIABLES
    source,     \* the content of the document at the source
    store,      \* the entry in each cache's storage, with the ticks it has left
    pc,         \* where each request is: idle, get, fetch, add
    at,         \* the cache it is in
    got,        \* what it got from below, and will add
    waited,     \* the ticks it has taken
    reply,      \* how each client was answered last: a content, or failed
    since       \* history: the ticks since the source held each content

vars == <<source, store, pc, at, got, waited, reply, since>>

Entry == [content : Content, left : Nat]

\* The state has its types; a request about to Add holds an answer, and no entry outlives
\* the TTL of its storage.
TypeOK ==
    /\ source \in Content
    /\ store \in [1..Depth -> Entry \cup {None}]
    /\ pc \in [Client -> {"idle", "get", "fetch", "add"}]
    /\ at \in [Client -> 1..Depth]
    /\ got \in [Client -> Content \cup {None}]
    /\ waited \in [Client -> 0..Patience]
    /\ reply \in [Client -> Content \cup {None, "failed"}]
    /\ since \in [Content -> 0..Old]
    /\ \A c \in Client : pc[c] = "add" <=> got[c] # None
    /\ \A l \in 1..Depth : store[l] # None => store[l].left <= TTL[l]

Init ==
    /\ source \in Content
    /\ store = [l \in 1..Depth |-> None]
    /\ pc = [c \in Client |-> "idle"]
    /\ at = [c \in Client |-> 1]
    /\ got = [c \in Client |-> None]
    /\ waited = [c \in Client |-> 0]
    /\ reply = [c \in Client |-> None]
    /\ since = [x \in Content |-> IF x = source THEN 0 ELSE Old]

Goto(c, label, level) ==
    /\ pc' = [pc EXCEPT ![c] = label]
    /\ at' = [at EXCEPT ![c] = level]

-----------------------------------------------------------------------------
(* The environment: time, the source, and the storages' own losses.        *)

Aged(entry) ==
    IF entry = None \/ entry.left = 0 THEN None ELSE [entry EXCEPT !.left = @ - 1]

Tick ==
    /\ \A c \in Client : pc[c] # "idle" => waited[c] < Patience
    /\ waited' = [c \in Client |-> IF pc[c] = "idle" THEN 0 ELSE waited[c] + 1]
    /\ store' = [l \in 1..Depth |-> Aged(store[l])]
    /\ since' = [x \in Content |-> IF x = source THEN 0
                                   ELSE IF since[x] < Old THEN since[x] + 1 ELSE Old]
    /\ UNCHANGED <<source, pc, at, got, reply>>

SourceChanges ==
    /\ source' \in Content \ {source}
    /\ since' = [since EXCEPT ![source'] = 0]
    /\ UNCHANGED <<store, pc, at, got, waited, reply>>

\* An entry is evicted, or the process restarts with an empty storage.
Drop(l) ==
    /\ store[l] # None
    /\ store' = [store EXCEPT ![l] = None]
    /\ UNCHANGED <<source, pc, at, got, waited, reply, since>>

-----------------------------------------------------------------------------
(* A request.                                                              *)

Ask(c) ==
    /\ pc[c] = "idle"
    /\ Goto(c, "get", 1)
    /\ waited' = [waited EXCEPT ![c] = 0]
    /\ reply' = [reply EXCEPT ![c] = None]
    /\ UNCHANGED <<source, store, got, since>>

\* The call of cache l returns x: to the client, or to the cache above, which will
\* add it.
Return(c, l, x) ==
    IF l = 1
    THEN /\ Goto(c, "idle", 1)
         /\ got' = [got EXCEPT ![c] = None]
         /\ reply' = [reply EXCEPT ![c] = x]
    ELSE /\ Goto(c, "add", l - 1)
         /\ got' = [got EXCEPT ![c] = x]
         /\ UNCHANGED reply

\* Fault: a hit renews the entry.
Hit_Renews(c) ==
    /\ pc[c] = "get"
    /\ store[at[c]] # None
    /\ Return(c, at[c], store[at[c]].content)
    /\ store' = [store EXCEPT ![at[c]].left = TTL[at[c]]]
    /\ UNCHANGED <<source, waited, since>>

Hit(c) ==
    /\ pc[c] = "get"
    /\ store[at[c]] # None
    /\ Return(c, at[c], store[at[c]].content)
    /\ UNCHANGED <<source, store, waited, since>>

\* The source of a cache is the next one, and of the last one the source proper.
Miss(c) ==
    /\ pc[c] = "get"
    /\ store[at[c]] = None
    /\ IF at[c] < Depth THEN Goto(c, "get", at[c] + 1) ELSE Goto(c, "fetch", Depth)
    /\ UNCHANGED <<source, store, got, waited, reply, since>>

Fetch(c) ==
    /\ pc[c] = "fetch"
    /\ Goto(c, "add", Depth)
    /\ got' = [got EXCEPT ![c] = source]
    /\ UNCHANGED <<source, store, waited, reply, since>>

\* Fault: the error is logged but not returned, and the nil value added.
FetchFails_FallsThrough(c) ==
    /\ pc[c] = "fetch"
    /\ Goto(c, "add", Depth)
    /\ got' = [got EXCEPT ![c] = Absent]
    /\ UNCHANGED <<source, store, waited, reply, since>>

\* An error goes up through all caches, and none of them adds anything.
FetchFails(c) ==
    /\ pc[c] = "fetch"
    /\ Goto(c, "idle", 1)
    /\ reply' = [reply EXCEPT ![c] = "failed"]
    /\ UNCHANGED <<source, store, got, waited, since>>

\* Fault: every cache of the chain keeps entries as long as the first.
Add_OneTTL(c) ==
    /\ pc[c] = "add"
    /\ store' = [store EXCEPT ![at[c]] = [content |-> got[c], left |-> TTL[1]]]
    /\ Return(c, at[c], got[c])
    /\ UNCHANGED <<source, waited, since>>

\* What was got replaces the entry, whoever added that in the meantime; a storage
\* that fails keeps it.
Add(c) ==
    /\ pc[c] = "add"
    /\ \/ store' = [store EXCEPT ![at[c]] = [content |-> got[c], left |-> TTL[at[c]]]]
       \/ UNCHANGED store
    /\ Return(c, at[c], got[c])
    /\ UNCHANGED <<source, waited, since>>

-----------------------------------------------------------------------------
Serve(c) == Hit(c) \/ Miss(c) \/ Fetch(c) \/ FetchFails(c) \/ Add(c)

Next ==
    \/ Tick
    \/ SourceChanges
    \/ \E l \in 1..Depth : Drop(l)
    \/ \E c \in Client : Ask(c) \/ Serve(c)

\* Time passes and requests come to an end, the source having answered or failed.
\* Nobody has to ask.
Fairness == WF_vars(Tick) /\ \A c \in Client : WF_vars(Serve(c))

Spec == Init /\ [][Next]_vars

FairSpec == Spec /\ Fairness

-----------------------------------------------------------------------------
(* Properties.                                                             *)

\* Whatever races and fails, an answer is a content that the source held a bounded
\* time ago: each cache adds its TTL, and the time a request may sit on what it got
\* before it adds it.  A 404 is such an answer too: an error is never turned into
\* one, and a document is not denied for longer than that after it appears.
AnswersAreRecent ==
    [][\A c \in Client :
         pc[c] # "idle" /\ reply'[c] \in Content =>
            since[reply'[c]] <= Staleness[1]]_vars

\* When the source comes to rest, so do the caches: a chain of them cannot keep an
\* old content alive by handing it up and down, however often it is asked for.
Settles ==
    \A x \in Content :
        <>[](source = x) =>
        <>[](\A l \in 1..Depth : store[l] # None => store[l].content = x)

=============================================================================
