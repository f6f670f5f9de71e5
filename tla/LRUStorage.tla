----------------------------- MODULE LRUStorage -----------------------------
(***************************************************************************)
(* The in-memory storage (pkg/cache/lru.go): a map from namespace to an    *)
(* expirable LRU of the hashicorp library, created on first use.  A call   *)
(* looks the LRU up under the read lock, creates it under the write lock   *)
(* if it is missing, releases the lock, and only then works on the LRU,    *)
(* which has a lock of its own; NamespaceTTL may have replaced the LRU by  *)
(* then.  Each of these steps is atomic here, what lies between is not.    *)
(*                                                                         *)
(* The LRU itself is external: what the code sees of it is modelled.       *)
(* An operator named Action_Fault is that action with a plausible bug.     *)
(***************************************************************************)
EXTENDS Naturals, Sequences, SequencesExt, FiniteSets

CONSTANTS
    Client,       \* goroutines, one call in flight each
    Namespace,
    Key,
    NsOf,         \* the namespace of each key: Key.Namespace()
    Value,
    None,         \* no LRU, no value, no key
    Size,         \* LRUStorage.size
    TTL,          \* TTLs: LRUStorage.defaultTTL and those NamespaceTTL is given
    MaxTime,      \* bound: the last instant of the clock
    MaxResets     \* bound: the calls of NamespaceTTL

ASSUME SizeAssumption == Size \in Nat \ {0}
ASSUME TTLAssumption == TTL \subseteq 1..MaxTime /\ TTL # {}
ASSUME BoundsAssumption == MaxTime \in Nat /\ MaxResets \in Nat
ASSUME KeyAssumption == NsOf \in [Key -> Namespace]
\* None is nothing: no key, no value, no LRU, and no entry.
ASSUME NoneAssumption ==
    /\ None \notin Key \cup Value
    /\ None \notin Nat
    /\ \A v \in Value, e \in 0..(2 * MaxTime) : [value |-> v, expires |-> e] # None

VARIABLES
    now,
    defaultTTL,   \* LRUStorage.defaultTTL
    data,         \* LRUStorage.data: namespace to LRU, None where it has no entry
    lrus,         \* the LRUs created so far: their TTL and their entries,
                  \* the most recently used first
    resets,       \* history: how often NamespaceTTL was called
    pc,           \* where each goroutine is: idle, lookup, create, use
    call,         \* the key and, for an Add, the value it is called with
    held,         \* the LRU dataMap returned
    found         \* what its last Get returned, None for a miss

vars == <<now, defaultTTL, data, lrus, resets, pc, call, held, found>>

LRU == 1..Len(lrus)
Entry == [key : Key, value : Value, expires : 0..(2 * MaxTime)]
Keys(entries) == {entries[i].key : i \in DOMAIN entries}

\* The state has its types, and an LRU has one entry per key.
TypeOK ==
    /\ now \in 0..MaxTime
    /\ defaultTTL \in TTL
    /\ data \in [Namespace -> LRU \cup {None}]
    /\ \A i \in LRU :
         /\ lrus[i].ttl \in TTL
         /\ lrus[i].entries \in Seq(Entry)
         /\ Cardinality(Keys(lrus[i].entries)) = Len(lrus[i].entries)
    /\ resets \in 0..MaxResets
    /\ pc \in [Client -> {"idle", "lookup", "create", "use"}]
    /\ call \in [Client -> [key : Key \cup {None}, value : Value \cup {None}]]
    /\ held \in [Client -> LRU \cup {None}]
    /\ found \in [Client -> Value \cup {None}]

NoCall == [key |-> None, value |-> None]

Init ==
    /\ now = 0
    /\ defaultTTL \in TTL
    /\ data = [ns \in Namespace |-> None]
    /\ lrus = <<>>
    /\ resets = 0
    /\ pc = [c \in Client |-> "idle"]
    /\ call = [c \in Client |-> NoCall]
    /\ held = [c \in Client |-> None]
    /\ found = [c \in Client |-> None]

-----------------------------------------------------------------------------
(* The expirable LRU, as the library's documentation and use describe it.  *)

NewLRU(ttl) == [ttl |-> ttl, entries |-> <<>>]

Place(entries, k) == CHOOSE i \in DOMAIN entries : entries[i].key = k

EntryOf(entries, k) == entries[Place(entries, k)]

Without(entries, k) ==
    IF k \in Keys(entries) THEN RemoveAt(entries, Place(entries, k)) ELSE entries

Expired(entry) == now > entry.expires

\* A Get finds an unexpired entry and makes it the most recently used.
Hit(lru, k) == k \in Keys(lru.entries) /\ ~Expired(EntryOf(lru.entries, k))

Touched(lru, k) ==
    IF Hit(lru, k)
    THEN [lru EXCEPT !.entries = <<EntryOf(@, k)>> \o Without(@, k)]
    ELSE lru

\* An Add replaces the entry of the key, or puts a new one in front and drops the
\* least recently used one of more than Size, expired or not.
Added(lru, k, v) ==
    LET entry == [key |-> k, value |-> v, expires |-> now + lru.ttl]
        entries == <<entry>> \o Without(lru.entries, k)
    IN  [lru EXCEPT !.entries =
            IF Len(entries) > Size THEN Front(entries) ELSE entries]

-----------------------------------------------------------------------------
Tick ==
    /\ now < MaxTime
    /\ now' = now + 1
    /\ UNCHANGED <<defaultTTL, data, lrus, resets, pc, call, held, found>>

\* The library's own goroutine drops expired entries some time after they expire.
Reap ==
    /\ \E i \in LRU : \E k \in Keys(lrus[i].entries) :
         /\ Expired(EntryOf(lrus[i].entries, k))
         /\ lrus' = [lrus EXCEPT ![i].entries = Without(@, k)]
    /\ UNCHANGED <<now, defaultTTL, data, resets, pc, call, held, found>>

Begin(c) ==
    /\ pc[c] = "idle"
    /\ \E k \in Key, v \in Value \cup {None} :
         call' = [call EXCEPT ![c] = [key |-> k, value |-> v]]
    /\ pc' = [pc EXCEPT ![c] = "lookup"]
    /\ found' = [found EXCEPT ![c] = None]
    /\ UNCHANGED <<now, defaultTTL, data, lrus, resets, held>>

NsOfCall(c) == NsOf[call[c].key]

\* dataMap under the read lock.
Lookup(c) ==
    /\ pc[c] = "lookup"
    /\ held' = [held EXCEPT ![c] = data[NsOfCall(c)]]
    /\ pc' = [pc EXCEPT ![c] = IF data[NsOfCall(c)] = None THEN "create" ELSE "use"]
    /\ UNCHANGED <<now, defaultTTL, data, lrus, resets, call, found>>

\* An LRU is created and entered for the namespace.
Install(ns, ttl) ==
    /\ lrus' = Append(lrus, NewLRU(ttl))
    /\ data' = [data EXCEPT ![ns] = Len(lrus')]

\* Fault: the namespace is not looked up again under the write lock.
Create_NoSecondLook(c) ==
    /\ pc[c] = "create"
    /\ Install(NsOfCall(c), defaultTTL)
    /\ held' = [held EXCEPT ![c] = data'[NsOfCall(c)]]
    /\ pc' = [pc EXCEPT ![c] = "use"]
    /\ UNCHANGED <<now, defaultTTL, resets, call, found>>

\* dataMap under the write lock: another goroutine may have created it by now.
Create(c) ==
    /\ pc[c] = "create"
    /\ \/ data[NsOfCall(c)] # None /\ UNCHANGED <<data, lrus>>
       \/ data[NsOfCall(c)] = None /\ Install(NsOfCall(c), defaultTTL)
    /\ held' = [held EXCEPT ![c] = data'[NsOfCall(c)]]
    /\ pc' = [pc EXCEPT ![c] = "use"]
    /\ UNCHANGED <<now, defaultTTL, resets, call, found>>

Return(c) ==
    /\ pc[c] = "use"
    /\ pc' = [pc EXCEPT ![c] = "idle"]
    /\ call' = [call EXCEPT ![c] = NoCall]
    /\ held' = [held EXCEPT ![c] = None]

Get(c) ==
    /\ Return(c)
    /\ call[c].value = None
    /\ LET lru == lrus[held[c]]  k == call[c].key IN
         /\ lrus' = [lrus EXCEPT ![held[c]] = Touched(lru, k)]
         /\ found' = [found EXCEPT ![c] =
                IF Hit(lru, k) THEN EntryOf(lru.entries, k).value ELSE None]
    /\ UNCHANGED <<now, defaultTTL, data, resets>>

Add(c) ==
    /\ Return(c)
    /\ call[c].value # None
    /\ lrus' = [lrus EXCEPT ![held[c]] = Added(@, call[c].key, call[c].value)]
    /\ UNCHANGED <<now, defaultTTL, data, resets, found>>

\* Fault: zero is taken for a TTL like any other.
NamespaceTTL_ZeroIsATTL(ns) ==
    /\ resets < MaxResets
    /\ resets' = resets + 1
    /\ \E ttl \in TTL \cup {0} : Install(ns, ttl)
    /\ UNCHANGED <<now, defaultTTL, pc, call, held, found>>

\* Zero deletes the namespace, to be created again with the default TTL; any other
\* TTL replaces its LRU.  The old LRU stays with the calls that hold it.
NamespaceTTL(ns) ==
    /\ resets < MaxResets
    /\ resets' = resets + 1
    /\ \/ data' = [data EXCEPT ![ns] = None] /\ UNCHANGED lrus
       \/ \E ttl \in TTL : Install(ns, ttl)
    /\ UNCHANGED <<now, defaultTTL, pc, call, held, found>>

Next ==
    \/ Tick
    \/ Reap
    \/ \E ns \in Namespace : NamespaceTTL(ns)
    \/ \E c \in Client : Begin(c) \/ Lookup(c) \/ Create(c) \/ Get(c) \/ Add(c)

Spec == Init /\ [][Next]_vars

-----------------------------------------------------------------------------
(* Properties.                                                             *)

Live(ns) == IF data[ns] = None THEN <<>> ELSE lrus[data[ns]].entries

Overtaken(c) == held[c] # None /\ held[c] # data[NsOfCall(c)]

\* What is stored under a key: its entry, for a caller who knows the key.
Stored(entries, k) ==
    IF k \in Keys(entries)
    THEN LET e == EntryOf(entries, k) IN [value |-> e.value, expires |-> e.expires]
    ELSE None

storeBar == [k \in Key |-> Stored(Live(NsOf[k]), k)]
callBar == [c \in Client |-> call[c].key]
overtakenBar == [c \in Client |-> Overtaken(c)]

Abstract == INSTANCE CacheStorage WITH
    store <- storeBar, call <- callBar, overtaken <- overtakenBar

\* However lookups, creations and TTL changes interleave, the storage behaves as
\* one atomic map: no goroutine adds to an LRU nobody else will look into, nothing
\* is lost but to expiry, a full namespace or NamespaceTTL.
ImplementsCacheStorage == Abstract!Spec

=============================================================================
