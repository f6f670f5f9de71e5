---------------------------- MODULE CacheStorage ----------------------------
(***************************************************************************)
(* What a cache.Storage kept in memory promises the repositories that use  *)
(* it (pkg/cache/storage.go), as one atomic map: a Get that hits returns   *)
(* the value last added, unexpired; an entry is dropped only because it    *)
(* expired, because its namespace was full when another key was added, or  *)
(* because the namespace was given a new TTL.  A call that NamespaceTTL    *)
(* overtakes may still act on the entries from before it: what it adds is  *)
(* lost, and what it finds may be gone.                                    *)
(***************************************************************************)
EXTENDS Naturals, FiniteSets

CONSTANTS
    Client,     \* goroutines, one call in flight each
    Namespace,
    Key,
    NsOf,       \* the namespace of each key
    Value,
    None,       \* no value
    Size,       \* entries a namespace may hold
    MaxTime     \* bound: the last instant of the clock

VARIABLES
    now,
    store,      \* what is stored under each key: [value, expires], or None
    call,       \* the key each goroutine is calling with, None when it is not
    resets,     \* how often NamespaceTTL was called
    overtaken,  \* has NamespaceTTL overtaken that call?
    found       \* what each goroutine's last Get returned, None for a miss

cacheVars == <<now, store, resets, call, overtaken, found>>

Stored(ns) == {k \in Key : NsOf[k] = ns /\ store[k] # None}

Init ==
    /\ now = 0
    /\ store = [k \in Key |-> None]
    /\ resets = 0
    /\ call = [c \in Client |-> None]
    /\ overtaken = [c \in Client |-> FALSE]
    /\ found = [c \in Client |-> None]

Tick ==
    /\ now' = now + 1
    /\ UNCHANGED <<store, resets, call, overtaken, found>>

Begin(c) ==
    /\ call[c] = None
    /\ \E k \in Key : call' = [call EXCEPT ![c] = k]
    /\ found' = [found EXCEPT ![c] = None]
    /\ UNCHANGED <<now, store, resets, overtaken>>

Return(c) ==
    /\ call[c] # None
    /\ call' = [call EXCEPT ![c] = None]
    /\ overtaken' = [overtaken EXCEPT ![c] = FALSE]

\* A Get returns the unexpired entry, and does not miss one.
Get(c) ==
    /\ Return(c)
    /\ ~overtaken[c]
    /\ LET entry == store[call[c]] IN
         found' = [found EXCEPT ![c] =
            IF entry # None /\ now <= entry.expires THEN entry.value ELSE None]
    /\ UNCHANGED <<now, store, resets>>

\* An Add stores the value; it drops another key of the namespace only if the
\* namespace is full and the key is new.
Add(c) ==
    /\ Return(c)
    /\ ~overtaken[c]
    /\ LET k == call[c]
           others == Stored(NsOf[k]) \ {k}
           full == store[k] = None /\ Cardinality(others) = Size IN
         \E v \in Value, e \in now..(now + MaxTime),
            dropped \in IF full THEN others ELSE {k} :
              store' = [store EXCEPT ![dropped] = None,
                                     ![k] = [value |-> v, expires |-> e]]
    /\ UNCHANGED <<now, resets, found>>

\* An overtaken call leaves the store alone, and a Get may return anything.
Overtaken(c) ==
    /\ Return(c)
    /\ overtaken[c]
    /\ \E v \in Value \cup {None} : found' = [found EXCEPT ![c] = v]
    /\ UNCHANGED <<now, store, resets>>

Expire ==
    /\ \E k \in Key : /\ store[k] # None
                      /\ now > store[k].expires
                      /\ store' = [store EXCEPT ![k] = None]
    /\ UNCHANGED <<now, resets, call, overtaken, found>>

\* NamespaceTTL empties the namespace and overtakes some of the calls under way.
Reset ==
    /\ resets' = resets + 1
    /\ \E ns \in Namespace :
         /\ store' = [k \in Key |-> IF NsOf[k] = ns THEN None ELSE store[k]]
         /\ \E some \in SUBSET {c \in Client : call[c] # None /\ NsOf[call[c]] = ns} :
              overtaken' = [c \in Client |-> overtaken[c] \/ c \in some]
    /\ UNCHANGED <<now, call, found>>

Next ==
    \/ Tick
    \/ Expire
    \/ Reset
    \/ \E c \in Client : Begin(c) \/ Get(c) \/ Add(c) \/ Overtaken(c)

Spec == Init /\ [][Next]_cacheVars

=============================================================================
