------------------------- MODULE PullThroughProofs -------------------------
(***************************************************************************)
(* Proofs about PullThrough, for any number of clients and contents, a     *)
(* chain of any depth, any TTLs and any patience.                          *)
(***************************************************************************)
EXTENDS PullThrough, TLAPS

-----------------------------------------------------------------------------
(* The inductive invariant.                                                *)

\* The source holds its content now.
Held == since[source] = 0

\* An entry is as stale as its cache may answer, less the time it has left.
Entries ==
    \A l \in 1..Depth : store[l] # None =>
        since[store[l].content] + store[l].left <= Staleness[l]

\* What a request got from below is as stale as it may be there, plus the time the
\* request has taken.
Carried ==
    \A c \in Client : pc[c] = "add" =>
        since[got[c]] <= Staleness[at[c] + 1] + waited[c]

\* A request under way has not been answered yet.
Unanswered == \A c \in Client : pc[c] # "idle" => reply[c] = None

IInv == TypeOK /\ Held /\ Entries /\ Carried /\ Unanswered

\* What cache l adds is stale by no more than it may answer, less the whole TTL.
LEMMA Room ==
  ASSUME NEW l \in 1..Depth
  PROVE  /\ l + 1 \in 1..(Depth + 1)
         /\ Staleness[l] \in Nat /\ Staleness[l + 1] \in Nat /\ TTL[l] \in Nat
         /\ Staleness[l] = Staleness[l + 1] + TTL[l] + Patience
         /\ Staleness[l] >= Staleness[l + 1] + Patience
<1>1. l \in 1..(Depth + 1) /\ l + 1 \in 1..(Depth + 1)
  BY DepthAssumption
<1>2. Staleness[l] \in Nat /\ Staleness[l + 1] \in Nat
  BY <1>1, StalenessAssumption
<1>3. TTL[l] \in Nat /\ Patience \in Nat
  BY DepthAssumption
<1>4. Staleness[l] = Staleness[l + 1] + TTL[l] + Patience
  BY StalenessAssumption
<1> QED
  BY <1>1, <1>2, <1>3, <1>4

\* The invariant holds initially.
LEMMA InitIInv == Init => IInv
<1> SUFFICES ASSUME Init PROVE IInv
  OBVIOUS
<1>1. TypeOK
  BY ContentAssumption, DepthAssumption, OldAssumption DEF Init, TypeOK
<1>2. Held /\ Entries /\ Carried /\ Unanswered
  BY DEF Init, Held, Entries, Carried, Unanswered
<1> QED
  BY <1>1, <1>2 DEF IInv

-----------------------------------------------------------------------------
(* The steps of a request that hand something on.                          *)

\* Returning a content from cache l keeps what concerns requests.
LEMMA Returning ==
  ASSUME IInv, NEW c \in Client, NEW l \in 1..Depth, NEW x \in Content,
         Return(c, l, x), UNCHANGED <<waited, since>>,
         since[x] <= Staleness[l] + waited[c], pc[c] # "idle"
  PROVE  /\ pc' \in [Client -> {"idle", "get", "fetch", "add"}]
         /\ at' \in [Client -> 1..Depth]
         /\ got' \in [Client -> Content \cup {None}]
         /\ reply' \in [Client -> Content \cup {None, "failed"}]
         /\ \A k \in Client : pc'[k] = "add" <=> got'[k] # None
         /\ Carried' /\ Unanswered'
<1> USE DEF IInv, Goto
<1>1. CASE l = 1
  <2>1. /\ pc' = [pc EXCEPT ![c] = "idle"] /\ at' = [at EXCEPT ![c] = 1]
        /\ got' = [got EXCEPT ![c] = None] /\ reply' = [reply EXCEPT ![c] = x]
    BY <1>1 DEF Return
  <2>2. Carried'
    BY <2>1 DEF Carried, TypeOK
  <2>3. Unanswered'
    BY <2>1 DEF Unanswered, TypeOK
  <2> QED
    BY <2>1, <2>2, <2>3, DepthAssumption DEF TypeOK
<1>2. CASE l # 1
  <2>1. /\ pc' = [pc EXCEPT ![c] = "add"] /\ at' = [at EXCEPT ![c] = l - 1]
        /\ got' = [got EXCEPT ![c] = x] /\ reply' = reply
    BY <1>2 DEF Return
  <2>2. l - 1 \in 1..Depth /\ (l - 1) + 1 = l
    BY <1>2, DepthAssumption
  <2>3. x # None
    BY ContentAssumption
  <2>4. Carried'
    BY <2>1, <2>2 DEF Carried, TypeOK
  <2>5. Unanswered'
    BY <2>1 DEF Unanswered, TypeOK
  <2> QED
    BY <2>1, <2>2, <2>3, <2>4, <2>5 DEF TypeOK
<1> QED
  BY <1>1, <1>2

\* What a hit returns is not too stale.
LEMMA Hitting ==
  ASSUME IInv, NEW c \in Client, Hit(c)
  PROVE  /\ at[c] \in 1..Depth /\ store[at[c]].content \in Content
         /\ since[store[at[c]].content] <= Staleness[at[c]]
<1>1. at[c] \in 1..Depth /\ store[at[c]] # None
  BY DEF IInv, TypeOK, Hit
<1>2. store[at[c]] \in Entry
  BY <1>1 DEF IInv, TypeOK
<1>3. store[at[c]].content \in Content /\ store[at[c]].left \in Nat
  BY <1>2 DEF Entry
<1>4. since[store[at[c]].content] \in Nat
  BY <1>3, OldAssumption DEF IInv, TypeOK
<1>5. since[store[at[c]].content] + store[at[c]].left <= Staleness[at[c]]
  BY <1>1 DEF IInv, Entries
<1> QED
  BY <1>1, <1>3, <1>4, <1>5, Room

\* Nor is what is added: it is fresh enough to be kept for the TTL.
LEMMA Adding ==
  ASSUME IInv, NEW c \in Client, Add(c)
  PROVE  /\ at[c] \in 1..Depth /\ got[c] \in Content
         /\ since[got[c]] + TTL[at[c]] <= Staleness[at[c]]
         /\ since[got[c]] <= Staleness[at[c]]
<1>1. at[c] \in 1..Depth /\ got[c] \in Content
  BY DEF IInv, TypeOK, Add
<1>2. since[got[c]] \in Nat /\ waited[c] \in 0..Patience
  BY <1>1, OldAssumption DEF IInv, TypeOK
<1>3. since[got[c]] <= Staleness[at[c] + 1] + waited[c]
  BY DEF IInv, Carried, Add
<1>4. /\ Staleness[at[c]] \in Nat /\ Staleness[at[c] + 1] \in Nat /\ TTL[at[c]] \in Nat
      /\ Staleness[at[c]] = Staleness[at[c] + 1] + TTL[at[c]] + Patience
  BY <1>1, Room
<1>5. since[got[c]] + TTL[at[c]] <= Staleness[at[c]]
  <2>1. waited[c] \in Nat /\ Patience \in Nat /\ waited[c] <= Patience
    BY <1>2, DepthAssumption
  <2> QED
    BY ONLY <1>2, <1>3, <1>4, <2>1
<1> QED
  BY <1>1, <1>2, <1>4, <1>5

-----------------------------------------------------------------------------
\* Every step keeps the invariant.
LEMMA NextIInv == IInv /\ [Next]_vars => IInv'
<1> SUFFICES ASSUME IInv, [Next]_vars PROVE IInv'
  OBVIOUS
<1>0. TypeOK /\ Held /\ Entries /\ Carried /\ Unanswered
  BY DEF IInv
<1> USE <1>0 DEF Goto
<1>1. CASE Tick
  <2>1. ASSUME NEW x \in Content
        PROVE  since'[x] \in 0..Old /\ since[x] \in Nat /\ since'[x] <= since[x] + 1
    <3>1. since[x] \in 0..Old /\ Old \in Nat
      BY OldAssumption DEF TypeOK
    <3>2. since'[x] = IF x = source THEN 0
                      ELSE IF since[x] < Old THEN since[x] + 1 ELSE Old
      BY <1>1 DEF Tick
    <3> QED
      BY <3>1, <3>2
  <2>2. ASSUME NEW l \in 1..Depth, store'[l] # None
        PROVE  /\ store[l] \in Entry /\ store'[l] \in Entry
               /\ store'[l].content = store[l].content
               /\ store'[l].left = store[l].left - 1
               /\ store[l] # None
    <3>1. store'[l] = Aged(store[l]) /\ store[l] \in Entry \cup {None}
      BY <1>1 DEF Tick, TypeOK
    <3>2. store[l] # None /\ store[l].left # 0
      BY <2>2, <3>1 DEF Aged
    <3>3. store'[l] = [store[l] EXCEPT !.left = store[l].left - 1] /\ store[l] \in Entry
      BY <3>1, <3>2 DEF Aged
    <3> QED
      BY <3>2, <3>3 DEF Entry
  <2>3. ASSUME NEW c \in Client
        PROVE  /\ waited'[c] \in 0..Patience
               /\ pc[c] # "idle" => waited'[c] = waited[c] + 1
    <3>1. waited[c] \in 0..Patience /\ Patience \in Nat
      BY DepthAssumption DEF TypeOK
    <3>2. waited'[c] = IF pc[c] = "idle" THEN 0 ELSE waited[c] + 1
      BY <1>1 DEF Tick
    <3>3. pc[c] # "idle" => waited[c] < Patience
      BY <1>1 DEF Tick
    <3> QED
      BY <3>1, <3>2, <3>3
  <2>4. UNCHANGED <<source, pc, at, got, reply>>
    BY <1>1 DEF Tick
  <2>5. TypeOK'
    <3>1. store' \in [1..Depth -> Entry \cup {None}]
      <4>1. store' = [l \in 1..Depth |-> Aged(store[l])]
        BY <1>1 DEF Tick
      <4> QED
        BY <2>2, <4>1
    <3>2. waited' \in [Client -> 0..Patience]
      <4>1. waited' = [c \in Client |-> IF pc[c] = "idle" THEN 0 ELSE waited[c] + 1]
        BY <1>1 DEF Tick
      <4> QED
        BY <2>3, <4>1
    <3>3. since' \in [Content -> 0..Old]
      <4>1. since' = [x \in Content |-> since'[x]]
        BY <1>1 DEF Tick
      <4> QED
        BY <2>1, <4>1
    <3>4. ASSUME NEW l \in 1..Depth, store'[l] # None PROVE store'[l].left <= TTL[l]
      <4>1. store[l].left <= TTL[l]
        BY <2>2, <3>4 DEF TypeOK
      <4>2. store[l].left \in Nat /\ TTL[l] \in Nat
        BY <2>2, <3>4, Room DEF Entry
      <4> QED
        BY <2>2, <3>4, <4>1, <4>2
    <3> QED
      BY <2>4, <3>1, <3>2, <3>3, <3>4 DEF TypeOK
  <2>6. Held'
    BY <1>1 DEF Tick, Held, TypeOK
  <2>7. Entries'
    <3>1. ASSUME NEW l \in 1..Depth, store'[l] # None
          PROVE  since'[store'[l].content] + store'[l].left <= Staleness[l]
      <4>1. store[l].content \in Content /\ store[l].left \in Nat
        BY <2>2, <3>1 DEF Entry
      <4>2. since[store[l].content] + store[l].left <= Staleness[l]
        BY <2>2, <3>1 DEF Entries
      <4>3. /\ since'[store[l].content] \in Nat /\ since[store[l].content] \in Nat
            /\ since'[store[l].content] <= since[store[l].content] + 1
        BY <2>1, <4>1, OldAssumption
      <4> QED
        BY <2>2, <3>1, <4>1, <4>2, <4>3, Room
    <3> QED
      BY <3>1 DEF Entries
  <2>8. Carried'
    <3>1. ASSUME NEW c \in Client, pc[c] = "add"
          PROVE  since'[got[c]] <= Staleness[at[c] + 1] + waited'[c]
      <4>1. got[c] \in Content /\ at[c] \in 1..Depth
        BY <3>1 DEF TypeOK
      <4>2. since[got[c]] <= Staleness[at[c] + 1] + waited[c]
        BY <3>1 DEF Carried
      <4>3. waited'[c] = waited[c] + 1 /\ waited[c] \in Nat
        BY <2>3, <3>1, DepthAssumption DEF TypeOK
      <4>4. /\ since'[got[c]] \in Nat /\ since[got[c]] \in Nat
            /\ since'[got[c]] <= since[got[c]] + 1
        BY <2>1, <4>1, OldAssumption
      <4> QED
        BY <4>1, <4>2, <4>3, <4>4, Room
    <3> QED
      BY <2>4, <3>1 DEF Carried
  <2> QED
    BY <2>4, <2>5, <2>6, <2>7, <2>8 DEF IInv, Unanswered
<1>2. CASE SourceChanges
  <2>1. /\ source' \in Content /\ since' = [since EXCEPT ![source'] = 0]
        /\ UNCHANGED <<store, pc, at, got, waited, reply>>
    BY <1>2 DEF SourceChanges
  <2>2. ASSUME NEW x \in Content
        PROVE  since'[x] \in 0..Old /\ since[x] \in Nat /\ since'[x] <= since[x]
    <3>1. since[x] \in 0..Old /\ Old \in Nat
      BY OldAssumption DEF TypeOK
    <3>2. since'[x] = 0 \/ since'[x] = since[x]
      BY <2>1 DEF TypeOK
    <3> QED
      BY <3>1, <3>2
  <2>3. TypeOK'
    BY <2>1, <2>2 DEF TypeOK
  <2>4. Held'
    BY <2>1 DEF Held, TypeOK
  <2>5. Entries'
    <3>1. ASSUME NEW l \in 1..Depth, store[l] # None
          PROVE  since'[store[l].content] + store[l].left <= Staleness[l]
      <4>1. store[l].content \in Content /\ store[l].left \in Nat
        BY <3>1 DEF TypeOK, Entry
      <4>2. since[store[l].content] + store[l].left <= Staleness[l]
        BY <3>1 DEF Entries
      <4>3. since'[store[l].content] \in Nat
        BY <2>2, <4>1, OldAssumption
      <4> QED
        BY <2>2, <4>1, <4>2, <4>3, Room
    <3> QED
      BY <2>1, <3>1 DEF Entries
  <2>6. Carried'
    <3>1. ASSUME NEW c \in Client, pc[c] = "add"
          PROVE  since'[got[c]] <= Staleness[at[c] + 1] + waited[c]
      <4>1. got[c] \in Content /\ at[c] \in 1..Depth /\ waited[c] \in Nat
        BY <3>1, DepthAssumption DEF TypeOK
      <4>2. since[got[c]] <= Staleness[at[c] + 1] + waited[c]
        BY <3>1 DEF Carried
      <4>3. since'[got[c]] \in Nat
        BY <2>2, <4>1, OldAssumption
      <4> QED
        BY <2>2, <4>1, <4>2, <4>3, Room
    <3> QED
      BY <2>1, <3>1 DEF Carried
  <2> QED
    BY <2>1, <2>3, <2>4, <2>5, <2>6 DEF IInv, Unanswered
<1>3. ASSUME NEW l \in 1..Depth, Drop(l) PROVE IInv'
  <2>1. /\ store' = [store EXCEPT ![l] = None]
        /\ UNCHANGED <<source, pc, at, got, waited, reply, since>>
    BY <1>3 DEF Drop
  <2>2. TypeOK'
    BY <2>1 DEF TypeOK
  <2>3. Held' /\ Entries' /\ Carried' /\ Unanswered'
    BY <2>1 DEF Held, Entries, Carried, Unanswered, TypeOK
  <2> QED
    BY <2>2, <2>3 DEF IInv
<1>4. ASSUME NEW c \in Client, Ask(c) PROVE IInv'
  <2>1. TypeOK'
    BY <1>4, DepthAssumption DEF Ask, TypeOK
  <2>2. Held' /\ Entries' /\ Carried' /\ Unanswered'
    BY <1>4 DEF Ask, Held, Entries, Carried, Unanswered, TypeOK
  <2> QED
    BY <2>1, <2>2 DEF IInv
<1>5. ASSUME NEW c \in Client, Hit(c) PROVE IInv'
  <2>1. UNCHANGED <<source, store, waited, since>>
    BY <1>5 DEF Hit
  <2>2. /\ at[c] \in 1..Depth /\ store[at[c]].content \in Content
        /\ since[store[at[c]].content] <= Staleness[at[c]]
    BY <1>5, Hitting DEF IInv
  <2>3. since[store[at[c]].content] <= Staleness[at[c]] + waited[c]
    <3>1. since[store[at[c]].content] \in Nat /\ waited[c] \in Nat
      BY <2>2, OldAssumption, DepthAssumption DEF TypeOK
    <3> QED
      BY <2>2, <3>1, Room
  <2>4. Return(c, at[c], store[at[c]].content)
    BY <1>5 DEF Hit
  <2>5. TypeOK' /\ Carried' /\ Unanswered'
    BY <1>5, <2>1, <2>2, <2>3, <2>4, Returning DEF Hit, IInv, TypeOK
  <2> QED
    BY <2>1, <2>5 DEF IInv, Held, Entries
<1>6. ASSUME NEW c \in Client, Miss(c) PROVE IInv'
  <2>1. UNCHANGED <<source, store, got, waited, reply, since>>
    BY <1>6 DEF Miss
  <2>2. PICK label \in {"get", "fetch"}, level \in 1..Depth :
            pc' = [pc EXCEPT ![c] = label] /\ at' = [at EXCEPT ![c] = level]
    <3>1. at[c] \in 1..Depth /\ Depth \in 1..Depth
      BY DepthAssumption DEF TypeOK
    <3>2. CASE at[c] < Depth
      <4>1. at[c] + 1 \in 1..Depth
        BY <3>1, <3>2, DepthAssumption
      <4> QED
        BY <1>6, <3>2, <4>1 DEF Miss
    <3>3. CASE ~(at[c] < Depth)
      BY <1>6, <3>1, <3>3 DEF Miss
    <3> QED
      BY <3>2, <3>3
  <2>3. pc[c] = "get"
    BY <1>6 DEF Miss
  <2>4. TypeOK' /\ Carried' /\ Unanswered'
    BY <2>1, <2>2, <2>3 DEF TypeOK, Carried, Unanswered
  <2> QED
    BY <2>1, <2>4 DEF IInv, Held, Entries
<1>7. ASSUME NEW c \in Client, Fetch(c) PROVE IInv'
  <2>1. /\ UNCHANGED <<source, store, waited, reply, since>>
        /\ pc' = [pc EXCEPT ![c] = "add"] /\ at' = [at EXCEPT ![c] = Depth]
        /\ got' = [got EXCEPT ![c] = source]
    BY <1>7 DEF Fetch
  <2>2. source # None
    BY ContentAssumption DEF TypeOK
  <2>3. TypeOK'
    <3>1. Depth \in 1..Depth /\ source \in Content
      BY DepthAssumption DEF TypeOK
    <3>2. /\ pc' \in [Client -> {"idle", "get", "fetch", "add"}]
          /\ at' \in [Client -> 1..Depth] /\ got' \in [Client -> Content \cup {None}]
          /\ \A k \in Client : pc'[k] = "add" <=> got'[k] # None
      BY <2>1, <2>2, <3>1 DEF TypeOK
    <3> QED
      BY <2>1, <3>2 DEF TypeOK
  <2>4. Carried'
    <3>1. since[source] <= Staleness[Depth + 1] + waited[c]
      BY StalenessAssumption, DepthAssumption DEF Held, TypeOK
    <3> QED
      BY <2>1, <3>1 DEF Carried, TypeOK
  <2>5. Unanswered'
    BY <1>7, <2>1 DEF Fetch, Unanswered, TypeOK
  <2> QED
    BY <2>1, <2>3, <2>4, <2>5 DEF IInv, Held, Entries
<1>8. ASSUME NEW c \in Client, FetchFails(c) PROVE IInv'
  <2>1. TypeOK'
    BY <1>8, DepthAssumption DEF FetchFails, TypeOK
  <2>2. Held' /\ Entries' /\ Carried' /\ Unanswered'
    BY <1>8 DEF FetchFails, Held, Entries, Carried, Unanswered, TypeOK
  <2> QED
    BY <2>1, <2>2 DEF IInv
<1>9. ASSUME NEW c \in Client, Add(c) PROVE IInv'
  <2>1. UNCHANGED <<source, waited, since>> /\ Return(c, at[c], got[c])
    BY <1>9 DEF Add
  <2>2. /\ at[c] \in 1..Depth /\ got[c] \in Content
        /\ since[got[c]] + TTL[at[c]] <= Staleness[at[c]]
        /\ since[got[c]] <= Staleness[at[c]]
    BY <1>9, Adding DEF IInv
  <2>3. since[got[c]] <= Staleness[at[c]] + waited[c]
    <3>1. since[got[c]] \in Nat /\ waited[c] \in Nat
      BY <2>2, OldAssumption, DepthAssumption DEF TypeOK
    <3> QED
      BY <2>2, <3>1, Room
  <2>4. /\ pc' \in [Client -> {"idle", "get", "fetch", "add"}]
        /\ at' \in [Client -> 1..Depth]
        /\ got' \in [Client -> Content \cup {None}]
        /\ reply' \in [Client -> Content \cup {None, "failed"}]
        /\ \A k \in Client : pc'[k] = "add" <=> got'[k] # None
        /\ Carried' /\ Unanswered'
    BY <1>9, <2>1, <2>2, <2>3, Returning DEF Add, IInv
  <2>5. \/ UNCHANGED store
        \/ store' = [store EXCEPT ![at[c]] = [content |-> got[c], left |-> TTL[at[c]]]]
    BY <1>9 DEF Add
  <2>6. ASSUME NEW l \in 1..Depth, store'[l] # store[l]
        PROVE  l = at[c] /\ store'[l].content = got[c] /\ store'[l].left = TTL[l]
    <3>1. store' = [store EXCEPT ![at[c]] = [content |-> got[c], left |-> TTL[at[c]]]]
      BY <2>5, <2>6
    <3>2. l = at[c]
      BY <2>6, <3>1 DEF TypeOK
    <3> QED
      BY <2>2, <3>1, <3>2 DEF TypeOK
  <2>7. TypeOK'
    <3>1. store' \in [1..Depth -> Entry \cup {None}]
      <4>1. [content |-> got[c], left |-> TTL[at[c]]] \in Entry
        BY <2>2, Room DEF Entry
      <4> QED
        BY <2>2, <2>5, <4>1 DEF TypeOK
    <3>2. ASSUME NEW l \in 1..Depth, store'[l] # None PROVE store'[l].left <= TTL[l]
      <4>1. CASE store'[l] = store[l]
        BY <3>2, <4>1 DEF TypeOK
      <4>2. CASE store'[l] # store[l]
        <5>1. store'[l].left = TTL[l] /\ TTL[l] \in Nat
          BY <2>6, <4>2, Room
        <5> QED
          BY <5>1
      <4> QED
        BY <4>1, <4>2
    <3> QED
      BY <2>1, <2>4, <3>1, <3>2 DEF TypeOK
  <2>8. Entries'
    <3>1. ASSUME NEW l \in 1..Depth, store'[l] # None
          PROVE  since[store'[l].content] + store'[l].left <= Staleness[l]
      <4>1. CASE store'[l] = store[l]
        BY <3>1, <4>1 DEF Entries
      <4>2. CASE store'[l] # store[l]
        BY <2>2, <2>6, <4>2
      <4> QED
        BY <4>1, <4>2
    <3> QED
      BY <2>1, <3>1 DEF Entries
  <2> QED
    BY <2>1, <2>4, <2>7, <2>8 DEF IInv, Held
<1>10. CASE UNCHANGED vars
  BY <1>10 DEF vars, IInv, TypeOK, Held, Entries, Carried, Unanswered
<1> QED
  BY <1>1, <1>2, <1>3, <1>4, <1>5, <1>6, <1>7, <1>8, <1>9, <1>10 DEF Next, Serve

\* Every reachable state satisfies the invariant.
THEOREM Invariance == Spec => []IInv
  BY InitIInv, NextIInv, PTL DEF Spec

-----------------------------------------------------------------------------
\* Every reachable state is well typed.
THEOREM TypeCorrect == Spec => []TypeOK
  BY Invariance, PTL DEF IInv

\* An answer of the chain is a content the source held at most the sum of the TTLs
\* and of one Patience per cache ago, however the requests race.
THEOREM AnswersRecent == Spec => AnswersAreRecent
<1> DEFINE Step ==
      \A c \in Client :
        pc[c] # "idle" /\ reply'[c] \in Content => since[reply'[c]] <= Staleness[1]
<1>1. IInv /\ [Next]_vars => [Step]_vars
  <2> SUFFICES ASSUME IInv, Next, NEW k \in Client,
                      pc[k] # "idle", reply'[k] \in Content
               PROVE  since[reply'[k]] <= Staleness[1]
    BY DEF IInv, TypeOK, vars
  <2>1. reply[k] \notin Content /\ TypeOK
    BY ContentAssumption DEF IInv, Unanswered
  <2>2. Hit(k) \/ Add(k)
    <3>1. reply'[k] # reply[k]
      BY <2>1
    <3>2. PICK c \in Client : Ask(c) \/ Serve(c)
      BY <3>1 DEF Next, Tick, SourceChanges, Drop
    <3>3. k = c
      BY <2>1, <3>1, <3>2 DEF Ask, Serve, Hit, Miss, Fetch, FetchFails, Add,
           Return, TypeOK
    <3>4. reply'[k] # "failed"
      BY ContentAssumption
    <3> QED
      BY <2>1, <3>1, <3>2, <3>3, <3>4 DEF Ask, Serve, Miss, Fetch, FetchFails, TypeOK
  <2>3. 1 \in 1..Depth
    BY DepthAssumption
  <2>4. CASE Hit(k)
    <3>1. at[k] = 1 /\ reply'[k] = store[at[k]].content
      BY <2>1, <2>4 DEF Hit, Return, TypeOK
    <3> QED
      BY <2>4, <3>1, Hitting
  <2>5. CASE Add(k)
    <3>1. at[k] = 1 /\ reply'[k] = got[k]
      BY <2>1, <2>5 DEF Add, Return, TypeOK
    <3> QED
      BY <2>5, <3>1, Adding
  <2> QED
    BY <2>2, <2>4, <2>5
<1> QED
  BY <1>1, Invariance, PTL DEF Spec, AnswersAreRecent

=============================================================================
