------------------------- MODULE DynamicRepoProofs -------------------------
(***************************************************************************)
(* Proofs about DynamicRepo, for any set of clients, any maxAge and any    *)
(* bound on the clock and on the versions of the source.                   *)
(***************************************************************************)
EXTENDS DynamicRepo, TLAPS

-----------------------------------------------------------------------------
(* The inductive invariant.                                                *)

\* Whoever is inside the critical section holds the lock, and only it.
Locked == \A c \in Client : pc[c] \in Critical <=> lock = c

\* Versions only move from the source to the listing, to the index, to the client.
Versions ==
    /\ source.version \in 1..MaxVersion
    /\ rendered <= source.version
    /\ \A c \in Client : seen[c] <= rendered
    /\ \A c \in Client : pc[c] \in {"stamp", "render"} =>
         /\ rendered <= listed[c].version
         /\ listed[c].version \in 1..source.version

\* A nil index goes with a zero renderTime, or with a rendering under way, and
\* lets nobody past render().
Nils ==
    /\ now >= MaxAge
    /\ rendered # 0 => canSign
    /\ canSign =>
         /\ rendered = 0 => /\ renderTime = 0 \/ \E c \in Client : pc[c] = "render"
                            /\ \A c \in Client : pc[c] \notin {"read", "unlock"}
         /\ \A c \in Client : reply[c] # "panic"

\* The goroutine that is about to stamp the index found it old under the lock.
Spaced ==
    \A c \in Client : pc[c] \in {"list", "stamp"} => now - renderTime >= MaxAge

IInv == TypeOK /\ Locked /\ Versions /\ Nils /\ Spaced

\* The invariant holds initially.
LEMMA InitIInv == Init => IInv
  BY MaxAgeAssumption, BoundsAssumption, NoneAssumption
  DEF Init, IInv, TypeOK, Locked, Versions, Nils, Spaced, Listing, NoListing, Reply,
      Critical

\* Every step keeps the invariant.
LEMMA NextIInv == IInv /\ [Next]_vars => IInv'
<1> SUFFICES ASSUME TypeOK, Locked, Versions, Nils, Spaced, [Next]_vars PROVE IInv'
  BY DEF IInv
<1> USE MaxAgeAssumption, BoundsAssumption, NoneAssumption
        DEF Goto, Finish, ReadClock, Pass, Forget, environment, repoVars, clientVars
<1>1. CASE Tick
  <2>1. TypeOK'
    BY <1>1 DEF Tick, TypeOK, Listing, NoListing, Reply, Critical
  <2>2. Locked'
    BY <1>1 DEF Tick, Locked, TypeOK, Critical
  <2>3. Versions'
    BY <1>1 DEF Tick, Versions, TypeOK, Listing, NoListing
  <2>4. Nils'
    BY <1>1 DEF Tick, Nils, TypeOK, Locked, Critical
  <2>5. Spaced'
    BY <1>1 DEF Tick, Spaced, TypeOK, Locked, Critical
  <2> QED
    BY <2>1, <2>2, <2>3, <2>4, <2>5 DEF IInv
<1>2. CASE SourceChanges
  <2>1. TypeOK'
    <3>1. PICK t \in 0..now : source' = [version |-> source.version + 1, stamp |-> t]
      BY <1>2 DEF SourceChanges, TypeOK
    <3>2. source' \in Listing
      BY <3>1 DEF TypeOK, Listing
    <3> QED
      BY <1>2, <3>2 DEF SourceChanges, TypeOK
  <2>2. Locked'
    BY <1>2 DEF SourceChanges, Locked, TypeOK, Critical
  <2>3. Versions'
    <3>1. source'.version = source.version + 1 /\ source.version < MaxVersion
      BY <1>2 DEF SourceChanges
    <3>2. UNCHANGED <<rendered, seen, pc, listed>>
      BY <1>2 DEF SourceChanges
    <3>3. rendered \in Nat /\ \A c \in Client : listed[c].version \in Nat
      BY DEF TypeOK, Listing
    <3> QED
      BY <3>1, <3>2, <3>3 DEF Versions
  <2>4. Nils'
    BY <1>2 DEF SourceChanges, Nils, TypeOK, Locked, Critical
  <2>5. Spaced'
    BY <1>2 DEF SourceChanges, Spaced, TypeOK, Locked, Critical
  <2> QED
    BY <2>1, <2>2, <2>3, <2>4, <2>5 DEF IInv
<1>3. ASSUME NEW c \in Client, Ask(c) PROVE IInv'
  <2>1. TypeOK'
    BY <1>3 DEF Ask, TypeOK, Listing, NoListing, Reply, Critical
  <2>2. Locked'
    BY <1>3 DEF Ask, Locked, TypeOK, Critical
  <2>3. Versions'
    BY <1>3 DEF Ask, Versions, TypeOK, Listing, NoListing
  <2>4. Nils'
    BY <1>3 DEF Ask, Nils, TypeOK, Locked, Critical
  <2>5. Spaced'
    BY <1>3 DEF Ask, Spaced, TypeOK, Locked, Critical
  <2> QED
    BY <2>1, <2>2, <2>3, <2>4, <2>5 DEF IInv
<1>4. ASSUME NEW c \in Client, FastPath(c) PROVE IInv'
  <2>1. TypeOK'
    <3>1. CASE Young
      <4>1. /\ pc' = [pc EXCEPT ![c] = "read"]
            /\ checkedAt' = [checkedAt EXCEPT ![c] = now]
        BY <1>4, <3>1 DEF FastPath
      <4>2. pc' \in [Client -> {"idle", "fast", "slow", "read"} \cup Critical]
        BY <4>1 DEF TypeOK
      <4>3. checkedAt' \in [Client -> Nat]
        BY <4>1 DEF TypeOK
      <4> QED
        BY <1>4, <3>1, <4>2, <4>3 DEF FastPath, TypeOK
    <3>2. CASE ~Young
      BY <1>4, <3>2 DEF FastPath, TypeOK, Critical
    <3> QED
      BY <3>1, <3>2
  <2>2. Locked'
    BY <1>4 DEF FastPath, Locked, TypeOK, Critical
  <2>3. Versions'
    BY <1>4 DEF FastPath, Young, Versions, TypeOK, Listing, NoListing
  <2>4. Nils'
    BY <1>4 DEF FastPath, Young, Nils, TypeOK, Locked, Critical
  <2>5. Spaced'
    BY <1>4 DEF FastPath, Young, Spaced, TypeOK, Locked, Critical
  <2> QED
    BY <2>1, <2>2, <2>3, <2>4, <2>5 DEF IInv
<1>5. ASSUME NEW c \in Client, SlowPath(c) PROVE IInv'
  <2>1. TypeOK'
    <3>1. CASE Young
      <4>1. /\ pc' = [pc EXCEPT ![c] = "read"]
            /\ checkedAt' = [checkedAt EXCEPT ![c] = now]
        BY <1>5, <3>1 DEF SlowPath
      <4>2. pc' \in [Client -> {"idle", "fast", "slow", "read"} \cup Critical]
        BY <4>1 DEF TypeOK
      <4>3. checkedAt' \in [Client -> Nat]
        BY <4>1 DEF TypeOK
      <4> QED
        BY <1>5, <3>1, <4>2, <4>3 DEF SlowPath, TypeOK
    <3>2. CASE ~Young
      BY <1>5, <3>2 DEF SlowPath, TypeOK, Critical
    <3> QED
      BY <3>1, <3>2
  <2>2. Locked'
    BY <1>5 DEF SlowPath, Locked, TypeOK, Critical
  <2>3. Versions'
    BY <1>5 DEF SlowPath, Young, Versions, TypeOK, Listing, NoListing
  <2>4. Nils'
    BY <1>5 DEF SlowPath, Young, Nils, TypeOK, Locked, Critical
  <2>5. Spaced'
    BY <1>5 DEF SlowPath, Young, Spaced, TypeOK, Locked, Critical
  <2> QED
    BY <2>1, <2>2, <2>3, <2>4, <2>5 DEF IInv
<1>6. ASSUME NEW c \in Client, ListFails(c) PROVE IInv'
  <2>1. TypeOK'
    BY <1>6 DEF ListFails, TypeOK, Listing, NoListing, Reply, Critical
  <2>2. Locked'
    BY <1>6 DEF ListFails, Locked, TypeOK, Critical
  <2>3. Versions'
    BY <1>6 DEF ListFails, Versions, TypeOK, Listing, NoListing
  <2>4. Nils'
    BY <1>6 DEF ListFails, Nils, TypeOK, Locked, Critical
  <2>5. Spaced'
    BY <1>6 DEF ListFails, Spaced, TypeOK, Locked, Critical
  <2> QED
    BY <2>1, <2>2, <2>3, <2>4, <2>5 DEF IInv
<1>7. ASSUME NEW c \in Client, List(c) PROVE IInv'
  <2>1. TypeOK'
    BY <1>7 DEF List, TypeOK, Listing, NoListing, Reply, Critical
  <2>2. Locked'
    BY <1>7 DEF List, Locked, TypeOK, Critical
  <2>3. Versions'
    <3>1. UNCHANGED <<source, rendered, seen>>
      BY <1>7 DEF List
    <3>2. ASSUME NEW k \in Client, pc'[k] \in {"stamp", "render"}
          PROVE  \/ listed'[k] = source
                 \/ pc[k] \in {"stamp", "render"} /\ listed'[k] = listed[k]
      BY <1>7, <3>2 DEF List, TypeOK
    <3>3. source.version \in 1..source.version
      BY DEF Versions
    <3> QED
      BY <3>1, <3>2, <3>3 DEF Versions
  <2>4. Nils'
    BY <1>7 DEF List, Nils, TypeOK, Locked, Critical
  <2>5. Spaced'
    BY <1>7 DEF List, Spaced, TypeOK, Locked, Critical
  <2> QED
    BY <2>1, <2>2, <2>3, <2>4, <2>5 DEF IInv
<1>8. ASSUME NEW c \in Client, SkipRender(c) PROVE IInv'
  <2>1. TypeOK'
    <3>1. pc' \in [Client -> {"idle", "fast", "slow", "read"} \cup Critical]
      BY <1>8 DEF SkipRender, TypeOK
    <3>2. listed' \in [Client -> Listing] /\ checkedAt' \in [Client -> Nat]
      BY <1>8 DEF SkipRender, TypeOK, Listing, NoListing
    <3> QED
      BY <1>8, <3>1, <3>2 DEF SkipRender, TypeOK
  <2>2. Locked'
    BY <1>8 DEF SkipRender, Locked, TypeOK, Critical
  <2>3. Versions'
    BY <1>8 DEF SkipRender, TakenForUnchanged, Versions, TypeOK, Listing, NoListing
  <2>4. Nils'
    <3>1. rendered = 0 => renderTime = 0 \/ ~canSign
      BY <1>8 DEF SkipRender, Nils, TypeOK, Locked, Critical
    <3>2. rendered # 0 \/ ~canSign
      BY <1>8, <3>1 DEF SkipRender, TakenForUnchanged, TypeOK, Listing
    <3> QED
      BY <1>8, <3>2 DEF SkipRender, Nils
  <2>5. Spaced'
    BY <1>8 DEF SkipRender, TakenForUnchanged, Spaced, TypeOK, Locked, Critical
  <2> QED
    BY <2>1, <2>2, <2>3, <2>4, <2>5 DEF IInv
<1>9. ASSUME NEW c \in Client, StartRender(c) PROVE IInv'
  <2>1. TypeOK'
    <3>1. pc' \in [Client -> {"idle", "fast", "slow", "read"} \cup Critical]
      BY <1>9 DEF StartRender, TypeOK, Critical
    <3>2. checkedAt' \in [Client -> Nat]
      BY <1>9 DEF StartRender, TypeOK
    <3> QED
      BY <1>9, <3>1, <3>2 DEF StartRender, TypeOK
  <2>2. Locked'
    BY <1>9 DEF StartRender, Locked, TypeOK, Critical
  <2>3. Versions'
    BY <1>9 DEF StartRender, TakenForUnchanged, Versions, TypeOK, Listing, NoListing
  <2>4. Nils'
    BY <1>9 DEF StartRender, TakenForUnchanged, Nils, TypeOK, Locked, Critical
  <2>5. Spaced'
    BY <1>9 DEF StartRender, TakenForUnchanged, Spaced, TypeOK, Locked, Critical
  <2> QED
    BY <2>1, <2>2, <2>3, <2>4, <2>5 DEF IInv
<1>10. ASSUME NEW c \in Client, RenderFails(c) PROVE IInv'
  <2>1. TypeOK'
    BY <1>10 DEF RenderFails, TypeOK, Listing, NoListing, Reply, Critical
  <2>2. Locked'
    BY <1>10 DEF RenderFails, Locked, TypeOK, Critical
  <2>3. Versions'
    BY <1>10 DEF RenderFails, Versions, TypeOK, Listing, NoListing
  <2>4. Nils'
    BY <1>10 DEF RenderFails, Nils, TypeOK, Locked, Critical
  <2>5. Spaced'
    BY <1>10 DEF RenderFails, Spaced, TypeOK, Locked, Critical
  <2> QED
    BY <2>1, <2>2, <2>3, <2>4, <2>5 DEF IInv
<1>11. ASSUME NEW c \in Client, Publish(c) PROVE IInv'
  <2>1. TypeOK'
    BY <1>11 DEF Publish, TypeOK, Listing, NoListing, Reply, Critical
  <2>2. Locked'
    BY <1>11 DEF Publish, Locked, TypeOK, Critical
  <2>3. Versions'
    <3>1. UNCHANGED <<source, seen>> /\ rendered' = listed[c].version
      BY <1>11 DEF Publish
    <3>2. \A k \in Client : pc'[k] \notin {"stamp", "render"}
      BY <1>11 DEF Publish, TypeOK, Locked, Critical
    <3>3. rendered <= listed[c].version /\ listed[c].version \in 1..source.version
      BY <1>11 DEF Publish, Versions
    <3>4. rendered \in Nat /\ source.version \in Nat /\ seen \in [Client -> Nat]
      BY DEF TypeOK, Listing
    <3> QED
      BY <3>1, <3>2, <3>3, <3>4 DEF Versions
  <2>4. Nils'
    <3>1. rendered' # 0 /\ canSign
      BY <1>11 DEF Publish, Versions
    <3> QED
      BY <1>11, <3>1 DEF Publish, Nils
  <2>5. Spaced'
    BY <1>11 DEF Publish, Spaced, TypeOK, Locked, Critical
  <2> QED
    BY <2>1, <2>2, <2>3, <2>4, <2>5 DEF IInv
<1>12. ASSUME NEW c \in Client, Unlock(c) PROVE IInv'
  <2>1. TypeOK'
    BY <1>12 DEF Unlock, TypeOK, Listing, NoListing, Reply, Critical
  <2>2. Locked'
    BY <1>12 DEF Unlock, Locked, TypeOK, Critical
  <2>3. Versions'
    BY <1>12 DEF Unlock, Versions, TypeOK, Listing, NoListing
  <2>4. Nils'
    BY <1>12 DEF Unlock, Nils, TypeOK, Locked, Critical
  <2>5. Spaced'
    BY <1>12 DEF Unlock, Spaced, TypeOK, Locked, Critical
  <2> QED
    BY <2>1, <2>2, <2>3, <2>4, <2>5 DEF IInv
<1>13. ASSUME NEW c \in Client, Read(c) PROVE IInv'
  <2>0. seen' \in {seen, [seen EXCEPT ![c] = rendered]}
    BY <1>13 DEF Read
  <2>1. TypeOK'
    <3>1. pc' \in [Client -> {"idle", "fast", "slow", "read"} \cup Critical]
      BY <1>13 DEF Read, TypeOK
    <3>2. reply' \in [Client -> Reply]
      BY <1>13 DEF Read, TypeOK, Reply
    <3>3. seen' \in [Client -> Nat]
      BY <2>0 DEF TypeOK
    <3> QED
      BY <1>13, <3>1, <3>2, <3>3 DEF Read, TypeOK
  <2>2. Locked'
    BY <1>13 DEF Read, Locked, TypeOK, Critical
  <2>3. Versions'
    <3>1. ASSUME NEW k \in Client PROVE seen'[k] <= rendered
      <4>1. seen'[k] = seen[k] \/ seen'[k] = rendered
        BY <2>0 DEF TypeOK
      <4> QED
        BY <4>1 DEF TypeOK, Versions
    <3>2. \A k \in Client :
            pc'[k] \in {"stamp", "render"} => pc[k] \in {"stamp", "render"}
      BY <1>13 DEF Read, TypeOK
    <3> QED
      BY <1>13, <3>1, <3>2 DEF Read, Versions
  <2>4. Nils'
    BY <1>13 DEF Read, Nils, TypeOK, Locked, Critical
  <2>5. Spaced'
    BY <1>13 DEF Read, Spaced, TypeOK, Locked, Critical
  <2> QED
    BY <2>1, <2>2, <2>3, <2>4, <2>5 DEF IInv
<1>14. CASE UNCHANGED vars
  BY <1>14 DEF vars, IInv, TypeOK, Locked, Versions, Nils, Spaced
<1> QED
  BY <1>1, <1>2, <1>3, <1>4, <1>5, <1>6, <1>7, <1>8, <1>9, <1>10, <1>11, <1>12,
     <1>13, <1>14 DEF Next, Refresh

\* Every reachable state satisfies the invariant.
THEOREM Invariance == Spec => []IInv
  BY InitIInv, NextIInv, PTL DEF Spec

-----------------------------------------------------------------------------
(* What holds whatever the source does.                                    *)

\* Every reachable state is well typed, renderTime never ahead of the clock.
THEOREM TypeCorrect == Spec => []TypeOK
  BY Invariance, PTL DEF IInv

\* With a key that can sign, no request dereferences a nil index.
THEOREM NilFree == Spec => []NoNilIndex
<1>1. IInv => NoNilIndex
  BY DEF IInv, Nils, NoNilIndex
<1> QED
  BY <1>1, Invariance, PTL

\* renderTime advances by maxAge or more at a time, and the source is asked only while
\* the index is old, however many requests are in flight.
THEOREM RefreshesAreSpaced == Spec => RefreshSpacing
<1> DEFINE Step == /\ renderTime' # renderTime => renderTime' >= renderTime + MaxAge
                   /\ \A c \in Client : pc[c] = "list" /\ pc'[c] # "list" => ~Young
<1>1. IInv /\ [Next]_vars => [Step]_vars
  <2> SUFFICES ASSUME IInv, Next PROVE Step
    OBVIOUS
  <2>1. ASSUME renderTime' # renderTime PROVE renderTime' >= renderTime + MaxAge
    <3>1. PICK c \in Client : SkipRender(c) \/ StartRender(c)
      BY <2>1 DEF Next, Refresh, Tick, SourceChanges, Ask, FastPath, SlowPath, ListFails,
             List, RenderFails, Publish, Unlock, Read, environment, repoVars
    <3>2. pc[c] = "stamp" /\ renderTime' = now
      BY <3>1 DEF SkipRender, StartRender
    <3> QED
      BY <3>2, MaxAgeAssumption DEF IInv, TypeOK, Spaced
  <2>2. ASSUME NEW c \in Client, pc[c] = "list" PROVE ~Young
    BY <2>2, MaxAgeAssumption DEF IInv, TypeOK, Spaced, Young
  <2> QED
    BY <2>1, <2>2
<1> QED
  BY <1>1, Invariance, PTL DEF Spec, RefreshSpacing

\* No client is served from an older index than it was served from before.
THEOREM ClientsNeverGoBack == Spec => NeverGoesBack
<1> DEFINE Step == \A c \in Client : seen'[c] >= seen[c]
<1>1. IInv /\ [Next]_vars => [Step]_seen
  <2> SUFFICES ASSUME IInv, Next, seen' # seen, NEW k \in Client
               PROVE seen'[k] >= seen[k]
    BY DEF vars
  <2>1. PICK c \in Client : Read(c)
    BY DEF Next, Refresh, Tick, SourceChanges, Ask, FastPath, SlowPath, ListFails,
           List, SkipRender, StartRender, RenderFails, Publish, Unlock, clientVars
  <2>2. seen' = [seen EXCEPT ![c] = rendered]
    BY <2>1 DEF Read
  <2>3. seen[k] \in Nat /\ rendered \in Nat /\ seen[k] <= rendered
    BY DEF IInv, TypeOK, Versions
  <2>4. seen'[k] = seen[k] \/ seen'[k] = rendered
    BY <2>2 DEF IInv, TypeOK
  <2> QED
    BY <2>3, <2>4
<1> QED
  BY <1>1, Invariance, PTL DEF Spec, NeverGoesBack

-----------------------------------------------------------------------------
(* What holds when every change stamps the source with the current time and *)
(* none falls between a listing and its stamp.                             *)

\* v is what the source holds, or the source replaced it, and was stamped, no
\* earlier than renderTime.
UpToDate(v) ==
    v = source.version \/ (source.stamp >= renderTime /\ retired[v] >= renderTime)

Stamps ==
    /\ source.stamp <= now
    /\ \A c \in Client : checkedAt[c] <= now
    /\ \A c \in Client :
         pc[c] \in {"render", "unlock", "read"} => checkedAt[c] < renderTime + MaxAge

Listings ==
    \A c \in Client : /\ pc[c] = "stamp" => listed[c] = source
                      /\ pc[c] = "render" => UpToDate(listed[c].version)

Indexes ==
    rendered = 0 \/ UpToDate(rendered) \/ \E c \in Client : pc[c] = "render"

Fresh == Stamps /\ Listings /\ Indexes /\ BoundedStaleness

\* A list is taken for unchanged only when it is.
LEMMA FreshSkips == ASSUME IInv, Fresh PROVE SkipOnlyUnchanged
  BY DEF IInv, TypeOK, Locked, Versions, Nils, Critical, Fresh, Listings, Indexes,
         UpToDate, SkipOnlyUnchanged, TakenForUnchanged, Listing

\* What is up to date with renderTime is current for a request that found the index
\* young.
LEMMA FreshEnough ==
  ASSUME TypeOK, Stamps, NEW v \in 1..MaxVersion, UpToDate(v),
         NEW c \in Client, pc[c] \in {"render", "unlock", "read"}
  PROVE  Current(v, checkedAt[c])
<1>1. checkedAt[c] < renderTime + MaxAge
  BY DEF Stamps
<1>2. retired \in [1..MaxVersion -> Nat] /\ checkedAt \in [Client -> Nat]
  BY DEF TypeOK
<1>3. now \in Nat /\ renderTime \in 0..now
  BY DEF TypeOK
<1>4. v = source.version \/ retired[v] >= renderTime
  BY DEF UpToDate
<1> QED
  BY <1>1, <1>2, <1>3, <1>4, MaxAgeAssumption DEF Current

\* Freshness holds initially.
LEMMA InitFresh == Init => Fresh
  BY MaxAgeAssumption
  DEF Init, Fresh, Stamps, Listings, Indexes, BoundedStaleness, Listing, NoListing

\* Every step keeps it.
LEMMA NextFresh ==
  ASSUME ~ArbitraryStamps, ~RacyChanges, IInv, Fresh, [Next]_vars
  PROVE  Fresh'
<1>0. /\ TypeOK /\ Locked /\ Versions /\ Nils
      /\ Stamps /\ Listings /\ Indexes /\ BoundedStaleness
  BY DEF IInv, Fresh
<1> USE <1>0, MaxAgeAssumption, BoundsAssumption, NoneAssumption
        DEF Goto, Finish, ReadClock, Pass, Forget, environment, repoVars, clientVars
<1>1. CASE Tick
  <2>1. Stamps'
    BY <1>1 DEF Tick, Stamps, TypeOK, Listing
  <2>2. Listings'
    BY <1>1 DEF Tick, Listings, TypeOK, UpToDate, Listing
  <2>3. Indexes'
    BY <1>1 DEF Tick, Indexes, TypeOK, UpToDate, Listing
  <2>4. BoundedStaleness'
    BY <1>1 DEF Tick, BoundedStaleness, TypeOK, Current
  <2> QED
    BY <2>1, <2>2, <2>3, <2>4 DEF Fresh
<1>2. CASE SourceChanges
  <2>0. /\ source' = [version |-> source.version + 1, stamp |-> now]
        /\ retired' = [retired EXCEPT ![source.version] = now]
        /\ UNCHANGED <<now, renderTime, rendered, pc, listed, checkedAt>>
        /\ \A c \in Client : pc[c] # "stamp"
    BY <1>2 DEF SourceChanges
  <2>00. ASSUME NEW v \in 1..source.version, UpToDate(v) PROVE UpToDate(v)'
    <3>1. v \in 1..MaxVersion /\ now >= renderTime
      BY DEF TypeOK, Versions
    <3>2. retired'[v] = IF v = source.version THEN now ELSE retired[v]
      BY <2>0, <3>1 DEF TypeOK
    <3> QED
      BY <2>0, <2>00, <3>1, <3>2 DEF UpToDate
  <2>1. Stamps'
    BY <2>0 DEF Stamps, TypeOK
  <2>2. Listings'
    <3>1. ASSUME NEW c \in Client, pc[c] = "render" PROVE UpToDate(listed[c].version)'
      <4>1. listed[c].version \in 1..source.version /\ UpToDate(listed[c].version)
        BY <3>1 DEF Listings, Versions
      <4> QED
        BY <2>0, <2>00, <4>1 DEF UpToDate
    <3> QED
      BY <2>0, <3>1 DEF Listings
  <2>3. Indexes'
    <3>1. CASE rendered # 0 /\ UpToDate(rendered)
      <4>1. rendered \in 1..source.version
        BY <3>1 DEF TypeOK, Listing, Versions
      <4> QED
        BY <2>0, <2>00, <3>1, <4>1 DEF Indexes, UpToDate
    <3> QED
      BY <2>0, <3>1 DEF Indexes
  <2>4. BoundedStaleness'
    <3>1. ASSUME NEW c \in Client, pc[c] = "read", rendered # 0
          PROVE  retired'[rendered] + MaxAge > checkedAt[c]
      <4>1. rendered \in 1..MaxVersion /\ source.version \in 1..MaxVersion
        BY <3>1 DEF TypeOK, Listing, Versions
      <4>2. retired'[rendered] = IF rendered = source.version
                                 THEN now ELSE retired[rendered]
        BY <2>0, <4>1 DEF TypeOK
      <4>3. rendered = source.version \/ retired[rendered] + MaxAge > checkedAt[c]
        BY <3>1 DEF BoundedStaleness, Current
      <4>4. now \in Nat /\ checkedAt[c] \in Nat /\ checkedAt[c] <= now
        BY DEF TypeOK, Stamps
      <4> QED
        BY <4>2, <4>3, <4>4
    <3> QED
      BY <2>0, <3>1 DEF BoundedStaleness, Current
  <2> QED
    BY <2>1, <2>2, <2>3, <2>4 DEF Fresh
<1>3. ASSUME NEW c \in Client, Ask(c) PROVE Fresh'
  <2>1. Stamps'
    BY <1>3 DEF Ask, Stamps, TypeOK
  <2>2. Listings'
    BY <1>3 DEF Ask, Listings, TypeOK, UpToDate, Listing
  <2>3. Indexes'
    BY <1>3 DEF Ask, Indexes, TypeOK, UpToDate, Listing
  <2>4. BoundedStaleness'
    BY <1>3 DEF Ask, BoundedStaleness, TypeOK, Current
  <2> QED
    BY <2>1, <2>2, <2>3, <2>4 DEF Fresh
<1>4. ASSUME NEW c \in Client, FastPath(c) PROVE Fresh'
  <2>0. ASSUME NEW k \in Client
        PROVE \/ pc'[k] = pc[k] /\ checkedAt'[k] = checkedAt[k]
              \/ pc'[k] = "slow" /\ checkedAt'[k] = checkedAt[k]
              \/ pc'[k] = "list" /\ checkedAt'[k] = checkedAt[k]
              \/ /\ pc'[k] = "read" /\ checkedAt'[k] = now
                 /\ now < renderTime + MaxAge /\ lock = None
    <3>1. now \in Nat /\ renderTime \in Nat /\ MaxAge \in Nat
      BY DEF TypeOK
    <3>2. pc \in [Client -> {"idle", "fast", "slow", "read"} \cup Critical]
          /\ checkedAt \in [Client -> Nat]
      BY DEF TypeOK
    <3> QED
      BY <1>4, <3>1, <3>2 DEF FastPath, Young
  <2>1. Stamps'
    <3>1. UNCHANGED <<now, source, renderTime>> /\ now \in Nat
      BY <1>4 DEF FastPath, TypeOK
    <3> QED
      BY <2>0, <3>1 DEF Stamps
  <2>2. Listings'
    <3>1. UNCHANGED <<source, retired, renderTime, listed>>
      BY <1>4 DEF FastPath
    <3> QED
      BY <2>0, <3>1 DEF Listings, UpToDate
  <2>3. Indexes'
    <3>1. UNCHANGED <<source, retired, renderTime, rendered>>
      BY <1>4 DEF FastPath
    <3>2. lock = None /\ \A k \in Client : pc[k] # "render"
      BY <1>4 DEF FastPath, Locked, Critical
    <3> QED
      BY <3>1, <3>2 DEF Indexes, UpToDate
  <2>4. BoundedStaleness'
    <3>1. lock = None => rendered = 0 \/ UpToDate(rendered)
      BY DEF Locked, Critical, Indexes
    <3>2. UNCHANGED <<source, retired, rendered>>
      BY <1>4 DEF FastPath
    <3>3. ASSUME NEW k \in Client, pc'[k] = "read", rendered # 0
          PROVE  rendered = source.version \/ retired[rendered] + MaxAge > checkedAt'[k]
      <4>1. CASE pc[k] = "read" /\ checkedAt'[k] = checkedAt[k]
        BY <3>3, <4>1 DEF BoundedStaleness, Current
      <4>2. CASE checkedAt'[k] = now /\ now < renderTime + MaxAge /\ lock = None
        <5>1. rendered \in Nat \ {0}
          BY <3>3 DEF TypeOK
        <5>2. retired[rendered] \in Nat
          BY <5>1 DEF Versions, TypeOK
        <5>3. rendered = source.version \/ retired[rendered] >= renderTime
          BY <3>1, <3>3, <4>2 DEF UpToDate
        <5>4. now \in Nat /\ renderTime \in Nat /\ MaxAge \in Nat
          BY DEF TypeOK
        <5> QED
          BY ONLY <4>2, <5>2, <5>3, <5>4
      <4> QED
        BY <2>0, <3>3, <4>1, <4>2
    <3> QED
      BY <3>2, <3>3 DEF BoundedStaleness, Current
  <2> QED
    BY <2>1, <2>2, <2>3, <2>4 DEF Fresh
<1>5. ASSUME NEW c \in Client, SlowPath(c) PROVE Fresh'
  <2>0. ASSUME NEW k \in Client
        PROVE \/ pc'[k] = pc[k] /\ checkedAt'[k] = checkedAt[k]
              \/ pc'[k] = "slow" /\ checkedAt'[k] = checkedAt[k]
              \/ pc'[k] = "list" /\ checkedAt'[k] = checkedAt[k]
              \/ /\ pc'[k] = "read" /\ checkedAt'[k] = now
                 /\ now < renderTime + MaxAge /\ lock = None
    <3>1. now \in Nat /\ renderTime \in Nat /\ MaxAge \in Nat
      BY DEF TypeOK
    <3>2. pc \in [Client -> {"idle", "fast", "slow", "read"} \cup Critical]
          /\ checkedAt \in [Client -> Nat]
      BY DEF TypeOK
    <3> QED
      BY <1>5, <3>1, <3>2 DEF SlowPath, Young
  <2>1. Stamps'
    <3>1. UNCHANGED <<now, source, renderTime>> /\ now \in Nat
      BY <1>5 DEF SlowPath, TypeOK
    <3> QED
      BY <2>0, <3>1 DEF Stamps
  <2>2. Listings'
    <3>1. UNCHANGED <<source, retired, renderTime, listed>>
      BY <1>5 DEF SlowPath
    <3> QED
      BY <2>0, <3>1 DEF Listings, UpToDate
  <2>3. Indexes'
    <3>1. UNCHANGED <<source, retired, renderTime, rendered>>
      BY <1>5 DEF SlowPath
    <3>2. lock = None /\ \A k \in Client : pc[k] # "render"
      BY <1>5 DEF SlowPath, Locked, Critical
    <3> QED
      BY <3>1, <3>2 DEF Indexes, UpToDate
  <2>4. BoundedStaleness'
    <3>1. lock = None => rendered = 0 \/ UpToDate(rendered)
      BY DEF Locked, Critical, Indexes
    <3>2. UNCHANGED <<source, retired, rendered>>
      BY <1>5 DEF SlowPath
    <3>3. ASSUME NEW k \in Client, pc'[k] = "read", rendered # 0
          PROVE  rendered = source.version \/ retired[rendered] + MaxAge > checkedAt'[k]
      <4>1. CASE pc[k] = "read" /\ checkedAt'[k] = checkedAt[k]
        BY <3>3, <4>1 DEF BoundedStaleness, Current
      <4>2. CASE checkedAt'[k] = now /\ now < renderTime + MaxAge /\ lock = None
        <5>1. rendered \in Nat \ {0}
          BY <3>3 DEF TypeOK
        <5>2. retired[rendered] \in Nat
          BY <5>1 DEF Versions, TypeOK
        <5>3. rendered = source.version \/ retired[rendered] >= renderTime
          BY <3>1, <3>3, <4>2 DEF UpToDate
        <5>4. now \in Nat /\ renderTime \in Nat /\ MaxAge \in Nat
          BY DEF TypeOK
        <5> QED
          BY ONLY <4>2, <5>2, <5>3, <5>4
      <4> QED
        BY <2>0, <3>3, <4>1, <4>2
    <3> QED
      BY <3>2, <3>3 DEF BoundedStaleness, Current
  <2> QED
    BY <2>1, <2>2, <2>3, <2>4 DEF Fresh
<1>6. ASSUME NEW c \in Client, ListFails(c) PROVE Fresh'
  <2>1. Stamps'
    BY <1>6 DEF ListFails, Stamps, TypeOK
  <2>2. Listings'
    BY <1>6 DEF ListFails, Listings, TypeOK, UpToDate, Listing
  <2>3. Indexes'
    BY <1>6 DEF ListFails, Indexes, TypeOK, UpToDate, Listing
  <2>4. BoundedStaleness'
    BY <1>6 DEF ListFails, BoundedStaleness, TypeOK, Current
  <2> QED
    BY <2>1, <2>2, <2>3, <2>4 DEF Fresh
<1>7. ASSUME NEW c \in Client, List(c) PROVE Fresh'
  <2>1. Stamps'
    BY <1>7 DEF List, Stamps, TypeOK
  <2>2. Listings'
    BY <1>7 DEF List, Listings, TypeOK, UpToDate, Listing
  <2>3. Indexes'
    BY <1>7 DEF List, Indexes, TypeOK, UpToDate, Listing
  <2>4. BoundedStaleness'
    BY <1>7 DEF List, BoundedStaleness, TypeOK, Current
  <2> QED
    BY <2>1, <2>2, <2>3, <2>4 DEF Fresh
<1>8. ASSUME NEW c \in Client, SkipRender(c) PROVE Fresh'
  <2>0. rendered = 0 \/ rendered = source.version
    BY <1>8, FreshSkips DEF SkipRender, SkipOnlyUnchanged, IInv, Nils, Listings
  <2>1. Stamps'
    <3>1. ASSUME NEW k \in Client
          PROVE  \/ k = c /\ checkedAt'[k] = now
                 \/ pc'[k] = pc[k] /\ checkedAt'[k] = checkedAt[k]
      BY <1>8 DEF SkipRender, TypeOK
    <3>2. renderTime' = now /\ renderTime <= now /\ now \in Nat /\ renderTime \in Nat
      BY <1>8 DEF SkipRender, TypeOK
    <3>3. UNCHANGED <<now, source>> /\ checkedAt \in [Client -> Nat]
      BY <1>8 DEF SkipRender, TypeOK
    <3> QED
      BY <3>1, <3>2, <3>3 DEF Stamps
  <2>2. Listings'
    BY <1>8, <2>0 DEF SkipRender, Listings, TypeOK, UpToDate, Listing, Locked, Critical
  <2>3. Indexes'
    BY <1>8, <2>0 DEF SkipRender, Indexes, TypeOK, UpToDate, Listing, Locked, Critical
  <2>4. BoundedStaleness'
    BY <1>8, <2>0 DEF SkipRender, BoundedStaleness, TypeOK, Current, Locked, Critical
  <2> QED
    BY <2>1, <2>2, <2>3, <2>4 DEF Fresh
<1>9. ASSUME NEW c \in Client, StartRender(c) PROVE Fresh'
  <2>1. Stamps'
    <3>1. ASSUME NEW k \in Client
          PROVE  \/ k = c /\ checkedAt'[k] = now
                 \/ pc'[k] = pc[k] /\ checkedAt'[k] = checkedAt[k]
      BY <1>9 DEF StartRender, TypeOK
    <3>2. renderTime' = now /\ renderTime <= now /\ now \in Nat /\ renderTime \in Nat
      BY <1>9 DEF StartRender, TypeOK
    <3>3. UNCHANGED <<now, source>> /\ checkedAt \in [Client -> Nat]
      BY <1>9 DEF StartRender, TypeOK
    <3> QED
      BY <3>1, <3>2, <3>3 DEF Stamps
  <2>2. Listings'
    BY <1>9 DEF StartRender, Listings, TypeOK, UpToDate, Listing, Locked, Critical
  <2>3. Indexes'
    BY <1>9 DEF StartRender, Indexes, TypeOK, UpToDate, Listing, Locked, Critical
  <2>4. BoundedStaleness'
    BY <1>9 DEF StartRender, BoundedStaleness, TypeOK, Current, Locked, Critical
  <2> QED
    BY <2>1, <2>2, <2>3, <2>4 DEF Fresh
<1>10. ASSUME NEW c \in Client, RenderFails(c) PROVE Fresh'
  <2>1. Stamps'
    BY <1>10 DEF RenderFails, Stamps, TypeOK
  <2>2. Listings'
    BY <1>10 DEF RenderFails, Listings, TypeOK, UpToDate, Listing, Locked, Critical
  <2>3. Indexes'
    BY <1>10 DEF RenderFails, Indexes, Nils
  <2>4. BoundedStaleness'
    BY <1>10 DEF RenderFails, BoundedStaleness, TypeOK, Current, Locked, Critical
  <2> QED
    BY <2>1, <2>2, <2>3, <2>4 DEF Fresh
<1>11. ASSUME NEW c \in Client, Publish(c) PROVE Fresh'
  <2>1. Stamps'
    BY <1>11 DEF Publish, Stamps, TypeOK
  <2>2. Listings'
    BY <1>11 DEF Publish, Listings, TypeOK, UpToDate, Listing, Locked, Critical
  <2>3. Indexes'
    BY <1>11 DEF Publish, Indexes, Listings, UpToDate
  <2>4. BoundedStaleness'
    <3>1. UpToDate(listed[c].version) /\ rendered' = listed[c].version
      BY <1>11 DEF Publish, Listings
    <3>2. listed[c].version \in 1..MaxVersion
      BY <1>11 DEF Publish, Versions, TypeOK, Listing
    <3>3. ASSUME NEW k \in Client, pc'[k] = "read"
          PROVE  Current(listed[c].version, checkedAt[k])
      <4>1. pc[k] = "read"
        BY <1>11, <3>3 DEF Publish, TypeOK
      <4> QED
        BY <3>1, <3>2, <4>1, FreshEnough
    <3>4. UNCHANGED <<source, retired, checkedAt>>
      BY <1>11 DEF Publish
    <3> QED
      BY <3>1, <3>3, <3>4 DEF BoundedStaleness, Current
  <2> QED
    BY <2>1, <2>2, <2>3, <2>4 DEF Fresh
<1>12. ASSUME NEW c \in Client, Unlock(c) PROVE Fresh'
  <2>1. Stamps'
    BY <1>12 DEF Unlock, Stamps, TypeOK
  <2>2. Listings'
    BY <1>12 DEF Unlock, Listings, TypeOK, UpToDate, Listing
  <2>3. Indexes'
    BY <1>12 DEF Unlock, Indexes, TypeOK, UpToDate, Listing
  <2>4. BoundedStaleness'
    <3>1. /\ pc' = [pc EXCEPT ![c] = "read"]
          /\ UNCHANGED <<source, retired, rendered, checkedAt>>
      BY <1>12 DEF Unlock
    <3>2. rendered = 0 \/ UpToDate(rendered)
      BY <1>12 DEF Unlock, Indexes, Locked, Critical
    <3>3. ASSUME rendered # 0 PROVE Current(rendered, checkedAt[c])
      <4>1. rendered \in 1..MaxVersion
        BY <3>3 DEF Versions, TypeOK, Listing
      <4> QED
        BY <1>12, <3>2, <3>3, <4>1, FreshEnough DEF Unlock
    <3> QED
      BY <3>1, <3>3 DEF BoundedStaleness, Current, TypeOK
  <2> QED
    BY <2>1, <2>2, <2>3, <2>4 DEF Fresh
<1>13. ASSUME NEW c \in Client, Read(c) PROVE Fresh'
  <2>1. Stamps'
    <3>1. ASSUME NEW k \in Client
          PROVE  \/ k = c /\ checkedAt'[k] = 0
                 \/ pc'[k] = pc[k] /\ checkedAt'[k] = checkedAt[k]
      BY <1>13 DEF Read, TypeOK
    <3>2. pc'[c] = "idle"
      BY <1>13 DEF Read, TypeOK
    <3>3. UNCHANGED <<now, source, renderTime>>
      BY <1>13 DEF Read
    <3>4. ASSUME NEW k \in Client PROVE checkedAt'[k] <= now
      <4>1. checkedAt'[k] = 0 \/ checkedAt'[k] = checkedAt[k]
        BY <3>1
      <4>2. 0 <= now /\ checkedAt[k] <= now
        BY DEF Stamps, TypeOK
      <4> QED
        BY <4>1, <4>2
    <3> QED
      BY <3>1, <3>2, <3>3, <3>4 DEF Stamps
  <2>2. Listings'
    BY <1>13 DEF Read, Listings, TypeOK, UpToDate, Listing
  <2>3. Indexes'
    BY <1>13 DEF Read, Indexes, TypeOK, UpToDate, Listing
  <2>4. BoundedStaleness'
    BY <1>13 DEF Read, BoundedStaleness, TypeOK, Current
  <2> QED
    BY <2>1, <2>2, <2>3, <2>4 DEF Fresh
<1>14. CASE UNCHANGED vars
  BY <1>14 DEF vars, Fresh, Stamps, Listings, Indexes, BoundedStaleness, UpToDate,
     Current
<1> QED
  BY <1>1, <1>2, <1>3, <1>4, <1>5, <1>6, <1>7, <1>8, <1>9, <1>10, <1>11, <1>12,
     <1>13, <1>14 DEF Next, Refresh

\* Every reachable state is fresh.
LEMMA Freshness ==
  ASSUME ~ArbitraryStamps, ~RacyChanges PROVE Spec => []Fresh
<1>1. IInv /\ Fresh /\ [Next]_vars => Fresh'
  BY NextFresh
<1> QED
  BY <1>1, InitFresh, Invariance, PTL DEF Spec

\* A rendering is skipped only if the source holds what the index shows, when no
\* change is backdated and none falls between a listing and its stamp.
THEOREM SkipsAreSound ==
  ASSUME ~ArbitraryStamps, ~RacyChanges PROVE Spec => []SkipOnlyUnchanged
<1>1. IInv /\ Fresh => SkipOnlyUnchanged
  BY FreshSkips
<1> QED
  BY <1>1, Freshness, Invariance, PTL

\* Under the same conditions no request is served a list that the source replaced
\* maxAge or more before the request was let through.
THEOREM StalenessIsBounded ==
  ASSUME ~ArbitraryStamps, ~RacyChanges PROVE Spec => []BoundedStaleness
<1>1. Fresh => BoundedStaleness
  BY DEF Fresh
<1> QED
  BY <1>1, Freshness, PTL

=============================================================================
