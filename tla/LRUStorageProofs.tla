-------------------------- MODULE LRUStorageProofs --------------------------
(***************************************************************************)
(* Proofs about LRUStorage: for any goroutines, keys, values, TTLs and     *)
(* size, the storage with its two lookups and its late uses is the atomic  *)
(* map of CacheStorage.                                                    *)
(***************************************************************************)
EXTENDS LRUStorage, SequenceTheorems, FiniteSetTheorems, TLAPS

-----------------------------------------------------------------------------
(* Entries in order of use: at most one for each key.                      *)

OneEach(entries) ==
    \A i, j \in DOMAIN entries : entries[i].key = entries[j].key => i = j

Has(entries, e) == \E i \in DOMAIN entries : entries[i] = e

LEMMA PlaceIsThere ==
  ASSUME NEW entries, NEW k \in Keys(entries)
  PROVE  /\ Place(entries, k) \in DOMAIN entries
         /\ EntryOf(entries, k).key = k
         /\ Has(entries, EntryOf(entries, k))
BY DEF Place, EntryOf, Keys, Has

LEMMA EntryIsTheOne ==
  ASSUME NEW entries, OneEach(entries), NEW e, Has(entries, e)
  PROVE  e.key \in Keys(entries) /\ EntryOf(entries, e.key) = e
<1>1. PICK i \in DOMAIN entries : entries[i] = e
  BY DEF Has
<1>2. e.key \in Keys(entries)
  BY <1>1 DEF Keys
<1>3. /\ Place(entries, e.key) \in DOMAIN entries
      /\ entries[Place(entries, e.key)].key = e.key
  BY <1>2, PlaceIsThere DEF EntryOf
<1>4. Place(entries, e.key) = i
  BY <1>1, <1>3 DEF OneEach
<1> QED
  BY <1>1, <1>2, <1>4 DEF EntryOf

LEMMA WithoutIsShorter ==
  ASSUME NEW entries \in Seq(Entry), OneEach(entries), NEW k
  PROVE  /\ Without(entries, k) \in Seq(Entry)
         /\ OneEach(Without(entries, k))
         /\ \A e : Has(Without(entries, k), e) <=> Has(entries, e) /\ e.key # k
         /\ Len(Without(entries, k)) =
              IF k \in Keys(entries) THEN Len(entries) - 1 ELSE Len(entries)
<1>1. CASE k \notin Keys(entries)
  BY <1>1 DEF Without, Has, Keys
<1>2. CASE k \in Keys(entries)
  <2> DEFINE p == Place(entries, k)
             before == SubSeq(entries, 1, p - 1)
             after == SubSeq(entries, p + 1, Len(entries))
             rest == before \o after
  <2>1. p \in 1..Len(entries) /\ entries[p].key = k
    BY <1>2, PlaceIsThere DEF EntryOf
  <2>2. Without(entries, k) = rest
    BY <1>2 DEF Without, RemoveAt
  <2> HIDE DEF p
  <2>3. /\ before \in Seq(Entry) /\ Len(before) = p - 1
        /\ \A i \in 1..(p - 1) : before[i] = entries[i]
    <3>1. \A i \in 1..(p - 1) : entries[i] \in Entry
      BY <2>1
    <3> QED
      BY <2>1, <3>1, SubSeqProperties
  <2>4. /\ after \in Seq(Entry) /\ Len(after) = Len(entries) - p
        /\ \A i \in 1..(Len(entries) - p) : after[i] = entries[p + i]
    <3>1. \A i \in (p + 1)..Len(entries) : entries[i] \in Entry
      BY <2>1
    <3> QED
      BY <2>1, <3>1, SubSeqProperties
  <2> HIDE DEF before, after
  <2>5. /\ rest \in Seq(Entry) /\ Len(rest) = Len(entries) - 1
        /\ \A i \in 1..Len(rest) :
             rest[i] = IF i < p THEN entries[i] ELSE entries[i + 1]
    <3>1. /\ rest \in Seq(Entry) /\ Len(rest) = Len(before) + Len(after)
          /\ \A i \in 1..(Len(before) + Len(after)) :
               rest[i] = IF i <= Len(before) THEN before[i] ELSE after[i - Len(before)]
      BY <2>3, <2>4, ConcatProperties
    <3>2. /\ Len(before) = p - 1 /\ Len(after) = Len(entries) - p
          /\ Len(entries) \in Nat /\ p \in 1..Len(entries)
      BY <2>1, <2>3, <2>4
    <3>3. Len(rest) = Len(entries) - 1
      BY <3>1, <3>2
    <3>4. ASSUME NEW i \in 1..Len(rest)
          PROVE  rest[i] = IF i < p THEN entries[i] ELSE entries[i + 1]
      <4>1. i <= Len(before) <=> i < p
        BY <3>2, <3>3
      <4>2. CASE i < p
        BY <2>3, <3>1, <3>2, <3>3, <4>1, <4>2
      <4>3. CASE ~(i < p)
        <5>1. /\ i - Len(before) \in 1..(Len(entries) - p)
              /\ p + (i - Len(before)) = i + 1
          BY <3>2, <3>3, <4>3
        <5>2. rest[i] = after[i - Len(before)]
          BY <3>1, <3>3, <4>1, <4>3
        <5> QED
          BY <2>4, <4>3, <5>1, <5>2
      <4> QED
        BY <4>2, <4>3
    <3> QED
      BY <3>1, <3>3, <3>4
  <2> HIDE DEF rest
  <2>6. OneEach(rest)
    <3> SUFFICES ASSUME NEW i \in 1..Len(rest), NEW j \in 1..Len(rest),
                        rest[i].key = rest[j].key
                 PROVE  i = j
      BY <2>5 DEF OneEach
    <3> DEFINE I == IF i < p THEN i ELSE i + 1
               J == IF j < p THEN j ELSE j + 1
    <3>1. /\ I \in 1..Len(entries) /\ J \in 1..Len(entries)
          /\ rest[i] = entries[I] /\ rest[j] = entries[J]
      BY <2>1, <2>5
    <3>2. I = J
      BY <3>1 DEF OneEach
    <3> QED
      BY <2>1, <2>5, <3>2
  <2>7. \A e : Has(rest, e) => Has(entries, e) /\ e.key # k
    BY <2>1, <2>5 DEF Has, OneEach
  <2>8. ASSUME NEW e, Has(entries, e), e.key # k
        PROVE  Has(rest, e)
    <3>1. PICK i \in 1..Len(entries) : entries[i] = e /\ i # p
      BY <2>1, <2>8 DEF Has
    <3>2. CASE i < p
      BY <2>1, <2>5, <3>1, <3>2 DEF Has
    <3>3. CASE i > p
      <4>1. i - 1 \in 1..Len(rest) /\ rest[i - 1] = e
        BY <2>1, <2>5, <3>1, <3>3
      <4> QED
        BY <4>1, <2>5 DEF Has
    <3> QED
      BY <2>1, <3>1, <3>2, <3>3
  <2> QED
    BY <1>2, <2>2, <2>5, <2>6, <2>7, <2>8
<1> QED
  BY <1>1, <1>2

LEMMA InFrontIsLonger ==
  ASSUME NEW rest \in Seq(Entry), OneEach(rest), NEW e \in Entry, e.key \notin Keys(rest)
  PROVE  /\ <<e>> \o rest \in Seq(Entry)
         /\ OneEach(<<e>> \o rest)
         /\ \A f : Has(<<e>> \o rest, f) <=> f = e \/ Has(rest, f)
         /\ Len(<<e>> \o rest) = Len(rest) + 1
<1> DEFINE all == <<e>> \o rest
<1>1. <<e>> \in Seq(Entry) /\ Len(<<e>>) = 1 /\ <<e>>[1] = e
  OBVIOUS
<1>2. /\ all \in Seq(Entry) /\ Len(all) = Len(<<e>>) + Len(rest)
      /\ \A i \in 1..(Len(<<e>>) + Len(rest)) :
           all[i] = IF i <= Len(<<e>>) THEN <<e>>[i] ELSE rest[i - Len(<<e>>)]
  BY <1>1, ConcatProperties
<1>3. /\ all \in Seq(Entry) /\ Len(all) = Len(rest) + 1
      /\ \A i \in 1..Len(all) : all[i] = IF i = 1 THEN e ELSE rest[i - 1]
  BY <1>1, <1>2
<1> HIDE DEF all
<1>4. \A i \in 1..Len(rest) : rest[i].key # e.key
  BY DEF Keys
<1>5. OneEach(all)
  <2> SUFFICES ASSUME NEW i \in 1..Len(all), NEW j \in 1..Len(all),
                      all[i].key = all[j].key
               PROVE  i = j
    BY <1>3 DEF OneEach
  <2>1. i # 1 => i - 1 \in 1..Len(rest) /\ all[i] = rest[i - 1]
    BY <1>3
  <2>2. j # 1 => j - 1 \in 1..Len(rest) /\ all[j] = rest[j - 1]
    BY <1>3
  <2>3. all[1] = e
    BY <1>3
  <2>4. CASE i = 1 \/ j = 1
    BY <1>4, <2>1, <2>2, <2>3, <2>4
  <2>5. CASE i # 1 /\ j # 1
    <3>1. i - 1 = j - 1
      BY <2>1, <2>2, <2>5 DEF OneEach
    <3> QED
      BY <3>1
  <2> QED
    BY <2>4, <2>5
<1>6. \A f : Has(all, f) => f = e \/ Has(rest, f)
  <2> SUFFICES ASSUME NEW i \in 1..Len(all), all[i] # e
               PROVE  Has(rest, all[i])
    BY <1>3 DEF Has
  <2>1. i - 1 \in 1..Len(rest) /\ all[i] = rest[i - 1]
    BY <1>3
  <2> QED
    BY <2>1 DEF Has
<1>7. Has(all, e)
  BY <1>3 DEF Has
<1>8. ASSUME NEW j \in 1..Len(rest)
      PROVE  Has(all, rest[j])
  <2>1. j + 1 \in 1..Len(all) /\ all[j + 1] = rest[j]
    BY <1>3
  <2> QED
    BY <1>3, <2>1 DEF Has
<1>9. \A f : Has(rest, f) => Has(all, f)
  BY <1>8 DEF Has
<1> QED
  BY <1>3, <1>5, <1>6, <1>7, <1>9 DEF all

LEMMA FrontIsShorter ==
  ASSUME NEW entries \in Seq(Entry), OneEach(entries), Len(entries) > 0
  PROVE  /\ Front(entries) \in Seq(Entry)
         /\ OneEach(Front(entries))
         /\ \A e : Has(Front(entries), e) <=>
                     Has(entries, e) /\ e.key # Last(entries).key
         /\ Len(Front(entries)) = Len(entries) - 1
<1> DEFINE n == Len(entries)
           front == SubSeq(entries, 1, n - 1)
<1>0. n \in Nat \ {0} /\ \A i \in 1..n : entries[i] \in Entry
  OBVIOUS
<1>1. \A i \in 1..(n - 1) : entries[i] \in Entry
  BY <1>0
<1> HIDE DEF n
<1>2. /\ front \in Seq(Entry) /\ Len(front) = n - 1
      /\ \A i \in 1..(n - 1) : front[i] = entries[i]
  <2>1. 1 \in Int /\ n - 1 \in Int /\ n - 1 - 1 + 1 = n - 1
    BY <1>0
  <2> QED
    BY <1>0, <1>1, <2>1, SubSeqProperties
<1>3. Front(entries) = front
  BY DEF Front, n
<1> HIDE DEF front
<1>4. DOMAIN entries = 1..n
  BY DEF n
<1>5. OneEach(front)
  BY <1>0, <1>2, <1>4 DEF OneEach
<1>6. \A e : Has(front, e) <=> Has(entries, e) /\ e.key # entries[n].key
  BY <1>0, <1>2, <1>4 DEF Has, OneEach
<1> QED
  BY <1>2, <1>3, <1>5, <1>6 DEF Last, n

LEMMA OneKeyEach ==
  ASSUME NEW entries \in Seq(Entry), OneEach(entries)
  PROVE  IsFiniteSet(Keys(entries)) /\ Cardinality(Keys(entries)) = Len(entries)
<1> DEFINE f == [i \in 1..Len(entries) |-> entries[i].key]
<1>1. f \in Bijection(1..Len(entries), Keys(entries))
  <2>1. f \in [1..Len(entries) -> Keys(entries)]
    BY DEF Keys
  <2>2. \A i, j \in 1..Len(entries) : f[i] = f[j] => i = j
    BY DEF OneEach
  <2>3. \A k \in Keys(entries) : \E i \in 1..Len(entries) : f[i] = k
    BY DEF Keys
  <2> QED
    <3> HIDE DEF f
    <3> QED
      BY <2>1, <2>2, <2>3 DEF Bijection, Injection, Surjection, IsInjective
<1>2. IsFiniteSet(1..Len(entries)) /\ Cardinality(1..Len(entries)) = Len(entries)
  <2> DEFINE n == Len(entries)
  <2>1. n \in Nat
    OBVIOUS
  <2> HIDE DEF n
  <2>2. /\ IsFiniteSet(1..n)
        /\ Cardinality(1..n) = IF 1 > n THEN 0 ELSE n - 1 + 1
    BY <2>1, FS_Interval
  <2> QED
    BY <2>1, <2>2 DEF n
<1> QED
  BY <1>1, <1>2, FS_Bijection DEF ExistsBijection

\* Two lists that hold the same under a key store the same under it.
LEMMA SameStored ==
  ASSUME NEW es, NEW fs, OneEach(es), OneEach(fs), NEW k,
         \A e : e.key = k => (Has(es, e) <=> Has(fs, e))
  PROVE  Stored(es, k) = Stored(fs, k)
<1>1. CASE k \in Keys(es)
  <2>1. EntryOf(es, k).key = k /\ Has(fs, EntryOf(es, k))
    BY <1>1, PlaceIsThere
  <2>2. k \in Keys(fs) /\ EntryOf(fs, k) = EntryOf(es, k)
    BY <2>1, EntryIsTheOne
  <2> QED
    BY <1>1, <2>2 DEF Stored
<1>2. CASE k \notin Keys(es)
  <2>1. k \notin Keys(fs)
    <3> SUFFICES ASSUME k \in Keys(fs) PROVE FALSE
      OBVIOUS
    <3>1. EntryOf(fs, k).key = k /\ Has(es, EntryOf(fs, k))
      BY PlaceIsThere
    <3> QED
      BY <1>2, <3>1, EntryIsTheOne
  <2> QED
    BY <1>2, <2>1 DEF Stored
<1> QED
  BY <1>1, <1>2

-----------------------------------------------------------------------------
(* The inductive invariant.                                                *)

Scalars ==
    /\ now \in 0..MaxTime
    /\ defaultTTL \in TTL
    /\ data \in [Namespace -> LRU \cup {None}]
    /\ resets \in 0..MaxResets
    /\ pc \in [Client -> {"idle", "lookup", "create", "use"}]
    /\ call \in [Client -> [key : Key \cup {None}, value : Value \cup {None}]]
    /\ held \in [Client -> LRU \cup {None}]
    /\ found \in [Client -> Value \cup {None}]

Lists == [ttl : TTL, entries : Seq(Entry)]

Sound(lru) == lru \in Lists /\ OneEach(lru.entries) /\ Len(lru.entries) <= Size

ListsOK == lrus \in Seq(Lists) /\ \A i \in LRU : Sound(lrus[i])

\* An LRU serves one namespace: no two have it, it holds the keys of the one that has
\* it, and a call that works on it is a call for that one.
OwnersOK ==
    \A ns \in Namespace : data[ns] # None =>
        /\ \A other \in Namespace : data[other] = data[ns] => other = ns
        /\ \A k \in Keys(lrus[data[ns]].entries) : NsOf[k] = ns
        /\ \A c \in Client : held[c] = data[ns] => NsOfCall(c) = ns

\* A goroutine has a key while it is calling, and an LRU when it has found one.
CallsOK ==
    \A c \in Client :
        /\ pc[c] = "idle" <=> call[c].key = None
        /\ pc[c] = "use" <=> held[c] # None

IInv == Scalars /\ ListsOK /\ OwnersOK /\ CallsOK

LEMMA InvTypes == IInv => TypeOK
<1> SUFFICES ASSUME IInv PROVE TypeOK
  OBVIOUS
<1>1. ASSUME NEW i \in LRU
      PROVE  /\ lrus[i].ttl \in TTL
             /\ lrus[i].entries \in Seq(Entry)
             /\ Cardinality(Keys(lrus[i].entries)) = Len(lrus[i].entries)
  <2>1. lrus[i] \in Lists /\ OneEach(lrus[i].entries)
    BY DEF IInv, ListsOK, Sound
  <2>2. lrus[i].ttl \in TTL /\ lrus[i].entries \in Seq(Entry)
    BY <2>1 DEF Lists
  <2> QED
    BY <2>1, <2>2, OneKeyEach
<1> QED
  BY <1>1 DEF IInv, Scalars, TypeOK

-----------------------------------------------------------------------------
(* What the operations make of an LRU.                                     *)

LEMMA NewIsSound ==
  ASSUME NEW ttl \in TTL
  PROVE  Sound(NewLRU(ttl)) /\ NewLRU(ttl).entries = <<>>
BY SizeAssumption DEF Sound, NewLRU, Lists, OneEach

LEMMA TouchedIsSound ==
  ASSUME NEW lru, Sound(lru), NEW k \in Key
  PROVE  /\ Sound(Touched(lru, k))
         /\ \A e : Has(Touched(lru, k).entries, e) <=> Has(lru.entries, e)
<1> DEFINE es == lru.entries
           e == EntryOf(es, k)
           rest == Without(es, k)
           new == <<e>> \o rest
<1>1. lru \in Lists /\ es \in Seq(Entry) /\ OneEach(es) /\ Len(es) <= Size
  BY DEF Sound, Lists
<1>2. CASE ~Hit(lru, k)
  BY <1>2 DEF Touched
<1>3. CASE Hit(lru, k)
  <2>1. k \in Keys(es) /\ Touched(lru, k) = [lru EXCEPT !.entries = new]
    BY <1>3 DEF Touched, Hit
  <2>2. e.key = k /\ Has(es, e)
    BY <2>1, PlaceIsThere
  <2>3. e \in Entry
    BY <1>1, <2>2 DEF Has
  <2> HIDE DEF es, e, rest
  <2>4. /\ rest \in Seq(Entry) /\ OneEach(rest) /\ Len(rest) = Len(es) - 1
        /\ \A f : Has(rest, f) <=> Has(es, f) /\ f.key # k
    BY <1>1, <2>1, WithoutIsShorter DEF rest
  <2>5. e.key \notin Keys(rest)
    BY <2>2, <2>4, PlaceIsThere
  <2>6. /\ new \in Seq(Entry) /\ OneEach(new) /\ Len(new) = Len(rest) + 1
        /\ \A f : Has(new, f) <=> f = e \/ Has(rest, f)
    BY <2>3, <2>4, <2>5, InFrontIsLonger
  <2> HIDE DEF new
  <2>7. \A f : Has(es, f) /\ f.key = k => f = e
    BY <1>1, EntryIsTheOne DEF e
  <2>8. \A f : Has(new, f) <=> Has(es, f)
    BY <2>2, <2>4, <2>6, <2>7
  <2>9. Touched(lru, k) \in Lists /\ Touched(lru, k).entries = new
    BY <1>1, <2>1, <2>6 DEF Lists
  <2>10. Len(new) <= Size
    BY <1>1, <2>4, <2>6
  <2> QED
    BY <2>6, <2>8, <2>9, <2>10 DEF Sound, es
<1> QED
  BY <1>2, <1>3

\* The key that gives way to a new one.
Evicted(es, k) == IF k \notin Keys(es) /\ Len(es) = Size THEN Last(es).key ELSE k

LEMMA AddedIsSound ==
  ASSUME NEW lru, Sound(lru), NEW k \in Key, NEW v \in Value, now \in 0..MaxTime
  PROVE  LET entry == [key |-> k, value |-> v, expires |-> now + lru.ttl] IN
         /\ Sound(Added(lru, k, v))
         /\ entry \in Entry
         /\ \A e : Has(Added(lru, k, v).entries, e) <=>
              e = entry \/ (Has(lru.entries, e) /\ e.key \notin {k, Evicted(lru.entries, k)})
<1> DEFINE es == lru.entries
           entry == [key |-> k, value |-> v, expires |-> now + lru.ttl]
           rest == Without(es, k)
           new == <<entry>> \o rest
           kept == IF Len(new) > Size THEN Front(new) ELSE new
<1>1. lru \in Lists /\ lru.ttl \in TTL /\ es \in Seq(Entry) /\ OneEach(es) /\ Len(es) <= Size
  BY DEF Sound, Lists
<1>2. Added(lru, k, v) = [lru EXCEPT !.entries = kept]
  BY DEF Added
<1>3. entry \in Entry /\ entry.key = k
  <2>1. now + lru.ttl \in 0..(2 * MaxTime)
    <3>1. lru.ttl \in 1..MaxTime
      BY <1>1, TTLAssumption
    <3> HIDE DEF es, rest
    <3> QED
      BY <3>1, BoundsAssumption
  <2> QED
    BY <2>1 DEF Entry
<1> HIDE DEF es, entry, rest
<1>4. /\ rest \in Seq(Entry) /\ OneEach(rest)
      /\ Len(rest) = IF k \in Keys(es) THEN Len(es) - 1 ELSE Len(es)
      /\ \A f : Has(rest, f) <=> Has(es, f) /\ f.key # k
  BY <1>1, WithoutIsShorter DEF rest
<1>5. k \notin Keys(rest)
  BY <1>4, PlaceIsThere
<1>6. /\ new \in Seq(Entry) /\ OneEach(new) /\ Len(new) = Len(rest) + 1
      /\ \A f : Has(new, f) <=> f = entry \/ Has(rest, f)
  BY <1>3, <1>4, <1>5, InFrontIsLonger
<1>7. Size \in Nat /\ Size > 0 /\ Len(es) \in Nat
  BY <1>1, SizeAssumption
<1>8. CASE k \notin Keys(es) /\ Len(es) = Size
  <2>1. rest = es /\ Evicted(es, k) = Last(es).key
    BY <1>8 DEF rest, Without, Evicted
  <2>2. Last(new) = Last(es)
    <3>1. /\ Len(new) = Len(<<entry>>) + Len(es)
          /\ new[Len(<<entry>>) + Len(es)] = es[Len(<<entry>>) + Len(es) - Len(<<entry>>)]
      <4>1. <<entry>> \in Seq(Entry) /\ Len(<<entry>>) = 1
        BY <1>3
      <4> QED
        BY <1>1, <1>7, <1>8, <2>1, <4>1, ConcatProperties
    <3>2. Len(<<entry>>) = 1
      OBVIOUS
    <3> QED
      BY <1>7, <3>1, <3>2 DEF Last
  <2> HIDE DEF new
  <2>3. kept = Front(new) /\ Len(new) > 0 /\ Len(new) = Size + 1
    BY <1>4, <1>6, <1>7, <1>8
  <2>4. /\ kept \in Seq(Entry) /\ OneEach(kept) /\ Len(kept) = Size
        /\ \A f : Has(kept, f) <=> Has(new, f) /\ f.key # Last(new).key
    BY <1>6, <1>7, <2>3, FrontIsShorter
  <2> HIDE DEF kept
  <2>5. Last(es).key # k
    <3>1. Len(es) \in DOMAIN es
      BY <1>1, <1>7, <1>8
    <3> QED
      BY <1>8, <3>1 DEF Keys, Last
  <2>6. \A f : Has(kept, f) <=>
               f = entry \/ (Has(es, f) /\ f.key \notin {k, Evicted(es, k)})
    BY <1>3, <1>4, <1>6, <2>1, <2>2, <2>4, <2>5
  <2>7. Added(lru, k, v) \in Lists /\ Added(lru, k, v).entries = kept
    BY <1>1, <1>2, <2>4 DEF Lists
  <2> QED
    BY <1>3, <1>7, <2>4, <2>6, <2>7 DEF Sound, es, entry
<1>9. CASE ~(k \notin Keys(es) /\ Len(es) = Size)
  <2>1. Evicted(es, k) = k
    BY <1>9 DEF Evicted
  <2> HIDE DEF new
  <2>2. Len(new) <= Size /\ kept = new
    BY <1>1, <1>4, <1>6, <1>7, <1>9
  <2> HIDE DEF kept
  <2>3. \A f : Has(kept, f) <=>
               f = entry \/ (Has(es, f) /\ f.key \notin {k, Evicted(es, k)})
    BY <1>4, <1>6, <2>1, <2>2
  <2>4. Added(lru, k, v) \in Lists /\ Added(lru, k, v).entries = kept
    BY <1>1, <1>2, <1>6, <2>2 DEF Lists
  <2> QED
    BY <1>3, <1>6, <2>2, <2>3, <2>4 DEF Sound, es, entry
<1> QED
  BY <1>8, <1>9

-----------------------------------------------------------------------------
(* The invariant is kept.                                                  *)

LEMMA InvInit == Init => IInv
<1> SUFFICES ASSUME Init PROVE IInv
  OBVIOUS
<1>1. LRU = {} /\ lrus \in Seq(Lists)
  BY DEF Init, LRU
<1>2. Scalars
  BY BoundsAssumption DEF Init, Scalars, NoCall
<1>3. ListsOK
  BY <1>1 DEF ListsOK
<1>4. OwnersOK
  BY DEF Init, OwnersOK
<1>5. CallsOK
  BY DEF Init, CallsOK, NoCall
<1> QED
  BY <1>2, <1>3, <1>4, <1>5 DEF IInv

\* An LRU is a number, which None is not.
LEMMA LRUIsNumber ==
  ASSUME IInv
  PROVE  /\ Len(lrus) \in Nat
         /\ \A i \in LRU : i # None
         /\ Len(lrus) + 1 # None
BY NoneAssumption DEF IInv, ListsOK, LRU

LEMMA InstallStep ==
  ASSUME IInv, NEW ns \in Namespace, NEW ttl \in TTL, Install(ns, ttl)
  PROVE  /\ ListsOK'
         /\ Len(lrus') = Len(lrus) + 1
         /\ \A i \in LRU : lrus'[i] = lrus[i]
         /\ lrus'[Len(lrus')] = NewLRU(ttl)
         /\ data' \in [Namespace -> LRU' \cup {None}]
         /\ data' = [data EXCEPT ![ns] = Len(lrus')]
<1>1. lrus \in Seq(Lists) /\ \A i \in LRU : Sound(lrus[i])
  BY DEF IInv, ListsOK
<1>2. Sound(NewLRU(ttl)) /\ NewLRU(ttl) \in Lists
  BY NewIsSound DEF Sound
<1>3. lrus' = Append(lrus, NewLRU(ttl)) /\ data' = [data EXCEPT ![ns] = Len(lrus')]
  BY DEF Install
<1> DEFINE new == NewLRU(ttl)
<1> HIDE DEF new
<1>4. /\ lrus' \in Seq(Lists) /\ Len(lrus') = Len(lrus) + 1
      /\ \A i \in 1..Len(lrus) : lrus'[i] = lrus[i]
      /\ lrus'[Len(lrus) + 1] = new
  BY <1>1, <1>2, <1>3 DEF new
<1>5. Len(lrus) \in Nat
  BY <1>1
<1>6. \A i \in 1..Len(lrus') : Sound(lrus'[i])
  BY <1>1, <1>2, <1>4, <1>5 DEF LRU, new
<1>7. ListsOK'
  BY <1>4, <1>6 DEF ListsOK, LRU, Sound
<1>8. data' \in [Namespace -> LRU' \cup {None}]
  BY <1>3, <1>4, <1>5 DEF IInv, Scalars, LRU
<1> QED
  BY <1>3, <1>4, <1>7, <1>8 DEF LRU, new

LEMMA WorkStep ==
  ASSUME IInv, NEW i \in LRU, NEW lru, Sound(lru), lrus' = [lrus EXCEPT ![i] = lru]
  PROVE  /\ ListsOK'
         /\ LRU' = LRU
         /\ lrus'[i] = lru
         /\ \A j \in LRU \ {i} : lrus'[j] = lrus[j]
<1>1. lrus \in Seq(Lists) /\ \A j \in LRU : Sound(lrus[j])
  BY DEF IInv, ListsOK
<1>2. lru \in Lists
  BY DEF Sound
<1>3. /\ lrus' \in Seq(Lists) /\ Len(lrus') = Len(lrus) /\ lrus'[i] = lru
      /\ \A j \in LRU \ {i} : lrus'[j] = lrus[j]
  BY <1>1, <1>2 DEF LRU
<1>4. \A j \in 1..Len(lrus') : Sound(lrus'[j])
  BY <1>1, <1>3 DEF LRU
<1> QED
  BY <1>3, <1>4 DEF ListsOK, LRU, Sound

\* What holds of the owners when no LRU is added.
LEMMA WorkKeepsOwners ==
  ASSUME IInv, NEW i \in LRU, LRU' = LRU, UNCHANGED data,
         \A j \in LRU \ {i} : lrus'[j] = lrus[j],
         \A ns \in Namespace : data[ns] = i =>
            \A k \in Keys(lrus'[i].entries) : NsOf[k] = ns,
         \A c \in Client : held'[c] # None => held'[c] = held[c] /\ call'[c] = call[c]
  PROVE  OwnersOK'
<1> SUFFICES ASSUME NEW ns \in Namespace, data[ns] # None
             PROVE  /\ \A other \in Namespace : data[other] = data[ns] => other = ns
                    /\ \A k \in Keys(lrus'[data[ns]].entries) : NsOf[k] = ns
                    /\ \A c \in Client : held'[c] = data[ns] => NsOf[call'[c].key] = ns
  BY DEF OwnersOK, NsOfCall, Keys
<1>1. data[ns] \in LRU
  BY DEF IInv, Scalars
<1>2. /\ \A other \in Namespace : data[other] = data[ns] => other = ns
      /\ \A k \in Keys(lrus[data[ns]].entries) : NsOf[k] = ns
      /\ \A c \in Client : held[c] = data[ns] => NsOfCall(c) = ns
  BY DEF IInv, OwnersOK
<1>3. \A k \in Keys(lrus'[data[ns]].entries) : NsOf[k] = ns
  BY <1>1, <1>2
<1>4. \A c \in Client : held'[c] = data[ns] => NsOf[call'[c].key] = ns
  BY <1>2 DEF NsOfCall
<1> QED
  BY <1>2, <1>3, <1>4

LEMMA TickKeeps == IInv /\ Tick => IInv'
<1> SUFFICES ASSUME IInv, Tick PROVE IInv'
  OBVIOUS
<1>1. /\ LRU' = LRU /\ Scalars'
  BY BoundsAssumption DEF IInv, Scalars, Tick, LRU
<1>2. ListsOK'
  BY DEF IInv, ListsOK, Tick, LRU
<1>3. OwnersOK' /\ CallsOK'
  BY DEF IInv, OwnersOK, CallsOK, Tick, NsOfCall, Keys
<1> QED
  BY <1>1, <1>2, <1>3 DEF IInv

LEMMA ReapIsWork ==
  ASSUME IInv, NEW i \in LRU, NEW k \in Keys(lrus[i].entries),
         lrus' = [lrus EXCEPT ![i].entries = Without(@, k)]
  PROVE  \E lru :
           /\ Sound(lru)
           /\ lrus' = [lrus EXCEPT ![i] = lru]
           /\ \A e : Has(lru.entries, e) <=> Has(lrus[i].entries, e) /\ e.key # k
<1> DEFINE es == lrus[i].entries
           lru == [lrus[i] EXCEPT !.entries = Without(es, k)]
<1>1. Sound(lrus[i])
  BY DEF IInv, ListsOK
<1>2. lrus[i] \in Lists /\ es \in Seq(Entry) /\ OneEach(es) /\ Len(es) <= Size
  BY <1>1 DEF Sound, Lists
<1>3. lrus' = [lrus EXCEPT ![i] = lru]
  BY <1>2
<1> HIDE DEF es
<1>4. /\ Without(es, k) \in Seq(Entry) /\ OneEach(Without(es, k))
      /\ \A e : Has(Without(es, k), e) <=> Has(es, e) /\ e.key # k
      /\ Len(Without(es, k)) <= Len(es)
  BY <1>2, WithoutIsShorter
<1>5. Len(Without(es, k)) <= Size
  BY <1>2, <1>4, SizeAssumption
<1>6. lru \in Lists /\ lru.entries = Without(es, k)
  BY <1>2, <1>4 DEF Lists
<1>7. Sound(lru)
  BY <1>4, <1>5, <1>6 DEF Sound
<1>8. \A e : Has(lru.entries, e) <=> Has(es, e) /\ e.key # k
  BY <1>4, <1>6
<1> HIDE DEF lru
<1> QED
  BY <1>3, <1>7, <1>8 DEF es

\* A key in a list is the key of an entry it has.
LEMMA KeysHave ==
  ASSUME NEW es, NEW fs, \A e : Has(es, e) => Has(fs, e)
  PROVE  Keys(es) \subseteq Keys(fs)
<1> SUFFICES ASSUME NEW k \in Keys(es) PROVE k \in Keys(fs)
  OBVIOUS
<1>1. Has(fs, EntryOf(es, k)) /\ EntryOf(es, k).key = k
  BY PlaceIsThere
<1> QED
  BY <1>1 DEF Has, Keys

LEMMA ReapKeeps == IInv /\ Reap => IInv'
<1> SUFFICES ASSUME IInv, Reap PROVE IInv'
  OBVIOUS
<1>1. PICK i \in LRU : \E k \in Keys(lrus[i].entries) :
        lrus' = [lrus EXCEPT ![i].entries = Without(@, k)]
  BY DEF Reap
<1>2. PICK k \in Keys(lrus[i].entries) :
        lrus' = [lrus EXCEPT ![i].entries = Without(@, k)]
  BY <1>1
<1>3. PICK lru : /\ Sound(lru)
                 /\ lrus' = [lrus EXCEPT ![i] = lru]
                 /\ \A e : Has(lru.entries, e) <=> Has(lrus[i].entries, e) /\ e.key # k
  BY <1>2, ReapIsWork
<1>4. /\ ListsOK' /\ LRU' = LRU /\ lrus'[i] = lru
      /\ \A j \in LRU \ {i} : lrus'[j] = lrus[j]
  BY <1>3, WorkStep
<1>5. UNCHANGED <<now, defaultTTL, data, resets, pc, call, held, found>>
  BY DEF Reap
<1>6. \A ns \in Namespace : data[ns] = i => \A x \in Keys(lrus'[i].entries) : NsOf[x] = ns
  <2>1. Keys(lru.entries) \subseteq Keys(lrus[i].entries)
    BY <1>3, KeysHave
  <2>2. \A ns \in Namespace : data[ns] = i => \A x \in Keys(lrus[i].entries) : NsOf[x] = ns
    BY LRUIsNumber DEF IInv, OwnersOK
  <2> QED
    BY <1>4, <2>1, <2>2
<1>7. OwnersOK'
  BY <1>4, <1>5, <1>6, WorkKeepsOwners
<1>8. Scalars' /\ CallsOK'
  BY <1>4, <1>5 DEF IInv, Scalars, CallsOK
<1> QED
  BY <1>4, <1>7, <1>8 DEF IInv

LEMMA BeginKeeps == ASSUME IInv, NEW c \in Client, Begin(c) PROVE IInv'
<1>1. PICK k \in Key, v \in Value \cup {None} :
        call' = [call EXCEPT ![c] = [key |-> k, value |-> v]]
  BY DEF Begin
<1>2. /\ pc[c] = "idle" /\ pc' = [pc EXCEPT ![c] = "lookup"]
      /\ found' = [found EXCEPT ![c] = None]
      /\ UNCHANGED <<now, defaultTTL, data, lrus, resets, held>>
  BY DEF Begin
<1>3. LRU' = LRU /\ ListsOK'
  BY <1>2 DEF IInv, ListsOK, LRU
<1>4. Scalars'
  BY <1>1, <1>2, <1>3 DEF IInv, Scalars
<1>5. held[c] = None
  BY <1>2 DEF IInv, CallsOK
<1>6. OwnersOK'
  BY <1>1, <1>2, <1>5 DEF IInv, Scalars, OwnersOK, NsOfCall, Keys
<1>7. CallsOK'
  BY <1>1, <1>2, <1>5, NoneAssumption DEF IInv, Scalars, CallsOK
<1> QED
  BY <1>3, <1>4, <1>6, <1>7 DEF IInv

\* A goroutine that is calling has a key.
LEMMA Calling ==
  ASSUME IInv, NEW c \in Client, pc[c] # "idle"
  PROVE  call[c].key \in Key /\ NsOfCall(c) \in Namespace
BY KeyAssumption DEF IInv, Scalars, CallsOK, NsOfCall

LEMMA LookupKeeps == ASSUME IInv, NEW c \in Client, Lookup(c) PROVE IInv'
<1>1. pc[c] = "lookup" /\ NsOfCall(c) \in Namespace
  BY Calling DEF Lookup
<1>2. LRU' = LRU /\ ListsOK'
  BY DEF IInv, ListsOK, LRU, Lookup
<1>3. Scalars'
  BY <1>1, <1>2 DEF IInv, Scalars, Lookup
<1>4. OwnersOK'
  <2> SUFFICES ASSUME NEW ns \in Namespace, data[ns] # None
               PROVE  \A d \in Client : held'[d] = data[ns] => NsOfCall(d) = ns
    BY DEF IInv, OwnersOK, NsOfCall, Keys, Lookup
  <2>1. held' = [held EXCEPT ![c] = data[NsOfCall(c)]] /\ held \in [Client -> LRU \cup {None}]
    BY DEF Lookup, IInv, Scalars
  <2> QED
    BY <1>1, <2>1 DEF IInv, OwnersOK
<1>5. CallsOK'
  BY <1>1, <1>3 DEF IInv, Scalars, CallsOK, Lookup
<1> QED
  BY <1>2, <1>3, <1>4, <1>5 DEF IInv

\* Installing an LRU that nobody holds yet.
LEMMA InstallKeepsOwners ==
  ASSUME IInv, NEW ns \in Namespace, NEW ttl \in TTL, Install(ns, ttl), UNCHANGED call,
         \A c \in Client : held'[c] # held[c] => held'[c] = Len(lrus') /\ NsOfCall(c) = ns
  PROVE  OwnersOK'
<1> DEFINE new == Len(lrus')
<1>1. /\ Len(lrus') = Len(lrus) + 1
      /\ \A i \in LRU : lrus'[i] = lrus[i]
      /\ lrus'[new] = NewLRU(ttl)
      /\ data' = [data EXCEPT ![ns] = new]
  BY InstallStep
<1>2. new \notin LRU /\ new # None /\ data \in [Namespace -> LRU \cup {None}]
  BY <1>1, LRUIsNumber DEF LRU, IInv, Scalars
<1>3. held \in [Client -> LRU \cup {None}] /\ None \notin LRU
  BY LRUIsNumber DEF IInv, Scalars
<1>4. Keys(lrus'[new].entries) = {}
  BY <1>1, NewIsSound DEF Keys
<1> HIDE DEF new
<1> SUFFICES ASSUME NEW n \in Namespace, data'[n] # None
             PROVE  /\ \A other \in Namespace : data'[other] = data'[n] => other = n
                    /\ \A k \in Keys(lrus'[data'[n]].entries) : NsOf[k] = n
                    /\ \A c \in Client : held'[c] = data'[n] => NsOfCall(c) = n
  BY DEF OwnersOK, NsOfCall, Keys
<1>5. CASE n = ns
  <2>1. data'[n] = new
    BY <1>1, <1>2, <1>5
  <2>2. \A other \in Namespace : data'[other] = new => other = n
    BY <1>1, <1>2, <1>5
  <2>3. \A c \in Client : held'[c] = new => NsOfCall(c) = n
    BY <1>2, <1>3, <1>5
  <2> QED
    BY <1>4, <2>1, <2>2, <2>3
<1>6. CASE n # ns
  <2>1. data'[n] = data[n] /\ data[n] \in LRU
    BY <1>1, <1>2, <1>6
  <2>2. /\ \A other \in Namespace : data[other] = data[n] => other = n
        /\ \A k \in Keys(lrus[data[n]].entries) : NsOf[k] = n
        /\ \A c \in Client : held[c] = data[n] => NsOfCall(c) = n
    BY <2>1, <1>3 DEF IInv, OwnersOK
  <2>3. \A other \in Namespace : data'[other] = data[n] => other = n
    BY <1>1, <1>2, <2>1, <2>2
  <2>4. \A c \in Client : held'[c] = data[n] => NsOfCall(c) = n
    BY <1>2, <2>1, <2>2 DEF new
  <2>5. lrus'[data[n]] = lrus[data[n]]
    BY <1>1, <2>1
  <2> QED
    BY <2>1, <2>2, <2>3, <2>4, <2>5
<1> QED
  BY <1>5, <1>6

LEMMA CreateKeeps == ASSUME IInv, NEW c \in Client, Create(c) PROVE IInv'
<1>1. /\ pc[c] = "create" /\ NsOfCall(c) \in Namespace
      /\ held' = [held EXCEPT ![c] = data'[NsOfCall(c)]]
      /\ pc' = [pc EXCEPT ![c] = "use"]
      /\ UNCHANGED <<now, defaultTTL, resets, call, found>>
  BY Calling DEF Create
<1>2. held[c] = None /\ held \in [Client -> LRU \cup {None}] /\ defaultTTL \in TTL
  BY <1>1 DEF IInv, Scalars, CallsOK
<1>3. CASE data[NsOfCall(c)] # None /\ UNCHANGED <<data, lrus>>
  <2>1. LRU' = LRU /\ ListsOK'
    BY <1>3 DEF IInv, ListsOK, LRU
  <2>2. Scalars' /\ CallsOK'
    BY <1>1, <1>3, <2>1 DEF IInv, Scalars, CallsOK
  <2>3. OwnersOK'
    <3> SUFFICES ASSUME NEW ns \in Namespace, data[ns] # None
                 PROVE  \A d \in Client : held'[d] = data[ns] => NsOfCall(d) = ns
      BY <1>1, <1>3 DEF IInv, OwnersOK, NsOfCall, Keys
    <3> QED
      BY <1>1, <1>2, <1>3 DEF IInv, OwnersOK
  <2> QED
    BY <2>1, <2>2, <2>3 DEF IInv
<1>4. CASE data[NsOfCall(c)] = None /\ Install(NsOfCall(c), defaultTTL)
  <2>1. /\ ListsOK'
        /\ Len(lrus') = Len(lrus) + 1
        /\ data' \in [Namespace -> LRU' \cup {None}]
        /\ data' = [data EXCEPT ![NsOfCall(c)] = Len(lrus')]
    BY <1>1, <1>2, <1>4, InstallStep
  <2>2. data'[NsOfCall(c)] = Len(lrus') /\ Len(lrus') # None /\ Len(lrus) \in Nat
    BY <1>1, <2>1, LRUIsNumber DEF IInv, Scalars
  <2>3. Len(lrus') \in LRU' /\ LRU \subseteq LRU'
    BY <2>1, <2>2 DEF LRU
  <2>4. OwnersOK'
    BY <1>1, <1>2, <1>4, <2>2, InstallKeepsOwners
  <2>5. Scalars'
    BY <1>1, <1>2, <2>1, <2>2, <2>3 DEF IInv, Scalars
  <2>6. CallsOK'
    BY <1>1, <1>2, <2>2 DEF IInv, Scalars, CallsOK
  <2> QED
    BY <2>1, <2>4, <2>5, <2>6 DEF IInv
<1> QED
  BY <1>3, <1>4 DEF Create

\* What a call that works on its LRU has at hand.
LEMMA Using ==
  ASSUME IInv, NEW c \in Client, Return(c)
  PROVE  /\ held[c] \in LRU /\ held[c] # None /\ Sound(lrus[held[c]])
         /\ call[c].key \in Key /\ call[c].value \in Value \cup {None}
         /\ now \in 0..MaxTime
         /\ NsOfCall(c) \in Namespace
BY Calling DEF IInv, Scalars, CallsOK, ListsOK, Return

\* A call is answered after it has worked on its LRU.
LEMMA UseKeeps ==
  ASSUME IInv, NEW c \in Client, Return(c), NEW lru, Sound(lru),
         lrus' = [lrus EXCEPT ![held[c]] = lru],
         Keys(lru.entries) \subseteq Keys(lrus[held[c]].entries) \cup {call[c].key},
         found' \in [Client -> Value \cup {None}],
         UNCHANGED <<now, defaultTTL, data, resets>>
  PROVE  IInv'
<1>1. /\ held[c] \in LRU /\ held[c] # None /\ call[c].key \in Key
  BY Using
<1>2. /\ ListsOK' /\ LRU' = LRU /\ lrus'[held[c]] = lru
      /\ \A j \in LRU \ {held[c]} : lrus'[j] = lrus[j]
  BY <1>1, WorkStep
<1>3. /\ pc' = [pc EXCEPT ![c] = "idle"]
      /\ call' = [call EXCEPT ![c] = NoCall]
      /\ held' = [held EXCEPT ![c] = None]
  BY DEF Return
<1>4. /\ pc \in [Client -> {"idle", "lookup", "create", "use"}]
      /\ call \in [Client -> [key : Key \cup {None}, value : Value \cup {None}]]
      /\ held \in [Client -> LRU \cup {None}]
  BY DEF IInv, Scalars
<1>5. \A ns \in Namespace : data[ns] = held[c] =>
         \A k \in Keys(lrus'[held[c]].entries) : NsOf[k] = ns
  <2> SUFFICES ASSUME NEW ns \in Namespace, data[ns] = held[c],
                      NEW k \in Keys(lru.entries)
               PROVE  NsOf[k] = ns
    BY <1>2
  <2>1. /\ \A x \in Keys(lrus[held[c]].entries) : NsOf[x] = ns
        /\ NsOfCall(c) = ns
    BY <1>1 DEF IInv, OwnersOK
  <2> QED
    BY <2>1 DEF NsOfCall
<1>6. \A d \in Client : held'[d] # None => held'[d] = held[d] /\ call'[d] = call[d]
  BY <1>3, <1>4
<1>7. OwnersOK'
  BY <1>1, <1>2, <1>5, <1>6, WorkKeepsOwners
<1>8. Scalars'
  <2>1. NoCall \in [key : Key \cup {None}, value : Value \cup {None}]
    BY DEF NoCall
  <2> QED
    BY <1>2, <1>3, <1>4, <2>1 DEF IInv, Scalars
<1>9. CallsOK'
  BY <1>3, <1>4 DEF IInv, CallsOK, NoCall
<1> QED
  BY <1>2, <1>7, <1>8, <1>9 DEF IInv

LEMMA GetKeeps == ASSUME IInv, NEW c \in Client, Get(c) PROVE IInv'
<1> DEFINE lru == lrus[held[c]]
           k == call[c].key
<1>1. /\ Return(c)
      /\ lrus' = [lrus EXCEPT ![held[c]] = Touched(lru, k)]
      /\ found' = [found EXCEPT ![c] =
             IF Hit(lru, k) THEN EntryOf(lru.entries, k).value ELSE None]
      /\ UNCHANGED <<now, defaultTTL, data, resets>>
  BY DEF Get
<1>2. Sound(lru) /\ k \in Key
  BY <1>1, Using
<1> HIDE DEF lru, k
<1>3. /\ Sound(Touched(lru, k))
      /\ \A e : Has(Touched(lru, k).entries, e) <=> Has(lru.entries, e)
  BY <1>2, TouchedIsSound
<1>4. Keys(Touched(lru, k).entries) \subseteq Keys(lru.entries)
  BY <1>3, KeysHave
<1>5. Hit(lru, k) => EntryOf(lru.entries, k).value \in Value
  <2> SUFFICES ASSUME k \in Keys(lru.entries)
               PROVE  EntryOf(lru.entries, k) \in Entry
    BY DEF Hit, Entry
  <2>1. Has(lru.entries, EntryOf(lru.entries, k)) /\ lru.entries \in Seq(Entry)
    BY <1>2, PlaceIsThere DEF Sound, Lists
  <2> QED
    BY <2>1 DEF Has
<1>6. found' \in [Client -> Value \cup {None}]
  BY <1>1, <1>5 DEF IInv, Scalars
<1>7. Keys(Touched(lru, k).entries) \subseteq Keys(lrus[held[c]].entries) \cup {call[c].key}
  BY <1>4 DEF lru
<1> QED
  BY <1>1, <1>3, <1>6, <1>7, UseKeeps

LEMMA AddIsWork ==
  ASSUME IInv, NEW c \in Client, Add(c)
  PROVE  LET lru == Added(lrus[held[c]], call[c].key, call[c].value)
             old == lrus[held[c]].entries
             k == call[c].key
             entry == [key |-> k, value |-> call[c].value,
                       expires |-> now + lrus[held[c]].ttl]
         IN  /\ Return(c)
             /\ Sound(lru)
             /\ lrus' = [lrus EXCEPT ![held[c]] = lru]
             /\ entry \in Entry
             /\ \A e : Has(lru.entries, e) <=>
                         e = entry \/ (Has(old, e) /\ e.key \notin {k, Evicted(old, k)})
<1>1. /\ Return(c) /\ call[c].value # None
      /\ lrus' = [lrus EXCEPT ![held[c]] =
                    Added(lrus[held[c]], call[c].key, call[c].value)]
  BY DEF Add
<1>2. /\ Sound(lrus[held[c]]) /\ call[c].key \in Key /\ call[c].value \in Value
      /\ now \in 0..MaxTime
  BY <1>1, Using
<1> QED
  BY <1>1, <1>2, AddedIsSound

LEMMA AddKeeps == ASSUME IInv, NEW c \in Client, Add(c) PROVE IInv'
<1> DEFINE old == lrus[held[c]].entries
           k == call[c].key
           lru == Added(lrus[held[c]], k, call[c].value)
           entry == [key |-> k, value |-> call[c].value, expires |-> now + lrus[held[c]].ttl]
<1>1. /\ Return(c)
      /\ Sound(lru)
      /\ lrus' = [lrus EXCEPT ![held[c]] = lru]
      /\ \A e : Has(lru.entries, e) <=>
                  e = entry \/ (Has(old, e) /\ e.key \notin {k, Evicted(old, k)})
  BY AddIsWork
<1>2. /\ UNCHANGED <<now, defaultTTL, data, resets, found>> /\ entry.key = k
  BY DEF Add
<1> HIDE DEF lru, entry, old
<1>3. Keys(lru.entries) \subseteq Keys(old) \cup {k}
  <2> SUFFICES ASSUME NEW x \in Keys(lru.entries), x # k PROVE x \in Keys(old)
    OBVIOUS
  <2>1. Has(lru.entries, EntryOf(lru.entries, x)) /\ EntryOf(lru.entries, x).key = x
    BY PlaceIsThere
  <2>2. Has(old, EntryOf(lru.entries, x))
    BY <1>1, <1>2, <2>1
  <2> QED
    BY <2>1, <2>2 DEF Has, Keys
<1>4. found' \in [Client -> Value \cup {None}]
  BY <1>2 DEF IInv, Scalars
<1>5. Keys(lru.entries) \subseteq Keys(lrus[held[c]].entries) \cup {call[c].key}
  BY <1>3 DEF old
<1> QED
  BY <1>1, <1>2, <1>4, <1>5, UseKeeps

LEMMA NamespaceTTLKeeps == ASSUME IInv, NEW ns \in Namespace, NamespaceTTL(ns) PROVE IInv'
<1>1. /\ resets < MaxResets /\ resets' = resets + 1
      /\ UNCHANGED <<now, defaultTTL, pc, call, held, found>>
  BY DEF NamespaceTTL
<1>2. resets' \in 0..MaxResets
  BY <1>1, BoundsAssumption DEF IInv, Scalars
<1>3. CallsOK'
  BY <1>1 DEF IInv, CallsOK
<1>4. CASE data' = [data EXCEPT ![ns] = None] /\ UNCHANGED lrus
  <2>1. LRU' = LRU /\ ListsOK'
    BY <1>4 DEF IInv, ListsOK, LRU
  <2>2. Scalars'
    BY <1>1, <1>2, <1>4, <2>1 DEF IInv, Scalars
  <2>3. OwnersOK'
    BY <1>1, <1>4 DEF IInv, Scalars, OwnersOK, NsOfCall, Keys
  <2> QED
    BY <1>3, <2>1, <2>2, <2>3 DEF IInv
<1>5. ASSUME NEW ttl \in TTL, Install(ns, ttl)
      PROVE  IInv'
  <2>1. /\ ListsOK'
        /\ Len(lrus') = Len(lrus) + 1
        /\ data' \in [Namespace -> LRU' \cup {None}]
    BY <1>5, InstallStep
  <2>2. LRU \subseteq LRU'
    BY <2>1, LRUIsNumber DEF LRU
  <2>3. OwnersOK'
    BY <1>1, <1>5, InstallKeepsOwners
  <2>4. Scalars'
    BY <1>1, <1>2, <2>1, <2>2 DEF IInv, Scalars
  <2> QED
    BY <1>3, <2>1, <2>3, <2>4 DEF IInv
<1> QED
  BY <1>4, <1>5 DEF NamespaceTTL

LEMMA Stutters == IInv /\ UNCHANGED vars => IInv'
<1> SUFFICES ASSUME IInv, UNCHANGED vars PROVE IInv'
  OBVIOUS
<1>1. LRU' = LRU /\ Scalars' /\ ListsOK'
  BY DEF IInv, Scalars, ListsOK, LRU, vars
<1>2. OwnersOK' /\ CallsOK'
  BY DEF IInv, OwnersOK, CallsOK, NsOfCall, Keys, vars
<1> QED
  BY <1>1, <1>2 DEF IInv

LEMMA InvNext == IInv /\ [Next]_vars => IInv'
<1> SUFFICES ASSUME IInv, [Next]_vars PROVE IInv'
  OBVIOUS
<1>1. CASE Tick
  BY <1>1, TickKeeps
<1>2. CASE Reap
  BY <1>2, ReapKeeps
<1>3. CASE \E ns \in Namespace : NamespaceTTL(ns)
  BY <1>3, NamespaceTTLKeeps
<1>4. ASSUME NEW c \in Client, Begin(c) \/ Lookup(c) \/ Create(c) \/ Get(c) \/ Add(c)
      PROVE  IInv'
  BY <1>4, BeginKeeps, LookupKeeps, CreateKeeps, GetKeeps, AddKeeps
<1>5. CASE UNCHANGED vars
  BY <1>5, Stutters
<1> QED
  BY <1>1, <1>2, <1>3, <1>4, <1>5 DEF Next

\* The invariant holds in every state the storage can be in.
THEOREM Inductive == Spec => []IInv
BY InvInit, InvNext, PTL DEF Spec

\* The state keeps its types and an LRU has one entry per key, however many goroutines
\* look up, create, use and replace the LRUs of any namespaces (LRUStorage, lru.go).
THEOREM TypeCorrect == Spec => []TypeOK
BY Inductive, InvTypes, PTL

-----------------------------------------------------------------------------
(* The atomic map: what the steps do to what is stored.                    *)

LEMMA StoredIsEntry ==
  ASSUME NEW es \in Seq(Entry), OneEach(es), NEW e, Has(es, e)
  PROVE  /\ Stored(es, e.key) = [value |-> e.value, expires |-> e.expires]
         /\ Stored(es, e.key) # None
         /\ Stored(es, e.key).value = e.value /\ Stored(es, e.key).expires = e.expires
<1>1. e.key \in Keys(es) /\ EntryOf(es, e.key) = e
  BY EntryIsTheOne
<1>2. Stored(es, e.key) = [value |-> e.value, expires |-> e.expires]
  BY <1>1 DEF Stored
<1>3. e \in Entry
  BY DEF Has
<1>4. e.value \in Value /\ e.expires \in 0..(2 * MaxTime)
  BY <1>3 DEF Entry
<1>5. [value |-> e.value, expires |-> e.expires] # None
  BY <1>4, NoneAssumption
<1> QED
  BY <1>2, <1>5

LEMMA StoredOrNot ==
  ASSUME NEW es \in Seq(Entry), OneEach(es), NEW k
  PROVE  Stored(es, k) # None <=> k \in Keys(es)
<1>1. CASE k \in Keys(es)
  <2> DEFINE e == EntryOf(es, k)
  <2>1. e.key = k /\ Has(es, e)
    BY <1>1, PlaceIsThere
  <2> HIDE DEF e
  <2>2. Stored(es, e.key) # None
    BY <2>1, StoredIsEntry
  <2> QED
    BY <1>1, <2>1, <2>2
<1>2. CASE k \notin Keys(es)
  BY <1>2 DEF Stored
<1> QED
  BY <1>1, <1>2

LEMMA LiveIsSound ==
  ASSUME IInv, NEW ns \in Namespace
  PROVE  /\ Live(ns) \in Seq(Entry) /\ OneEach(Live(ns)) /\ Len(Live(ns)) <= Size
         /\ \A k \in Keys(Live(ns)) : NsOf[k] = ns
<1>1. CASE data[ns] = None
  <2>1. Live(ns) = <<>>
    BY <1>1 DEF Live
  <2>2. <<>> \in Seq(Entry) /\ Len(<<>>) = 0 /\ OneEach(<<>>) /\ Keys(<<>>) = {}
    BY DEF OneEach, Keys
  <2> QED
    BY <2>1, <2>2, SizeAssumption
<1>2. CASE data[ns] # None
  <2>1. data[ns] \in LRU /\ Live(ns) = lrus[data[ns]].entries
    BY <1>2 DEF IInv, Scalars, Live
  <2>2. Sound(lrus[data[ns]])
    BY <2>1 DEF IInv, ListsOK
  <2> QED
    BY <1>2, <2>1, <2>2 DEF Sound, Lists, IInv, OwnersOK
<1> QED
  BY <1>1, <1>2

LEMMA SameStore ==
  UNCHANGED <<data, lrus>> => storeBar' = storeBar
BY DEF storeBar, Live

\* A step that works on one LRU changes what is stored under the keys of its namespace.
LEMMA WorkStores ==
  ASSUME IInv, NEW i \in LRU, UNCHANGED data, \A j \in LRU \ {i} : lrus'[j] = lrus[j],
         NEW k \in Key
  PROVE  /\ data[NsOf[k]] = i => /\ storeBar[k] = Stored(lrus[i].entries, k)
                                 /\ storeBar'[k] = Stored(lrus'[i].entries, k)
         /\ data[NsOf[k]] # i => storeBar'[k] = storeBar[k]
<1>1. /\ storeBar[k] = Stored(Live(NsOf[k]), k)
      /\ storeBar'[k] = Stored(Live(NsOf[k])', k)
  BY DEF storeBar, Live
<1>2. NsOf[k] \in Namespace /\ data[NsOf[k]] \in LRU \cup {None}
  BY KeyAssumption DEF IInv, Scalars
<1>3. i # None
  BY LRUIsNumber
<1> DEFINE ns == NsOf[k]
<1> HIDE DEF ns
<1>4. data[ns] = i => Live(ns) = lrus[i].entries /\ Live(ns)' = lrus'[i].entries
  BY <1>3 DEF Live
<1>5. data[ns] # i /\ data[ns] \in LRU \cup {None} => Live(ns)' = Live(ns)
  BY DEF Live
<1> QED
  BY <1>1, <1>2, <1>4, <1>5 DEF ns

\* Nothing that is stored is in an LRU that no namespace has.
LEMMA DeadIsNotStored ==
  ASSUME IInv, NEW i \in LRU, UNCHANGED data, \A j \in LRU \ {i} : lrus'[j] = lrus[j],
         \A ns \in Namespace : data[ns] # i
  PROVE  storeBar' = storeBar
<1>1. \A k \in Key : storeBar'[k] = storeBar[k]
  BY WorkStores, KeyAssumption
<1> QED
  BY <1>1 DEF storeBar

\* A step that leaves an LRU with the same entries leaves what is stored.
LEMMA SameEntries ==
  ASSUME IInv, NEW i \in LRU, UNCHANGED data, \A j \in LRU \ {i} : lrus'[j] = lrus[j],
         OneEach(lrus[i].entries), OneEach(lrus'[i].entries),
         \A e : Has(lrus'[i].entries, e) <=> Has(lrus[i].entries, e)
  PROVE  storeBar' = storeBar
<1>1. \A k \in Key : Stored(lrus'[i].entries, k) = Stored(lrus[i].entries, k)
  BY SameStored
<1>2. \A k \in Key : storeBar'[k] = storeBar[k]
  BY <1>1, WorkStores
<1> QED
  BY <1>2 DEF storeBar

LEMMA SameCalls ==
  UNCHANGED <<data, call, held>> => UNCHANGED <<callBar, overtakenBar>>
BY DEF callBar, overtakenBar, Overtaken, NsOfCall

-----------------------------------------------------------------------------
(* The atomic map: its steps.                                              *)

LEMMA InitRefines == Init => Abstract!Init
<1> SUFFICES ASSUME Init PROVE Abstract!Init
  OBVIOUS
<1>1. storeBar = [k \in Key |-> None]
  <2>1. \A k \in Key : Live(NsOf[k]) = <<>>
    BY KeyAssumption DEF Init, Live
  <2>2. \A k \in Key : Stored(<<>>, k) = None
    BY DEF Stored, Keys
  <2> QED
    BY <2>1, <2>2 DEF storeBar
<1>2. callBar = [c \in Client |-> None]
  BY DEF Init, callBar, NoCall
<1>3. overtakenBar = [c \in Client |-> FALSE]
  BY DEF Init, overtakenBar, Overtaken
<1> QED
  BY <1>1, <1>2, <1>3 DEF Init, Abstract!Init

LEMMA TickRefines == Tick => Abstract!Tick
BY SameStore, SameCalls DEF Tick, Abstract!Tick

LEMMA ReapRefines == IInv /\ Reap => Abstract!Expire \/ UNCHANGED Abstract!cacheVars
<1> SUFFICES ASSUME IInv, Reap
             PROVE  Abstract!Expire \/ UNCHANGED Abstract!cacheVars
  OBVIOUS
<1>1. PICK i \in LRU : \E k \in Keys(lrus[i].entries) :
        /\ Expired(EntryOf(lrus[i].entries, k))
        /\ lrus' = [lrus EXCEPT ![i].entries = Without(@, k)]
  BY DEF Reap
<1> DEFINE es == lrus[i].entries
<1>2. PICK k \in Keys(es) :
        /\ Expired(EntryOf(es, k))
        /\ lrus' = [lrus EXCEPT ![i].entries = Without(@, k)]
  BY <1>1
<1>3. PICK lru : /\ Sound(lru)
                 /\ lrus' = [lrus EXCEPT ![i] = lru]
                 /\ \A e : Has(lru.entries, e) <=> Has(es, e) /\ e.key # k
  BY <1>2, ReapIsWork
<1>4. /\ lrus'[i] = lru /\ \A j \in LRU \ {i} : lrus'[j] = lrus[j]
  BY <1>3, WorkStep
<1>5. UNCHANGED <<now, defaultTTL, data, resets, pc, call, held, found>>
  BY DEF Reap
<1>6. UNCHANGED <<now, resets, callBar, overtakenBar, found>>
  BY <1>5, SameCalls
<1>7. CASE \A ns \in Namespace : data[ns] # i
  <2>1. storeBar' = storeBar
    BY <1>4, <1>5, <1>7, DeadIsNotStored
  <2> QED
    BY <1>6, <2>1 DEF Abstract!cacheVars
<1>8. ASSUME NEW ns \in Namespace, data[ns] = i
      PROVE  Abstract!Expire
  <2>1. es \in Seq(Entry) /\ OneEach(es) /\ \A x \in Keys(es) : NsOf[x] = ns
    <3>1. es = Live(ns)
      BY <1>8, LRUIsNumber DEF Live
    <3> QED
      BY <3>1, LiveIsSound
  <2> DEFINE entry == EntryOf(es, k)
  <2>2. entry.key = k /\ Has(es, entry) /\ now > entry.expires
    BY <1>2, PlaceIsThere DEF Expired
  <2>3. k \in Key
    <3>1. entry \in Entry
      BY <2>1, <2>2 DEF Has
    <3> QED
      BY <2>2, <3>1 DEF Entry
  <2> HIDE DEF entry
  <2>4. /\ storeBar[k] = Stored(es, k)
        /\ storeBar'[k] = Stored(lru.entries, k)
    BY <1>2, <1>4, <1>5, <1>8, <2>1, <2>3, WorkStores
  <2>5. storeBar[k] # None /\ now > storeBar[k].expires
    <3>1. Stored(es, entry.key) # None /\ Stored(es, entry.key).expires = entry.expires
      BY <2>1, <2>2, StoredIsEntry
    <3> QED
      BY <2>2, <2>4, <3>1
  <2>6. storeBar'[k] = None
    <3>1. k \notin Keys(lru.entries)
      BY <1>3, PlaceIsThere
    <3> QED
      BY <2>4, <3>1 DEF Stored
  <2>7. ASSUME NEW x \in Key, x # k
        PROVE  storeBar'[x] = storeBar[x]
    <3>1. Stored(lru.entries, x) = Stored(es, x)
      BY <1>3, <2>1, <2>7, SameStored DEF Sound
    <3> QED
      BY <1>4, <1>5, <3>1, WorkStores
  <2>8. storeBar' = [storeBar EXCEPT ![k] = None]
    BY <2>3, <2>6, <2>7 DEF storeBar
  <2> QED
    BY <1>6, <2>3, <2>5, <2>8 DEF Abstract!Expire
<1> QED
  BY <1>7, <1>8

LEMMA BeginRefines == ASSUME IInv, NEW c \in Client, Begin(c) PROVE Abstract!Begin(c)
<1>1. PICK k \in Key, v \in Value \cup {None} :
        call' = [call EXCEPT ![c] = [key |-> k, value |-> v]]
  BY DEF Begin
<1>2. pc[c] = "idle" /\ found' = [found EXCEPT ![c] = None]
      /\ UNCHANGED <<now, data, lrus, resets, held>>
  BY DEF Begin
<1>3. call[c].key = None /\ held[c] = None
  BY <1>2 DEF IInv, CallsOK
<1>4. callBar[c] = None /\ callBar' = [callBar EXCEPT ![c] = k]
  BY <1>1, <1>3 DEF callBar, IInv, Scalars
<1>5. overtakenBar' = overtakenBar
  BY <1>1, <1>2, <1>3 DEF overtakenBar, Overtaken, NsOfCall, IInv, Scalars
<1>6. storeBar' = storeBar
  BY <1>2, SameStore
<1> QED
  BY <1>2, <1>4, <1>5, <1>6 DEF Abstract!Begin

LEMMA LookupRefines ==
  ASSUME IInv, NEW c \in Client, Lookup(c)
  PROVE  UNCHANGED Abstract!cacheVars
<1>1. /\ pc[c] = "lookup"
      /\ held' = [held EXCEPT ![c] = data[NsOfCall(c)]]
      /\ UNCHANGED <<now, data, lrus, resets, call, found>>
  BY DEF Lookup
<1>2. held[c] = None /\ held \in [Client -> LRU \cup {None}]
  BY <1>1 DEF IInv, Scalars, CallsOK
<1>3. storeBar' = storeBar /\ callBar' = callBar
  BY <1>1, SameStore DEF callBar
<1>4. \A d \in Client : Overtaken(d)' <=> Overtaken(d)
  BY <1>1, <1>2 DEF Overtaken, NsOfCall
<1>5. overtakenBar' = overtakenBar
  BY <1>4 DEF overtakenBar, Overtaken
<1> QED
  BY <1>1, <1>3, <1>5 DEF Abstract!cacheVars

\* An LRU that is new to its namespace stores nothing.
LEMMA InstalledIsEmpty ==
  ASSUME IInv, NEW ns \in Namespace, NEW ttl \in TTL, Install(ns, ttl)
  PROVE  storeBar' = [k \in Key |-> IF NsOf[k] = ns THEN None ELSE storeBar[k]]
<1>1. /\ Len(lrus') = Len(lrus) + 1
      /\ \A i \in LRU : lrus'[i] = lrus[i]
      /\ lrus'[Len(lrus')] = NewLRU(ttl)
      /\ data' = [data EXCEPT ![ns] = Len(lrus')]
  BY InstallStep
<1>2. data \in [Namespace -> LRU \cup {None}] /\ Len(lrus') # None
  BY <1>1, LRUIsNumber DEF IInv, Scalars
<1>3. Live(ns)' = <<>>
  BY <1>1, <1>2, NewIsSound DEF Live
<1>4. \A n \in Namespace \ {ns} : Live(n)' = Live(n)
  BY <1>1, <1>2 DEF Live
<1>5. \A k \in Key : NsOf[k] = ns => Stored(Live(NsOf[k])', k) = None
  BY <1>3 DEF Stored, Keys
<1>6. \A k \in Key : NsOf[k] # ns => Live(NsOf[k])' = Live(NsOf[k])
  BY <1>4, KeyAssumption
<1>7. /\ storeBar' = [k \in Key |-> Stored(Live(NsOf[k])', k)]
      /\ storeBar = [k \in Key |-> Stored(Live(NsOf[k]), k)]
  BY DEF storeBar, Live
<1> QED
  BY <1>5, <1>6, <1>7

LEMMA CreateRefines ==
  ASSUME IInv, NEW c \in Client, Create(c)
  PROVE  UNCHANGED Abstract!cacheVars
<1>1. /\ pc[c] = "create" /\ NsOfCall(c) \in Namespace
      /\ held' = [held EXCEPT ![c] = data'[NsOfCall(c)]]
      /\ UNCHANGED <<now, resets, call, found>>
  BY Calling DEF Create
<1>2. /\ held[c] = None /\ held \in [Client -> LRU \cup {None}]
      /\ data \in [Namespace -> LRU \cup {None}] /\ defaultTTL \in TTL
  BY <1>1 DEF IInv, Scalars, CallsOK
<1>3. callBar' = callBar
  BY <1>1 DEF callBar
<1>4. ~Overtaken(c) /\ ~Overtaken(c)'
  BY <1>1, <1>2 DEF Overtaken, NsOfCall
<1>5. CASE data[NsOfCall(c)] # None /\ UNCHANGED <<data, lrus>>
  <2>1. \A d \in Client \ {c} : Overtaken(d)' <=> Overtaken(d)
    BY <1>1, <1>2, <1>5 DEF Overtaken, NsOfCall
  <2>2. overtakenBar' = overtakenBar
    BY <1>4, <2>1 DEF overtakenBar, Overtaken
  <2> QED
    BY <1>1, <1>3, <1>5, <2>2, SameStore DEF Abstract!cacheVars
<1>6. CASE data[NsOfCall(c)] = None /\ Install(NsOfCall(c), defaultTTL)
  <2>1. /\ Len(lrus') \notin LRU
        /\ data' = [data EXCEPT ![NsOfCall(c)] = Len(lrus')]
    BY <1>1, <1>2, <1>6, InstallStep, LRUIsNumber DEF LRU
  <2>2. ASSUME NEW d \in Client \ {c}
        PROVE  Overtaken(d)' <=> Overtaken(d)
    <3>1. held'[d] = held[d] /\ held[d] \in LRU \cup {None} /\ NsOfCall(d)' = NsOfCall(d)
      BY <1>1, <1>2 DEF NsOfCall
    <3>2. CASE NsOfCall(d) = NsOfCall(c)
      <4>1. data[NsOfCall(d)] = None /\ data'[NsOfCall(d)] = Len(lrus')
        BY <1>1, <1>2, <1>6, <2>1, <3>2
      <4> QED
        BY <2>1, <3>1, <4>1 DEF Overtaken
    <3>3. CASE NsOfCall(d) # NsOfCall(c)
      <4>1. data'[NsOfCall(d)] = data[NsOfCall(d)]
        BY <1>2, <2>1, <3>3
      <4> QED
        BY <3>1, <4>1 DEF Overtaken
    <3> QED
      BY <3>2, <3>3
  <2>3. overtakenBar' = overtakenBar
    BY <1>4, <2>2 DEF overtakenBar, Overtaken
  <2>4. storeBar' = storeBar
    <3>1. storeBar' = [k \in Key |-> IF NsOf[k] = NsOfCall(c) THEN None ELSE storeBar[k]]
      BY <1>1, <1>2, <1>6, InstalledIsEmpty
    <3>2. \A k \in Key : NsOf[k] = NsOfCall(c) => storeBar[k] = None
      BY <1>6 DEF storeBar, Live, Stored, Keys
    <3> QED
      BY <3>1, <3>2 DEF storeBar
  <2> QED
    BY <1>1, <1>3, <2>3, <2>4 DEF Abstract!cacheVars
<1> QED
  BY <1>5, <1>6 DEF Create

LEMMA ReturnRefines ==
  ASSUME IInv, NEW c \in Client, Return(c), UNCHANGED data
  PROVE  /\ Abstract!Return(c)
         /\ callBar[c] = call[c].key
         /\ overtakenBar[c] <=> held[c] # data[NsOfCall(c)]
<1>1. /\ call' = [call EXCEPT ![c] = NoCall] /\ held' = [held EXCEPT ![c] = None]
      /\ call \in [Client -> [key : Key \cup {None}, value : Value \cup {None}]]
      /\ held \in [Client -> LRU \cup {None}]
  BY DEF Return, IInv, Scalars
<1>2. call[c].key \in Key /\ held[c] # None
  BY Using
<1>3. callBar[c] = call[c].key /\ callBar[c] # None
  BY <1>2, NoneAssumption DEF callBar
<1>4. callBar' = [callBar EXCEPT ![c] = None]
  BY <1>1 DEF callBar, NoCall
<1>5. \A d \in Client \ {c} : Overtaken(d)' <=> Overtaken(d)
  BY <1>1 DEF Overtaken, NsOfCall
<1>6. ~Overtaken(c)'
  BY <1>1 DEF Overtaken
<1>7. overtakenBar' = [overtakenBar EXCEPT ![c] = FALSE]
  BY <1>5, <1>6 DEF overtakenBar, Overtaken
<1>8. overtakenBar[c] <=> held[c] # data[NsOfCall(c)]
  BY <1>2 DEF overtakenBar, Overtaken
<1> QED
  BY <1>3, <1>4, <1>7, <1>8 DEF Abstract!Return

\* An overtaken call has an LRU that no namespace has.
LEMMA OvertakenIsDead ==
  ASSUME IInv, NEW c \in Client, Return(c), held[c] # data[NsOfCall(c)]
  PROVE  \A ns \in Namespace : data[ns] # held[c]
BY Using DEF IInv, OwnersOK

\* A call that is not overtaken has the LRU of its namespace.
LEMMA NotOvertakenIsLive ==
  ASSUME IInv, NEW c \in Client, Return(c), held[c] = data[NsOfCall(c)]
  PROVE  /\ lrus[held[c]].entries = Live(NsOfCall(c))
         /\ \A k \in Key : data[NsOf[k]] = held[c] <=> NsOf[k] = NsOfCall(c)
         /\ NsOf[call[c].key] = NsOfCall(c)
<1>1. held[c] # None /\ NsOfCall(c) \in Namespace
  BY Using
<1>2. \A other \in Namespace : data[other] = held[c] => other = NsOfCall(c)
  BY <1>1 DEF IInv, OwnersOK
<1> QED
  BY <1>1, <1>2, KeyAssumption DEF Live, NsOfCall

LEMMA GetRefines ==
  ASSUME IInv, NEW c \in Client, Get(c)
  PROVE  Abstract!Get(c) \/ Abstract!Overtaken(c)
<1> DEFINE lru == lrus[held[c]]
           es == lru.entries
           k == call[c].key
           hit == IF Hit(lru, k) THEN EntryOf(es, k).value ELSE None
<1>1. /\ Return(c)
      /\ lrus' = [lrus EXCEPT ![held[c]] = Touched(lru, k)]
      /\ found' = [found EXCEPT ![c] = hit]
      /\ UNCHANGED <<now, defaultTTL, data, resets>>
  BY DEF Get
<1>2. held[c] \in LRU /\ Sound(lru) /\ k \in Key
  BY <1>1, Using
<1>3. /\ Sound(Touched(lru, k))
      /\ \A e : Has(Touched(lru, k).entries, e) <=> Has(es, e)
  BY <1>2, TouchedIsSound
<1>4. /\ lrus'[held[c]] = Touched(lru, k)
      /\ \A j \in LRU \ {held[c]} : lrus'[j] = lrus[j]
  BY <1>1, <1>2, <1>3, WorkStep
<1>5. storeBar' = storeBar
  <2>1. OneEach(es) /\ OneEach(lrus'[held[c]].entries)
    BY <1>2, <1>3, <1>4 DEF Sound
  <2>2. \A e : Has(lrus'[held[c]].entries, e) <=> Has(es, e)
    BY <1>3, <1>4
  <2> QED
    BY <1>1, <1>2, <1>4, <2>1, <2>2, SameEntries
<1>6. /\ Abstract!Return(c)
      /\ callBar[c] = k
      /\ overtakenBar[c] <=> held[c] # data[NsOfCall(c)]
  BY <1>1, ReturnRefines
<1>7. es \in Seq(Entry) /\ OneEach(es)
  BY <1>2 DEF Sound, Lists
<1>8. /\ hit \in Value \cup {None}
      /\ hit = IF Stored(es, k) # None /\ now <= Stored(es, k).expires
               THEN Stored(es, k).value ELSE None
  <2>1. CASE k \in Keys(es)
    <3> DEFINE e == EntryOf(es, k)
    <3>1. e.key = k /\ Has(es, e)
      BY <2>1, PlaceIsThere
    <3>2. e \in Entry
      BY <1>7, <3>1 DEF Has
    <3>3. e.value \in Value /\ e.expires \in Int /\ now \in Int
      BY <3>2, <1>1, Using DEF Entry
    <3>4. hit = IF now <= e.expires THEN e.value ELSE None
      BY <2>1, <3>3 DEF Hit, Expired
    <3> HIDE DEF e, es, k, hit
    <3>5. /\ Stored(es, e.key) # None
          /\ Stored(es, e.key).value = e.value /\ Stored(es, e.key).expires = e.expires
      BY <1>7, <3>1, StoredIsEntry
    <3> QED
      BY <3>1, <3>3, <3>4, <3>5
  <2>2. CASE k \notin Keys(es)
    BY <2>2 DEF Hit, Stored
  <2> QED
    BY <2>1, <2>2
<1> HIDE DEF es, hit
<1>9. CASE held[c] = data[NsOfCall(c)]
  <2>1. es = Live(NsOf[k]) /\ storeBar[k] = Stored(Live(NsOf[k]), k)
    BY <1>1, <1>2, <1>9, NotOvertakenIsLive DEF storeBar, es
  <2> QED
    BY <1>1, <1>5, <1>6, <1>8, <1>9, <2>1 DEF Abstract!Get
<1>10. CASE held[c] # data[NsOfCall(c)]
  BY <1>1, <1>5, <1>6, <1>8, <1>10 DEF Abstract!Overtaken
<1> QED
  BY <1>9, <1>10

\* What the atomic map has under the keys of a namespace is in its LRU.
LEMMA StoredIsLive ==
  ASSUME IInv, NEW ns \in Namespace
  PROVE  Abstract!Stored(ns) = Keys(Live(ns))
<1>1. \A k \in Key : NsOf[k] = ns => (storeBar[k] # None <=> k \in Keys(Live(ns)))
  <2>1. \A k : Stored(Live(ns), k) # None <=> k \in Keys(Live(ns))
    BY LiveIsSound, StoredOrNot
  <2> QED
    BY <2>1 DEF storeBar
<1>2. Keys(Live(ns)) \subseteq Key
  <2>1. \A e : Has(Live(ns), e) => e.key \in Key
    <3> DEFINE es == Live(ns)
    <3>1. es \in Seq(Entry)
      BY LiveIsSound
    <3> HIDE DEF es
    <3>2. \A i \in DOMAIN es : es[i] \in Entry
      BY <3>1
    <3>3. \A i \in DOMAIN es : es[i].key \in Key
      BY <3>2 DEF Entry
    <3> QED
      BY <3>3 DEF Has, es
  <2> QED
    BY <2>1, PlaceIsThere
<1>3. \A k \in Keys(Live(ns)) : NsOf[k] = ns
  BY LiveIsSound
<1> QED
  BY <1>1, <1>2, <1>3 DEF Abstract!Stored

\* The map counts as the storage does.
LEMMA SameCardinality == \A S : Abstract!Cardinality(S) = Cardinality(S)
BY DEF Abstract!Cardinality, Cardinality

LEMMA LiveAddRefines ==
  ASSUME IInv, NEW c \in Client, Add(c), held[c] = data[NsOfCall(c)]
  PROVE  Abstract!Add(c)
<1> DEFINE es == lrus[held[c]].entries
           k == call[c].key
           v == call[c].value
           lru == Added(lrus[held[c]], k, v)
           entry == [key |-> k, value |-> v, expires |-> now + lrus[held[c]].ttl]
           ns == NsOf[k]
           others == Keys(es) \ {k}
           full == storeBar[k] = None /\ Cardinality(others) = Size
           dropped == Evicted(es, k)
           stored == [value |-> v, expires |-> entry.expires]
<1>1. /\ Return(c) /\ Sound(lru) /\ entry \in Entry
      /\ lrus' = [lrus EXCEPT ![held[c]] = lru]
      /\ \A e : Has(lru.entries, e) <=>
                  e = entry \/ (Has(es, e) /\ e.key \notin {k, dropped})
  BY AddIsWork
<1>2. /\ held[c] \in LRU /\ Sound(lrus[held[c]]) /\ k \in Key /\ v \in Value
      /\ now \in 0..MaxTime
  BY <1>1, Using DEF Add
<1>3. UNCHANGED <<now, data, resets, found>>
  BY DEF Add
<1>4. /\ es \in Seq(Entry) /\ OneEach(es) /\ Len(es) <= Size
      /\ lrus[held[c]].ttl \in 1..MaxTime
  BY <1>2, TTLAssumption DEF Sound, Lists
<1>5. /\ entry.key = k /\ entry.value = v
      /\ entry.expires = now + lrus[held[c]].ttl
  OBVIOUS
<1>6. entry.expires \in now..(now + MaxTime)
  <2> HIDE DEF entry
  <2>1. now \in Nat /\ MaxTime \in Nat
    BY <1>2, BoundsAssumption
  <2> QED
    BY <1>4, <1>5, <2>1
<1>7. /\ lrus'[held[c]] = lru
      /\ \A j \in LRU \ {held[c]} : lrus'[j] = lrus[j]
  BY <1>1, <1>2, WorkStep
<1>8. /\ es = Live(ns) /\ ns \in Namespace /\ NsOfCall(c) = ns
      /\ \A x \in Key : data[NsOf[x]] = held[c] <=> NsOf[x] = ns
  BY <1>1, <1>2, NotOvertakenIsLive, KeyAssumption DEF NsOfCall
<1> HIDE DEF es, k, v, lru, entry, ns, dropped
<1>9. Abstract!Stored(ns) \ {k} = others
  BY <1>8, StoredIsLive
<1>10. storeBar[k] = Stored(es, k)
  BY <1>2, <1>8 DEF storeBar, ns
<1>11. dropped \in IF full THEN others ELSE {k}
  <2>1. storeBar[k] = None <=> k \notin Keys(es)
    BY <1>4, <1>10, StoredOrNot
  <2>2. Cardinality(Keys(es)) = Len(es)
    BY <1>4, OneKeyEach
  <2>3. CASE k \notin Keys(es) /\ Len(es) = Size
    <3>1. Len(es) \in DOMAIN es
      BY <1>4, <2>3, SizeAssumption
    <3>2. Last(es).key \in Keys(es)
      BY <3>1 DEF Last, Keys
    <3>3. dropped = Last(es).key
      BY <2>3 DEF dropped, Evicted
    <3>4. others = Keys(es)
      BY <2>3
    <3> QED
      BY <2>1, <2>2, <2>3, <3>2, <3>3, <3>4
  <2>4. CASE ~(k \notin Keys(es) /\ Len(es) = Size)
    <3>1. dropped = k
      BY <2>4 DEF dropped, Evicted
    <3>2. ~full
      <4>1. k \notin Keys(es) => others = Keys(es)
        OBVIOUS
      <4> QED
        BY <2>1, <2>2, <2>4, <4>1
    <3> QED
      BY <3>1, <3>2
  <2> QED
    BY <2>3, <2>4
<1>12. storeBar' = [storeBar EXCEPT ![dropped] = None, ![k] = stored]
  <2>1. /\ lru.entries \in Seq(Entry) /\ OneEach(lru.entries)
    BY <1>1 DEF Sound, Lists
  <2>2. \A x \in Key : NsOf[x] = ns => /\ storeBar[x] = Stored(es, x)
                                       /\ storeBar'[x] = Stored(lru.entries, x)
    BY <1>2, <1>3, <1>7, <1>8, WorkStores DEF es
  <2>3. \A x \in Key : NsOf[x] # ns => storeBar'[x] = storeBar[x]
    BY <1>2, <1>3, <1>7, <1>8, WorkStores
  <2>4. storeBar'[k] = stored
    <3>1. Has(lru.entries, entry)
      BY <1>1
    <3>2. Stored(lru.entries, entry.key) = [value |-> entry.value, expires |-> entry.expires]
      BY <2>1, <3>1, StoredIsEntry
    <3> QED
      BY <1>2, <1>5, <2>2, <3>2 DEF ns
  <2>5. ASSUME NEW x \in Key, x # k, x # dropped
        PROVE  storeBar'[x] = storeBar[x]
    <3>1. \A e : e.key = x => (Has(lru.entries, e) <=> Has(es, e))
      BY <1>1, <1>5, <2>5
    <3>2. Stored(lru.entries, x) = Stored(es, x)
      BY <1>4, <2>1, <3>1, SameStored
    <3> QED
      BY <2>2, <2>3, <3>2
  <2>6. ASSUME dropped \in Key, dropped # k
        PROVE  storeBar'[dropped] = None
    <3>1. NsOf[dropped] = ns
      <4>1. dropped \in Keys(es)
        BY <1>11, <2>6
      <4> QED
        BY <1>8, <4>1, LiveIsSound
    <3>2. dropped \notin Keys(lru.entries)
      <4> SUFFICES ASSUME dropped \in Keys(lru.entries) PROVE FALSE
        OBVIOUS
      <4>1. /\ Has(lru.entries, EntryOf(lru.entries, dropped))
            /\ EntryOf(lru.entries, dropped).key = dropped
        BY PlaceIsThere
      <4> QED
        BY <1>1, <1>5, <2>6, <4>1
    <3> QED
      BY <2>2, <2>6, <3>1, <3>2 DEF Stored
  <2> HIDE DEF stored
  <2>7. \A x \in Key : storeBar'[x] =
          IF x = k THEN stored ELSE IF x = dropped THEN None ELSE storeBar[x]
    BY <2>4, <2>5, <2>6
  <2>8. storeBar' = [x \in Key |->
          IF x = k THEN stored ELSE IF x = dropped THEN None ELSE storeBar[x]]
    BY <2>7 DEF storeBar
  <2>9. storeBar = [x \in Key |-> storeBar[x]]
    BY DEF storeBar
  <2> QED
    BY <2>8, <2>9
<1>13. /\ Abstract!Return(c)
       /\ callBar[c] = k
       /\ ~overtakenBar[c]
  BY <1>1, <1>3, ReturnRefines DEF k
<1> HIDE DEF others, full, stored
<1>14. LET x == callBar[c]
           theOthers == Abstract!Stored(NsOf[x]) \ {x}
           isFull == storeBar[x] = None /\ Abstract!Cardinality(theOthers) = Size
       IN  dropped \in IF isFull THEN theOthers ELSE {x}
  BY <1>9, <1>11, <1>13, SameCardinality DEF full, ns
<1>15. storeBar' = [storeBar EXCEPT ![dropped] = None,
                      ![callBar[c]] = [value |-> v, expires |-> entry.expires]]
  BY <1>12, <1>13 DEF stored
<1> QED
  BY <1>2, <1>3, <1>6, <1>13, <1>14, <1>15 DEF Abstract!Add

LEMMA DeadAddRefines ==
  ASSUME IInv, NEW c \in Client, Add(c), held[c] # data[NsOfCall(c)]
  PROVE  Abstract!Overtaken(c)
<1>1. /\ Return(c) /\ UNCHANGED <<now, data, resets, found>>
      /\ lrus' = [lrus EXCEPT ![held[c]] =
                    Added(lrus[held[c]], call[c].key, call[c].value)]
      /\ Sound(Added(lrus[held[c]], call[c].key, call[c].value))
  BY AddIsWork DEF Add
<1>2. held[c] \in LRU
  BY <1>1, Using
<1>3. \A j \in LRU \ {held[c]} : lrus'[j] = lrus[j]
  BY <1>1, <1>2, WorkStep
<1>4. storeBar' = storeBar
  BY <1>1, <1>2, <1>3, OvertakenIsDead, DeadIsNotStored
<1>5. /\ Abstract!Return(c) /\ overtakenBar[c]
  BY <1>1, ReturnRefines
<1>6. \E v \in Value \cup {None} : found' = [found EXCEPT ![c] = v]
  <2>1. found[c] \in Value \cup {None} /\ found' = [found EXCEPT ![c] = found[c]]
    BY <1>1 DEF IInv, Scalars
  <2> QED
    BY <2>1
<1> QED
  BY <1>1, <1>4, <1>5, <1>6 DEF Abstract!Overtaken

LEMMA NamespaceTTLRefines ==
  ASSUME IInv, NEW ns \in Namespace, NamespaceTTL(ns)
  PROVE  Abstract!Reset
<1> DEFINE some == {c \in Client : held[c] # None /\ NsOfCall(c) = ns}
<1>1. /\ resets' = resets + 1
      /\ UNCHANGED <<now, defaultTTL, pc, call, held, found>>
      /\ data \in [Namespace -> LRU \cup {None}] /\ held \in [Client -> LRU \cup {None}]
  BY DEF NamespaceTTL, IInv, Scalars
<1>2. callBar' = callBar
  BY <1>1 DEF callBar
<1>3. some \in SUBSET {c \in Client : callBar[c] # None /\ NsOf[callBar[c]] = ns}
  BY DEF IInv, CallsOK, NsOfCall, callBar
<1>4. /\ storeBar' = [k \in Key |-> IF NsOf[k] = ns THEN None ELSE storeBar[k]]
      /\ data'[ns] \notin LRU
      /\ \A other \in Namespace \ {ns} : data'[other] = data[other]
  <2>1. CASE data' = [data EXCEPT ![ns] = None] /\ UNCHANGED lrus
    <3>1. Live(ns)' = <<>> /\ \A other \in Namespace \ {ns} : Live(other)' = Live(other)
      BY <1>1, <2>1 DEF Live
    <3>2. \A k \in Key : NsOf[k] = ns => Stored(Live(NsOf[k])', k) = None
      BY <3>1 DEF Stored, Keys
    <3>3. \A k \in Key : NsOf[k] # ns => Live(NsOf[k])' = Live(NsOf[k])
      BY <3>1, KeyAssumption
    <3>4. /\ storeBar' = [k \in Key |-> Stored(Live(NsOf[k])', k)]
          /\ storeBar = [k \in Key |-> Stored(Live(NsOf[k]), k)]
      BY DEF storeBar, Live
    <3>5. storeBar' = [k \in Key |-> IF NsOf[k] = ns THEN None ELSE storeBar[k]]
      BY <3>2, <3>3, <3>4
    <3> QED
      BY <1>1, <2>1, <3>5, LRUIsNumber
  <2>2. ASSUME NEW ttl \in TTL, Install(ns, ttl)
        PROVE  /\ storeBar' = [k \in Key |-> IF NsOf[k] = ns THEN None ELSE storeBar[k]]
               /\ data'[ns] \notin LRU
               /\ \A other \in Namespace \ {ns} : data'[other] = data[other]
    <3>1. /\ Len(lrus') \notin LRU
          /\ data' = [data EXCEPT ![ns] = Len(lrus')]
      BY <2>2, InstallStep, LRUIsNumber DEF LRU
    <3> QED
      BY <1>1, <2>2, <3>1, InstalledIsEmpty
  <2> QED
    BY <2>1, <2>2 DEF NamespaceTTL
<1>5. \A c \in Client : NsOfCall(c)' = NsOfCall(c) /\ held'[c] = held[c]
  BY <1>1 DEF NsOfCall
<1>6. \A c \in Client : held[c] # None => NsOfCall(c) \in Namespace
  BY Calling DEF IInv, CallsOK
<1>7. \A c \in Client : held[c] # None /\ NsOfCall(c) = ns => held[c] # data'[NsOfCall(c)]
  BY <1>1, <1>4
<1>8. \A c \in Client : held[c] # None /\ NsOfCall(c) # ns =>
                          data'[NsOfCall(c)] = data[NsOfCall(c)]
  BY <1>4, <1>6
<1>9. ASSUME NEW c \in Client
      PROVE  Overtaken(c)' <=> Overtaken(c) \/ c \in some
  BY <1>5, <1>7, <1>8 DEF Overtaken
<1>10. overtakenBar' = [c \in Client |-> overtakenBar[c] \/ c \in some]
  <2>1. overtakenBar' = [c \in Client |-> Overtaken(c)']
    BY DEF overtakenBar
  <2>2. \A c \in Client : overtakenBar[c] = Overtaken(c)
    BY DEF overtakenBar
  <2>3. \A c \in Client : Overtaken(c)' = (overtakenBar[c] \/ c \in some)
    BY <1>9, <2>2 DEF Overtaken
  <2> QED
    BY <2>1, <2>3
<1> HIDE DEF some
<1> QED
  BY <1>1, <1>2, <1>3, <1>4, <1>10 DEF Abstract!Reset

LEMMA StutterRefines == UNCHANGED vars => UNCHANGED Abstract!cacheVars
BY SameStore, SameCalls DEF vars, Abstract!cacheVars

LEMMA NextRefines == IInv /\ [Next]_vars => [Abstract!Next]_(Abstract!cacheVars)
<1> SUFFICES ASSUME IInv, [Next]_vars
             PROVE  Abstract!Next \/ UNCHANGED Abstract!cacheVars
  OBVIOUS
<1>1. CASE Tick
  BY <1>1, TickRefines DEF Abstract!Next
<1>2. CASE Reap
  BY <1>2, ReapRefines DEF Abstract!Next
<1>3. CASE \E ns \in Namespace : NamespaceTTL(ns)
  BY <1>3, NamespaceTTLRefines DEF Abstract!Next
<1>4. ASSUME NEW c \in Client, Begin(c)
      PROVE  Abstract!Next
  BY <1>4, BeginRefines DEF Abstract!Next
<1>5. ASSUME NEW c \in Client, Lookup(c) \/ Create(c)
      PROVE  UNCHANGED Abstract!cacheVars
  BY <1>5, LookupRefines, CreateRefines
<1>6. ASSUME NEW c \in Client, Get(c)
      PROVE  Abstract!Next
  BY <1>6, GetRefines DEF Abstract!Next
<1>7. ASSUME NEW c \in Client, Add(c)
      PROVE  Abstract!Next
  BY <1>7, LiveAddRefines, DeadAddRefines DEF Abstract!Next
<1>8. CASE UNCHANGED vars
  BY <1>8, StutterRefines
<1> QED
  BY <1>1, <1>2, <1>3, <1>4, <1>5, <1>6, <1>7, <1>8 DEF Next

\* However lookups, creations, uses and TTL changes interleave, the storage is the
\* atomic map of CacheStorage: every step is a step of the map or changes nothing of it,
\* so no Add is made where nobody will look and no entry is lost that need not be
\* (LRUStorage.dataMap and its callers, lru.go).
THEOREM IsAtomicMap == Spec => ImplementsCacheStorage
<1>1. IInv /\ [Next]_vars => [Abstract!Next]_(Abstract!cacheVars)
  BY NextRefines
<1> QED
  BY InitRefines, <1>1, Inductive, PTL DEF Spec, ImplementsCacheStorage, Abstract!Spec

=============================================================================
