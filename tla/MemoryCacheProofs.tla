-------------------------- MODULE MemoryCacheProofs -------------------------
(***************************************************************************)
(* Proofs about MemoryCache, for every set of keys and entries, every size *)
(* and every limit.                                                        *)
(***************************************************************************)
EXTENDS MemoryCache, SequenceTheorems, TLAPS

Pair == [key : Key, entry : Entry]

\* t is s without its position p.
Without(s, t, p) ==
  /\ Len(t) = Len(s) - 1
  /\ \A i \in 1..Len(t) : t[i] = IF i < p THEN s[i] ELSE s[i + 1]

\* Removing one position of a sequence keeps the others, in order.
LEMMA RemoveAtProperties ==
  ASSUME NEW S, NEW s \in Seq(S), NEW p \in 1..Len(s)
  PROVE  /\ RemoveAt(s, p) \in Seq(S)
         /\ Without(s, RemoveAt(s, p), p)
<1> DEFINE a == SubSeq(s, 1, p - 1)
           b == SubSeq(s, p + 1, Len(s))
<1>1. /\ a \in Seq(S)
      /\ Len(a) = p - 1
      /\ \A i \in 1..(p - 1) : a[i] = s[i]
  <2>1. \A i \in 1..(p - 1) : s[i] \in S
    BY ElementOfSeq, LenProperties
  <2>2. /\ SubSeq(s, 1, p - 1) \in Seq(S)
        /\ Len(SubSeq(s, 1, p - 1)) = IF 1 <= p - 1 THEN p - 1 - 1 + 1 ELSE 0
        /\ \A i \in 1..(p - 1 - 1 + 1) : SubSeq(s, 1, p - 1)[i] = s[1 + i - 1]
    BY <2>1, SubSeqProperties, LenProperties, SMT
  <2> QED BY <2>2
<1>2. /\ b \in Seq(S)
      /\ Len(b) = Len(s) - p
      /\ \A i \in 1..(Len(s) - p) : b[i] = s[p + i]
  <2>1. \A i \in (p + 1)..Len(s) : s[i] \in S
    BY ElementOfSeq, LenProperties
  <2>2. /\ SubSeq(s, p + 1, Len(s)) \in Seq(S)
        /\ Len(SubSeq(s, p + 1, Len(s)))
             = IF p + 1 <= Len(s) THEN Len(s) - (p + 1) + 1 ELSE 0
        /\ \A i \in 1..(Len(s) - (p + 1) + 1) :
             SubSeq(s, p + 1, Len(s))[i] = s[p + 1 + i - 1]
    BY <2>1, SubSeqProperties, LenProperties, SMT
  <2>3. Len(s) \in Nat
    BY LenProperties
  <2> QED BY <2>2, <2>3
<1>3. /\ a \o b \in Seq(S)
      /\ Len(a \o b) = Len(a) + Len(b)
      /\ \A i \in 1..(Len(a) + Len(b)) :
           (a \o b)[i] = IF i <= Len(a) THEN a[i] ELSE b[i - Len(a)]
  BY <1>1, <1>2, ConcatProperties
<1>4. Len(s) \in Nat
  BY LenProperties
<1> HIDE DEF a, b
<1>5. Len(a \o b) = Len(s) - 1
  BY <1>1, <1>2, <1>3, <1>4
<1>6. ASSUME NEW i \in 1..(Len(s) - 1)
      PROVE  (a \o b)[i] = IF i < p THEN s[i] ELSE s[i + 1]
  BY <1>1, <1>2, <1>3, <1>4
<1> QED
  BY <1>3, <1>5, <1>6 DEF a, b, RemoveAt, Without

\* Tail is the removal of the first position.
LEMMA TailProperties ==
  ASSUME NEW S, NEW s \in Seq(S), s # <<>>
  PROVE  /\ Tail(s) \in Seq(S)
         /\ 1 \in 1..Len(s)
         /\ Head(s) = s[1]
         /\ Without(s, Tail(s), 1)
<1>1. Len(s) \in Nat /\ Len(s) # 0
  BY LenProperties, EmptySeq
<1> QED
  BY <1>1, HeadTailProperties DEF Without

\* A position whose pair is taken out takes its size out of the sum.
LEMMA SumWithout ==
  ASSUME NEW s \in Seq(Pair), NEW t \in Seq(Pair), NEW p \in 1..Len(s),
         NEW n \in Nat, Without(s, t, p), SumsTo(s, n)
  PROVE  /\ n - Size[s[p].entry] \in Nat
         /\ SumsTo(t, n - Size[s[p].entry])
<1> DEFINE z == Size[s[p].entry]
<1>1. PICK ps \in [0..Len(s) -> 0..n] :
        /\ ps[0] = 0 /\ ps[Len(s)] = n
        /\ \A i \in 1..Len(s) : ps[i] = ps[i-1] + Size[s[i].entry]
        /\ \A i, j \in 0..Len(s) : i <= j => ps[i] <= ps[j]
  BY DEF SumsTo
<1>2. Len(s) \in Nat /\ Len(t) \in Nat /\ Len(t) = Len(s) - 1
  BY LenProperties DEF Without
<1>3. z \in Nat
  <2>1. s[p] \in Pair
    BY ElementOfSeq
  <2> QED BY <2>1, SizeAssumption DEF Pair
<1>4. ps[p] = ps[p-1] + z /\ ps[p-1] \in 0..n
  <2>1. p - 1 \in 0..Len(s)
    BY <1>2
  <2> QED BY <2>1, <1>1, <1>2
<1>5. ASSUME NEW j \in p..Len(s)
      PROVE  ps[j] \in z..n
  <2>1. p \in 0..Len(s) /\ j \in 0..Len(s) /\ p <= j
    BY <1>2
  <2>2. ps[p] <= ps[j] /\ ps[j] \in 0..n
    BY <1>1, <2>1
  <2> HIDE DEF z
  <2> QED BY <2>2, <1>3, <1>4
<1>6. n - z \in Nat
  BY <1>1, <1>2, <1>3, <1>5
<1> DEFINE qs == [j \in 0..Len(t) |-> IF j < p THEN ps[j] ELSE ps[j+1] - z]
<1> HIDE DEF z
<1>7. ps[p-1] <= n - z
  BY <1>1, <1>2, <1>3, <1>4, <1>5
<1>8. qs \in [0..Len(t) -> 0..(n - z)]
  <2>1. ASSUME NEW j \in 0..Len(t), j < p
        PROVE  ps[j] \in 0..(n - z)
    <3>1. j \in 0..Len(s) /\ p - 1 \in 0..Len(s) /\ j <= p - 1
      BY <1>2, <2>1
    <3>2. ps[j] <= ps[p-1] /\ ps[j] \in 0..n
      BY <1>1, <3>1
    <3> QED BY <3>2, <1>7, <1>4, <1>6
  <2>2. ASSUME NEW j \in 0..Len(t), ~(j < p)
        PROVE  ps[j+1] - z \in 0..(n - z)
    BY <1>2, <1>3, <1>5, <2>2
  <2> QED BY <2>1, <2>2
<1>9. qs[0] = 0
  BY <1>1, <1>2
<1>10. qs[Len(t)] = n - z
  <2>1. CASE Len(t) < p
    <3>1. Len(t) = p - 1 /\ p = Len(s)
      BY <2>1, <1>2
    <3>2. qs[Len(t)] = ps[p-1] /\ ps[p] = n
      BY <3>1, <1>1, <1>2
    <3> QED BY <3>2, <1>3, <1>4
  <2>2. CASE ~(Len(t) < p)
    BY <2>2, <1>1, <1>2
  <2> QED BY <2>1, <2>2
<1>11. ASSUME NEW i \in 1..Len(t)
       PROVE  qs[i] = qs[i-1] + Size[t[i].entry]
  <2>1. CASE i < p
    <3>1. t[i] = s[i]
      BY <2>1 DEF Without
    <3>2. i \in 1..Len(s) /\ qs[i] = ps[i] /\ qs[i-1] = ps[i-1]
      BY <2>1, <1>2
    <3>3. ps[i] = ps[i-1] + Size[s[i].entry]
      BY <1>1, <3>2
    <3> QED BY <3>1, <3>2, <3>3
  <2>2. CASE i = p
    <3>1. t[i] = s[i+1]
      BY <2>2 DEF Without
    <3>2. qs[i] = ps[i+1] - z /\ qs[i-1] = ps[i-1]
      BY <2>2, <1>2
    <3>3. ps[i+1] = ps[i] + Size[s[i+1].entry]
      BY <1>1, <1>2
    <3>4. Size[s[i+1].entry] \in Nat
      <4>1. s[i+1] \in Pair
        BY ElementOfSeq, <1>2
      <4> QED BY <4>1, SizeAssumption DEF Pair
    <3> QED BY <3>1, <3>2, <3>3, <3>4, <1>4, <1>3, <2>2, SMTT(60)
  <2>3. CASE p < i
    <3>1. t[i] = s[i+1]
      BY <2>3, <1>2 DEF Without
    <3>2. qs[i] = ps[i+1] - z /\ qs[i-1] = ps[i] - z
      BY <2>3, <1>2
    <3>0. i + 1 \in 1..Len(s) /\ i \in 0..Len(s) /\ i + 1 - 1 = i
      BY <1>2
    <3>3. ps[i+1] = ps[i] + Size[s[i+1].entry] /\ ps[i] \in 0..n
      <4>1. \A m \in 1..Len(s) : ps[m] = ps[m-1] + Size[s[m].entry]
        BY <1>1
      <4>2. ps[i+1] = ps[i+1-1] + Size[s[i+1].entry]
        BY ONLY <4>1, <3>0
      <4> QED BY <4>2, <3>0
    <3>4. Size[s[i+1].entry] \in Nat
      <4>1. s[i+1] \in Pair
        BY ElementOfSeq, <1>2
      <4> QED BY <4>1, SizeAssumption DEF Pair
    <3> QED BY <3>1, <3>2, <3>3, <3>4, <1>3, SMTT(60)
  <2> QED BY <2>1, <2>2, <2>3
<1>12. ASSUME NEW i \in 0..Len(t), NEW j \in 0..Len(t), i <= j
       PROVE  qs[i] <= qs[j]
  <2>1. CASE j < p
    BY <2>1, <1>1, <1>2, <1>12
  <2>2. CASE ~(i < p)
    <3>1. ps[i+1] <= ps[j+1] /\ ps[i+1] \in 0..n /\ ps[j+1] \in 0..n
      BY <1>1, <1>2, <1>12, SMTT(60)
    <3> QED BY <3>1, <2>2, <1>3, <1>12, SMTT(60)
  <2>3. CASE i < p /\ ~(j < p)
    <3>0. /\ i \in 0..Len(s) /\ p - 1 \in 0..Len(s) /\ i <= p - 1
          /\ j + 1 \in 0..Len(s) /\ p \in 0..Len(s) /\ p <= j + 1
      BY <1>2, <2>3
    <3>1. ps[i] <= ps[p-1] /\ ps[p] <= ps[j+1]
      BY <1>1, <3>0
    <3>2. ps[i] \in 0..n /\ ps[j+1] \in 0..n /\ ps[p] \in 0..n
      BY <3>0
    <3> QED BY <3>1, <3>2, <1>3, <1>4, <2>3, SMTT(60)
  <2> QED BY <2>1, <2>2, <2>3
<1> HIDE DEF qs
<1> QED
  BY <1>6, <1>8, <1>9, <1>10, <1>11, <1>12 DEF SumsTo, z

\* An appended pair adds its size to the sum.
LEMMA SumAppend ==
  ASSUME NEW s \in Seq(Pair), NEW e \in Pair, NEW n \in Nat, SumsTo(s, n)
  PROVE  SumsTo(Append(s, e), n + Size[e.entry])
<1> DEFINE z == Size[e.entry]
           t == Append(s, e)
<1>1. PICK ps \in [0..Len(s) -> 0..n] :
        /\ ps[0] = 0 /\ ps[Len(s)] = n
        /\ \A i \in 1..Len(s) : ps[i] = ps[i-1] + Size[s[i].entry]
        /\ \A i, j \in 0..Len(s) : i <= j => ps[i] <= ps[j]
  BY DEF SumsTo
<1>2. z \in Nat
  BY SizeAssumption DEF Pair
<1>3. /\ Len(s) \in Nat
      /\ Len(t) = Len(s) + 1
      /\ \A i \in 1..Len(s) : t[i] = s[i]
      /\ t[Len(t)] = e
  BY LenProperties, AppendProperties
<1> DEFINE qs == [j \in 0..Len(t) |-> IF j < Len(t) THEN ps[j] ELSE n + z]
<1> HIDE DEF t
<1>4. qs \in [0..Len(t) -> 0..(n + z)]
  <2> HIDE DEF z
  <2>1. ASSUME NEW j \in 0..Len(t), j < Len(t)
        PROVE  ps[j] \in 0..(n + z)
    BY <1>2, <1>3, <2>1
  <2> QED BY <2>1, <1>2
<1>5. qs[0] = 0 /\ qs[Len(t)] = n + z
  BY <1>1, <1>3
<1>6. ASSUME NEW i \in 1..Len(t)
      PROVE  qs[i] = qs[i-1] + Size[t[i].entry]
  <2>1. CASE i < Len(t)
    <3>1. i \in 1..Len(s) /\ qs[i] = ps[i] /\ qs[i-1] = ps[i-1] /\ t[i] = s[i]
      BY <2>1, <1>3
    <3> QED BY <3>1, <1>1
  <2>2. CASE i = Len(t)
    <3>1. qs[i] = n + z /\ qs[i-1] = ps[Len(s)] /\ t[i] = e
      BY <2>2, <1>3
    <3> QED BY <3>1, <1>1
  <2> QED BY <2>1, <2>2, <1>3
<1>7. ASSUME NEW i \in 0..Len(t), NEW j \in 0..Len(t), i <= j
      PROVE  qs[i] <= qs[j]
  <2>1. CASE j < Len(t)
    BY <2>1, <1>1, <1>3, <1>7
  <2>2. CASE j = Len(t)
    BY <2>2, <1>2, <1>4
  <2> QED BY <2>1, <2>2, <1>3
<1> HIDE DEF qs
<1> QED
  BY <1>4, <1>5, <1>6, <1>7 DEF SumsTo, t, z

\* Nothing sums to zero.
LEMMA EmptySumsToZero == SumsTo(<<>>, 0)
<1> DEFINE ps == [i \in 0..0 |-> 0]
<1>1. Len(<<>>) = 0
  OBVIOUS
<1>2. ps \in [0..0 -> 0..0] /\ ps[0] = 0
  OBVIOUS
<1>3. \A i, j \in 0..0 : i <= j => ps[i] <= ps[j]
  OBVIOUS
<1> HIDE DEF ps
<1> SUFFICES \E qs \in [0..0 -> 0..0] :
               /\ qs[0] = 0 /\ qs[0] = 0
               /\ \A i \in 1..0 : qs[i] = qs[i-1] + Size[<<>>[i].entry]
               /\ \A i, j \in 0..0 : i <= j => qs[i] <= qs[j]
  BY <1>1 DEF SumsTo
<1> QED
  BY <1>2, <1>3

\* s holds each key once, and u says that each pair of s has been used since
\* the last use of every pair in front of it.
Arranged(s, u) ==
  /\ \A i, j \in 1..Len(s) : s[i].key = s[j].key => i = j
  /\ \A i, j \in 1..Len(s) : i < j => s[j].key \in u[s[i].key]

\* A sequence of pairs that is a sound content of the cache.
Sound(s, n, u) ==
  /\ s \in Seq(Pair)
  /\ n \in Nat
  /\ SumsTo(s, n)
  /\ Arranged(s, u)

\* Taking one pair out leaves a sound content that does not hold its key.
LEMMA SoundWithout ==
  ASSUME NEW s, NEW t \in Seq(Pair), NEW n, NEW u, NEW p \in 1..Len(s),
         Sound(s, n, u), Without(s, t, p)
  PROVE  /\ Sound(t, n - Size[s[p].entry], u)
         /\ s[p] \in Pair
         /\ Size[s[p].entry] \in Nat
         /\ \A i \in 1..Len(t) : t[i].key # s[p].key
<1>1. s \in Seq(Pair) /\ n \in Nat /\ SumsTo(s, n) /\ Arranged(s, u)
  BY DEF Sound
<1>2. n - Size[s[p].entry] \in Nat /\ SumsTo(t, n - Size[s[p].entry])
  BY <1>1, SumWithout
<1>3. s[p] \in Pair
  BY <1>1, ElementOfSeq
<1>4. Size[s[p].entry] \in Nat
  BY <1>3, SizeAssumption DEF Pair
<1>5. Len(s) \in Nat /\ Len(t) \in Nat /\ Len(t) = Len(s) - 1
  BY <1>1, LenProperties DEF Without
<1> DEFINE at == [i \in 1..Len(t) |-> IF i < p THEN i ELSE i + 1]
<1>6. \A i \in 1..Len(t) :
        /\ at[i] \in 1..Len(s)
        /\ at[i] # p
        /\ t[i] = s[at[i]]
  BY <1>5 DEF Without
<1>7. \A i, j \in 1..Len(t) : i < j => at[i] < at[j]
  BY <1>5
<1>10. \A i, j \in 1..Len(t) : at[i] = at[j] => i = j
  BY <1>5
<1> HIDE DEF at
<1>8. Arranged(t, u)
  <2>1. ASSUME NEW i \in 1..Len(t), NEW j \in 1..Len(t), t[i].key = t[j].key
        PROVE  i = j
    <3>1. /\ at[i] \in 1..Len(s) /\ at[j] \in 1..Len(s)
          /\ s[at[i]].key = s[at[j]].key
      BY <1>6, <2>1
    <3>2. at[i] = at[j]
      BY <3>1, <1>1 DEF Arranged
    <3> QED BY <3>2, <1>10
  <2>2. ASSUME NEW i \in 1..Len(t), NEW j \in 1..Len(t), i < j
        PROVE  t[j].key \in u[t[i].key]
    <3>1. at[i] < at[j] /\ at[i] \in 1..Len(s) /\ at[j] \in 1..Len(s)
      BY <1>6, <1>7, <2>2
    <3>2. s[at[j]].key \in u[s[at[i]].key]
      BY <3>1, <1>1 DEF Arranged
    <3>3. t[i] = s[at[i]] /\ t[j] = s[at[j]]
      BY <1>6
    <3> QED BY <3>2, <3>3
  <2>3. \A i, j \in 1..Len(t) : t[i].key = t[j].key => i = j
    BY <2>1
  <2>4. \A i, j \in 1..Len(t) : i < j => t[j].key \in u[t[i].key]
    BY <2>2
  <2> QED BY <2>3, <2>4 DEF Arranged
<1>9. \A i \in 1..Len(t) : t[i].key # s[p].key
  BY <1>1, <1>6 DEF Arranged
<1> QED
  BY <1>2, <1>3, <1>4, <1>8, <1>9 DEF Sound

\* Appending a pair of a new key, as its most recent use, is sound again.
LEMMA SoundAppend ==
  ASSUME NEW s, NEW n, NEW u, NEW e \in Pair, NEW v,
         Sound(s, n, u),
         \A i \in 1..Len(s) : s[i].key # e.key,
         v = [j \in Key |-> IF j = e.key THEN {} ELSE u[j] \cup {e.key}]
  PROVE  Sound(Append(s, e), n + Size[e.entry], v)
<1>1. s \in Seq(Pair) /\ n \in Nat /\ SumsTo(s, n) /\ Arranged(s, u)
  BY DEF Sound
<1>2. SumsTo(Append(s, e), n + Size[e.entry])
  BY <1>1, SumAppend
<1>3. n + Size[e.entry] \in Nat
  BY <1>1, SizeAssumption DEF Pair
<1> DEFINE t == Append(s, e)
<1>4. /\ t \in Seq(Pair)
      /\ Len(s) \in Nat
      /\ Len(t) = Len(s) + 1
      /\ \A i \in 1..Len(s) : t[i] = s[i]
      /\ t[Len(t)] = e
  BY <1>1, LenProperties, AppendProperties
<1>5. \A i \in 1..Len(s) : s[i].key \in Key
  <2>1. \A i \in 1..Len(s) : s[i] \in Pair
    BY <1>1, ElementOfSeq
  <2> QED BY <2>1 DEF Pair
<1> HIDE DEF t
<1>6. ASSUME NEW i \in 1..Len(t), NEW j \in 1..Len(t), t[i].key = t[j].key
      PROVE  i = j
  BY <1>1, <1>4, <1>6 DEF Arranged
<1>7. ASSUME NEW i \in 1..Len(t), NEW j \in 1..Len(t), i < j
      PROVE  t[j].key \in v[t[i].key]
  <2>1. /\ i \in 1..Len(s) /\ t[i] = s[i]
        /\ v[s[i].key] = u[s[i].key] \cup {e.key}
    <3>1. i \in 1..Len(s) /\ t[i] = s[i]
      BY <1>4, <1>7
    <3>2. s[i].key \in Key /\ s[i].key # e.key
      BY <3>1, <1>5
    <3> QED BY <3>1, <3>2
  <2>2. CASE j = Len(t)
    BY <2>1, <2>2, <1>4
  <2>3. CASE j # Len(t)
    <3>1. j \in 1..Len(s) /\ t[j] = s[j]
      BY <2>3, <1>4
    <3>2. s[j].key \in u[s[i].key]
      BY <3>1, <2>1, <1>1, <1>7 DEF Arranged
    <3> QED BY <3>1, <3>2, <2>1
  <2> QED BY <2>2, <2>3
<1>8. Arranged(t, v)
  BY <1>6, <1>7 DEF Arranged
<1> QED
  BY <1>2, <1>3, <1>4, <1>8 DEF Sound, t

-----------------------------------------------------------------------------
\* The inductive invariant: the content is sound and within the limit, and
\* the key a put is about to insert is not in it.
IInv ==
  /\ TypeOK
  /\ KeysDistinct
  /\ BytesAccounted
  /\ WithinLimit
  /\ OrderIsRecency

\* The invariant says that the content of the map is sound.
LEMMA IInvIsSound ==
  IInv => Sound(map, current_size_bytes, usedSince)
BY DEF IInv, TypeOK, KeysDistinct, BytesAccounted, OrderIsRecency, Sound,
       Arranged, Pair

\* What a step has to show of its outcome to preserve the invariant.
LEMMA SoundIsIInv ==
  ASSUME Sound(map', current_size_bytes', usedSince'),
         current_size_bytes' <= max_size_bytes,
         usedSince' \in [Key -> SUBSET Key],
         reply' \in [key : Key, entry : Entry \cup {None}] \cup {None},
         writer' \in [key : Key, entry : Entry, victim : Entry \cup {None}]
                      \cup {None},
         writer' # None => \A i \in 1..Len(map') : map'[i].key # writer'.key
  PROVE  IInv'
BY DEF IInv, TypeOK, KeysDistinct, BytesAccounted, WithinLimit, OrderIsRecency,
       Sound, Arranged, Pair, StoredKeys

\* A stored key has a position, and the pair there is its own.
LEMMA PositionProperties ==
  ASSUME NEW k \in StoredKeys
  PROVE  Position(k) \in 1..Len(map) /\ map[Position(k)].key = k
BY DEF StoredKeys, Position

\* Popping a key keeps the content sound, frees bytes and leaves no pair of
\* that key behind.
LEMMA PopKeyIsSound ==
  ASSUME IInv, NEW k \in Key, PopKey(k)
  PROVE  /\ Sound(map', current_size_bytes', usedSince)
         /\ current_size_bytes' <= current_size_bytes
         /\ \A i \in 1..Len(map') : map'[i].key # k
<1>1. Sound(map, current_size_bytes, usedSince)
  BY IInvIsSound
<1>2. CASE k \in StoredKeys
  <2> DEFINE p == Position(k)
  <2>1. p \in 1..Len(map) /\ map[p].key = k
    BY <1>2, PositionProperties
  <2>2. /\ map' = RemoveAt(map, p)
        /\ current_size_bytes' = current_size_bytes - Size[map[p].entry]
    BY <1>2 DEF PopKey, Stored
  <2> HIDE DEF p
  <2>3. map' \in Seq(Pair) /\ Without(map, map', p)
    BY <1>1, <2>1, <2>2, RemoveAtProperties DEF Sound
  <2>4. /\ Sound(map', current_size_bytes - Size[map[p].entry], usedSince)
        /\ Size[map[p].entry] \in Nat
        /\ \A i \in 1..Len(map') : map'[i].key # map[p].key
    BY <1>1, <2>1, <2>3, SoundWithout
  <2>5. current_size_bytes \in Nat
    BY <1>1 DEF Sound
  <2> QED BY <2>1, <2>2, <2>4, <2>5
<1>3. CASE k \notin StoredKeys
  BY <1>1, <1>3 DEF PopKey, StoredKeys, Sound
<1> QED BY <1>2, <1>3

\* One step per action of Next.
LEMMA IInvInductive == IInv /\ [Next]_vars => IInv'
<1> SUFFICES ASSUME IInv, [Next]_vars
             PROVE  IInv'
  OBVIOUS
<1> USE LimitAssumption
<1>0. /\ Sound(map, current_size_bytes, usedSince)
      /\ TypeOK
      /\ current_size_bytes \in Nat /\ current_size_bytes <= max_size_bytes
      /\ writer # None => writer.key \notin StoredKeys
  BY IInvIsSound DEF IInv, Sound, WithinLimit, KeysDistinct
<1>1. ASSUME NEW k \in Key, Get(k)
      PROVE  IInv'
  <2>1. CASE k \in StoredKeys
    <3> DEFINE p == Position(k)
               s == RemoveAt(map, p)
    <3>1. p \in 1..Len(map) /\ map[p].key = k
      BY <2>1, PositionProperties
    <3>2. /\ map' = Append(s, map[p])
          /\ reply' = [key |-> k, entry |-> map[p].entry]
          /\ usedSince' = [j \in Key |-> IF j = k THEN {} ELSE usedSince[j] \cup {k}]
          /\ UNCHANGED <<current_size_bytes, writer>>
          /\ writer = None
      BY <1>1, <2>1 DEF Get, Stored, Touch
    <3> HIDE DEF p
    <3>3. s \in Seq(Pair) /\ Without(map, s, p)
      BY <1>0, <3>1, RemoveAtProperties DEF Sound
    <3> HIDE DEF s
    <3>4. /\ Sound(s, current_size_bytes - Size[map[p].entry], usedSince)
          /\ map[p] \in Pair
          /\ Size[map[p].entry] \in Nat
          /\ \A i \in 1..Len(s) : s[i].key # map[p].key
      BY <1>0, <3>1, <3>3, SoundWithout
    <3>5. Sound(map', current_size_bytes - Size[map[p].entry] + Size[map[p].entry],
                usedSince')
      BY <3>1, <3>2, <3>4, SoundAppend
    <3>6. Sound(map', current_size_bytes', usedSince')
      <4>1. current_size_bytes - Size[map[p].entry] + Size[map[p].entry]
              = current_size_bytes
        BY <1>0, <3>4
      <4> QED BY <4>1, <3>2, <3>5
    <3>7. usedSince' \in [Key -> SUBSET Key]
      BY <1>0, <3>2 DEF TypeOK
    <3>8. reply' \in [key : Key, entry : Entry \cup {None}]
      BY <3>2, <3>4 DEF Pair
    <3> QED BY <1>0, <3>2, <3>6, <3>7, <3>8, SoundIsIInv DEF TypeOK
  <2>2. CASE k \notin StoredKeys
    <3>1. /\ UNCHANGED <<map, usedSince, current_size_bytes, writer>>
          /\ reply' \in [key : Key, entry : Entry \cup {None}]
          /\ writer = None
      BY <1>1, <2>2 DEF Get
    <3> QED BY <1>0, <3>1, SoundIsIInv DEF TypeOK
  <2> QED BY <2>1, <2>2
<1>2. ASSUME NEW k \in Key, Delete(k)
      PROVE  IInv'
  <2>1. PopKey(k) /\ writer = None /\ UNCHANGED <<writer, reply, usedSince>>
    BY <1>2 DEF Delete
  <2>2. /\ Sound(map', current_size_bytes', usedSince)
        /\ current_size_bytes' <= current_size_bytes
    BY <2>1, PopKeyIsSound
  <2>3. current_size_bytes' \in Nat
    BY <2>2 DEF Sound
  <2> QED BY <1>0, <2>1, <2>2, <2>3, SoundIsIInv DEF TypeOK
<1>3. ASSUME NEW k \in Key, NEW e \in Entry, PutBegin(k, e)
      PROVE  IInv'
  <2>1. /\ PopKey(k)
        /\ writer' = [key |-> k, entry |-> e, victim |-> None]
        /\ UNCHANGED <<reply, usedSince>>
    BY <1>3 DEF PutBegin
  <2>2. /\ Sound(map', current_size_bytes', usedSince)
        /\ current_size_bytes' <= current_size_bytes
        /\ \A i \in 1..Len(map') : map'[i].key # k
    BY <2>1, PopKeyIsSound
  <2>3. current_size_bytes' \in Nat
    BY <2>2 DEF Sound
  <2>4. /\ writer' \in [key : Key, entry : Entry, victim : Entry \cup {None}]
        /\ writer'.key = k
    BY <2>1
  <2> QED BY <1>0, <2>1, <2>2, <2>3, <2>4, SoundIsIInv DEF TypeOK
<1>4. CASE Evict
  <2>1. /\ writer # None /\ map # <<>>
        /\ map' = Tail(map)
        /\ current_size_bytes' = current_size_bytes - Size[Head(map).entry]
        /\ writer' = [writer EXCEPT !.victim = Head(map).entry]
        /\ UNCHANGED <<reply, usedSince>>
    BY <1>4 DEF Evict, NeedsRoom
  <2>2. /\ map' \in Seq(Pair) /\ 1 \in 1..Len(map)
        /\ Head(map) = map[1] /\ Without(map, map', 1)
    BY <1>0, <2>1, TailProperties DEF Sound
  <2>3. /\ Sound(map', current_size_bytes - Size[map[1].entry], usedSince)
        /\ map[1] \in Pair
        /\ Size[map[1].entry] \in Nat
    BY <1>0, <2>2, SoundWithout
  <2>4. /\ writer' \in [key : Key, entry : Entry, victim : Entry \cup {None}]
        /\ writer'.key = writer.key
    BY <1>0, <2>1, <2>2, <2>3 DEF TypeOK, Pair
  <2>5. \A i \in 1..Len(map') : map'[i].key # writer.key
    <3>1. \A i \in 1..Len(map') : i + 1 \in 1..Len(map) /\ map'[i] = map[i + 1]
      <4>1. Len(map) \in Nat
        BY <1>0, LenProperties DEF Sound
      <4> QED BY <4>1, <2>2 DEF Without
    <3> QED BY <3>1, <1>0, <2>1 DEF StoredKeys
  <2>6. /\ Sound(map', current_size_bytes', usedSince')
        /\ current_size_bytes' <= max_size_bytes
    BY <1>0, <2>1, <2>2, <2>3
  <2> QED BY <1>0, <2>1, <2>4, <2>5, <2>6, SoundIsIInv DEF TypeOK
<1>5. CASE PutSkip
  <2>1. UNCHANGED <<map, current_size_bytes, reply, usedSince>> /\ writer' = None
    BY <1>5 DEF PutSkip
  <2> QED BY <1>0, <2>1, SoundIsIInv DEF TypeOK
<1>6. CASE PutStore
  <2> DEFINE e == [key |-> writer.key, entry |-> writer.entry]
  <2>1. /\ writer # None /\ ~NeedsRoom
        /\ Size[writer.entry] <= max_size_bytes
        /\ current_size_bytes' = current_size_bytes + Size[writer.entry]
        /\ map' = Append(map, e)
        /\ usedSince' = [j \in Key |-> IF j = writer.key THEN {}
                                       ELSE usedSince[j] \cup {writer.key}]
        /\ writer' = None /\ UNCHANGED reply
    BY <1>6 DEF PutStore, Touch
  <2>2. /\ e \in Pair /\ e.key = writer.key /\ e.entry = writer.entry
        /\ writer.key \in Key /\ writer.entry \in Entry
    BY <1>0, <2>1 DEF TypeOK, Pair
  <2>3. \A i \in 1..Len(map) : map[i].key # e.key
    BY <1>0, <2>1, <2>2 DEF StoredKeys
  <2>4. usedSince' = [j \in Key |-> IF j = e.key THEN {}
                                    ELSE usedSince[j] \cup {e.key}]
    BY <2>1, <2>2
  <2> HIDE DEF e
  <2>5. Sound(map', current_size_bytes', usedSince')
    BY <1>0, <2>1, <2>2, <2>3, <2>4, SoundAppend
  <2>6. Size[writer.entry] \in Nat
    BY <2>2, SizeAssumption
  <2>7. current_size_bytes' <= max_size_bytes
    <3>1. CASE map = <<>>
      <4>1. current_size_bytes = 0
        BY <3>1, <1>0 DEF Sound, SumsTo
      <4> QED BY <4>1, <2>1, <2>6
    <3>2. CASE map # <<>>
      BY <3>2, <2>1, <2>6, <1>0 DEF NeedsRoom
    <3> QED BY <3>1, <3>2
  <2>8. usedSince' \in [Key -> SUBSET Key]
    BY <1>0, <2>1, <2>2 DEF TypeOK
  <2> QED BY <1>0, <2>1, <2>5, <2>7, <2>8, SoundIsIInv DEF TypeOK
<1>7. CASE Clear
  <2>1. /\ map' = <<>> /\ current_size_bytes' = 0 /\ writer = None
        /\ UNCHANGED <<writer, reply, usedSince>>
    BY <1>7 DEF Clear
  <2>2. Sound(<<>>, 0, usedSince)
    BY EmptySumsToZero, EmptySeq DEF Sound, Arranged
  <2> QED BY <1>0, <2>1, <2>2, SoundIsIInv DEF TypeOK
<1>8. CASE UNCHANGED vars
  BY <1>8 DEF vars, IInv, TypeOK, KeysDistinct, BytesAccounted, WithinLimit,
              OrderIsRecency, StoredKeys
<1> QED
  BY <1>1, <1>2, <1>3, <1>4, <1>5, <1>6, <1>7, <1>8 DEF Next

\* The empty cache satisfies the invariant.
LEMMA InitIInv == Init => IInv
<1> SUFFICES ASSUME Init PROVE IInv
  OBVIOUS
<1>1. SumsTo(<<>>, 0)
  BY EmptySumsToZero
<1>2. <<>> \in Seq([key : Key, entry : Entry]) /\ Len(<<>>) = 0
  OBVIOUS
<1> QED
  BY <1>1, <1>2, LimitAssumption
     DEF Init, IInv, TypeOK, KeysDistinct, BytesAccounted, WithinLimit,
         OrderIsRecency, StoredKeys

\* So the invariant holds in every reachable state.
LEMMA IInvInvariant == Spec => []IInv
BY InitIInv, IInvInductive, PTL DEF Spec

\* The types of the state, the counter's being a natural number included:
\* `current_size_bytes -= old.size()` never underflows.
THEOREM TypeCorrect == Spec => []TypeOK
<1>1. IInv => TypeOK
  BY DEF IInv
<1> QED
  BY <1>1, IInvInvariant, PTL

\* The byte counter is the sum of the sizes in the map.
THEOREM AccountingCorrect == Spec => []BytesAccounted
<1>1. IInv => BytesAccounted
  BY DEF IInv
<1> QED
  BY <1>1, IInvInvariant, PTL

\* The cache never holds more bytes than its limit.
THEOREM LimitRespected == Spec => []WithinLimit
<1>1. IInv => WithinLimit
  BY DEF IInv
<1> QED
  BY <1>1, IInvInvariant, PTL

\* The front of the map is always the least recently used pair.
THEOREM RecencyCorrect == Spec => []OrderIsRecency
<1>1. IInv => OrderIsRecency
  BY DEF IInv
<1> QED
  BY <1>1, IInvInvariant, PTL

-----------------------------------------------------------------------------
\* A put that has evicted something could not have done without its last
\* victim's bytes.
VictimWasNeeded ==
  \A w \in {writer} \ {None} :
    w.victim # None
      => current_size_bytes + Size[w.victim] + Size[w.entry] > max_size_bytes

\* Every step of a put keeps the fact that its last victim had to go.
LEMMA VictimInductive == IInv /\ VictimWasNeeded /\ [Next]_vars => VictimWasNeeded'
<1> SUFFICES ASSUME IInv, VictimWasNeeded, [Next]_vars
             PROVE  VictimWasNeeded'
  OBVIOUS
<1>0. TypeOK /\ Sound(map, current_size_bytes, usedSince)
  BY IInvIsSound DEF IInv
<1>1. ASSUME NEW k \in Key, Get(k) \/ Delete(k)
      PROVE  VictimWasNeeded'
  BY <1>1 DEF Get, Delete, VictimWasNeeded
<1>2. ASSUME NEW k \in Key, NEW e \in Entry, PutBegin(k, e)
      PROVE  VictimWasNeeded'
  BY <1>2 DEF PutBegin, VictimWasNeeded
<1>3. CASE Evict
  <2>1. /\ writer # None /\ map # <<>>
        /\ current_size_bytes + Size[writer.entry] > max_size_bytes
        /\ current_size_bytes' = current_size_bytes - Size[Head(map).entry]
        /\ writer' = [writer EXCEPT !.victim = Head(map).entry]
    BY <1>3 DEF Evict, NeedsRoom
  <2>2. Head(map) \in Pair
    <3>1. map \in Seq(Pair)
      BY <1>0 DEF Sound
    <3> QED BY <3>1, <2>1, HeadTailProperties
  <2>3. writer'.victim = Head(map).entry /\ writer'.entry = writer.entry
    BY <1>0, <2>1 DEF TypeOK
  <2>4. /\ Size[Head(map).entry] \in Nat /\ Size[writer.entry] \in Nat
        /\ current_size_bytes \in Nat
    BY <1>0, <2>1, <2>2, SizeAssumption DEF TypeOK, Pair
  <2>5. current_size_bytes' + Size[Head(map).entry] + Size[writer.entry]
          = current_size_bytes + Size[writer.entry]
    BY <2>1, <2>4
  <2>6. current_size_bytes' + Size[writer'.victim] + Size[writer'.entry]
          > max_size_bytes
    BY <2>1, <2>3, <2>5
  <2> QED BY <2>6 DEF VictimWasNeeded
<1>4. CASE PutSkip \/ PutStore \/ Clear
  BY <1>4 DEF PutSkip, PutStore, Clear, VictimWasNeeded
<1>5. CASE UNCHANGED vars
  BY <1>5 DEF vars, VictimWasNeeded
<1> QED
  BY <1>1, <1>2, <1>3, <1>4, <1>5 DEF Next

\* Evictions are never gratuitous, for every set of sizes and every limit.
THEOREM EvictionNecessary == Spec => EvictsNoMoreThanNeeded
<1>1. Init => VictimWasNeeded
  BY DEF Init, VictimWasNeeded
<1>2. IInv /\ VictimWasNeeded /\ [Next]_vars
        => [\A w \in {writer} \ {None} :
              (PutStore /\ w.victim # None)
                => current_size_bytes' + Size[w.victim] > max_size_bytes]_vars
  <2> SUFFICES ASSUME IInv, VictimWasNeeded, PutStore, writer # None,
                      writer.victim # None
               PROVE  current_size_bytes' + Size[writer.victim] > max_size_bytes
    OBVIOUS
  <2>1. current_size_bytes' = current_size_bytes + Size[writer.entry]
    BY DEF PutStore
  <2>2. current_size_bytes + Size[writer.victim] + Size[writer.entry] > max_size_bytes
    BY DEF VictimWasNeeded
  <2>3. /\ current_size_bytes \in Nat
        /\ Size[writer.entry] \in Nat /\ Size[writer.victim] \in Nat
    BY SizeAssumption DEF IInv, TypeOK
  <2> QED BY <2>1, <2>2, <2>3
<1> QED
  BY <1>1, <1>2, VictimInductive, IInvInvariant, PTL
     DEF Spec, EvictsNoMoreThanNeeded

-----------------------------------------------------------------------------
\* The content of a sequence of pairs as a lookup.
Lookup(s, h) ==
  /\ h \in [Key -> Entry \cup {None}]
  /\ \A i \in 1..Len(s) : h[s[i].key] = s[i].entry
  /\ \A k \in Key : (\A i \in 1..Len(s) : s[i].key # k) => h[k] = None

\* The refinement mapping is the lookup function of the map.
LEMMA HeldIsLookup == IInv => Lookup(map, Held)
<1> SUFFICES ASSUME IInv PROVE Lookup(map, Held)
  OBVIOUS
<1>1. \A i \in 1..Len(map) : map[i] \in Pair
  BY ElementOfSeq DEF IInv, TypeOK, Pair
<1>2. \A k \in StoredKeys : /\ Position(k) \in 1..Len(map)
                            /\ map[Position(k)].key = k
  BY PositionProperties
<1>3. Held \in [Key -> Entry \cup {None}]
  BY <1>1, <1>2 DEF Held, Stored, Pair
<1>4. ASSUME NEW i \in 1..Len(map)
      PROVE  Held[map[i].key] = map[i].entry
  <2>1. map[i].key \in StoredKeys /\ map[i].key \in Key
    BY <1>1 DEF StoredKeys, Pair
  <2>2. Position(map[i].key) = i
    BY <1>2, <2>1 DEF IInv, KeysDistinct
  <2> QED BY <2>1, <2>2 DEF Held, Stored
<1>5. \A k \in Key : (\A i \in 1..Len(map) : map[i].key # k) => Held[k] = None
  BY DEF Held, StoredKeys
<1> QED BY <1>3, <1>4, <1>5 DEF Lookup

\* A sequence has one lookup.
LEMMA LookupUnique ==
  ASSUME NEW s, NEW h, NEW g, Lookup(s, h), Lookup(s, g)
  PROVE  h = g
<1>1. ASSUME NEW k \in Key
      PROVE  h[k] = g[k]
  <2>1. CASE \A i \in 1..Len(s) : s[i].key # k
    BY <2>1 DEF Lookup
  <2>2. ASSUME NEW i \in 1..Len(s), s[i].key = k
        PROVE  h[k] = g[k]
    BY <2>2 DEF Lookup
  <2> QED BY <2>1, <2>2
<1> QED BY <1>1 DEF Lookup

\* Without a pair, the lookup forgets its key.
LEMMA LookupWithout ==
  ASSUME NEW s, NEW t \in Seq(Pair), NEW n, NEW u, NEW p \in 1..Len(s), NEW h,
         Sound(s, n, u), Without(s, t, p), Lookup(s, h)
  PROVE  Lookup(t, [h EXCEPT ![s[p].key] = None])
<1> DEFINE g == [h EXCEPT ![s[p].key] = None]
<1>1. s \in Seq(Pair) /\ Arranged(s, u)
  BY DEF Sound
<1>2. Len(s) \in Nat /\ Len(t) \in Nat /\ Len(t) = Len(s) - 1
  BY <1>1, LenProperties DEF Without
<1>3. g \in [Key -> Entry \cup {None}]
  BY DEF Lookup
<1>4. \A i \in 1..Len(t) : t[i] \in Pair /\ t[i].key # s[p].key
  BY ElementOfSeq, SoundWithout
<1>5. ASSUME NEW i \in 1..Len(t)
      PROVE  g[t[i].key] = t[i].entry
  <2>1. PICK j \in 1..Len(s) : t[i] = s[j]
    <3>1. CASE i < p
      BY <3>1, <1>2 DEF Without
    <3>2. CASE ~(i < p)
      BY <3>2, <1>2 DEF Without
    <3> QED BY <3>1, <3>2
  <2>2. h[t[i].key] = t[i].entry
    BY <2>1 DEF Lookup
  <2> QED BY <2>2, <1>4 DEF Lookup, Pair
<1>6. ASSUME NEW k \in Key, \A i \in 1..Len(t) : t[i].key # k
      PROVE  g[k] = None
  <2>1. CASE k = s[p].key
    BY <2>1 DEF Lookup
  <2>2. CASE k # s[p].key
    <3>1. ASSUME NEW j \in 1..Len(s)
          PROVE  s[j].key # k
      <4>1. CASE j < p
        <5>1. j \in 1..Len(t) /\ t[j] = s[j]
          BY <4>1, <1>2 DEF Without
        <5> QED BY <5>1, <1>6
      <4>2. CASE j = p
        BY <4>2, <2>2
      <4>3. CASE p < j
        <5>1. j - 1 \in 1..Len(t) /\ ~(j - 1 < p) /\ j - 1 + 1 = j
          BY <4>3, <1>2
        <5>2. t[j - 1] = s[j]
          BY <5>1 DEF Without
        <5> QED BY <5>1, <5>2, <1>6
      <4> QED BY <4>1, <4>2, <4>3, <1>2
    <3> QED BY <3>1, <2>2 DEF Lookup
  <2> QED BY <2>1, <2>2
<1> HIDE DEF g
<1> QED BY <1>3, <1>5, <1>6 DEF Lookup, g

\* With a pair of a new key, the lookup learns its entry.
LEMMA LookupAppend ==
  ASSUME NEW s \in Seq(Pair), NEW e \in Pair, NEW h, Lookup(s, h),
         \A i \in 1..Len(s) : s[i].key # e.key
  PROVE  Lookup(Append(s, e), [h EXCEPT ![e.key] = e.entry])
<1> DEFINE g == [h EXCEPT ![e.key] = e.entry]
           t == Append(s, e)
<1>1. /\ Len(s) \in Nat
      /\ Len(t) = Len(s) + 1
      /\ \A i \in 1..Len(s) : t[i] = s[i]
      /\ t[Len(t)] = e
  BY LenProperties, AppendProperties
<1>2. g \in [Key -> Entry \cup {None}]
  BY DEF Lookup, Pair
<1>3. \A i \in 1..Len(s) : s[i] \in Pair
  BY ElementOfSeq
<1> HIDE DEF t
<1>4. ASSUME NEW i \in 1..Len(t)
      PROVE  g[t[i].key] = t[i].entry
  <2>1. CASE i = Len(t)
    BY <2>1, <1>1 DEF Lookup, Pair
  <2>2. CASE i # Len(t)
    <3>1. i \in 1..Len(s) /\ t[i] = s[i]
      BY <2>2, <1>1
    <3> QED BY <3>1, <1>3 DEF Lookup, Pair
  <2> QED BY <2>1, <2>2
<1>5. ASSUME NEW k \in Key, \A i \in 1..Len(t) : t[i].key # k
      PROVE  g[k] = None
  <2>1. \A i \in 1..Len(s) : i \in 1..Len(t) /\ s[i].key # k
    BY <1>1, <1>5
  <2>2. k # e.key
    BY <1>1, <1>5
  <2> QED BY <2>1, <2>2 DEF Lookup
<1> HIDE DEF g
<1> QED BY <1>2, <1>4, <1>5 DEF Lookup, g, t

\* The cache implements the store that only ever forgets.
THEOREM StoreImplemented == Spec => ImplementsLossyStore
<1>1. Init => Store!Init
  BY EmptySeq DEF Init, Store!Init, StoredKeys, Held, Offered
<1>2. (IInv => Lookup(map, Held))'
  BY HeldIsLookup, PTL
<1>3. IInv /\ IInv' /\ [Next]_vars => [Store!Next]_(Store!lsvars)
  <2> SUFFICES ASSUME IInv, IInv', Next
               PROVE  Store!Next \/ UNCHANGED Store!lsvars
    <3>1. UNCHANGED vars => UNCHANGED Store!lsvars
      BY DEF vars, Store!lsvars, StoredKeys, Stored, Position, Held, Offered
    <3> QED BY <3>1
  <2>0. /\ Sound(map, current_size_bytes, usedSince)
        /\ map \in Seq(Pair)
        /\ TypeOK
        /\ KeysDistinct
        /\ Lookup(map, Held)
        /\ Lookup(map', Held')
    BY <1>2, IInvIsSound, HeldIsLookup DEF IInv, Sound
  <2>1. \A k \in Key : PopKey(k) => Held' = [Held EXCEPT ![k] = None]
    <3> SUFFICES ASSUME NEW k \in Key, PopKey(k)
                 PROVE  Held' = [Held EXCEPT ![k] = None]
      OBVIOUS
    <3>1. CASE k \in StoredKeys
      <4>1. /\ Position(k) \in 1..Len(map) /\ map[Position(k)].key = k
            /\ map' = RemoveAt(map, Position(k))
        BY <3>1, PositionProperties DEF PopKey
      <4>2. map' \in Seq(Pair) /\ Without(map, map', Position(k))
        BY <4>1, <2>0, RemoveAtProperties
      <4>3. Lookup(map', [Held EXCEPT ![map[Position(k)].key] = None])
        BY <4>1, <4>2, <2>0, LookupWithout
      <4> QED BY <4>1, <4>3, <2>0, LookupUnique
    <3>2. CASE k \notin StoredKeys
      <4>1. map' = map /\ Held[k] = None
        BY <3>2 DEF PopKey, Held
      <4>2. Held' = Held
        BY <4>1, <2>0, LookupUnique
      <4> QED BY <4>1, <4>2, <2>0 DEF Lookup
    <3> QED BY <3>1, <3>2
  <2>2. ASSUME NEW k \in Key, Get(k)
        PROVE  Store!Get(k)
    <3>1. Held' = Held
      <4>1. CASE k \in StoredKeys
        <5> DEFINE p == Position(k)
                   s == RemoveAt(map, p)
        <5>1. /\ p \in 1..Len(map) /\ map[p].key = k
              /\ map' = Append(s, map[p])
          BY <4>1, <2>2, PositionProperties DEF Get
        <5> HIDE DEF p
        <5>2. s \in Seq(Pair) /\ Without(map, s, p)
          BY <5>1, <2>0, RemoveAtProperties
        <5> HIDE DEF s
        <5>3. /\ Lookup(s, [Held EXCEPT ![k] = None])
              /\ map[p] \in Pair
              /\ \A i \in 1..Len(s) : s[i].key # k
          BY <5>1, <5>2, <2>0, LookupWithout, SoundWithout
        <5>4. Lookup(map', [[Held EXCEPT ![k] = None] EXCEPT ![k] = map[p].entry])
          BY <5>1, <5>2, <5>3, LookupAppend
        <5>5. Held[k] = map[p].entry /\ Held \in [Key -> Entry \cup {None}]
          BY <5>1, <2>0 DEF Lookup
        <5>6. [[Held EXCEPT ![k] = None] EXCEPT ![k] = map[p].entry] = Held
          BY <5>5
        <5> QED BY <5>4, <5>6, <2>0, LookupUnique
      <4>2. CASE k \notin StoredKeys
        <5>1. map' = map
          BY <4>2, <2>2 DEF Get
        <5> QED BY <5>1, <2>0, LookupUnique
      <4> QED BY <4>1, <4>2
    <3>2. reply' = [key |-> k, entry |-> Held[k]] /\ UNCHANGED writer /\ writer = None
      BY <2>2 DEF Get, Held
    <3>3. Offered = None /\ Offered' = Offered
      BY <3>2 DEF Offered
    <3> QED BY <3>1, <3>2, <3>3 DEF Store!Get
  <2>3. ASSUME NEW k \in Key, Delete(k)
        PROVE  Store!Forget({k})
    <3>1. Held' = [Held EXCEPT ![k] = None] /\ UNCHANGED <<writer, reply>>
      BY <2>1, <2>3 DEF Delete
    <3>2. Held' = [j \in Key |-> IF j \in {k} THEN None ELSE Held[j]]
      BY <3>1 DEF Held
    <3> QED BY <3>1, <3>2 DEF Store!Forget, Offered
  <2>4. ASSUME NEW k \in Key, NEW e \in Entry, PutBegin(k, e)
        PROVE  Store!Offer(k, e)
    <3>1. /\ Held' = [Held EXCEPT ![k] = None]
          /\ writer = None /\ writer' # None
          /\ writer' = [key |-> k, entry |-> e, victim |-> None]
          /\ UNCHANGED reply
      <4>1. [key |-> k, entry |-> e, victim |-> None]
              \in [key : Key, entry : Entry, victim : Entry \cup {None}]
        OBVIOUS
      <4> QED BY <4>1, <2>1, <2>4, NoneAssumption DEF PutBegin
    <3> QED BY <3>1 DEF Store!Offer, Offered
  <2>5. CASE Evict
    <3>1. /\ writer # None /\ map # <<>> /\ map' = Tail(map)
          /\ writer' = [writer EXCEPT !.victim = Head(map).entry]
          /\ UNCHANGED reply
      BY <2>5 DEF Evict, NeedsRoom
    <3>2. /\ map' \in Seq(Pair) /\ 1 \in 1..Len(map) /\ Without(map, map', 1)
      BY <3>1, <2>0, TailProperties
    <3>3. Held' = [Held EXCEPT ![map[1].key] = None]
      <4>1. Lookup(map', [Held EXCEPT ![map[1].key] = None])
        BY <3>2, <2>0, LookupWithout
      <4> QED BY <4>1, <2>0, LookupUnique
    <3>4. Held' = [j \in Key |-> IF j \in {map[1].key} THEN None ELSE Held[j]]
      BY <3>3 DEF Held
    <3>5. /\ map[1].key \in Key
          /\ Head(map).entry \in Entry
      <4>1. map[1] \in Pair /\ Head(map) = map[1]
        BY <3>1, <3>2, <2>0, ElementOfSeq, TailProperties
      <4> QED BY <4>1 DEF Pair
    <3>6. /\ writer' # None
          /\ writer'.key = writer.key /\ writer'.entry = writer.entry
      <4>1. writer' \in [key : Key, entry : Entry, victim : Entry \cup {None}]
        BY <3>1, <3>5, <2>0 DEF TypeOK
      <4> QED BY <4>1, <3>1, <2>0, NoneAssumption DEF TypeOK
    <3>7. Offered' = Offered /\ reply' = reply
      BY <3>1, <3>6 DEF Offered
    <3>8. Store!Forget({map[1].key})
      BY <3>4, <3>7 DEF Store!Forget
    <3>9. {map[1].key} \in SUBSET Key
      BY <3>5
    <3>10. \E S \in SUBSET Key : Store!Forget(S)
      BY <3>8, <3>9
    <3> QED BY <3>10 DEF Store!Next
  <2>6. CASE PutSkip
    <3>1. /\ writer # None /\ writer' = None /\ UNCHANGED <<map, reply>>
      BY <2>6 DEF PutSkip
    <3>2. Held' = Held
      BY <3>1, <2>0, LookupUnique
    <3>3. [key |-> writer.key, entry |-> writer.entry] # None
      BY <3>1, <2>0, NoneAssumption DEF TypeOK
    <3>4. Store!Decline
      BY <3>1, <3>2, <3>3 DEF Store!Decline, Offered
    <3> QED BY <3>4 DEF Store!Next
  <2>7. CASE PutStore
    <3> DEFINE e == [key |-> writer.key, entry |-> writer.entry]
    <3>1. /\ writer # None /\ writer' = None /\ UNCHANGED reply
          /\ map' = Append(map, e)
      BY <2>7 DEF PutStore
    <3>2. e \in Pair /\ e.key = writer.key /\ e.entry = writer.entry /\ e # None
      BY <3>1, <2>0, NoneAssumption DEF TypeOK, Pair
    <3>3. \A i \in 1..Len(map) : map[i].key # e.key
      BY <3>1, <3>2, <2>0 DEF KeysDistinct, StoredKeys
    <3> HIDE DEF e
    <3>4. Lookup(map', [Held EXCEPT ![e.key] = e.entry])
      BY <3>1, <3>2, <3>3, <2>0, LookupAppend
    <3>5. Held' = [Held EXCEPT ![e.key] = e.entry]
      BY <3>4, <2>0, LookupUnique
    <3>6. Store!Accept
      BY <3>1, <3>2, <3>5 DEF Store!Accept, Offered, e
    <3> QED BY <3>6 DEF Store!Next
  <2>8. CASE Clear
    <3>1. map' = <<>> /\ UNCHANGED <<writer, reply>>
      BY <2>8 DEF Clear
    <3>2. Held' = [k \in Key |-> IF k \in Key THEN None ELSE Held[k]]
      <4>1. \A k \in Key : Held'[k] = None
        BY <3>1, <2>0 DEF Lookup
      <4> QED BY <4>1, <2>0 DEF Lookup
    <3>3. Store!Forget(Key)
      BY <3>1, <3>2 DEF Store!Forget, Offered
    <3> QED BY <3>3 DEF Store!Next
  <2> QED
    BY <2>2, <2>3, <2>4, <2>5, <2>6, <2>7, <2>8 DEF Next, Store!Next
<1> QED
  BY <1>1, <1>3, IInvInvariant, PTL DEF Spec, ImplementsLossyStore, Store!Spec

=============================================================================
