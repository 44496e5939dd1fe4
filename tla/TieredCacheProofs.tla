-------------------------- MODULE TieredCacheProofs -------------------------
(***************************************************************************)
(* The two-level cache, proved for any number of instances, calls, keys    *)
(* and puts: what is durable was put, a put that meets no get stays, a key *)
(* that is gone stays gone, and answers are what CacheContract allows.     *)
(***************************************************************************)
EXTENDS TieredCache, TLAPS

\* Distinct keys have distinct object keys. (r2.rs:141-167 does not guarantee it:
\* doubled slashes are merged.)
OwnObjects ==
  \A k1, k2 \in Key : (SanitizeKey[k1] = SanitizeKey[k2] /\ SanitizeKey[k1] # None) => k1 = k2

\* What is on its way to the bucket was put, under numbers given out so far.
Offers ==
  /\ \A w \in Pending :
       w.entry = None \/ \E k \in Key : SanitizeKey[k] = w.object /\ w.entry \in offered[k]
  /\ \A k \in Key : offered[k] \subseteq 1..puts

\* What is on its way to an object is one of its candidates.
Standing == \A w \in Pending : w.entry \in candidates[w.object]

\* While a promise stands, no call is under way that would promote.
Promises ==
  \A i \in Instance, k \in Key :
    promised[i][k] # 0 => l1[i][k] = promised[i][k] /\ Promoting(i, k) = {}

IInv == TypeOK /\ Offers /\ BucketHoldsOnlyPuts /\ Standing /\ WritesSettle /\ Promises

-----------------------------------------------------------------------------
\* The null values are no entries, and no number of an entry is 0.
LEMMA Nulls ==
  /\ None \notin Entry /\ ErrorBody \notin Entry /\ ErrorBody # None
  /\ 0 \notin Entry /\ Entry \subseteq Nat
BY EntryAssumption, PutAssumption

\* The key of an object is one of the bucket's.
LEMMA ObjectKeys ==
  ASSUME NEW k \in Key, SanitizeKey[k] # None
  PROVE  SanitizeKey[k] \in L2Key
BY DEF L2Key

\* What a call in progress looks like (tiered.rs:48-75).
LEMMA CallShape ==
  ASSUME TypeOK, NEW t \in Task
  PROVE  /\ task[t].step \in {"idle", "l2get", "l2delete", "promote"}
         /\ task[t].step # "idle" => task[t].inst \in Instance /\ task[t].key \in Key
         /\ task[t].step = "promote" => task[t].entry \in L1Entry
         /\ task[t] = Idle <=> task[t].step = "idle"
BY DEF TypeOK, Idle

\* A get of R2 answers an entry, an error document or nothing (r2.rs:29-61).
LEMMA GetAnswers ==
  ASSUME TypeOK, NEW k \in Key, NEW e \in R2Get(k)
  PROVE  e \in L1Entry \cup {None}
BY ObjectKeys DEF TypeOK, R2Get, GetObject, L1Entry

\* A write of R2 changes one object, or is left to R2, or does nothing (r2.rs:63-77).
LEMMA WriteEffect ==
  ASSUME TypeOK, NEW k \in Key, NEW e \in Entry, R2Put(k, e)
  PROVE  /\ bucket' \in [L2Key -> Entry \cup {None}]
         /\ \A s \in L2Key : bucket'[s] = bucket[s] \/ (s = SanitizeKey[k] /\ bucket'[s] = e)
         /\ \/ late' = late
            \/ SanitizeKey[k] # None /\ late' = late \cup {[object |-> SanitizeKey[k], entry |-> e]}
BY ObjectKeys DEF TypeOK, R2Put, PutObject

\* So does a delete, which leaves no entry (r2.rs:79-90).
LEMMA DeleteEffect ==
  ASSUME TypeOK, NEW k \in Key, NEW deleted \in BOOLEAN, R2Delete(k, deleted)
  PROVE  /\ bucket' \in [L2Key -> Entry \cup {None}]
         /\ \A s \in L2Key : bucket'[s] = bucket[s] \/ (s = SanitizeKey[k] /\ bucket'[s] = None)
         /\ \/ late' = late
            \/ SanitizeKey[k] # None /\ late' = late \cup {[object |-> SanitizeKey[k], entry |-> None]}
BY ObjectKeys DEF TypeOK, R2Delete, DeleteObject

\* Who asks R2 to write, and what (tiered.rs:36-40, 73).
LEMMA Asked ==
  ASSUME NEW us, NEW ts, NEW w
  PROVE  w \in Requests(us, ts) <=>
           /\ w.object # None
           /\ \/ \E u \in us : w = [object |-> SanitizeKey[u.key], entry |-> u.entry]
              \/ \E t \in ts : /\ task[t].step = "l2delete"
                                /\ w = [object |-> SanitizeKey[task[t].key], entry |-> None]
BY DEF Requests

LEMMA PendingTyped ==
  ASSUME TypeOK, NEW w \in Pending
  PROVE  w.object \in L2Key /\ w.entry \in Entry \cup {None}
<1>1. CASE w \in late
  BY <1>1 DEF TypeOK
<1>2. CASE \E u \in uploads : w.object # None /\ w = [object |-> SanitizeKey[u.key], entry |-> u.entry]
  BY <1>2, ObjectKeys DEF TypeOK
<1>3. CASE \E t \in Task : /\ w.object # None /\ task[t].step = "l2delete"
                          /\ w = [object |-> SanitizeKey[task[t].key], entry |-> None]
  BY <1>3, CallShape, ObjectKeys
<1> QED
  BY <1>1, <1>2, <1>3, Asked DEF Pending

\* What ends or begins a write of R2: uploads and calls come and go.
LEMMA AskedLess ==
  ASSUME TypeOK, uploads' \subseteq uploads,
         \A t \in Task : task'[t].step = "l2delete" => task'[t] = task[t]
  PROVE  Requests(uploads, Task)' \subseteq Requests(uploads, Task)
<1> SUFFICES ASSUME NEW w, w \in Requests(uploads, Task)' PROVE w \in Requests(uploads, Task)
  OBVIOUS
<1>1. /\ w.object # None
      /\ \/ \E u \in uploads' : w = [object |-> SanitizeKey[u.key], entry |-> u.entry]
         \/ \E t \in Task : /\ task'[t].step = "l2delete"
                             /\ w = [object |-> SanitizeKey[task'[t].key], entry |-> None]
  BY DEF Requests
<1> QED
  BY <1>1, Asked

\* An L1 put changes one pair, to the entry or to nothing (memory.rs:60-90).
LEMMA L1Effect ==
  ASSUME TypeOK, NEW i \in Instance, NEW k \in Key, NEW e \in L1Entry, L1Put(i, k, e)
  PROVE  /\ l1' \in [Instance -> [Key -> L1Entry \cup {None}]]
         /\ l1'[i][k] \in {e, None}
         /\ \A j \in Instance, m \in Key : j # i \/ m # k => l1'[j][m] = l1[j][m]
BY DEF TypeOK, L1Put

-----------------------------------------------------------------------------
\* TypeOK is inductive.
LEMMA TypeStep == TypeOK /\ [Next]_vars => TypeOK'
<1> SUFFICES ASSUME TypeOK, [Next]_vars PROVE TypeOK'
  OBVIOUS
<1>0. Settle => candidates' \in [L2Key -> SUBSET (Entry \cup {None})]
  <2> DEFINE kept(s) == IF Writing(s)' THEN candidates[s] ELSE candidates[s] \cap {bucket'[s]}
  <2>1. \A s \in L2Key : kept(s) \subseteq candidates[s]
    OBVIOUS
  <2>2. \A s \in L2Key : kept(s) \in SUBSET (Entry \cup {None})
    BY <2>1 DEF TypeOK
  <2>3. Settle => candidates' = [s \in L2Key |-> kept(s)]
    BY DEF Settle
  <2> HIDE DEF kept
  <2> QED
    BY <2>2, <2>3
<1>a. ASSUME NEW us \in SUBSET uploads, NEW ts \in SUBSET Task, Abandon(Requests(us, ts))
      PROVE  late' \subseteq [object : L2Key, entry : Entry \cup {None}]
  <2>1. Requests(us, ts) \subseteq Pending
    BY Asked DEF Pending
  <2>2. \A w \in Requests(us, ts) : w \in [object : L2Key, entry : Entry \cup {None}]
    <3> TAKE w \in Requests(us, ts)
    <3>1. w.object \in L2Key /\ w.entry \in Entry \cup {None}
      BY <2>1, PendingTyped
    <3>2. w = [object |-> w.object, entry |-> w.entry]
      BY Asked
    <3> QED
      BY <3>1, <3>2
  <2> QED
    BY <1>a, <2>2 DEF Abandon, TypeOK
<1> USE DEF TypeOK
<1>1. ASSUME NEW t \in Task, NEW i \in Instance, NEW k \in Key, GetL1(t, i, k)
      PROVE  TypeOK'
  <2>1. /\ UNCHANGED <<bucket, late, l1, uploads, puts, offered, promised, candidates>>
        /\ \/ /\ task' = [task EXCEPT ![t] = Idle]
              /\ reply' = [key |-> k, entry |-> l1[i][k]] /\ l1[i][k] # None
           \/ /\ task' = [task EXCEPT ![t] = [step |-> "l2get", inst |-> i, key |-> k]]
              /\ reply' = reply
    BY <1>1 DEF GetL1, Answer
  <2> QED
    BY <2>1
<1>2. ASSUME NEW t \in Task, NEW i \in Instance, NEW k \in Key, DeleteL1(t, i, k)
      PROVE  TypeOK'
  <2>1. candidates' \in [L2Key -> SUBSET (Entry \cup {None})]
    BY <1>2 DEF DeleteL1, Begin
  <2> QED
    BY <1>2, <2>1 DEF DeleteL1
<1>3. ASSUME NEW t \in Task, GetL2(t)
      PROVE  TypeOK'
  <2>1. task[t].inst \in Instance /\ task[t].key \in Key
    BY <1>3, CallShape DEF GetL2
  <2>2. PICK e \in R2Get(task[t].key) :
          \/ e = None /\ Answer(t, task[t].key, None)
          \/ /\ e # None
             /\ task' = [task EXCEPT ![t] = [step |-> "promote", inst |-> @.inst,
                                             key |-> @.key, entry |-> e]]
             /\ UNCHANGED reply
    BY <1>3 DEF GetL2
  <2>3. e \in L1Entry \cup {None}
    BY <2>1, <2>2, GetAnswers
  <2>4. CASE e = None
    <3>1. /\ task' = [task EXCEPT ![t] = Idle]
          /\ reply' = [key |-> task[t].key, entry |-> None]
      BY <2>2, <2>4 DEF Answer
    <3>2. reply' \in [key : Key, entry : L1Entry \cup {None}]
      BY <2>1, <3>1
    <3> QED
      BY <1>3, <3>1, <3>2 DEF GetL2
  <2>5. CASE e # None
    <3>1. task' = [task EXCEPT ![t] = [step |-> "promote", inst |-> task[t].inst,
                                       key |-> task[t].key, entry |-> e]]
      BY <2>2, <2>5
    <3> QED
      BY <1>3, <2>1, <2>2, <2>3, <2>5, <3>1 DEF GetL2
  <2> QED
    BY <2>4, <2>5
<1>4. ASSUME NEW t \in Task, DeleteL2(t)
      PROVE  TypeOK'
  <2>1. task[t].key \in Key
    BY <1>4, CallShape DEF DeleteL2
  <2>2. PICK deleted \in BOOLEAN : R2Delete(task[t].key, deleted)
    BY <1>4 DEF DeleteL2
  <2>3. bucket' \in [L2Key -> Entry \cup {None}]
    BY <2>1, <2>2, DeleteEffect
  <2>4. late' \subseteq [object : L2Key, entry : Entry \cup {None}]
    <3>1. SanitizeKey[task[t].key] # None =>
            [object |-> SanitizeKey[task[t].key], entry |-> None] \in [object : L2Key, entry : Entry \cup {None}]
      BY <2>1, ObjectKeys
    <3>2. \/ late' = late
          \/ /\ SanitizeKey[task[t].key] # None
             /\ late' = late \cup {[object |-> SanitizeKey[task[t].key], entry |-> None]}
      BY <2>1, <2>2, DeleteEffect
    <3>3. late \subseteq [object : L2Key, entry : Entry \cup {None}]
      OBVIOUS
    <3> HIDE DEF TypeOK
    <3> QED
      BY <3>1, <3>2, <3>3
  <2> QED
    BY <1>0, <1>4, <2>3, <2>4 DEF DeleteL2
<1>5. ASSUME NEW t \in Task, Promote(t)
      PROVE  TypeOK'
  <2>1. task[t].inst \in Instance /\ task[t].key \in Key /\ task[t].entry \in L1Entry
    BY <1>5, CallShape DEF Promote
  <2>2. l1' \in [Instance -> [Key -> L1Entry \cup {None}]]
    BY <1>5, <2>1, L1Effect DEF Promote
  <2> QED
    BY <1>5, <2>1, <2>2 DEF Promote, Answer
<1>6. ASSUME NEW t \in Task, Disconnect(t)
      PROVE  TypeOK'
  <2>1. late' \subseteq [object : L2Key, entry : Entry \cup {None}]
    BY <1>6, <1>a DEF Disconnect
  <2> QED
    BY <1>0, <1>6, <2>1 DEF Disconnect
<1>7. ASSUME NEW i \in Instance, NEW k \in Key, Put(i, k)
      PROVE  TypeOK'
  <2>1. puts + 1 \in Entry
    BY <1>7, PutAssumption DEF Put
  <2>2. l1' \in [Instance -> [Key -> L1Entry \cup {None}]]
    BY <1>7, <2>1, L1Effect DEF Put, L1Entry
  <2>3. promised' \in [Instance -> [Key -> Entry \cup {0}]]
    BY <1>7, <2>1 DEF Put
  <2>4. candidates' \in [L2Key -> SUBSET (Entry \cup {None})]
    BY <1>7, <2>1 DEF Put, Begin
  <2> QED
    BY <1>7, <2>1, <2>2, <2>3, <2>4, PutAssumption DEF Put
<1>8. ASSUME NEW i \in Instance, NEW k \in Key, EvictL1(i, k)
      PROVE  TypeOK'
  BY <1>8 DEF EvictL1
<1>9. ASSUME NEW u \in uploads, Upload(u)
      PROVE  TypeOK'
  <2>1. u.key \in Key /\ u.entry \in Entry
    OBVIOUS
  <2>2. bucket' \in [L2Key -> Entry \cup {None}]
    BY <1>9, <2>1, WriteEffect DEF Upload
  <2>3. late' \subseteq [object : L2Key, entry : Entry \cup {None}]
    BY <1>9, <2>1, WriteEffect, ObjectKeys DEF Upload
  <2> QED
    BY <1>0, <1>9, <2>2, <2>3 DEF Upload
<1>10. ASSUME NEW i \in Instance, Clear(i)
       PROVE  TypeOK'
  BY <1>10 DEF Clear
<1>11. ASSUME NEW i \in Instance, Restart(i)
       PROVE  TypeOK'
  <2>1. late' \subseteq [object : L2Key, entry : Entry \cup {None}]
    BY <1>11, <1>a DEF Restart
  <2> QED
    BY <1>0, <1>11, <2>1 DEF Restart
<1>12. CASE UNCHANGED vars
  BY <1>12 DEF vars
<1>13. ASSUME NEW w \in late, R2CatchesUp(w)
       PROVE  TypeOK'
  <2>1. bucket' \in [L2Key -> Entry \cup {None}] /\ late' \subseteq late
    BY <1>13 DEF R2CatchesUp, LateWrite
  <2> QED
    BY <1>0, <1>13, <2>1 DEF R2CatchesUp
<1> QED
  BY <1>1, <1>2, <1>3, <1>4, <1>5, <1>6, <1>7, <1>8, <1>9, <1>10, <1>11, <1>12, <1>13
     DEF Next, R2Answers

-----------------------------------------------------------------------------
\* The request that a put of e, or a delete, of the key sends to R2.
Asks(k, e) == {w \in {[object |-> SanitizeKey[k], entry |-> e]} : w.object # None}

\* A step writes nothing to R2 but what was pending, and only a put or a delete makes
\* more of it pending (tiered.rs:36-40, 48-77).
LEMMA R2Step ==
  ASSUME TypeOK, [Next]_vars
  PROVE  /\ late' \subseteq Pending
         /\ \A s \in L2Key :
              bucket'[s] = bucket[s] \/ \E w \in Pending : w.object = s /\ w.entry = bucket'[s]
         /\ \/ /\ Pending' \subseteq Pending
               /\ UNCHANGED <<offered, puts>>
               /\ Settle \/ UNCHANGED candidates
            \/ \E k \in Key :
                 /\ Pending' \subseteq Pending \cup Asks(k, puts + 1)
                 /\ puts' = puts + 1 /\ offered' = [offered EXCEPT ![k] = @ \cup {puts + 1}]
                 /\ Begin(k, puts + 1)
            \/ \E k \in Key :
                 /\ Pending' \subseteq Pending \cup Asks(k, None)
                 /\ UNCHANGED <<offered, puts>>
                 /\ Begin(k, None)
<1> DEFINE Wrote == /\ late' \subseteq Pending
                    /\ \A s \in L2Key : \/ bucket'[s] = bucket[s]
                                        \/ \E w \in Pending : w.object = s /\ w.entry = bucket'[s]
           Fewer == /\ Pending' \subseteq Pending
                    /\ UNCHANGED <<offered, puts>>
                    /\ Settle \/ UNCHANGED candidates
           NewPut == \E k \in Key :
                       /\ Pending' \subseteq Pending \cup Asks(k, puts + 1)
                       /\ puts' = puts + 1 /\ offered' = [offered EXCEPT ![k] = @ \cup {puts + 1}]
                       /\ Begin(k, puts + 1)
           NewDelete == \E k \in Key :
                          /\ Pending' \subseteq Pending \cup Asks(k, None)
                          /\ UNCHANGED <<offered, puts>>
                          /\ Begin(k, None)
           OldDeletes == \A x \in Task : task'[x].step = "l2delete" => task'[x] = task[x]
<1>1. ASSUME late' \subseteq Pending, uploads' \subseteq uploads, OldDeletes
      PROVE  Pending' \subseteq Pending
  <2>1. Requests(uploads, Task)' \subseteq Requests(uploads, Task)
    BY <1>1, AskedLess
  <2> QED
    BY <1>1, <2>1 DEF Pending
<1>2. late \subseteq Pending
  BY DEF Pending
<1>3. ASSUME UNCHANGED <<bucket, late, offered, puts, candidates>>, uploads' \subseteq uploads, OldDeletes
      PROVE  Wrote /\ Fewer
  BY <1>1, <1>2, <1>3
<1>4. ASSUME NEW t \in Task, NEW e, task' = [task EXCEPT ![t] = e], e.step # "l2delete"
      PROVE  OldDeletes
  BY <1>4 DEF TypeOK
<1>5. Idle.step # "l2delete"
  BY DEF Idle
<1>6. ASSUME NEW t \in Task, NEW i \in Instance, NEW k \in Key, GetL1(t, i, k)
      PROVE  Wrote /\ Fewer
  <2>1. \E e : task' = [task EXCEPT ![t] = e] /\ e.step # "l2delete"
    BY <1>5, <1>6 DEF GetL1, Answer
  <2>2. OldDeletes
    BY <1>4, <2>1
  <2> QED
    BY <1>3, <1>6, <2>2 DEF GetL1
<1>7. ASSUME NEW t \in Task, NEW i \in Instance, NEW k \in Key, DeleteL1(t, i, k)
      PROVE  Wrote /\ NewDelete
  <2>1. task' = [task EXCEPT ![t] = [step |-> "l2delete", inst |-> i, key |-> k]]
    BY <1>7 DEF DeleteL1
  <2>2. ASSUME NEW w \in Pending' PROVE w \in Pending \cup Asks(k, None)
    <3>1. CASE w \in late'
      BY <1>7, <3>1 DEF DeleteL1, Pending
    <3>2. CASE \E u \in uploads' : w.object # None /\ w = [object |-> SanitizeKey[u.key], entry |-> u.entry]
      BY <1>7, <3>2, Asked DEF DeleteL1, Pending
    <3>3. CASE \E x \in Task : /\ w.object # None /\ task'[x].step = "l2delete"
                            /\ w = [object |-> SanitizeKey[task'[x].key], entry |-> None]
      <4>1. PICK x \in Task : /\ w.object # None /\ task'[x].step = "l2delete"
                              /\ w = [object |-> SanitizeKey[task'[x].key], entry |-> None]
        BY <3>3
      <4>2. CASE x = t
        BY <2>1, <4>1, <4>2 DEF TypeOK, Asks
      <4>3. CASE x # t
        BY <2>1, <4>1, <4>3, Asked DEF TypeOK, Pending
      <4> QED
        BY <4>2, <4>3
    <3> QED
      BY <3>1, <3>2, <3>3 DEF Pending, Requests
  <2> QED
    BY <1>2, <1>7, <2>2 DEF DeleteL1
<1>8. ASSUME NEW t \in Task, GetL2(t)
      PROVE  Wrote /\ Fewer
  <2>1. \E e : task' = [task EXCEPT ![t] = e] /\ e.step # "l2delete"
    BY <1>5, <1>8 DEF GetL2, Answer
  <2>2. OldDeletes
    BY <1>4, <2>1
  <2> QED
    BY <1>3, <1>8, <2>2 DEF GetL2
<1>9. ASSUME NEW t \in Task, DeleteL2(t)
      PROVE  Wrote /\ Fewer
  <2>1. task[t].key \in Key
    BY <1>9, CallShape DEF DeleteL2
  <2>2. PICK deleted \in BOOLEAN : R2Delete(task[t].key, deleted)
    BY <1>9 DEF DeleteL2
  <2>3. SanitizeKey[task[t].key] # None =>
          [object |-> SanitizeKey[task[t].key], entry |-> None] \in Pending
    BY <1>9, Asked DEF DeleteL2, Pending
  <2>4. /\ \A s \in L2Key : bucket'[s] = bucket[s] \/ (s = SanitizeKey[task[t].key] /\ bucket'[s] = None)
        /\ \/ late' = late
           \/ /\ SanitizeKey[task[t].key] # None
              /\ late' = late \cup {[object |-> SanitizeKey[task[t].key], entry |-> None]}
    BY <2>1, <2>2, DeleteEffect
  <2>5. \A s \in L2Key : s # None
    BY DEF L2Key
  <2>6. Wrote
    BY <1>2, <2>3, <2>4, <2>5
  <2>7. OldDeletes
    BY <1>4, <1>5, <1>9 DEF DeleteL2
  <2> QED
    BY <1>1, <1>9, <2>6, <2>7 DEF DeleteL2
<1>10. ASSUME NEW t \in Task, Promote(t)
       PROVE  Wrote /\ Fewer
  <2>1. OldDeletes
    BY <1>4, <1>5, <1>10 DEF Promote, Answer
  <2> QED
    BY <1>3, <1>10, <2>1 DEF Promote
<1>11. ASSUME NEW us \in SUBSET uploads, NEW ts \in SUBSET Task, Abandon(Requests(us, ts)), UNCHANGED bucket
       PROVE  Wrote
  <2>1. Requests(us, ts) \subseteq Pending
    BY Asked DEF Pending
  <2> QED
    BY <1>2, <1>11, <2>1 DEF Abandon
<1>12. ASSUME NEW t \in Task, Disconnect(t)
       PROVE  Wrote /\ Fewer
  <2>1. Wrote
    BY <1>11, <1>12 DEF Disconnect
  <2>2. OldDeletes
    BY <1>4, <1>5, <1>12 DEF Disconnect
  <2> QED
    BY <1>1, <1>12, <2>1, <2>2 DEF Disconnect
<1>13. ASSUME NEW i \in Instance, NEW k \in Key, Put(i, k)
       PROVE  Wrote /\ NewPut
  <2>1. /\ uploads' = uploads \cup {[inst |-> i, key |-> k, entry |-> puts + 1]}
        /\ UNCHANGED <<bucket, late, task>>
    BY <1>13 DEF Put
  <2>2. ASSUME NEW w \in Pending' PROVE w \in Pending \cup Asks(k, puts + 1)
    <3>1. CASE w \in late'
      BY <2>1, <3>1 DEF Pending
    <3>2. CASE \E u \in uploads' : w.object # None /\ w = [object |-> SanitizeKey[u.key], entry |-> u.entry]
      <4>1. PICK u \in uploads' : w.object # None /\ w = [object |-> SanitizeKey[u.key], entry |-> u.entry]
        BY <3>2
      <4>2. CASE u \in uploads
        BY <4>1, <4>2, Asked DEF Pending
      <4>3. CASE u = [inst |-> i, key |-> k, entry |-> puts + 1]
        BY <4>1, <4>3 DEF Asks
      <4> QED
        BY <2>1, <4>2, <4>3
    <3>3. CASE \E x \in Task : /\ w.object # None /\ task'[x].step = "l2delete"
                            /\ w = [object |-> SanitizeKey[task'[x].key], entry |-> None]
      BY <2>1, <3>3, Asked DEF Pending
    <3> QED
      BY <3>1, <3>2, <3>3 DEF Pending, Requests
  <2> QED
    BY <1>2, <1>13, <2>2 DEF Put
<1>14. ASSUME NEW i \in Instance, NEW k \in Key, EvictL1(i, k)
       PROVE  Wrote /\ Fewer
  BY <1>3, <1>14 DEF EvictL1
<1>15. ASSUME NEW u \in uploads, Upload(u)
       PROVE  Wrote /\ Fewer
  <2>1. u.key \in Key /\ u.entry \in Entry
    BY DEF TypeOK
  <2>2. SanitizeKey[u.key] # None =>
          [object |-> SanitizeKey[u.key], entry |-> u.entry] \in Pending
    BY Asked DEF Pending
  <2>3. /\ \A s \in L2Key : bucket'[s] = bucket[s] \/ (s = SanitizeKey[u.key] /\ bucket'[s] = u.entry)
        /\ \/ late' = late
           \/ /\ SanitizeKey[u.key] # None
              /\ late' = late \cup {[object |-> SanitizeKey[u.key], entry |-> u.entry]}
    BY <1>15, <2>1, WriteEffect DEF Upload
  <2>4. \A s \in L2Key : s # None
    BY DEF L2Key
  <2>5. Wrote
    BY <1>2, <2>2, <2>3, <2>4
  <2> QED
    BY <1>1, <1>15, <2>5 DEF Upload
<1>16. ASSUME NEW i \in Instance, Clear(i)
       PROVE  Wrote /\ Fewer
  BY <1>3, <1>16 DEF Clear
<1>17. ASSUME NEW i \in Instance, Restart(i)
       PROVE  Wrote /\ Fewer
  <2>1. Wrote
    BY <1>11, <1>17 DEF Restart
  <2>2. OldDeletes
    BY <1>5, <1>17 DEF Restart
  <2> QED
    BY <1>1, <1>17, <2>1, <2>2 DEF Restart
<1>18. ASSUME NEW w \in late, R2CatchesUp(w)
       PROVE  Wrote /\ Fewer
  <2>1. Wrote
    BY <1>2, <1>18 DEF R2CatchesUp, LateWrite, TypeOK
  <2> QED
    BY <1>1, <1>18, <2>1 DEF R2CatchesUp
<1>19. ASSUME UNCHANGED vars
       PROVE  Wrote /\ Fewer
  BY <1>3, <1>19 DEF vars
<1> HIDE DEF Wrote, Fewer, NewPut, NewDelete
<1>20. Wrote /\ (Fewer \/ NewPut \/ NewDelete)
  BY <1>6, <1>7, <1>8, <1>9, <1>10, <1>12, <1>13, <1>14, <1>15, <1>16, <1>17, <1>18, <1>19
     DEF Next, R2Answers
<1> QED
  BY <1>20 DEF Wrote, Fewer, NewPut, NewDelete

\* What is pending carries what was put, to the objects of its key, whenever R2
\* carries it out.
LEMMA BucketStep ==
  ASSUME TypeOK, Offers, BucketHoldsOnlyPuts, [Next]_vars
  PROVE  Offers' /\ BucketHoldsOnlyPuts'
<1> DEFINE Goal ==
      /\ \A k \in Key : offered[k] \subseteq offered'[k] /\ offered'[k] \subseteq 1..puts'
      /\ \A w \in Pending' :
           w.entry = None \/ \E k \in Key : SanitizeKey[k] = w.object /\ w.entry \in offered'[k]
<1>1. Goal
  <2>1. CASE Pending' \subseteq Pending /\ UNCHANGED <<offered, puts>>
    BY <2>1 DEF Offers
  <2>2. ASSUME NEW k \in Key, Pending' \subseteq Pending \cup Asks(k, puts + 1),
               puts' = puts + 1, offered' = [offered EXCEPT ![k] = @ \cup {puts + 1}]
        PROVE  Goal
    <3>1. \A m \in Key : offered[m] \subseteq offered'[m] /\ offered'[m] \subseteq 1..puts'
      BY <2>2, PutAssumption DEF TypeOK, Offers
    <3>2. puts + 1 \in offered'[k]
      BY <2>2 DEF TypeOK
    <3>3. \A w \in Asks(k, puts + 1) : SanitizeKey[k] = w.object /\ w.entry \in offered'[k]
      BY <3>2 DEF Asks
    <3> QED
      BY <2>2, <3>1, <3>3 DEF Offers
  <2>3. ASSUME NEW k \in Key, Pending' \subseteq Pending \cup Asks(k, None), UNCHANGED <<offered, puts>>
        PROVE  Goal
    BY <2>3 DEF Offers, Asks
  <2> QED
    BY <2>1, <2>2, <2>3, R2Step
<1>2. Offers'
  BY <1>1 DEF Offers
<1>3. BucketHoldsOnlyPuts'
  BY <1>1, R2Step DEF Offers, BucketHoldsOnlyPuts
<1> QED
  BY <1>2, <1>3

\* A write that ends leaves the object with one of its candidates; where others are
\* still on their way, theirs remain candidates.
LEMMA SettleStep ==
  ASSUME TypeOK, Standing, WritesSettle, [Next]_vars
  PROVE  Standing' /\ WritesSettle'
<1>1. \A s \in L2Key : bucket'[s] \in candidates[s]
  BY R2Step DEF Standing, WritesSettle
<1>2. \A w \in Pending : w.object \in L2Key
  BY PendingTyped
<1>3. CASE Pending' \subseteq Pending /\ UNCHANGED candidates
  BY <1>1, <1>3 DEF Standing, WritesSettle
<1>4. CASE Pending' \subseteq Pending /\ Settle
  <2>1. \A s \in L2Key : candidates'[s] = IF Writing(s)' THEN candidates[s]
                                          ELSE candidates[s] \cap {bucket'[s]}
    BY <1>4 DEF Settle
  <2>2. WritesSettle'
    BY <1>1, <2>1 DEF WritesSettle
  <2>3. \A w \in Pending' : w.object \in L2Key /\ Writing(w.object)'
    BY <1>2, <1>4 DEF Writing
  <2>4. Standing'
    BY <1>4, <2>1, <2>3 DEF Standing
  <2> QED
    BY <2>2, <2>4
<1>5. ASSUME NEW k \in Key, NEW e, Pending' \subseteq Pending \cup Asks(k, e), Begin(k, e)
      PROVE  Standing' /\ WritesSettle'
  <2>1. \A s \in L2Key : candidates[s] \subseteq candidates'[s] /\ (s = SanitizeKey[k] => e \in candidates'[s])
    BY <1>5 DEF Begin
  <2>2. \A w \in Asks(k, e) : w.object \in L2Key /\ w.object = SanitizeKey[k] /\ w.entry = e
    BY ObjectKeys DEF Asks
  <2> QED
    BY <1>1, <1>2, <1>5, <2>1, <2>2 DEF Standing, WritesSettle
<1> QED
  BY <1>3, <1>4, <1>5, R2Step

\* A call that is about to promote had missed, and a key that is promised is not
\* missed.
LEMMA PromisesStep == TypeOK /\ Promises /\ [Next]_vars => Promises'
<1> SUFFICES ASSUME TypeOK, Promises, [Next]_vars,
                    NEW i \in Instance, NEW k \in Key, promised'[i][k] # 0
             PROVE  l1'[i][k] = promised'[i][k] /\ Promoting(i, k)' = {}
  BY DEF Promises
<1> DEFINE Kept == l1'[i][k] = promised'[i][k] /\ Promoting(i, k)' = {}
<1>0. promised[i][k] # 0 => /\ l1[i][k] = promised[i][k] /\ Promoting(i, k) = {}
                            /\ promised[i][k] \in Entry
  BY DEF Promises, TypeOK
<1>1. ASSUME NEW t \in Task, NEW j \in Instance, NEW m \in Key, GetL1(t, j, m)
      PROVE  Kept
  <2>1. promised[i][k] # 0 /\ UNCHANGED <<promised, l1>>
    BY <1>1 DEF GetL1
  <2>2. l1[i][k] # None
    BY <1>0, <2>1, Nulls
  <2>3. \/ task' = [task EXCEPT ![t] = Idle]
        \/ (j # i \/ m # k) /\ task' = [task EXCEPT ![t] = [step |-> "l2get", inst |-> j, key |-> m]]
    BY <1>1, <2>2 DEF GetL1, Answer
  <2>4. ASSUME NEW s \in Task, s \in Promoting(i, k)'
        PROVE  s \in Promoting(i, k)
    <3>1. CASE s # t
      BY <2>3, <2>4, <3>1 DEF Promoting, TypeOK
    <3>2. CASE s = t
      <4>1. task'[t].step # "idle"
        BY <2>4, <3>2 DEF Promoting
      <4>2. task'[t] # Idle
        BY <4>1 DEF Idle
      <4>3. task'[t] = [step |-> "l2get", inst |-> j, key |-> m] /\ (j # i \/ m # k)
        BY <2>3, <4>2 DEF TypeOK
      <4> QED
        BY <2>4, <3>2, <4>3 DEF Promoting
    <3> QED
      BY <3>1, <3>2
  <2> QED
    BY <1>0, <2>1, <2>4 DEF Promoting
<1>2. ASSUME NEW t \in Task, NEW j \in Instance, NEW m \in Key, DeleteL1(t, j, m)
      PROVE  Kept
  <2>1. /\ promised[i][k] # 0 /\ promised'[i][k] = promised[i][k]
        /\ l1'[i][k] = l1[i][k]
    BY <1>2 DEF DeleteL1, TypeOK
  <2>2. Promoting(i, k)' \subseteq Promoting(i, k)
    BY <1>2 DEF DeleteL1, Promoting, TypeOK
  <2> QED
    BY <1>0, <2>1, <2>2
<1>3. ASSUME NEW t \in Task, GetL2(t)
      PROVE  Kept
  <2>1. promised[i][k] # 0 /\ UNCHANGED <<promised, l1>>
    BY <1>3 DEF GetL2
  <2>2. t \notin Promoting(i, k)
    BY <1>0, <2>1
  <2>3. Promoting(i, k)' \subseteq Promoting(i, k) \cup {t}
    BY <1>3 DEF GetL2, Answer, Promoting, TypeOK
  <2>4. t \notin Promoting(i, k)'
    BY <1>3, <2>2 DEF GetL2, Answer, Promoting, TypeOK, Idle
  <2> QED
    BY <1>0, <2>1, <2>3, <2>4
<1>4. ASSUME NEW t \in Task, DeleteL2(t) \/ Disconnect(t)
      PROVE  Kept
  <2>1. promised[i][k] # 0 /\ UNCHANGED <<promised, l1>> /\ task' = [task EXCEPT ![t] = Idle]
    BY <1>4 DEF DeleteL2, Disconnect
  <2>2. Promoting(i, k)' \subseteq Promoting(i, k)
    BY <2>1 DEF Promoting, TypeOK, Idle
  <2> QED
    BY <1>0, <2>1, <2>2
<1>5. ASSUME NEW t \in Task, Promote(t)
      PROVE  Kept
  <2>1. promised[i][k] # 0 /\ promised' = promised /\ task' = [task EXCEPT ![t] = Idle]
    BY <1>5 DEF Promote, Answer
  <2>2. task[t].inst \in Instance /\ task[t].key \in Key /\ task[t].entry \in L1Entry
    BY <1>5, CallShape DEF Promote
  <2>3. task[t].inst # i \/ task[t].key # k
    BY <1>0, <1>5, <2>1 DEF Promote, Promoting
  <2>4. l1'[i][k] = l1[i][k]
    BY <1>5, <2>2, <2>3, L1Effect DEF Promote
  <2>5. Promoting(i, k)' \subseteq Promoting(i, k)
    BY <2>1 DEF Promoting, TypeOK, Idle
  <2> QED
    BY <1>0, <2>1, <2>4, <2>5
<1>6. ASSUME NEW j \in Instance, NEW m \in Key, Put(j, m)
      PROVE  Kept
  <2>1. /\ puts + 1 \in Entry /\ L1Put(j, m, puts + 1) /\ task' = task
        /\ promised' = [promised EXCEPT ![j][m] =
             IF l1'[j][m] = puts + 1 /\ Promoting(j, m) = {} THEN puts + 1 ELSE 0]
    BY <1>6, PutAssumption DEF Put, TypeOK
  <2>2. Promoting(i, k)' = Promoting(i, k)
    BY <2>1 DEF Promoting
  <2>3. CASE j = i /\ m = k
    BY <2>1, <2>2, <2>3 DEF TypeOK
  <2>4. CASE j # i \/ m # k
    <3>1. promised'[i][k] = promised[i][k]
      BY <2>1, <2>4 DEF TypeOK
    <3>2. l1'[i][k] = l1[i][k]
      BY <2>1, <2>4, L1Effect DEF L1Entry
    <3> QED
      BY <1>0, <2>2, <3>1, <3>2
  <2> QED
    BY <2>3, <2>4
<1>7. ASSUME NEW j \in Instance, NEW m \in Key, EvictL1(j, m)
      PROVE  Kept
  <2>1. /\ promised[i][k] # 0 /\ promised'[i][k] = promised[i][k]
        /\ l1'[i][k] = l1[i][k] /\ task' = task
    BY <1>7 DEF EvictL1, TypeOK
  <2> QED
    BY <1>0, <2>1 DEF Promoting
<1>8. ASSUME NEW u \in uploads, Upload(u)
      PROVE  Kept
  BY <1>0, <1>8 DEF Upload, Promoting
<1>9. ASSUME NEW j \in Instance, Clear(j) \/ Restart(j)
      PROVE  Kept
  <2>1. /\ promised[i][k] # 0 /\ promised'[i][k] = promised[i][k] /\ l1'[i][k] = l1[i][k]
    BY <1>9, SMTT(60) DEF Clear, Restart, TypeOK
  <2>2. Promoting(i, k)' \subseteq Promoting(i, k)
    BY <1>9 DEF Clear, Restart, Promoting, Idle
  <2> QED
    BY <1>0, <2>1, <2>2
<1>10. CASE UNCHANGED vars
  BY <1>0, <1>10 DEF vars, Promoting
<1>11. ASSUME NEW w \in late, R2CatchesUp(w)
       PROVE  Kept
  BY <1>0, <1>11 DEF R2CatchesUp, Promoting
<1> QED
  BY <1>1, <1>2, <1>3, <1>4, <1>5, <1>6, <1>7, <1>8, <1>9, <1>10, <1>11 DEF Next, R2Answers

-----------------------------------------------------------------------------
LEMMA InitIInv == Init => IInv
<1> SUFFICES ASSUME Init PROVE IInv
  OBVIOUS
<1>1. TypeOK
  BY PutAssumption DEF Init, TypeOK
<1>2. Pending = {}
  BY Asked DEF Init, Pending, Idle
<1>3. Offers /\ BucketHoldsOnlyPuts /\ Standing /\ WritesSettle /\ Promises
  BY <1>2 DEF Init, Offers, BucketHoldsOnlyPuts, Standing, WritesSettle, Promises
<1> QED
  BY <1>1, <1>3 DEF IInv

LEMMA IInvInvariant == Spec => []IInv
<1>1. IInv /\ [Next]_vars => IInv'
  BY TypeStep, BucketStep, SettleStep, PromisesStep DEF IInv
<1> QED
  BY InitIInv, <1>1, PTL DEF Spec

\* The state of the tiers, of their calls and of R2 keeps its types.
THEOREM TypeCorrect == Spec => []TypeOK
BY IInvInvariant, PTL DEF IInv

\* Whatever R2 answers and however uploads, deletes, promotions and crashes
\* interleave, an object of the bucket was put under a key of that object.
THEOREM DurableWasPut == Spec => []BucketHoldsOnlyPuts
BY IInvInvariant, PTL DEF IInv

\* Once no write of an object is under way, abandoned requests included, it keeps what
\* they left until the next put or delete, and nothing older comes back.
THEOREM WritesAreSettled == Spec => []WritesSettle
BY IInvInvariant, PTL DEF IInv

\* A put that meets no get of its key under way is not undone by one
\* (tiered.rs:48-66).
THEOREM PromisesKept == Spec => []KeepsWhatItPromised
<1>1. IInv => KeepsWhatItPromised
  BY DEF IInv, Promises, KeepsWhatItPromised
<1> QED
  BY <1>1, IInvInvariant, PTL

-----------------------------------------------------------------------------
\* A key that nobody holds an entry for gets one by a put only.
LEMMA GoneStep ==
  ASSUME OwnObjects, IInv, NEW k \in Key, Gone(k), offered'[k] = offered[k], Next
  PROVE  Gone(k)'
<1> USE DEF IInv
<1>0. TypeOK /\ Offers
  OBVIOUS
<1>r. ASSUME SanitizeKey[k] # None
      PROVE  /\ bucket'[SanitizeKey[k]] = None
             /\ \A w \in late' : w.object = SanitizeKey[k] => w.entry = None
  <2>1. ASSUME NEW w \in Pending, w.object = SanitizeKey[k]
        PROVE  w.entry = None
    <3>1. CASE w \in late
      BY <1>r, <2>1, <3>1 DEF Gone
    <3>2. CASE \E u \in uploads : w = [object |-> SanitizeKey[u.key], entry |-> u.entry]
      BY <1>r, <2>1, <3>2 DEF OwnObjects, Gone, TypeOK
    <3> QED
      BY <3>1, <3>2, Asked DEF Pending
  <2> QED
    BY <1>r, <2>1, R2Step, ObjectKeys DEF Gone
<1> DEFINE Rest == /\ \A j \in Instance : l1'[j][k] \notin Entry
                   /\ \A s \in Task : (task'[s].step = "promote" /\ task'[s].key = k)
                                         => task'[s].entry \notin Entry
                   /\ \A u \in uploads' : u.key # k
<1>1. ASSUME NEW t \in Task, NEW i \in Instance, NEW m \in Key, GetL1(t, i, m)
      PROVE  Rest
  <2>1. \A s \in Task : task'[s].step = "promote" => task'[s] = task[s]
    <3> TAKE s \in Task
    <3>1. task'[s] \in {task[s], Idle, [step |-> "l2get", inst |-> i, key |-> m]}
      BY <1>0, <1>1 DEF GetL1, Answer, TypeOK
    <3> QED
      BY <3>1 DEF Idle
  <2> QED
    BY <1>1, <2>1 DEF GetL1, Gone
<1>2. ASSUME NEW t \in Task, NEW i \in Instance, NEW m \in Key, DeleteL1(t, i, m)
      PROVE  Rest
  <2>1. \A j \in Instance : l1'[j][k] \notin Entry
    BY <1>0, <1>2, Nulls DEF DeleteL1, Gone, TypeOK
  <2>2. \A s \in Task : task'[s].step = "promote" => task'[s] = task[s]
    BY <1>0, <1>2 DEF DeleteL1, TypeOK
  <2> QED
    BY <1>2, <2>1, <2>2 DEF DeleteL1, Gone
<1>3. ASSUME NEW t \in Task, GetL2(t)
      PROVE  Rest
  <2>1. task[t].inst \in Instance /\ task[t].key \in Key
    BY <1>0, <1>3, CallShape DEF GetL2
  <2>2. PICK e \in R2Get(task[t].key) :
          \/ task' = [task EXCEPT ![t] = Idle]
          \/ task' = [task EXCEPT ![t] = [step |-> "promote", inst |-> task[t].inst,
                                          key |-> task[t].key, entry |-> e]]
    BY <1>3 DEF GetL2, Answer
  <2>3. task[t].key = k => e \notin Entry
    BY <2>1, <2>2, Nulls DEF R2Get, GetObject, Gone
  <2>4. ASSUME NEW s \in Task, task'[s].step = "promote", task'[s].key = k
        PROVE  task'[s].entry \notin Entry
    <3>1. CASE s # t
      BY <1>0, <2>2, <2>4, <3>1 DEF Gone, TypeOK
    <3>2. CASE s = t
      BY <1>0, <2>2, <2>3, <2>4, <3>2 DEF Idle, TypeOK
    <3> QED
      BY <3>1, <3>2
  <2> QED
    BY <1>3, <2>4 DEF GetL2, Gone
<1>4. ASSUME NEW t \in Task, DeleteL2(t)
      PROVE  Rest
  <2>1. \A s \in Task : task'[s].step = "promote" => task'[s] = task[s]
    BY <1>0, <1>4 DEF DeleteL2, Idle, TypeOK
  <2> QED
    BY <1>4, <2>1 DEF DeleteL2, Gone
<1>5. ASSUME NEW t \in Task, Promote(t)
      PROVE  Rest
  <2>1. task[t].inst \in Instance /\ task[t].key \in Key /\ task[t].entry \in L1Entry
    BY <1>0, <1>5, CallShape DEF Promote
  <2>2. task[t].key = k => task[t].entry \notin Entry
    BY <1>5 DEF Promote, Gone
  <2>3. \A i \in Instance : l1'[i][k] \notin Entry
    BY <1>0, <1>5, <2>1, <2>2, L1Effect, Nulls DEF Promote, Gone
  <2>4. \A s \in Task : task'[s].step = "promote" => task'[s] = task[s]
    BY <1>0, <1>5 DEF Promote, Answer, Idle, TypeOK
  <2> QED
    BY <1>5, <2>3, <2>4 DEF Promote, Gone
<1>6. ASSUME NEW t \in Task, Disconnect(t)
      PROVE  Rest
  <2>1. \A s \in Task : task'[s].step = "promote" => task'[s] = task[s]
    BY <1>0, <1>6 DEF Disconnect, Idle, TypeOK
  <2> QED
    BY <1>6, <2>1 DEF Disconnect, Gone
<1>7. ASSUME NEW i \in Instance, NEW m \in Key, Put(i, m)
      PROVE  Rest
  <2>1. m # k
    <3>1. puts \in Nat /\ puts + 1 \notin offered[k]
      BY <1>0, PutAssumption DEF Offers, TypeOK
    <3>2. m = k => puts + 1 \in offered'[k]
      BY <1>0, <1>7 DEF Put, TypeOK
    <3> QED
      BY <3>1, <3>2
  <2>2. puts + 1 \in L1Entry
    BY <1>0, <1>7, PutAssumption DEF Put, TypeOK, L1Entry
  <2>3. \A j \in Instance : l1'[j][k] = l1[j][k]
    BY <1>0, <1>7, <2>1, <2>2, L1Effect DEF Put
  <2>4. \A u \in uploads' : u.key # k
    BY <1>7, <2>1 DEF Put, Gone
  <2> QED
    BY <1>7, <2>3, <2>4 DEF Put, Gone
<1>8. ASSUME NEW i \in Instance, NEW m \in Key, EvictL1(i, m)
      PROVE  Rest
  <2>1. \A j \in Instance : l1'[j][k] \notin Entry
    BY <1>0, <1>8, Nulls DEF EvictL1, Gone, TypeOK
  <2> QED
    BY <1>8, <2>1 DEF EvictL1, Gone
<1>9. ASSUME NEW u \in uploads, Upload(u)
      PROVE  Rest
  BY <1>9 DEF Upload, Gone
<1>10. ASSUME NEW i \in Instance, Clear(i) \/ Restart(i)
       PROVE  Rest
  <2>1. \A j \in Instance : l1'[j][k] \notin Entry
    BY <1>0, <1>10, Nulls, SMTT(60) DEF Clear, Restart, Gone, TypeOK
  <2>2. \A s \in Task : task'[s].step = "promote" => task'[s] = task[s]
    BY <1>10 DEF Clear, Restart, Idle
  <2>3. uploads' \subseteq uploads
    BY <1>10 DEF Clear, Restart
  <2> QED
    BY <2>1, <2>2, <2>3 DEF Gone
<1>11. ASSUME NEW w \in late, R2CatchesUp(w)
       PROVE  Rest
  BY <1>11 DEF R2CatchesUp, Gone
<1> HIDE DEF Rest
<1>12. Rest
  BY <1>1, <1>2, <1>3, <1>4, <1>5, <1>6, <1>7, <1>8, <1>9, <1>10, <1>11 DEF Next, R2Answers
<1> QED
  BY <1>r, <1>12 DEF Rest, Gone

\* Where no two keys share an object, a key that is gone from every tier, call and
\* upload stays gone until it is put again (tiered.rs:33-41, 48-77).
THEOREM GoneIsGone == ASSUME OwnObjects PROVE Spec => GoneStaysGone
<1>1. IInv /\ [Next]_vars =>
        [\A k \in Key : (Gone(k) /\ offered'[k] = offered[k]) => Gone(k)']_vars
  BY OwnObjects, GoneStep
<1> QED
  BY <1>1, IInvInvariant, PTL DEF Spec, GoneStaysGone

-----------------------------------------------------------------------------
\* What any tier or call holds for a key was put under that very key.
Sound ==
  /\ \A i \in Instance, k \in Key : l1[i][k] \in offered[k] \cup {None}
  /\ \A t \in Task : task[t].step = "promote" => task[t].entry \in offered[task[t].key]
  /\ \A k \in Key : SanitizeKey[k] # None => bucket[SanitizeKey[k]] \in offered[k] \cup {None}

\* A get of R2 then answers what was put, as long as S3 answers nothing odd.
LEMMA SoundAnswers ==
  ASSUME ~OtherStatus, Sound, NEW k \in Key, NEW e \in R2Get(k)
  PROVE  e \in offered[k] \cup {None}
BY DEF Sound, R2Get, GetObject

LEMMA SoundStep ==
  ASSUME OwnObjects, ~OtherStatus, IInv, Sound, [Next]_vars
  PROVE  Sound'
<1>0. TypeOK /\ Offers
  BY DEF IInv
<1>b. \A k \in Key : SanitizeKey[k] # None => bucket'[SanitizeKey[k]] \in offered'[k] \cup {None}
  <2> TAKE k \in Key
  <2> HAVE SanitizeKey[k] # None
  <2>1. offered[k] \subseteq offered'[k]
    BY <1>0, R2Step DEF TypeOK
  <2>2. CASE bucket'[SanitizeKey[k]] = bucket[SanitizeKey[k]]
    BY <2>1, <2>2 DEF Sound
  <2>3. ASSUME NEW w \in Pending, w.object = SanitizeKey[k], w.entry = bucket'[SanitizeKey[k]]
        PROVE  bucket'[SanitizeKey[k]] \in offered[k] \cup {None}
    BY <1>0, <2>3 DEF Offers, OwnObjects
  <2> QED
    BY <1>0, <2>1, <2>2, <2>3, R2Step, ObjectKeys
<1>1. ASSUME NEW t \in Task, NEW i \in Instance, NEW m \in Key, GetL1(t, i, m)
      PROVE  Sound'
  <2>1. \A s \in Task : task'[s].step = "promote" => task'[s] = task[s]
    <3> TAKE s \in Task
    <3>1. task'[s] \in {task[s], Idle, [step |-> "l2get", inst |-> i, key |-> m]}
      BY <1>0, <1>1 DEF GetL1, Answer, TypeOK
    <3> QED
      BY <3>1 DEF Idle
  <2> QED
    BY <1>1, <2>1 DEF GetL1, Sound
<1>2. ASSUME NEW t \in Task, NEW i \in Instance, NEW m \in Key, DeleteL1(t, i, m)
      PROVE  Sound'
  <2>1. \A s \in Task : task'[s].step = "promote" => task'[s] = task[s]
    BY <1>0, <1>2 DEF DeleteL1, TypeOK
  <2>2. \A j \in Instance, k \in Key : l1'[j][k] \in {l1[j][k], None}
    BY <1>0, <1>2 DEF DeleteL1, TypeOK
  <2> QED
    BY <1>2, <2>1, <2>2 DEF DeleteL1, Sound
<1>3. ASSUME NEW t \in Task, GetL2(t)
      PROVE  Sound'
  <2>1. task[t].inst \in Instance /\ task[t].key \in Key
    BY <1>0, <1>3, CallShape DEF GetL2
  <2>2. PICK e \in R2Get(task[t].key) :
          \/ task' = [task EXCEPT ![t] = Idle]
          \/ e # None /\ task' = [task EXCEPT ![t] = [step |-> "promote", inst |-> task[t].inst,
                                          key |-> task[t].key, entry |-> e]]
    BY <1>3 DEF GetL2, Answer
  <2>3. e \in offered[task[t].key] \cup {None}
    BY <2>1, <2>2, SoundAnswers
  <2>4. ASSUME NEW s \in Task, task'[s].step = "promote"
        PROVE  task'[s].entry \in offered[task'[s].key]
    <3>1. CASE s # t
      BY <1>0, <2>2, <2>4, <3>1 DEF Sound, TypeOK
    <3>2. CASE s = t
      BY <1>0, <2>2, <2>3, <2>4, <3>2 DEF Idle, TypeOK
    <3> QED
      BY <3>1, <3>2
  <2> QED
    BY <1>3, <2>4 DEF GetL2, Sound
<1>4. ASSUME NEW t \in Task, DeleteL2(t)
      PROVE  Sound'
  <2>1. \A s \in Task : task'[s].step = "promote" => task'[s] = task[s]
    BY <1>0, <1>4 DEF DeleteL2, Idle, TypeOK
  <2> QED
    BY <1>4, <1>b, <2>1 DEF DeleteL2, Sound
<1>5. ASSUME NEW t \in Task, Promote(t)
      PROVE  Sound'
  <2>1. task[t].inst \in Instance /\ task[t].key \in Key /\ task[t].entry \in L1Entry
    BY <1>0, <1>5, CallShape DEF Promote
  <2>2. task[t].entry \in offered[task[t].key]
    BY <1>5 DEF Promote, Sound
  <2>3. \A i \in Instance, k \in Key :
          l1'[i][k] \in {l1[i][k], None} \/ (k = task[t].key /\ l1'[i][k] = task[t].entry)
    BY <1>0, <1>5, <2>1, L1Effect DEF Promote
  <2>4. \A s \in Task : task'[s].step = "promote" => task'[s] = task[s]
    BY <1>0, <1>5 DEF Promote, Answer, Idle, TypeOK
  <2> QED
    BY <1>5, <2>2, <2>3, <2>4 DEF Promote, Sound
<1>6. ASSUME NEW t \in Task, Disconnect(t)
      PROVE  Sound'
  <2>1. \A s \in Task : task'[s].step = "promote" => task'[s] = task[s]
    BY <1>0, <1>6 DEF Disconnect, Idle, TypeOK
  <2> QED
    BY <1>6, <2>1 DEF Disconnect, Sound
<1>7. ASSUME NEW i \in Instance, NEW m \in Key, Put(i, m)
      PROVE  Sound'
  <2>1. puts + 1 \in L1Entry
    BY <1>0, <1>7, PutAssumption DEF Put, TypeOK, L1Entry
  <2>2. \A k \in Key : offered[k] \subseteq offered'[k]
    BY <1>0, <1>7 DEF Put, TypeOK
  <2>3. puts + 1 \in offered'[m]
    BY <1>0, <1>7 DEF Put, TypeOK
  <2>4. \A j \in Instance, k \in Key :
          l1'[j][k] \in {l1[j][k], None} \/ (k = m /\ l1'[j][k] = puts + 1)
    BY <1>0, <1>7, <2>1, L1Effect DEF Put
  <2>5. \A j \in Instance, k \in Key : l1'[j][k] \in offered'[k] \cup {None}
    BY <2>2, <2>3, <2>4 DEF Sound
  <2>6. \A t \in Task : task[t].step = "promote" => task[t].entry \in offered'[task[t].key]
    BY <1>0, <2>2, CallShape DEF Sound
  <2> QED
    BY <1>7, <2>2, <2>5, <2>6 DEF Put, Sound
<1>8. ASSUME NEW i \in Instance, NEW m \in Key, EvictL1(i, m)
      PROVE  Sound'
  <2>1. \A j \in Instance, k \in Key : l1'[j][k] \in {l1[j][k], None}
    BY <1>0, <1>8 DEF EvictL1, TypeOK
  <2> QED
    BY <1>8, <2>1 DEF EvictL1, Sound
<1>9. ASSUME NEW u \in uploads, Upload(u)
      PROVE  Sound'
  BY <1>9, <1>b DEF Upload, Sound
<1>10. ASSUME NEW i \in Instance, Clear(i) \/ Restart(i)
       PROVE  Sound'
  <2>0. l1' = [l1 EXCEPT ![i] = [k \in Key |-> None]]
    BY <1>10 DEF Clear, Restart
  <2>1. \A j \in Instance, k \in Key : l1'[j][k] \in {l1[j][k], None}
    BY <1>0, <2>0 DEF TypeOK
  <2>2. \A s \in Task : task'[s].step = "promote" => task'[s] = task[s]
    BY <1>10 DEF Clear, Restart, Idle
  <2>3. UNCHANGED <<bucket, offered>>
    BY <1>10 DEF Clear, Restart
  <2> QED
    BY <2>1, <2>2, <2>3 DEF Sound
<1>11. CASE UNCHANGED vars
  BY <1>11 DEF vars, Sound
<1>12. ASSUME NEW w \in late, R2CatchesUp(w)
       PROVE  Sound'
  BY <1>12, <1>b DEF R2CatchesUp, Sound
<1> QED
  BY <1>1, <1>2, <1>3, <1>4, <1>5, <1>6, <1>7, <1>8, <1>9, <1>10, <1>11, <1>12 DEF Next, R2Answers

\* A step that answers is a get of the contract, a put its put, the rest stutters.
LEMMA ContractStep ==
  ASSUME ~OtherStatus, IInv, Sound, [Next]_vars
  PROVE  [Contract!Next]_(Contract!ccvars)
<1> USE DEF Contract!ccvars
<1>0. TypeOK
  BY DEF IInv
<1>1. ASSUME NEW k \in Key, NEW e \in offered[k] \cup {None}, UNCHANGED offered,
             reply' = [key |-> k, entry |-> e]
      PROVE  Contract!Next
  <2>1. Contract!Get(k)
    BY <1>1 DEF Contract!Get
  <2> QED
    BY <2>1 DEF Contract!Next
<1>2. ASSUME NEW t \in Task, NEW i \in Instance, NEW k \in Key, GetL1(t, i, k)
      PROVE  Contract!Next \/ UNCHANGED Contract!ccvars
  <2>1. UNCHANGED offered /\ (UNCHANGED reply \/ reply' = [key |-> k, entry |-> l1[i][k]])
    BY <1>2 DEF GetL1, Answer
  <2> QED
    BY <1>1, <2>1 DEF Sound
<1>3. ASSUME NEW t \in Task, GetL2(t)
      PROVE  Contract!Next \/ UNCHANGED Contract!ccvars
  <2>1. UNCHANGED offered /\ (UNCHANGED reply \/ reply' = [key |-> task[t].key, entry |-> None])
    BY <1>3 DEF GetL2, Answer
  <2>2. task[t].key \in Key
    BY <1>0, <1>3, CallShape DEF GetL2
  <2> QED
    BY <1>1, <2>1, <2>2
<1>4. ASSUME NEW t \in Task, Promote(t)
      PROVE  Contract!Next
  <2>1. UNCHANGED offered /\ reply' = [key |-> task[t].key, entry |-> task[t].entry]
    BY <1>4 DEF Promote, Answer
  <2>2. task[t].key \in Key /\ task[t].entry \in offered[task[t].key]
    BY <1>0, <1>4, CallShape DEF Promote, Sound
  <2> QED
    BY <1>1, <2>1, <2>2
<1>5. ASSUME NEW i \in Instance, NEW k \in Key, Put(i, k)
      PROVE  Contract!Next
  <2>1. puts + 1 \in Entry
    BY <1>0, <1>5, PutAssumption DEF Put, TypeOK
  <2>2. Contract!Put(k, puts + 1)
    BY <1>5 DEF Put, Contract!Put
  <2> QED
    BY <2>1, <2>2 DEF Contract!Next
<1> QED
  BY <1>2, <1>3, <1>4, <1>5
     DEF Next, vars, R2Answers, DeleteL1, DeleteL2, Disconnect, EvictL1, Upload, Clear, Restart, R2CatchesUp

\* Where no two keys share an object and S3 answers with no other status than the
\* code expects, the tiers implement the contract.
THEOREM ContractImplemented ==
  ASSUME OwnObjects, ~OtherStatus PROVE Spec => ImplementsContract
<1>1. Init => Sound /\ Contract!Init
  BY ObjectKeys DEF Init, Idle, Sound, Contract!Init
<1>2. IInv /\ Sound /\ [Next]_vars => Sound' /\ [Contract!Next]_(Contract!ccvars)
  BY OwnObjects, ~OtherStatus, SoundStep, ContractStep
<1> QED
  BY <1>1, <1>2, IInvInvariant, PTL DEF Spec, ImplementsContract, Contract!Spec
=============================================================================
