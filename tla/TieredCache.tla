----------------------------- MODULE TieredCache ----------------------------
(***************************************************************************)
(* The two-level cache, crates/imgx/src/cache/tiered.rs, in every instance *)
(* of the server that shares one R2 bucket.  A call is cut where the code  *)
(* awaits R2: between those points other calls, detached uploads, client   *)
(* disconnects and crashes happen.  The L1 is what LossyStore promises of  *)
(* MemoryCache: a put may not be kept, an entry may be evicted any time.   *)
(*                                                                         *)
(* Entries are numbered in the order in which they are put, so that a      *)
(* smaller number is an older render.                                      *)
(***************************************************************************)
EXTENDS R2Cache, FiniteSets

CONSTANTS
  Instance,   \* server processes sharing the bucket
  Task,       \* the handler tasks that call the cache
  MaxPut      \* bound: puts in a behaviour

ASSUME PutAssumption == MaxPut \in Nat /\ Entry = 1..MaxPut

VARIABLES
  l1,        \* instance -> key -> the entry its memory cache holds, or None
  task,      \* task -> its call in progress, or Idle
  uploads,   \* the detached L2 writes in flight: [inst, key, entry]
  reply,     \* the answer of the last get: [key, entry], or None
  puts,      \* the number of puts so far
  offered,   \* history: key -> the entries put under it
  promised,  \* history: instance -> key -> an entry put while no get of the key
             \* was between its L1 miss and its promotion, and not evicted or
             \* deleted since; 0 when there is none
  candidates \* history: object key -> what it may hold: what it held when no
             \* write of it was under way last, and what was written since

vars == <<bucket, late, l1, task, uploads, reply, puts, offered, promised, candidates>>

Idle == [step |-> "idle"]

\* What L1 may answer with: entries, and error documents promoted from L2.
L1Entry == Entry \cup {ErrorBody}

\* Calls of instance i on key k that have missed L1 and will promote.
Promoting(i, k) ==
  {t \in Task : /\ task[t].step \in {"l2get", "promote"}
                /\ task[t].inst = i
                /\ task[t].key = k}

Init ==
  /\ bucket = [s \in L2Key |-> None]
  /\ late = {}
  /\ l1 = [i \in Instance |-> [k \in Key |-> None]]
  /\ task = [t \in Task |-> Idle]
  /\ uploads = {}
  /\ reply = None
  /\ puts = 0
  /\ offered = [k \in Key |-> {}]
  /\ promised = [i \in Instance |-> [k \in Key |-> 0]]
  /\ candidates = [s \in L2Key |-> {None}]

\* What the spawned writes us and the calls of ts have sent to R2 to be written.
Requests(us, ts) ==
  LET ask == {[object |-> SanitizeKey[u.key], entry |-> u.entry] : u \in us}
        \cup {[object |-> SanitizeKey[task[t].key], entry |-> None] :
                t \in {x \in ts : task[x].step = "l2delete"}}
  IN {w \in ask : w.object # None}

\* The writes that R2 may yet carry out.
Pending == late \cup Requests(uploads, Task)

Writing(s) == \E w \in Pending : w.object = s

\* A write begins that leaves e if it is carried out.
Begin(k, e) ==
  candidates' = [s \in L2Key |-> candidates[s] \cup (IF s = SanitizeKey[k] THEN {e} ELSE {})]

\* Writes end: where none is left, the object holds one of the candidates for good.
Settle ==
  candidates' = [s \in L2Key |-> IF Writing(s)' THEN candidates[s]
                                 ELSE candidates[s] \cap {bucket'[s]}]

\* The L1 put of e: the entry is kept, or, too big for the cache, it is not.
\* Either way the older entry is gone.
L1Put(i, k, e) == \E kept \in {e, None} : l1' = [l1 EXCEPT ![i][k] = kept]

Answer(t, k, e) ==
  /\ reply' = [key |-> k, entry |-> e]
  /\ task' = [task EXCEPT ![t] = Idle]

-----------------------------------------------------------------------------
\* Mutant of GetL1: L2 is asked on a hit, too.
AlwaysAskL2(t, i, k) ==
  /\ task[t] = Idle
  /\ task' = [task EXCEPT ![t] = [step |-> "l2get", inst |-> i, key |-> k]]
  /\ UNCHANGED <<bucket, late, l1, uploads, reply, puts, offered, promised, candidates>>

\* get, its L1 lookup: a hit answers at once, a miss goes on to await R2.
GetL1(t, i, k) ==
  /\ task[t] = Idle
  /\ \/ /\ l1[i][k] # None
        /\ Answer(t, k, l1[i][k])
     \/ /\ l1[i][k] = None
        /\ task' = [task EXCEPT ![t] = [step |-> "l2get", inst |-> i, key |-> k]]
        /\ UNCHANGED reply
  /\ UNCHANGED <<bucket, late, l1, uploads, puts, offered, promised, candidates>>

\* Mutant of GetL2: a miss is promoted as if it were an entry.
PromotesMisses(t) ==
  /\ task[t].step = "l2get"
  /\ \E e \in R2Get(task[t].key) :
       task' = [task EXCEPT ![t] = [step |-> "promote", inst |-> @.inst,
                                    key |-> @.key, entry |-> e]]
  /\ UNCHANGED <<bucket, late, l1, uploads, reply, puts, offered, promised, candidates>>

\* get, R2's answer: a miss ends the call, a hit is on its way back.
GetL2(t) ==
  /\ task[t].step = "l2get"
  /\ \E e \in R2Get(task[t].key) :
       \/ /\ e = None
          /\ Answer(t, task[t].key, None)
       \/ /\ e # None
          /\ task' = [task EXCEPT ![t] = [step |-> "promote", inst |-> @.inst,
                                          key |-> @.key, entry |-> e]]
          /\ UNCHANGED reply
  /\ UNCHANGED <<bucket, late, l1, uploads, puts, offered, promised, candidates>>

\* Mutant of Promote: the promotion is a put of the tiered cache, L2 included.
PromoteWritesBack(t) ==
  /\ task[t].step = "promote"
  /\ L1Put(task[t].inst, task[t].key, task[t].entry)
  /\ Answer(t, task[t].key, task[t].entry)
  /\ uploads' = uploads \cup {[inst |-> task[t].inst, key |-> task[t].key,
                               entry |-> task[t].entry]}
  /\ UNCHANGED <<bucket, late, puts, offered, promised, candidates>>

\* get, after the await: the entry is promoted to L1 and answered.
Promote(t) ==
  /\ task[t].step = "promote"
  /\ L1Put(task[t].inst, task[t].key, task[t].entry)
  /\ Answer(t, task[t].key, task[t].entry)
  /\ UNCHANGED <<bucket, late, uploads, puts, offered, promised, candidates>>

\* put: L1 is written and the L2 write is spawned, without an await between.
Put(i, k) ==
  /\ puts < MaxPut
  /\ LET e == puts + 1 IN
       /\ puts' = e
       /\ L1Put(i, k, e)
       /\ uploads' = uploads \cup {[inst |-> i, key |-> k, entry |-> e]}
       /\ offered' = [offered EXCEPT ![k] = @ \cup {e}]
       /\ promised' = [promised EXCEPT ![i][k] =
            IF l1'[i][k] = e /\ Promoting(i, k) = {} THEN e ELSE 0]
       /\ Begin(k, e)
  /\ UNCHANGED <<bucket, late, task, reply>>

\* A spawned L2 write ends. The writes of a key end in any order.
Upload(u) ==
  /\ u \in uploads
  /\ R2Put(u.key, u.entry)
  /\ uploads' = uploads \ {u}
  /\ UNCHANGED <<l1, task, reply, puts, offered, promised>>
  /\ Settle

\* delete, its L1 half.
DeleteL1(t, i, k) ==
  /\ task[t] = Idle
  /\ l1' = [l1 EXCEPT ![i][k] = None]
  /\ promised' = [promised EXCEPT ![i][k] = 0]
  /\ task' = [task EXCEPT ![t] = [step |-> "l2delete", inst |-> i, key |-> k]]
  /\ Begin(k, None)
  /\ UNCHANGED <<bucket, late, uploads, reply, puts, offered>>

\* delete, its L2 half.
DeleteL2(t) ==
  /\ task[t].step = "l2delete"
  /\ \E deleted \in BOOLEAN : R2Delete(task[t].key, deleted)
  /\ task' = [task EXCEPT ![t] = Idle]
  /\ UNCHANGED <<l1, uploads, reply, puts, offered, promised>>
  /\ Settle

\* clear: R2Cache::clear does nothing.
Clear(i) ==
  /\ l1' = [l1 EXCEPT ![i] = [k \in Key |-> None]]
  /\ promised' = [promised EXCEPT ![i] = [k \in Key |-> 0]]
  /\ UNCHANGED <<bucket, late, task, uploads, reply, puts, offered, candidates>>

-----------------------------------------------------------------------------
\* The memory cache makes room.
EvictL1(i, k) ==
  /\ l1[i][k] # None
  /\ l1' = [l1 EXCEPT ![i][k] = None]
  /\ promised' = [promised EXCEPT ![i][k] = 0]
  /\ UNCHANGED <<bucket, late, task, uploads, reply, puts, offered, candidates>>

\* The client goes away: the handler's future is dropped at its await, and what it
\* has asked of R2 with it.
Disconnect(t) ==
  /\ task[t] # Idle
  /\ task' = [task EXCEPT ![t] = Idle]
  /\ Abandon(Requests({}, {t}))
  /\ UNCHANGED <<bucket, l1, uploads, reply, puts, offered, promised>>
  /\ Settle

\* An instance stops, by a crash or a shutdown, and starts again: its L1, its
\* calls and its spawned writes are lost, except what R2 has been sent by then.
Restart(i) ==
  LET mine == {t \in Task : task[t] # Idle /\ task[t].inst = i}
      spawned == {u \in uploads : u.inst = i}
  IN /\ l1' = [l1 EXCEPT ![i] = [k \in Key |-> None]]
     /\ promised' = [promised EXCEPT ![i] = [k \in Key |-> 0]]
     /\ uploads' = uploads \ spawned
     /\ task' = [t \in Task |-> IF t \in mine THEN Idle ELSE task[t]]
     /\ Abandon(Requests(spawned, mine))
     /\ UNCHANGED <<bucket, reply, puts, offered>>
     /\ Settle

\* R2 carries out, or drops, a write whose caller is gone.
R2CatchesUp(w) ==
  /\ LateWrite(w)
  /\ UNCHANGED <<l1, task, uploads, reply, puts, offered, promised>>
  /\ Settle

R2Answers(t) == GetL2(t) \/ DeleteL2(t)

Next ==
  \/ \E t \in Task, i \in Instance, k \in Key : GetL1(t, i, k) \/ DeleteL1(t, i, k)
  \/ \E t \in Task : R2Answers(t) \/ Promote(t) \/ Disconnect(t)
  \/ \E i \in Instance, k \in Key : Put(i, k) \/ EvictL1(i, k)
  \/ \E u \in uploads : Upload(u)
  \/ \E w \in late : R2CatchesUp(w)
  \/ \E i \in Instance : Clear(i) \/ Restart(i)

Spec == Init /\ [][Next]_vars

-----------------------------------------------------------------------------
TypeOK ==
  /\ bucket \in [L2Key -> Entry \cup {None}]
  /\ late \subseteq [object : L2Key, entry : Entry \cup {None}]
  /\ l1 \in [Instance -> [Key -> L1Entry \cup {None}]]
  /\ task \in [Task ->
       {Idle} \cup [step : {"l2get", "l2delete"}, inst : Instance, key : Key]
              \cup [step : {"promote"}, inst : Instance, key : Key, entry : L1Entry]]
  /\ uploads \subseteq [inst : Instance, key : Key, entry : Entry]
  /\ reply \in [key : Key, entry : L1Entry \cup {None}] \cup {None}
  /\ puts \in 0..MaxPut
  /\ offered \in [Key -> SUBSET Entry]
  /\ promised \in [Instance -> [Key -> Entry \cup {0}]]
  /\ candidates \in [L2Key -> SUBSET (Entry \cup {None})]

\* Whatever R2 answers and however uploads, deletes, crashes and what R2 carries out
\* after them interleave, an
\* object of the bucket is an entry that was put under a key of that object:
\* an error document that a get promotes to L1 never becomes durable
\* (tiered.rs:31-40, 55-57; r2.rs:63-77).
BucketHoldsOnlyPuts ==
  \A s \in L2Key :
    bucket[s] # None => \E k \in Key : SanitizeKey[k] = s /\ bucket[s] \in offered[k]

\* Whatever was sent to R2 and lost sight of, the writes of an object are settled
\* once none of them is under way: from then on it holds what they left until the
\* next put or delete of one of its keys, and never again something older. No get,
\* promotion, restart or upload of before writes to it (tiered.rs:33-41, 54-58,
\* 70-75; r2.rs:63-90).
WritesSettle == \A s \in L2Key : bucket[s] \in candidates[s]

\* A put is not undone behind the writer's back: as long as no get of the key
\* was under way when the entry was put, and L1 has not dropped it, L1 keeps it;
\* only a get that had missed before the put can promote an older render over a
\* newer one (tiered.rs:48-61, 66).
KeepsWhatItPromised ==
  \A i \in Instance, k \in Key :
    promised[i][k] # 0 => l1[i][k] = promised[i][k]

\* No tier, call or write under way holds an entry for key k, and R2 has none of it
\* yet to carry out.
Gone(k) ==
  /\ \A i \in Instance : l1[i][k] \notin Entry
  /\ \A t \in Task : (task[t].step = "promote" /\ task[t].key = k)
                       => task[t].entry \notin Entry
  /\ \A u \in uploads : u.key # k
  /\ SanitizeKey[k] # None =>
       /\ bucket[SanitizeKey[k]] = None
       /\ \A w \in late : w.object = SanitizeKey[k] => w.entry = None

\* Once a key is gone from everywhere, a PUT sent by a crashed instance included, only
\* a put brings an entry back: no get under way that has missed, delete, restart or
\* upload of another key can revive it (tiered.rs:48-75).
GoneStaysGone ==
  [][\A k \in Key : (Gone(k) /\ offered'[k] = offered[k]) => Gone(k)']_vars

\* The tiers together answer only with entries put under the key asked for.
Contract == INSTANCE CacheContract
ImplementsContract == Contract!Spec

-----------------------------------------------------------------------------
\* What the documents say and the code does not do.

\* cache/r2.rs:1-3, "All S3 errors are handled gracefully: get returns None".
S3ErrorsAreMisses ==
  \A r \in {reply} \ {None} : r.entry # ErrorBody

=============================================================================
