----------------------------- MODULE MemoryCache ----------------------------
(***************************************************************************)
(* The L1 cache, crates/imgx/src/cache/memory.rs: an LRU map bounded by a  *)
(* total number of bytes, behind one RwLock.  A put holds the write lock   *)
(* over its pop, its eviction loop and its insert; these are separate      *)
(* steps here, and `writer` is the lock together with the put's locals.    *)
(***************************************************************************)
EXTENDS Integers, Sequences, SequencesExt

CONSTANTS
  Key,            \* cache keys
  Entry,          \* cache entries (data, content type and created_at as one value)
  None,           \* the absence of an entry, of a put, of an answer
  Size,           \* Entry -> bytes: data.len() + content_type.len()
  max_size_bytes  \* the configured limit

ASSUME SizeAssumption == Size \in [Entry -> Nat]
ASSUME LimitAssumption == max_size_bytes \in Nat
ASSUME NoneAssumption ==
  /\ None \notin Entry
  /\ None \notin [key : Key, entry : Entry, victim : Entry \cup {None}]
  /\ None \notin [key : Key, entry : Entry \cup {None}]
  /\ None \notin [key : Key, entry : Entry]

VARIABLES
  map,                 \* the LruCache: [key, entry] pairs, least recently used first
  current_size_bytes,  \* the running total the code maintains
  writer,              \* the put that holds the lock: [key, entry, victim], or None
  reply,               \* the answer of the last get: [key, entry], or None
  usedSince            \* history: key -> the keys used after its own last use

vars == <<map, current_size_bytes, writer, reply, usedSince>>

StoredKeys == {map[i].key : i \in 1..Len(map)}
Position(k) == CHOOSE i \in 1..Len(map) : map[i].key = k
Stored(k) == map[Position(k)].entry

Init ==
  /\ map = <<>>
  /\ current_size_bytes = 0
  /\ writer = None
  /\ reply = None
  /\ usedSince = [k \in Key |-> {}]

\* k becomes the most recently used key.
Touch(k) ==
  usedSince' = [j \in Key |-> IF j = k THEN {} ELSE usedSince[j] \cup {k}]

\* Mutant of Get: a lookup that does not promote (`peek` for `get`).
PeekInstead(k) ==
  /\ writer = None
  /\ reply' = [key |-> k, entry |-> IF k \in StoredKeys THEN Stored(k) ELSE None]
  /\ IF k \in StoredKeys THEN Touch(k) ELSE UNCHANGED usedSince
  /\ UNCHANGED <<map, current_size_bytes, writer>>

\* get: a hit moves the pair to the recently used end and clones the entry.
Get(k) ==
  /\ writer = None
  /\ \/ /\ k \in StoredKeys
        /\ map' = Append(RemoveAt(map, Position(k)), map[Position(k)])
        /\ reply' = [key |-> k, entry |-> Stored(k)]
        /\ Touch(k)
     \/ /\ k \notin StoredKeys
        /\ reply' = [key |-> k, entry |-> None]
        /\ UNCHANGED <<map, usedSince>>
  /\ UNCHANGED <<current_size_bytes, writer>>

\* Mutant of PopKey: the bytes of the removed entry stay counted.
PopKeepsBytes(k) ==
  /\ map' = IF k \in StoredKeys THEN RemoveAt(map, Position(k)) ELSE map
  /\ UNCHANGED current_size_bytes

\* Mutant of PopKey: the total is corrected for a key that is not stored, too.
PopMissSubtracts(k) ==
  /\ map' = IF k \in StoredKeys THEN RemoveAt(map, Position(k)) ELSE map
  /\ \E e \in Entry : current_size_bytes' = current_size_bytes - Size[e]

\* Removes k and its bytes, when it is stored.
PopKey(k) ==
  \/ /\ k \in StoredKeys
     /\ map' = RemoveAt(map, Position(k))
     /\ current_size_bytes' = current_size_bytes - Size[Stored(k)]
  \/ /\ k \notin StoredKeys
     /\ UNCHANGED <<map, current_size_bytes>>

\* Mutant of PutBegin: an oversized put returns before it pops the old entry.
PutChecksSizeFirst(k, e) ==
  /\ writer = None
  /\ IF Size[e] > max_size_bytes THEN UNCHANGED <<map, current_size_bytes>>
                                 ELSE PopKey(k)
  /\ writer' = [key |-> k, entry |-> e, victim |-> None]
  /\ UNCHANGED <<reply, usedSince>>

\* put takes the lock and pops the old entry of the key.
PutBegin(k, e) ==
  /\ writer = None
  /\ PopKey(k)
  /\ writer' = [key |-> k, entry |-> e, victim |-> None]
  /\ UNCHANGED <<reply, usedSince>>

\* Mutant of NeedsRoom: the loop looks at the present total only.
IgnoresNewSize == current_size_bytes > max_size_bytes /\ map # <<>>

\* Mutant of NeedsRoom: >= for >.
EvictsAtLimit ==
  /\ current_size_bytes + Size[writer.entry] >= max_size_bytes
  /\ map # <<>>

\* The condition of the eviction loop.
NeedsRoom ==
  /\ current_size_bytes + Size[writer.entry] > max_size_bytes
  /\ map # <<>>

\* One turn of the eviction loop: pop_lru.
Evict ==
  /\ writer # None
  /\ NeedsRoom
  /\ map' = Tail(map)
  /\ current_size_bytes' = current_size_bytes - Size[Head(map).entry]
  /\ writer' = [writer EXCEPT !.victim = Head(map).entry]
  /\ UNCHANGED <<reply, usedSince>>

\* After the loop: an entry bigger than the whole cache is skipped.
PutSkip ==
  /\ writer # None
  /\ ~NeedsRoom
  /\ Size[writer.entry] > max_size_bytes
  /\ writer' = None
  /\ UNCHANGED <<map, current_size_bytes, reply, usedSince>>

\* After the loop: the entry is stored and the lock released.
PutStore ==
  /\ writer # None
  /\ ~NeedsRoom
  /\ Size[writer.entry] <= max_size_bytes
  /\ current_size_bytes' = current_size_bytes + Size[writer.entry]
  /\ map' = Append(map, [key |-> writer.key, entry |-> writer.entry])
  /\ Touch(writer.key)
  /\ writer' = None
  /\ UNCHANGED reply

Delete(k) ==
  /\ writer = None
  /\ PopKey(k)
  /\ UNCHANGED <<writer, reply, usedSince>>

Clear ==
  /\ writer = None
  /\ map' = <<>>
  /\ current_size_bytes' = 0
  /\ UNCHANGED <<writer, reply, usedSince>>

Next ==
  \/ \E k \in Key : Get(k) \/ Delete(k)
  \/ \E k \in Key, e \in Entry : PutBegin(k, e)
  \/ Evict \/ PutSkip \/ PutStore
  \/ Clear

Spec == Init /\ [][Next]_vars

-----------------------------------------------------------------------------
TypeOK ==
  /\ map \in Seq([key : Key, entry : Entry])
  /\ current_size_bytes \in Nat
  /\ writer \in [key : Key, entry : Entry, victim : Entry \cup {None}] \cup {None}
  /\ reply \in [key : Key, entry : Entry \cup {None}] \cup {None}
  /\ usedSince \in [Key -> SUBSET Key]

\* The map holds a key once, and never the key a put is about to insert.
KeysDistinct ==
  /\ \A i, j \in 1..Len(map) : map[i].key = map[j].key => i = j
  /\ writer # None => writer.key \notin StoredKeys

\* n is the sum of the sizes in s: there are running totals ps that start at
\* 0, grow by one size at a time and end at n. (That they are monotone follows;
\* it is stated because a proof could only derive it by induction.)
SumsTo(s, n) ==
  \E ps \in [0..Len(s) -> 0..n] :
    /\ ps[0] = 0 /\ ps[Len(s)] = n
    /\ \A i \in 1..Len(s) : ps[i] = ps[i-1] + Size[s[i].entry]
    /\ \A i, j \in 0..Len(s) : i <= j => ps[i] <= ps[j]

\* The counter always equals the bytes of the entries in the map, so it never
\* drifts from the truth or underflows, whatever gets replaced, evicted,
\* skipped or deleted (memory.rs:65-67, 70-74, 81, 96).
BytesAccounted == SumsTo(map, current_size_bytes)

\* The bytes held never exceed the limit, not even inside a put
\* (memory.rs:70, 77).
WithinLimit == current_size_bytes <= max_size_bytes

\* The map's order is the order of last uses: every pair has been used since
\* the last use of each pair in front of it, so pop_lru takes the least
\* recently used one (memory.rs:52, 71, 82).
OrderIsRecency ==
  \A i, j \in 1..Len(map) : i < j => map[j].key \in usedSince[map[i].key]

\* An eviction is never gratuitous: when a put stores its entry, keeping the
\* last victim too would have exceeded the limit (memory.rs:70).
EvictsNoMoreThanNeeded ==
  [][\A w \in {writer} \ {None} :
       (PutStore /\ w.victim # None)
         => current_size_bytes' + Size[w.victim] > max_size_bytes]_vars

\* The cache implements the abstract store: a get never answers with an entry
\* that a later put, delete or clear has superseded.
Held == [k \in Key |-> IF k \in StoredKeys THEN Stored(k) ELSE None]
Offered == IF writer = None THEN None
           ELSE [key |-> writer.key, entry |-> writer.entry]
Store == INSTANCE LossyStore WITH held <- Held, offer <- Offered
ImplementsLossyStore == Store!Spec
=============================================================================
