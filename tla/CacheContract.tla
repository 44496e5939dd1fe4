---------------------------- MODULE CacheContract ---------------------------
(***************************************************************************)
(* What the request handler may rely on of any cache backend, however many *)
(* tiers, instances, failures and crashes are behind it: a get answers     *)
(* with an entry that some put stored under that very key, or with none.   *)
(* It may be an old one: nothing promises freshness or durability.         *)
(***************************************************************************)
CONSTANTS Key, Entry, None

VARIABLES
  offered,   \* key -> every entry ever put under it
  reply      \* the answer of the last get: [key, entry], or None

ccvars == <<offered, reply>>

Init ==
  /\ offered = [k \in Key |-> {}]
  /\ reply = None

Put(k, e) ==
  /\ offered' = [offered EXCEPT ![k] = @ \cup {e}]
  /\ UNCHANGED reply

Get(k) ==
  /\ \E e \in offered[k] \cup {None} : reply' = [key |-> k, entry |-> e]
  /\ UNCHANGED offered

Next == \E k \in Key : Get(k) \/ \E e \in Entry : Put(k, e)

Spec == Init /\ [][Next]_ccvars
=============================================================================
