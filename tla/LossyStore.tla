----------------------------- MODULE LossyStore -----------------------------
(***************************************************************************)
(* What a local cache backend of imgx promises to the code that uses it    *)
(* (trait `Cache`, crates/imgx/src/cache/mod.rs).  A store may forget any  *)
(* entry at any time, but it never answers with an entry that a later put, *)
(* delete or clear has superseded: a put that is not kept leaves the key   *)
(* empty, it does not leave the older entry behind.                        *)
(***************************************************************************)
CONSTANTS Key, Entry, None

VARIABLES
  held,    \* key -> the entry the store would answer with, or None
  offer,   \* the put in progress, [key, entry], or None
  reply    \* the answer to the last get, [key, entry], or None

lsvars == <<held, offer, reply>>

Init ==
  /\ held = [k \in Key |-> None]
  /\ offer = None
  /\ reply = None

\* A put starts. The older entry of the key is gone from here on.
Offer(k, e) ==
  /\ offer = None
  /\ offer' = [key |-> k, entry |-> e]
  /\ held' = [held EXCEPT ![k] = None]
  /\ UNCHANGED reply

\* The put ends and its entry is readable.
Accept ==
  /\ offer # None
  /\ held' = [held EXCEPT ![offer.key] = offer.entry]
  /\ offer' = None
  /\ UNCHANGED reply

\* The put ends without keeping its entry.
Decline ==
  /\ offer # None
  /\ offer' = None
  /\ UNCHANGED <<held, reply>>

\* Entries disappear: an eviction, a delete or a clear.
Forget(S) ==
  /\ held' = [k \in Key |-> IF k \in S THEN None ELSE held[k]]
  /\ UNCHANGED <<offer, reply>>

\* Only between puts does the store answer.
Get(k) ==
  /\ offer = None
  /\ reply' = [key |-> k, entry |-> held[k]]
  /\ UNCHANGED <<held, offer>>

Next ==
  \/ \E k \in Key, e \in Entry : Offer(k, e)
  \/ Accept
  \/ Decline
  \/ \E S \in SUBSET Key : Forget(S)
  \/ \E k \in Key : Get(k)

Spec == Init /\ [][Next]_lsvars

=============================================================================
