------------------------------- MODULE R2Cache ------------------------------
(***************************************************************************)
(* The L2 cache, crates/imgx/src/cache/r2.rs, over the S3 client,          *)
(* crates/imgx/src/s3/client.rs, and the variants bucket they talk to.     *)
(* These are the steps of one call as its caller meets them: the answer a  *)
(* GET may carry, the effect a PUT or a DELETE may have.  The bucket is    *)
(* shared by every server instance and survives their crashes; so does a   *)
(* request that was sent and that nobody waits for any more.               *)
(***************************************************************************)
EXTENDS Integers, SequencesExt

CONSTANTS
  Key,            \* cache keys: <path>|<transforms>|<format>, cut into "|", "/",
                  \* ".." and what stands between them
  Entry,          \* cache entries
  None,           \* no entry, no object key
  ErrorBody,      \* the body of an S3 error document, taken for an entry
  OtherStatus     \* may S3 answer with a status below 500 that is none of 2xx, 403, 404?

\* A bar becomes a slash, a slash after a slash is dropped; a key that may climb has
\* no object.
sanitize_key(key) ==
  LET Joined(out, part) == IF part = "/" /\ out # <<>> /\ Last(out) = "/" THEN out
                           ELSE Append(out, part)
      slashed == [i \in DOMAIN key |-> IF key[i] = "|" THEN "/" ELSE key[i]]
  IN IF \E i \in DOMAIN key : key[i] = ".." THEN None ELSE FoldLeft(Joined, <<>>, slashed)

SanitizeKey == [k \in Key |-> sanitize_key(k)]

\* The object keys of the bucket.
L2Key == {SanitizeKey[k] : k \in Key} \ {None}

ASSUME EntryAssumption ==
  None \notin Entry /\ ErrorBody \notin Entry /\ ErrorBody # None
ASSUME OtherStatusAssumption == OtherStatus \in BOOLEAN

VARIABLES
  bucket,   \* object key -> the stored entry, or None
  late      \* writes that R2 may still carry out although their callers have stopped
            \* waiting: [object, entry], entry None for a DELETE

\* Mutant of GetObject: an error document is taken for an entry.
ErrorsAsBodies(s) == {bucket[s], None, ErrorBody}

\* What get_object answers: the object, or Ok(None) for 404; for 403, 5xx and a
\* failed connection an error, which R2Cache::get turns into a miss; for any
\* other status the body, whatever it says.
GetObject(s) ==
  {bucket[s], None} \cup (IF OtherStatus THEN {ErrorBody} ELSE {})

\* R2Cache::get. A key that cannot be sanitized is a miss.
R2Get(k) == IF SanitizeKey[k] = None THEN {None} ELSE GetObject(SanitizeKey[k])

\* A PUT is carried out, or it fails and the older object stays; a connection that
\* fails may leave the request with R2, to be carried out later.
PutObject(s, e) ==
  \/ /\ bucket' = [bucket EXCEPT ![s] = e]
     /\ UNCHANGED late
  \/ /\ late' \in {late, late \cup {[object |-> s, entry |-> e]}}
     /\ UNCHANGED bucket

\* A DELETE that worked may still be reported as failed, when its answer is lost; S3
\* answers 204 whether or not there was an object.
DeleteObject(s, deleted) ==
  \/ /\ bucket' = [bucket EXCEPT ![s] = None]
     /\ deleted \in BOOLEAN
     /\ UNCHANGED late
  \/ /\ deleted = FALSE
     /\ late' \in {late, late \cup {[object |-> s, entry |-> None]}}
     /\ UNCHANGED bucket

\* Callers go away with these requests under way: R2 may have any of them.
Abandon(requests) == \E sent \in SUBSET requests : late' = late \cup sent

\* R2 carries out a request that nobody waits for, or drops it. The DELETEs of an
\* object are one element of the set, however many they are.
LateWrite(w) ==
  /\ w \in late
  /\ bucket' \in {bucket, [bucket EXCEPT ![w.object] = w.entry]}
  /\ \/ late' = late \ {w}
     \/ w.entry = None /\ UNCHANGED late

\* Mutant of R2Put: the object key is not computed from the cache key.
PutAnywhere(k, e) == \E s \in L2Key : PutObject(s, e)

\* R2Cache::put; nothing tells the caller whether the write failed.
R2Put(k, e) ==
  IF SanitizeKey[k] = None THEN UNCHANGED <<bucket, late>> ELSE PutObject(SanitizeKey[k], e)

\* R2Cache::delete, with the answer it gives.
R2Delete(k, deleted) ==
  IF SanitizeKey[k] = None THEN deleted = FALSE /\ UNCHANGED <<bucket, late>>
  ELSE DeleteObject(SanitizeKey[k], deleted)
=============================================================================
