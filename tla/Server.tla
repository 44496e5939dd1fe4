------------------------------- MODULE Server -------------------------------
(***************************************************************************)
(* One imgx server: the request handlers of crates/imgx/src/server.rs, the *)
(* two limiters they pass, the blocking transforms they start and the      *)
(* graceful shutdown of crates/imgx/src/main.rs.  A handler is cut where   *)
(* it awaits; handlers, transforms, client disconnects and the signal      *)
(* interleave at those points.  The cache is what CacheContract promises,  *)
(* the pixels are abstracted to how a transform ends.                      *)
(***************************************************************************)
EXTENDS Integers, FiniteSets

CONSTANTS
  Request,                \* the requests clients send, each of them once
  Kind,                   \* what a request may ask for
  Key,                    \* cache keys
  None,                   \* no entry, no answer yet
  Config,                 \* the configurations a server may be started with
  max_connections,        \* slots of the concurrency limit
  parallelism             \* permits of the libvips semaphore

ASSUME KindAssumption ==
  Kind \subseteq
    [route : {"service", "image"},   \* health, ready, metrics and 404, or an image
     parses : BOOLEAN,               \* params::parse succeeds
     in_range : BOOLEAN,             \* validate() has no other complaint
     within_max : BOOLEAN,           \* within the operator's max_width, max_height
     key : Key,
     remote : BOOLEAN,               \* the source is an absolute URL
     overlays : Nat,                 \* number of draw[].url
     thumbhash : BOOLEAN,            \* format=thumbhash
     redirect : BOOLEAN,             \* onerror=redirect
     conditional : BOOLEAN]          \* If-None-Match is present
ASSUME ConfigAssumption ==
  Config \subseteq
    [origin_type : {"http", "r2"},
     allow_remote_sources : BOOLEAN,  \* may the source be an absolute URL?
     allow_draw_overlays : BOOLEAN,   \* may a request name overlays?
     on_failure : {"passthrough", "error"}]
ASSUME LimitAssumption ==
  /\ max_connections \in Nat \ {0}
  /\ parallelism \in Nat \ {0}
ASSUME RequestAssumption ==
  /\ IsFiniteSet(Request)
  /\ None \notin Request \cup Kind
  /\ Request \cap {"service", "error", "redirect", "raw"} = {}

VARIABLES
  config,         \* what the server was started with
  phase,          \* of the process: "serving", "draining", "stopped"
  slots,          \* free slots of the concurrency limit
  permits,        \* free permits of vips_semaphore
  pc,             \* where a request is: on its client's side ("waiting" to be sent,
                  \* "sending", "answered" and still being written, "closed" or "gone")
                  \* or at a label of its handler
  req,            \* what the request asks for, or None
  tries,          \* history: calls made to fetch its source
  source,         \* the source bytes: "none", "fits" or over "max_request_size"
  overlay_bytes,  \* overlays fetched so far
  transform,      \* its blocking task
  response,       \* its answer, [status, body], or None
  offered,        \* the cache: key -> the entries ever put (see CacheContract)
  reply           \* the answer of the last cache get

local == <<tries, source, overlay_bytes, transform>>
cache == <<offered, reply>>
vars == <<config, phase, slots, permits, pc, req, local, response, cache>>

\* The render that request r makes is the entry r.
Cache == INSTANCE CacheContract WITH Entry <- Request

Init ==
  /\ config \in Config
  /\ phase = "serving"
  /\ slots = max_connections
  /\ permits = parallelism
  /\ pc = [r \in Request |-> "waiting"]
  /\ req = [r \in Request |-> None]
  /\ tries = [r \in Request |-> 0]
  /\ source = [r \in Request |-> "none"]
  /\ overlay_bytes = [r \in Request |-> 0]
  /\ transform = [r \in Request |-> "none"]
  /\ response = [r \in Request |-> None]
  /\ Cache!Init

\* INV-9: the errors and their statuses.
HttpError ==
  [bad_request |-> 400, forbidden |-> 403, not_found |-> 404, payload_too_large |-> 413,
   unprocessable_entity |-> 422, internal_error |-> 500, bad_gateway |-> 502,
   gateway_timeout |-> 504]

\* The handlers under way.
InFlight ==
  {r \in Request : pc[r] \notin {"waiting", "sending", "answered", "closed", "gone"}}

\* The connections that the drain waits for: of a client that has not sent the whole
\* of its request, of a handler, and of a client that has not read the whole answer.
Connected == {r \in Request : pc[r] \notin {"waiting", "closed", "gone"}}

\* The handler answers: its future completes and its slot is free.
Respond(r, status, body) ==
  /\ response' = [response EXCEPT ![r] = [status |-> status, body |-> body]]
  /\ pc' = [pc EXCEPT ![r] = "answered"]
  /\ slots' = slots + 1

\* An If-None-Match that is there may name the bytes of the answer.
should_return_304(r) == IF req[r].conditional THEN BOOLEAN ELSE {FALSE}

\* build_image_response: 304 when the client holds these bytes already.
RespondImage(r, body) ==
  \E same \in should_return_304(r) : Respond(r, IF same THEN 304 ELSE 200, body)

Goto(r, label) ==
  /\ pc' = [pc EXCEPT ![r] = label]
  /\ UNCHANGED <<slots, response>>

-----------------------------------------------------------------------------
\* A client begins to send a request. After the signal nothing is accepted.
Connect(r) ==
  /\ phase = "serving"
  /\ pc[r] = "waiting"
  /\ pc' = [pc EXCEPT ![r] = "sending"]
  /\ UNCHANGED <<config, phase, slots, permits, req, local, response, cache>>

\* It gives up before the request is whole, or it has read the answer or gives up
\* reading it. Nothing makes a client do either: a response is written as slowly as
\* it is read.
HangUp(r) ==
  /\ \/ /\ pc[r] = "sending"
        /\ pc' = [pc EXCEPT ![r] = "waiting"]
     \/ /\ pc[r] = "answered"
        /\ pc' = [pc EXCEPT ![r] = "closed"]
  /\ UNCHANGED <<config, phase, slots, permits, req, local, response, cache>>

\* A whole request reaches the router: a free slot, or 503 at once. During the drain
\* connections that are already open may still bring one.
Arrive(r, q) ==
  /\ pc[r] = "sending"
  /\ req' = [req EXCEPT ![r] = q]
  /\ \/ /\ slots > 0
        /\ slots' = slots - 1
        /\ pc' = [pc EXCEPT ![r] = "admitted"]
        /\ UNCHANGED response
     \/ /\ slots = 0
        /\ pc' = [pc EXCEPT ![r] = "answered"]
        /\ response' = [response EXCEPT ![r] = [status |-> 503, body |-> "error"]]
        /\ UNCHANGED slots
  /\ UNCHANGED <<config, phase, permits, local, cache>>

\* Mutant of Refusal: the draw gate is missing.
RefusalSkipsDraw(q) ==
  IF ~q.parses THEN HttpError.bad_request
  ELSE IF ~q.in_range \/ (q.thumbhash /\ q.overlays > 0) THEN HttpError.unprocessable_entity
  ELSE IF q.remote /\ ~config.allow_remote_sources THEN HttpError.forbidden
  ELSE IF ~q.within_max THEN HttpError.unprocessable_entity
  ELSE 0

\* The status of the first check that an image request fails, or 0. validate()
\* refuses a thumbhash with overlays.
Refusal(q) ==
  IF ~q.parses THEN HttpError.bad_request
  ELSE IF ~q.in_range \/ (q.thumbhash /\ q.overlays > 0) THEN HttpError.unprocessable_entity
  ELSE IF q.overlays > 0 /\ ~config.allow_draw_overlays THEN HttpError.forbidden
  ELSE IF q.remote /\ ~config.allow_remote_sources THEN HttpError.forbidden
  ELSE IF ~q.within_max THEN HttpError.unprocessable_entity
  ELSE 0

\* handle_request, and handle_image_request up to the cache lookup.
Route(r) ==
  /\ pc[r] = "admitted"
  /\ \/ /\ req[r].route = "service"
        /\ \E status \in {200, 404} : Respond(r, status, "service")
     \/ /\ req[r].route = "image"
        /\ Refusal(req[r]) # 0
        /\ Respond(r, Refusal(req[r]), "error")
     \/ /\ req[r].route = "image"
        /\ Refusal(req[r]) = 0
        /\ Goto(r, "lookup")
  /\ UNCHANGED <<config, phase, permits, req, local, cache>>

\* The cache answers: a hit is the response, a miss sends the source fetch.
Lookup(r) ==
  /\ pc[r] = "lookup"
  /\ Cache!Get(req[r].key)
  /\ \/ /\ reply'.entry # None
        /\ RespondImage(r, reply'.entry)
        /\ UNCHANGED tries
     \/ /\ reply'.entry = None
        /\ Goto(r, "fetch")
        /\ tries' = [tries EXCEPT ![r] = @ + 1]
  /\ UNCHANGED <<config, phase, permits, req, source, overlay_bytes, transform>>

-----------------------------------------------------------------------------
\* The statuses that answer a fetch that failed: not found, timed out, over the
\* size limit, unreachable. RemoteFetcher may also reject the URL.
StreamFaults == {HttpError.not_found, HttpError.gateway_timeout,
                 HttpError.payload_too_large, HttpError.bad_gateway}
RemoteFaults == StreamFaults \cup {HttpError.forbidden}
S3Faults == {HttpError.not_found, HttpError.bad_gateway}

FromR2(r) == config.origin_type = "r2" /\ ~req[r].remote

SourceFaults(r) == IF req[r].remote THEN RemoteFaults
                   ELSE IF config.origin_type = "r2" THEN S3Faults ELSE StreamFaults

\* The size cap is not applied to what R2 answers.
SourceSizes(r) == IF FromR2(r) THEN {"fits", "too_large"} ELSE {"fits"}

\* The step after n overlays have been fetched.
AfterFetch(r, n) == IF n < req[r].overlays THEN "overlay" ELSE "permit"

SourceArrives(r) ==
  /\ pc[r] = "fetch"
  /\ \E size \in SourceSizes(r) : source' = [source EXCEPT ![r] = size]
  /\ Goto(r, AfterFetch(r, 0))
  /\ UNCHANGED <<config, phase, permits, req, tries, overlay_bytes, transform, cache>>

SourceFails(r) ==
  /\ pc[r] = "fetch"
  /\ \E status \in SourceFaults(r) : Respond(r, status, "error")
  /\ UNCHANGED <<config, phase, permits, req, tries, source, overlay_bytes, transform, cache>>

\* The overlays are fetched one after the other.
OverlayArrives(r) ==
  /\ pc[r] = "overlay"
  /\ overlay_bytes' = [overlay_bytes EXCEPT ![r] = @ + 1]
  /\ Goto(r, AfterFetch(r, overlay_bytes[r] + 1))
  /\ UNCHANGED <<config, phase, permits, req, tries, source, transform, cache>>

\* Mutant of OverlayFails: an overlay that cannot be fetched is left out.
OverlaySkipped(r) ==
  /\ pc[r] = "overlay"
  /\ Goto(r, "permit")
  /\ UNCHANGED <<config, phase, permits, req, local, cache>>

OverlayFails(r) ==
  /\ pc[r] = "overlay"
  /\ \E status \in RemoteFaults : Respond(r, status, "error")
  /\ UNCHANGED <<config, phase, permits, req, tries, source, overlay_bytes, transform, cache>>

-----------------------------------------------------------------------------
\* Mutant of StartTransform: the permit is taken without looking.
StartUnbounded(r) ==
  /\ pc[r] = "permit"
  /\ permits' = permits - 1
  /\ transform' = [transform EXCEPT ![r] = "running"]
  /\ Goto(r, "transform")
  /\ UNCHANGED <<config, phase, req, tries, source, overlay_bytes, cache>>

\* try_acquire_owned: 503, or the blocking task starts and owns the permit.
StartTransform(r) ==
  /\ pc[r] = "permit"
  /\ \/ /\ permits = 0
        /\ Respond(r, 503, "error")
        /\ UNCHANGED <<permits, transform>>
     \/ /\ permits > 0
        /\ permits' = permits - 1
        /\ transform' = [transform EXCEPT ![r] = "running"]
        /\ Goto(r, "transform")
  /\ UNCHANGED <<config, phase, req, tries, source, overlay_bytes, cache>>

\* The blocking task ends and drops its permit, whether or not its handler is
\* still there: with a render, a TransformError, or a panic.
TransformEnds(r) ==
  /\ transform[r] = "running"
  /\ \E end \in {"rendered", "failed", "panicked"}
                  \cup (IF req[r].thumbhash THEN {"hash_failed"} ELSE {}) :
       transform' = [transform EXCEPT ![r] = end]
  /\ permits' = permits + 1
  /\ UNCHANGED <<config, phase, slots, pc, req, tries, source, overlay_bytes,
                 response, cache>>

\* The handler wakes with a render: it is cached, then answered.
Finish(r) ==
  /\ pc[r] = "transform"
  /\ transform[r] = "rendered"
  /\ Cache!Put(req[r].key, r)
  /\ RespondImage(r, r)
  /\ UNCHANGED <<config, phase, permits, req, local>>

FailureStatus(r) == IF transform[r] = "failed" THEN HttpError.unprocessable_entity
                    ELSE HttpError.internal_error
HasLocation(r) == req[r].remote \/ config.origin_type = "http"

\* Mutant of Fail: the arm of a panicked task forgets the thumbhash and
\* fail-closed checks.
FailServesRawOnPanic(r) ==
  /\ pc[r] = "transform"
  /\ transform[r] \in {"failed", "hash_failed", "panicked"}
  /\ IF transform[r] = "panicked" THEN RespondImage(r, "raw")
                                  ELSE Respond(r, FailureStatus(r), "error")
  /\ UNCHANGED <<config, phase, permits, req, local, cache>>

\* Mutant of Fail: a join error is not handled.
FailIgnoresPanic(r) ==
  /\ pc[r] = "transform"
  /\ transform[r] \in {"failed", "hash_failed"}
  /\ Respond(r, FailureStatus(r), "error")
  /\ UNCHANGED <<config, phase, permits, req, local, cache>>

\* The handler wakes with a failure: an error for a thumbhash and when the
\* server fails closed, else the redirect that was asked for and can be given,
\* else the source bytes as they are.
Fail(r) ==
  /\ pc[r] = "transform"
  /\ transform[r] \in {"failed", "hash_failed", "panicked"}
  /\ \/ /\ config.on_failure = "error" \/ req[r].thumbhash
        /\ Respond(r, FailureStatus(r), "error")
     \/ /\ config.on_failure = "passthrough" /\ ~req[r].thumbhash
        /\ req[r].redirect /\ HasLocation(r)
        /\ Respond(r, 302, "redirect")
     \/ /\ config.on_failure = "passthrough" /\ ~req[r].thumbhash
        /\ ~(req[r].redirect /\ HasLocation(r))
        /\ RespondImage(r, "raw")
  /\ UNCHANGED <<config, phase, permits, req, local, cache>>

-----------------------------------------------------------------------------
\* Where a handler waits for something else. The memory cache answers at once.
AwaitsR2(r) ==
  config.origin_type = "r2" /\ (pc[r] = "lookup" \/ (pc[r] = "fetch" /\ ~req[r].remote))
Suspended(r) == pc[r] \in {"fetch", "overlay", "transform"} \/ AwaitsR2(r)

\* Mutant of Disconnect: the permit belongs to the handler, not to its task.
DisconnectFreesPermit(r) ==
  /\ Suspended(r)
  /\ pc' = [pc EXCEPT ![r] = "gone"]
  /\ slots' = slots + 1
  /\ permits' = permits + (IF pc[r] = "transform" THEN 1 ELSE 0)
  /\ UNCHANGED <<config, phase, req, local, response, cache>>

\* The client goes away and the handler's future is dropped: its slot is free,
\* its blocking task, if it has one, goes on and keeps the permit.
Disconnect(r) ==
  /\ Suspended(r)
  /\ pc' = [pc EXCEPT ![r] = "gone"]
  /\ slots' = slots + 1
  /\ UNCHANGED <<config, phase, permits, req, local, response, cache>>

\* SIGTERM or Ctrl+C.
ShutdownSignal ==
  /\ phase = "serving"
  /\ phase' = "draining"
  /\ UNCHANGED <<config, slots, permits, pc, req, local, response, cache>>

\* Every connection is closed: serve() returns, libvips is shut down. No time limit is
\* set on the drain.
Stop ==
  /\ phase = "draining"
  /\ Connected = {}
  /\ phase' = "stopped"
  /\ UNCHANGED <<config, slots, permits, pc, req, local, response, cache>>

Handle(r) ==
  \/ Route(r) \/ Lookup(r)
  \/ SourceArrives(r) \/ SourceFails(r) \/ OverlayArrives(r) \/ OverlayFails(r)
  \/ StartTransform(r) \/ Finish(r) \/ Fail(r)

Next ==
  \/ \E r \in Request, q \in Kind : Arrive(r, q)
  \/ \E r \in Request : Handle(r) \/ TransformEnds(r) \/ Disconnect(r)
  \/ \E r \in Request : Connect(r) \/ HangUp(r)
  \/ ShutdownSignal \/ Stop

Spec == Init /\ [][Next]_vars

\* The runtime polls every handler that can go on and runs every blocking
\* task; libvips comes to an end; the HTTP clients of the origin and of remote
\* URLs give up at their timeout; serve() returns once every connection is closed.
\* Nothing makes R2 answer: its client has no timeout. Clients and the signal are not
\* fair.
Fairness ==
  /\ \A r \in Request : /\ WF_vars(~AwaitsR2(r) /\ Handle(r))
                        /\ WF_vars(TransformEnds(r))
  /\ WF_vars(Stop)

FairSpec == Spec /\ Fairness

-----------------------------------------------------------------------------
Running == {r \in Request : transform[r] = "running"}

TypeOK ==
  /\ config \in Config
  /\ phase \in {"serving", "draining", "stopped"}
  /\ slots \in 0..max_connections
  /\ permits \in 0..parallelism
  /\ pc \in [Request -> {"waiting", "sending", "admitted", "lookup", "fetch", "overlay",
                         "permit", "transform", "answered", "closed", "gone"}]
  /\ req \in [Request -> Kind \cup {None}]
  /\ tries \in [Request -> Nat]
  /\ source \in [Request -> {"none", "fits", "too_large"}]
  /\ overlay_bytes \in [Request -> Nat]
  /\ transform \in [Request -> {"none", "running", "rendered", "failed",
                                "hash_failed", "panicked"}]
  /\ response \in [Request -> {None} \cup
       [status : {200, 302, 304, 400, 403, 404, 413, 422, 500, 502, 503, 504},
        body : Request \cup {"service", "error", "redirect", "raw"}]]
  /\ offered \in [Key -> SUBSET Request]
  /\ reply \in [key : Key, entry : Request \cup {None}] \cup {None}

\* The transforms under way and the free permits always make up the
\* parallelism: abandoned transforms count too, and neither a panic nor a
\* disconnect leaks a permit or frees one early (server.rs:461-475).
PermitsConserved == Cardinality(Running) + permits = parallelism

\* The requests in flight and the free slots make up max_connections, however
\* handlers end: no way out of a handler leaks its slot (server.rs:225-237).
SlotsConserved == Cardinality(InFlight) + slots = max_connections

\* Neither limiter leaks or frees early, whichever way handlers and transforms end, together
\* or the one without the other (server.rs:225-237, 461-475).
LimitsConserved == PermitsConserved /\ SlotsConserved

\* INV-14: a request that names a remote source or an overlay while that is not
\* enabled causes no fetch at all, not even of its source (server.rs:320-342).
NoGatedFetch ==
  \A r \in Request :
    (tries[r] > 0 \/ overlay_bytes[r] > 0) =>
      /\ req[r].remote => config.allow_remote_sources
      /\ req[r].overlays > 0 => config.allow_draw_overlays

\* INV-13: what the cache is offered under a key is the complete render of a
\* request for that key, every overlay in it, that its own handler lived to
\* answer; never fallback bytes (server.rs:439-448, 491-506).
OnlyRendersCached ==
  \A k \in Key : \A e \in offered[k] :
    /\ req[e].key = k
    /\ transform[e] = "rendered"
    /\ overlay_bytes[e] = req[e].overlays
    /\ response[e].body = e

\* INV-13, INV-19, INV-28: source bytes are answered only when the request's own
\* transform failed, by a server that does not fail closed, and never for a
\* thumbhash; a redirect takes their place when it was asked for and there is a
\* location (server.rs:545-624).
RawOnlyAsFallback ==
  \A r \in Request : \A a \in {response[r]} \ {None} :
    a.body \in {"raw", "redirect"} =>
      /\ transform[r] \in {"failed", "panicked"}
      /\ config.on_failure = "passthrough"
      /\ ~req[r].thumbhash
      /\ a.body = "redirect" <=> (req[r].redirect /\ HasLocation(r))

EveryRequestEnds ==
  \A r \in Request :
    (pc[r] = "admitted" /\ config.origin_type = "http")
      ~> pc[r] \in {"answered", "closed", "gone"}

\* No client holds its connection for ever: it sends the whole of its request, reads
\* the whole of its answer, or hangs up.
ClientsFinish == \A r \in Request : []<>(pc[r] \notin {"sending", "answered"})

ServerStops ==
  ClientsFinish => (phase = "draining" /\ config.origin_type = "http") ~> phase = "stopped"

\* With an HTTP origin, every request that is admitted is answered unless its client
\* leaves, however fetches, renders and panics end (server.rs:383-524); and after the
\* signal the server drains and stops, provided that every client finishes, which
\* nothing in main.rs:48-53 enforces: no handler, transform or limiter holds it up.
NothingWaitsForever == EveryRequestEnds /\ ServerStops

-----------------------------------------------------------------------------
\* What the documents say and the code does not do.

\* configuration.mdx:20, "Timeout (ms) for origin fetch requests": whatever the
\* origin does, a request that is waiting for it goes on.
FetchesTimeOut == \A r \in Request : pc[r] = "fetch" ~> pc[r] # "fetch"

=============================================================================
