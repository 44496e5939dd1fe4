----------------------------- MODULE ServerProofs ----------------------------
(***************************************************************************)
(* The request handler, proved for any number of requests, slots, permits, *)
(* kinds and configurations: slots and permits are conserved, a gated      *)
(* request fetches nothing, only complete renders are cached, and source   *)
(* bytes get out only as the fallback.                                     *)
(***************************************************************************)
EXTENDS Server, FiniteSetTheorems, TLAPS

\* Where a handler that is in flight stands.
Active == {"admitted", "lookup", "fetch", "overlay", "permit", "transform"}

\* Where a request stands on its client's side.
Outside == {"waiting", "sending", "answered", "closed", "gone"}

\* What is known of a request from where its handler stands.
Control(r) ==
  /\ pc[r] \notin {"waiting", "sending"} => req[r] \in Kind
  /\ pc[r] \notin {"answered", "closed"} => response[r] = None
  /\ pc[r] \in {"waiting", "sending", "admitted", "lookup"} => tries[r] = 0
  /\ pc[r] \in {"waiting", "sending", "admitted", "lookup", "fetch"} => overlay_bytes[r] = 0
  /\ pc[r] \in {"waiting", "sending", "admitted", "lookup", "fetch", "overlay", "permit"}
       => transform[r] = "none"
  /\ pc[r] \in {"lookup", "fetch", "overlay", "permit", "transform"} => Refusal(req[r]) = 0
  /\ tries[r] > 0 \/ overlay_bytes[r] > 0 => Refusal(req[r]) = 0
  /\ pc[r] = "overlay" => overlay_bytes[r] < req[r].overlays
  /\ pc[r] \in {"permit", "transform"} => overlay_bytes[r] = req[r].overlays
  /\ transform[r] = "hash_failed" => req[r].thumbhash

Controlled == \A r \in Request : Control(r)

\* Whoever put an entry has been answered and does nothing more.
PuttersAnswered == \A k \in Key : \A e \in offered[k] : pc[e] \in {"answered", "closed"}

IInv ==
  /\ TypeOK
  /\ Controlled
  /\ PermitsConserved
  /\ SlotsConserved
  /\ OnlyRendersCached
  /\ PuttersAnswered
  /\ RawOnlyAsFallback

-----------------------------------------------------------------------------
\* The statuses a handler can answer.
Statuses == {200, 302, 304, 400, 403, 404, 413, 422, 500, 502, 503, 504}
Bodies == Request \cup {"service", "error", "redirect", "raw"}

\* An image is answered in full or as not modified (server.rs:661-688).
LEMMA ImageAnswers ==
  ASSUME NEW r \in Request, NEW body, RespondImage(r, body)
  PROVE  Respond(r, 200, body) \/ Respond(r, 304, body)
BY DEF RespondImage

\* The errors have statuses of their own (http/errors.rs).
LEMMA ErrorStatuses ==
  /\ \A q \in Kind : Refusal(q) \in Statuses \cup {0}
  /\ RemoteFaults \subseteq Statuses
  /\ \A r \in Request : SourceFaults(r) \subseteq Statuses /\ FailureStatus(r) \in Statuses
BY DEF HttpError, Statuses, Refusal, RemoteFaults, StreamFaults, S3Faults, SourceFaults,
       FailureStatus

\* A request that no check refuses passed the gates (server.rs:320-342).
LEMMA GatesPassed ==
  ASSUME NEW q \in Kind, Refusal(q) = 0
  PROVE  /\ q.remote => config.allow_remote_sources
         /\ q.overlays > 0 => config.allow_draw_overlays
BY DEF Refusal, HttpError

\* An answer keeps the table of answers well typed.
LEMMA AnswerTyped ==
  ASSUME TypeOK, NEW r \in Request, NEW status \in Statuses, NEW body \in Bodies,
         Respond(r, status, body)
  PROVE  /\ response' \in [Request -> {None} \cup [status : Statuses, body : Bodies]]
         /\ response'[r] = [status |-> status, body |-> body]
         /\ \A s \in Request : s # r => response'[s] = response[s]
         /\ pc' = [pc EXCEPT ![r] = "answered"]
         /\ slots' = slots + 1
BY DEF TypeOK, Respond, Statuses, Bodies

\* Every step of a handler ends it or takes it to another active label.
LEMMA HandlerMoves ==
  ASSUME TypeOK, Controlled, NEW r \in Request, Handle(r)
  PROVE  /\ pc[r] \in Active
         /\ \/ pc' = [pc EXCEPT ![r] = "answered"] /\ slots' = slots + 1
            \/ \E label \in Active : pc' = [pc EXCEPT ![r] = label] /\ UNCHANGED slots
<1>1. CASE Route(r)
  BY <1>1 DEF Route, Respond, Goto, Active
<1>2. CASE Lookup(r)
  BY <1>2, ImageAnswers DEF Lookup, Respond, Goto, Active
<1>3. CASE SourceArrives(r)
  BY <1>3 DEF SourceArrives, Goto, AfterFetch, Active
<1>4. CASE SourceFails(r)
  BY <1>4 DEF SourceFails, Respond, Active
<1>5. CASE OverlayArrives(r)
  BY <1>5 DEF OverlayArrives, Goto, AfterFetch, Active
<1>6. CASE OverlayFails(r)
  BY <1>6 DEF OverlayFails, Respond, Active
<1>7. CASE StartTransform(r)
  BY <1>7 DEF StartTransform, Respond, Goto, Active
<1>8. CASE Finish(r)
  BY <1>8, ImageAnswers DEF Finish, Respond, Active
<1>9. CASE Fail(r)
  BY <1>9, ImageAnswers DEF Fail, Respond, Active
<1> QED
  BY <1>1, <1>2, <1>3, <1>4, <1>5, <1>6, <1>7, <1>8, <1>9 DEF Handle

-----------------------------------------------------------------------------
\* InFlight and Running are finite, so their elements can be counted.
LEMMA Counted ==
  /\ IsFiniteSet(InFlight) /\ Cardinality(InFlight) \in Nat
  /\ IsFiniteSet(Running) /\ Cardinality(Running) \in Nat
<1>1. InFlight \in SUBSET Request /\ Running \in SUBSET Request
  BY DEF InFlight, Running
<1> QED
  BY <1>1, RequestAssumption, FS_Subset, FS_CardinalityType

\* The slots come out even, whatever a step does.
LEMMA SlotsStep ==
  ASSUME TypeOK, Controlled, SlotsConserved, [Next]_vars
  PROVE  SlotsConserved' /\ slots' \in 0..max_connections
<1>0. /\ slots \in Nat /\ max_connections \in Nat
      /\ pc \in [Request -> Active \cup Outside]
  BY LimitAssumption DEF TypeOK, Active, Outside
<1>1. ASSUME NEW r \in Request, pc[r] \in Active,
             \E end \in {"answered", "gone"} : pc' = [pc EXCEPT ![r] = end], slots' = slots + 1
      PROVE  SlotsConserved' /\ slots' \in 0..max_connections
  <2>1. r \in InFlight /\ InFlight' = InFlight \ {r}
    BY <1>0, <1>1 DEF InFlight, Active
  <2>2. Cardinality(InFlight') = Cardinality(InFlight) - 1 /\ Cardinality(InFlight') \in Nat
    BY <2>1, Counted, FS_RemoveElement, FS_CardinalityType
  <2> QED
    BY <1>0, <1>1, <2>2, Counted DEF SlotsConserved
<1>2. ASSUME NEW r \in Request, pc[r] \in Active, NEW label \in Active,
             pc' = [pc EXCEPT ![r] = label], slots' = slots
      PROVE  SlotsConserved' /\ slots' \in 0..max_connections
  <2>1. InFlight' = InFlight
    BY <1>0, <1>2 DEF InFlight, Active
  <2> QED
    BY <1>2, <2>1 DEF SlotsConserved, TypeOK
<1>3. ASSUME UNCHANGED <<pc, slots>>
      PROVE  SlotsConserved' /\ slots' \in 0..max_connections
  BY <1>3 DEF SlotsConserved, InFlight, TypeOK
<1>c. ASSUME NEW r \in Request, Connect(r) \/ HangUp(r)
      PROVE  SlotsConserved' /\ slots' \in 0..max_connections
  <2>1. InFlight' = InFlight
    BY <1>0, <1>c DEF Connect, HangUp, InFlight, Active
  <2> QED
    BY <1>c, <2>1 DEF Connect, HangUp, SlotsConserved, TypeOK
<1>4. ASSUME NEW r \in Request, NEW q \in Kind, Arrive(r, q)
      PROVE  SlotsConserved' /\ slots' \in 0..max_connections
  <2>1. CASE slots > 0
    <3>1. /\ pc[r] = "sending" /\ pc' = [pc EXCEPT ![r] = "admitted"] /\ slots' = slots - 1
      BY <1>4, <2>1 DEF Arrive
    <3>2. r \notin InFlight /\ InFlight' = InFlight \cup {r}
      BY <1>0, <3>1 DEF InFlight, Active
    <3>3. Cardinality(InFlight') = Cardinality(InFlight) + 1
      BY <3>2, Counted, FS_AddElement
    <3> QED
      BY <1>0, <2>1, <3>1, <3>3, Counted DEF SlotsConserved, TypeOK
  <2>2. CASE slots = 0
    <3>1. pc[r] = "sending" /\ pc' = [pc EXCEPT ![r] = "answered"] /\ slots' = slots
      BY <1>4, <2>2 DEF Arrive
    <3>2. InFlight' = InFlight
      BY <1>0, <3>1 DEF InFlight, Active
    <3> QED
      BY <3>1, <3>2 DEF SlotsConserved, TypeOK
  <2> QED
    BY <1>0, <2>1, <2>2
<1>5. ASSUME NEW r \in Request, Handle(r)
      PROVE  SlotsConserved' /\ slots' \in 0..max_connections
  BY <1>1, <1>2, <1>5, HandlerMoves
<1>6. ASSUME NEW r \in Request, Disconnect(r)
      PROVE  SlotsConserved' /\ slots' \in 0..max_connections
  BY <1>1, <1>6 DEF Disconnect, Suspended, AwaitsR2, Active
<1> QED
  BY <1>3, <1>4, <1>5, <1>6, <1>c DEF Next, vars, TransformEnds, ShutdownSignal, Stop

\* So do the permits.
LEMMA PermitsStep ==
  ASSUME TypeOK, Controlled, PermitsConserved, [Next]_vars
  PROVE  PermitsConserved' /\ permits' \in 0..parallelism
<1>0. permits \in Nat /\ parallelism \in Nat
  BY LimitAssumption DEF TypeOK
<1>1. ASSUME UNCHANGED <<transform, permits>>
      PROVE  PermitsConserved' /\ permits' \in 0..parallelism
  BY <1>1 DEF PermitsConserved, Running, TypeOK
<1>2. ASSUME NEW r \in Request, StartTransform(r)
      PROVE  PermitsConserved' /\ permits' \in 0..parallelism
  <2>1. CASE permits = 0
    BY <1>1, <1>2, <2>1 DEF StartTransform
  <2>2. CASE permits > 0
    <3>1. permits' = permits - 1 /\ transform' = [transform EXCEPT ![r] = "running"]
      BY <1>2, <2>2 DEF StartTransform
    <3>2. transform[r] = "none"
      BY <1>2 DEF StartTransform, Controlled, Control
    <3>3. r \notin Running /\ Running' = Running \cup {r}
      BY <3>1, <3>2 DEF Running, TypeOK
    <3>4. Cardinality(Running') = Cardinality(Running) + 1
      BY <3>3, Counted, FS_AddElement
    <3> QED
      BY <1>0, <2>2, <3>1, <3>4, Counted DEF PermitsConserved, TypeOK
  <2> QED
    BY <1>0, <2>1, <2>2
<1>3. ASSUME NEW r \in Request, TransformEnds(r)
      PROVE  PermitsConserved' /\ permits' \in 0..parallelism
  <2>1. PICK end \in {"rendered", "failed", "panicked", "hash_failed"} :
          transform' = [transform EXCEPT ![r] = end]
    BY <1>3 DEF TransformEnds
  <2>2. r \in Running /\ Running' = Running \ {r}
    BY <1>3, <2>1 DEF TransformEnds, Running, TypeOK
  <2>3. Cardinality(Running') = Cardinality(Running) - 1 /\ Cardinality(Running') \in Nat
    BY <2>2, Counted, FS_RemoveElement, FS_CardinalityType
  <2> QED
    BY <1>0, <1>3, <2>3, Counted DEF TransformEnds, PermitsConserved
<1> QED
  BY <1>1, <1>2, <1>3
     DEF Next, vars, local, Handle, Arrive, Route, Lookup, SourceArrives, SourceFails,
         OverlayArrives, OverlayFails, Finish, Fail, Disconnect, ShutdownSignal, Stop,
         Connect, HangUp

-----------------------------------------------------------------------------
\* What the actions of one request leave alone: the configuration and the others.
Steps(r) == Handle(r) \/ TransformEnds(r) \/ Disconnect(r) \/ \E q \in Kind : Arrive(r, q)

Same(s) ==
  /\ pc'[s] = pc[s] /\ req'[s] = req[s] /\ tries'[s] = tries[s]
  /\ overlay_bytes'[s] = overlay_bytes[s] /\ transform'[s] = transform[s]
  /\ response'[s] = response[s]

LEMMA OthersSame ==
  ASSUME TypeOK, NEW r \in Request, Steps(r)
  PROVE  config' = config /\ \A s \in Request : s # r => Same(s)
<1> USE DEF TypeOK, Same, local, Respond, Goto
<1>1. CASE Route(r)
  BY <1>1 DEF Route
<1>2. CASE Lookup(r)
  BY <1>2, ImageAnswers DEF Lookup
<1>3. CASE SourceArrives(r) \/ SourceFails(r)
  BY <1>3 DEF SourceArrives, SourceFails
<1>4. CASE OverlayArrives(r) \/ OverlayFails(r)
  BY <1>4 DEF OverlayArrives, OverlayFails
<1>5. CASE StartTransform(r)
  BY <1>5 DEF StartTransform
<1>6. CASE Finish(r)
  BY <1>6, ImageAnswers DEF Finish
<1>7. CASE Fail(r)
  BY <1>7, ImageAnswers DEF Fail
<1>8. CASE TransformEnds(r) \/ Disconnect(r)
  BY <1>8 DEF TransformEnds, Disconnect
<1>9. CASE \E q \in Kind : Arrive(r, q)
  BY <1>9 DEF Arrive
<1> QED
  BY <1>1, <1>2, <1>3, <1>4, <1>5, <1>6, <1>7, <1>8, <1>9 DEF Steps, Handle

\* A client that connects or hangs up moves its request only, outside of any handler.
Moves(r) ==
  \/ pc[r] = "waiting" /\ pc' = [pc EXCEPT ![r] = "sending"]
  \/ pc[r] = "sending" /\ pc' = [pc EXCEPT ![r] = "waiting"]
  \/ pc[r] = "answered" /\ pc' = [pc EXCEPT ![r] = "closed"]

\* The other steps are those of the process and of the clients.
LEMMA WhoSteps ==
  ASSUME [Next]_vars
  PROVE  \/ \E r \in Request : Steps(r)
         \/ UNCHANGED <<config, slots, permits, pc, req, local, response, cache>>
         \/ /\ \E r \in Request : Moves(r)
            /\ UNCHANGED <<config, slots, permits, req, local, response, cache>>
<1>1. ASSUME NEW r \in Request, Connect(r) \/ HangUp(r)
      PROVE  Moves(r) /\ UNCHANGED <<config, slots, permits, req, local, response, cache>>
  BY <1>1 DEF Connect, HangUp, Moves, local, cache
<1> QED
  BY <1>1 DEF Next, Steps, vars, ShutdownSignal, Stop

-----------------------------------------------------------------------------
\* The label of a handler says what it has done.
LEMMA ControlStep ==
  ASSUME TypeOK, Controlled, [Next]_vars
  PROVE  Controlled'
<1> SUFFICES ASSUME NEW s \in Request PROVE Control(s)'
  BY DEF Controlled
<1>0. Control(s) /\ (req[s] \in Kind => req[s].overlays \in Nat)
  BY KindAssumption DEF Controlled
<1>1. ASSUME config' = config, Same(s)
      PROVE  Control(s)'
  BY <1>0, <1>1 DEF Control, Same, Refusal
<1>2. ASSUME NEW r \in Request, Steps(r), s # r
      PROVE  Control(s)'
  BY <1>1, <1>2, OthersSame
<1>3. ASSUME NEW q \in Kind, Arrive(s, q)
      PROVE  Control(s)'
  BY <1>0, <1>3 DEF Arrive, local, Control, TypeOK
<1>4. CASE Route(s)
  BY <1>0, <1>4 DEF Route, local, Respond, Goto, Control, Refusal, TypeOK
<1>5. CASE Lookup(s)
  <2>1. CASE Goto(s, "fetch") /\ tries' = [tries EXCEPT ![s] = @ + 1]
    BY <1>0, <1>5, <2>1 DEF Lookup, Goto, Control, Refusal, TypeOK
  <2>2. CASE (Respond(s, 200, reply'.entry) \/ Respond(s, 304, reply'.entry)) /\ UNCHANGED tries
    BY <1>0, <1>5, <2>2 DEF Lookup, Respond, Control, Refusal, TypeOK
  <2> QED
    BY <1>5, <2>1, <2>2, ImageAnswers DEF Lookup
<1>6. CASE SourceArrives(s)
  <2>1. /\ pc[s] = "fetch" /\ pc' = [pc EXCEPT ![s] = AfterFetch(s, 0)]
        /\ UNCHANGED <<config, req, tries, overlay_bytes, transform, response>>
    BY <1>6 DEF SourceArrives, Goto
  <2> QED
    BY <1>0, <2>1 DEF AfterFetch, Control, Refusal, TypeOK
<1>7. CASE SourceFails(s)
  BY <1>0, <1>7 DEF SourceFails, Respond, Control, Refusal, TypeOK
<1>8. CASE OverlayArrives(s)
  <2>1. /\ pc[s] = "overlay" /\ pc' = [pc EXCEPT ![s] = AfterFetch(s, overlay_bytes[s] + 1)]
        /\ overlay_bytes' = [overlay_bytes EXCEPT ![s] = @ + 1]
        /\ UNCHANGED <<config, req, tries, transform, response>>
    BY <1>8 DEF OverlayArrives, Goto
  <2>2. /\ overlay_bytes'[s] = overlay_bytes[s] + 1 /\ overlay_bytes'[s] <= req[s].overlays
        /\ pc'[s] = IF overlay_bytes'[s] < req[s].overlays THEN "overlay" ELSE "permit"
    BY <1>0, <2>1 DEF AfterFetch, Control, TypeOK
  <2>3. Refusal(req[s])' = Refusal(req[s])
    BY <2>1 DEF Refusal
  <2> QED
    BY <1>0, <2>1, <2>2, <2>3 DEF Control, TypeOK
<1>9. CASE OverlayFails(s)
  BY <1>0, <1>9 DEF OverlayFails, Respond, Control, Refusal, TypeOK
<1>10. CASE StartTransform(s)
  BY <1>0, <1>10 DEF StartTransform, Respond, Goto, Control, Refusal, TypeOK
<1>11. CASE Finish(s)
  <2>1. Respond(s, 200, s) \/ Respond(s, 304, s)
    BY <1>11, ImageAnswers DEF Finish
  <2> QED
    BY <1>0, <1>11, <2>1 DEF Finish, local, Respond, Control, Refusal, TypeOK
<1>12. CASE Fail(s)
  <2>1. /\ pc[s] = "transform" /\ pc' = [pc EXCEPT ![s] = "answered"]
        /\ UNCHANGED <<config, req, local>>
    BY <1>12, ImageAnswers DEF Fail, Respond
  <2> QED
    BY <1>0, <2>1 DEF local, Control, Refusal, TypeOK
<1>13. CASE TransformEnds(s)
  BY <1>0, <1>13 DEF TransformEnds, Control, Refusal, TypeOK
<1>14. CASE Disconnect(s)
  <2>1. pc[s] \in Active
    BY <1>14 DEF Disconnect, Suspended, AwaitsR2, Active
  <2> QED
    BY <1>0, <1>14, <2>1 DEF Disconnect, local, Active, Control, Refusal, TypeOK
<1>15. CASE UNCHANGED <<config, slots, permits, pc, req, local, response, cache>>
  BY <1>1, <1>15 DEF local, Same
<1>16. ASSUME NEW r \in Request, Moves(r),
              UNCHANGED <<config, slots, permits, req, local, response, cache>>
       PROVE  Control(s)'
  BY <1>0, <1>16 DEF Moves, local, Control, Refusal, TypeOK
<1> QED
  BY WhoSteps, <1>2, <1>3, <1>4, <1>5, <1>6, <1>7, <1>8, <1>9, <1>10, <1>11, <1>12, <1>13,
     <1>14, <1>15, <1>16 DEF Steps, Handle

-----------------------------------------------------------------------------
\* A get of the cache answers what was offered under the key, or nothing.
LEMMA CacheAnswers ==
  ASSUME TypeOK, NEW r \in Request, req[r] \in Kind, Cache!Get(req[r].key)
  PROVE  /\ UNCHANGED offered
         /\ reply' \in [key : Key, entry : Request \cup {None}]
BY KindAssumption DEF TypeOK, Cache!Get

\* The types that the counters do not depend on.
LEMMA TypeStep ==
  ASSUME TypeOK, Controlled, slots' \in 0..max_connections, permits' \in 0..parallelism,
         [Next]_vars
  PROVE  TypeOK'
<1>0. \A r \in Request : Control(r)
  BY DEF Controlled
<1>1. ASSUME NEW r \in Request, NEW q \in Kind, Arrive(r, q)
      PROVE  TypeOK'
  BY <1>1 DEF Arrive, local, cache, TypeOK
<1>2. ASSUME NEW r \in Request, Route(r)
      PROVE  TypeOK'
  <2>1. \/ \E status \in Statuses, body \in Bodies : Respond(r, status, body)
        \/ Goto(r, "lookup")
    <3>1. Refusal(req[r]) # 0 => Refusal(req[r]) \in Statuses
      BY <1>0, <1>2, ErrorStatuses DEF Route, Control
    <3> QED
      BY <1>2, <3>1 DEF Route, Statuses, Bodies
  <2>2. /\ pc' \in [Request -> Active \cup Outside]
        /\ response' \in [Request -> {None} \cup [status : Statuses, body : Bodies]]
    <3>1. CASE \E status \in Statuses, body \in Bodies : Respond(r, status, body)
      <4>1. /\ response' \in [Request -> {None} \cup [status : Statuses, body : Bodies]]
            /\ pc' = [pc EXCEPT ![r] = "answered"]
        BY <3>1, AnswerTyped
      <4> QED
        BY <4>1 DEF TypeOK, Active, Outside
    <3>2. CASE Goto(r, "lookup")
      BY <3>2 DEF Goto, TypeOK, Active, Outside, Statuses, Bodies
    <3> QED
      BY <2>1, <3>1, <3>2
  <2> QED
    BY <1>2, <2>2 DEF Route, local, cache, TypeOK, Active, Outside, Statuses, Bodies
<1>3. ASSUME NEW r \in Request, Lookup(r)
      PROVE  TypeOK'
  <2>1. UNCHANGED offered /\ reply' \in [key : Key, entry : Request \cup {None}]
    BY <1>0, <1>3, CacheAnswers DEF Lookup, Control
  <2>2. \/ \E status \in Statuses, body \in Bodies : Respond(r, status, body) /\ UNCHANGED tries
        \/ Goto(r, "fetch") /\ tries' = [tries EXCEPT ![r] = @ + 1]
    BY <1>3, <2>1, ImageAnswers DEF Lookup, Statuses, Bodies
  <2>3. /\ pc' \in [Request -> Active \cup Outside]
        /\ response' \in [Request -> {None} \cup [status : Statuses, body : Bodies]]
        /\ tries' \in [Request -> Nat]
    <3>1. CASE \E status \in Statuses, body \in Bodies :
                 Respond(r, status, body) /\ UNCHANGED tries
      <4>1. /\ response' \in [Request -> {None} \cup [status : Statuses, body : Bodies]]
            /\ pc' = [pc EXCEPT ![r] = "answered"]
        BY <3>1, AnswerTyped
      <4> QED
        BY <3>1, <4>1 DEF TypeOK, Active, Outside
    <3>2. CASE Goto(r, "fetch") /\ tries' = [tries EXCEPT ![r] = @ + 1]
      BY <3>2 DEF Goto, TypeOK, Active, Outside, Statuses, Bodies
    <3> QED
      BY <2>2, <3>1, <3>2
  <2> QED
    BY <1>3, <2>1, <2>3 DEF Lookup, TypeOK, Active, Outside, Statuses, Bodies
<1>4. ASSUME NEW r \in Request, SourceArrives(r)
      PROVE  TypeOK'
  BY <1>4 DEF SourceArrives, SourceSizes, AfterFetch, Goto, cache, TypeOK
<1>5. ASSUME NEW r \in Request, NEW status \in Statuses, NEW body \in Bodies,
             Respond(r, status, body),
             UNCHANGED <<config, phase, req, tries, source, overlay_bytes, transform>>,
             offered' \in [Key -> SUBSET Request], UNCHANGED reply
      PROVE  TypeOK'
  <2>1. /\ response' \in [Request -> {None} \cup [status : Statuses, body : Bodies]]
        /\ pc' = [pc EXCEPT ![r] = "answered"]
    BY <1>5, AnswerTyped
  <2> QED
    BY <1>5, <2>1 DEF TypeOK, Statuses, Bodies
<1>6. ASSUME NEW r \in Request, SourceFails(r)
      PROVE  TypeOK'
  BY <1>5, <1>6, ErrorStatuses DEF SourceFails, cache, TypeOK, Bodies
<1>7. ASSUME NEW r \in Request, OverlayArrives(r)
      PROVE  TypeOK'
  BY <1>7 DEF OverlayArrives, AfterFetch, Goto, cache, TypeOK
<1>8. ASSUME NEW r \in Request, OverlayFails(r)
      PROVE  TypeOK'
  BY <1>5, <1>8, ErrorStatuses DEF OverlayFails, cache, TypeOK, Bodies
<1>9. ASSUME NEW r \in Request, StartTransform(r)
      PROVE  TypeOK'
  <2>1. CASE permits = 0
    BY <1>5, <1>9, <2>1 DEF StartTransform, cache, TypeOK, Statuses, Bodies
  <2>2. CASE permits > 0
    BY <1>9, <2>2 DEF StartTransform, Goto, cache, TypeOK
  <2> QED
    BY <1>9, <2>1, <2>2 DEF StartTransform
<1>10. ASSUME NEW r \in Request, TransformEnds(r)
       PROVE  TypeOK'
  BY <1>10 DEF TransformEnds, cache, TypeOK
<1>11. ASSUME NEW r \in Request, Finish(r)
       PROVE  TypeOK'
  <2>1. req[r] \in Kind
    BY <1>0, <1>11 DEF Finish, Control
  <2>2. offered' \in [Key -> SUBSET Request] /\ UNCHANGED reply
    BY <1>11, <2>1, KindAssumption DEF Finish, Cache!Put, TypeOK
  <2>3. Respond(r, 200, r) \/ Respond(r, 304, r)
    BY <1>11, ImageAnswers DEF Finish
  <2> QED
    BY <1>5, <1>11, <2>2, <2>3 DEF Finish, local, Statuses, Bodies
<1>12. ASSUME NEW r \in Request, Fail(r)
       PROVE  TypeOK'
  <2>1. \E status \in Statuses, body \in Bodies : Respond(r, status, body)
    BY <1>12, ImageAnswers, ErrorStatuses DEF Fail, Statuses, Bodies
  <2> QED
    BY <1>5, <1>12, <2>1 DEF Fail, local, cache, TypeOK
<1>13. ASSUME NEW r \in Request, Disconnect(r)
       PROVE  TypeOK'
  BY <1>13 DEF Disconnect, local, cache, TypeOK
<1>14. CASE ShutdownSignal \/ Stop \/ UNCHANGED vars
  BY <1>14 DEF ShutdownSignal, Stop, vars, local, cache, TypeOK
<1>15. ASSUME NEW r \in Request, Connect(r) \/ HangUp(r)
       PROVE  TypeOK'
  BY <1>15 DEF Connect, HangUp, local, cache, TypeOK
<1> QED
  BY <1>1, <1>2, <1>3, <1>4, <1>6, <1>7, <1>8, <1>9, <1>10, <1>11, <1>12, <1>13, <1>14, <1>15
     DEF Next, Handle

-----------------------------------------------------------------------------
\* A request that was answered takes no step any more, unless its transform runs.
LEMMA AnsweredIsDone ==
  ASSUME TypeOK, Controlled, NEW r \in Request, Steps(r),
         pc[r] \in {"answered", "closed"}
  PROVE  transform[r] = "running"
<1>1. ~Handle(r)
  BY HandlerMoves DEF Active
<1> QED
  BY <1>1 DEF Steps, TransformEnds, Disconnect, Suspended, AwaitsR2, Arrive

\* Only the end of a handler with a complete render puts anything.
LEMMA CacheStep ==
  ASSUME TypeOK, Controlled, OnlyRendersCached, PuttersAnswered, [Next]_vars
  PROVE  OnlyRendersCached' /\ PuttersAnswered'
<1>1. ASSUME NEW k \in Key, NEW e \in offered[k]
      PROVE  /\ req'[e].key = k /\ transform'[e] = "rendered"
             /\ overlay_bytes'[e] = req'[e].overlays
             /\ response'[e].body = e /\ pc'[e] \in {"answered", "closed"}
  <2>1. /\ req[e].key = k /\ transform[e] = "rendered" /\ overlay_bytes[e] = req[e].overlays
        /\ response[e].body = e /\ pc[e] \in {"answered", "closed"} /\ e \in Request
    BY DEF OnlyRendersCached, PuttersAnswered, TypeOK
  <2>2. \A r \in Request : Steps(r) => r # e
    BY <2>1, AnsweredIsDone
  <2>3. CASE \E r \in Request : Steps(r)
    <3>1. Same(e)
      BY <2>1, <2>2, <2>3, OthersSame
    <3> QED
      BY <2>1, <3>1 DEF Same
  <2>4. CASE UNCHANGED <<config, slots, permits, pc, req, local, response, cache>>
    BY <2>1, <2>4 DEF local
  <2>5. ASSUME NEW r \in Request, Moves(r),
               UNCHANGED <<config, slots, permits, req, local, response, cache>>
        PROVE  /\ req'[e] = req[e] /\ transform'[e] = transform[e]
               /\ overlay_bytes'[e] = overlay_bytes[e] /\ response'[e] = response[e]
               /\ pc'[e] \in {"answered", "closed"}
    BY <2>1, <2>5 DEF Moves, local, TypeOK
  <2> QED
    BY <2>1, <2>3, <2>4, <2>5, WhoSteps
<1>2. ASSUME UNCHANGED offered
      PROVE  OnlyRendersCached' /\ PuttersAnswered'
  BY <1>1, <1>2 DEF OnlyRendersCached, PuttersAnswered
<1>3. ASSUME NEW r \in Request, Finish(r)
      PROVE  OnlyRendersCached' /\ PuttersAnswered'
  <2>1. /\ req[r] \in Kind /\ overlay_bytes[r] = req[r].overlays /\ transform[r] = "rendered"
        /\ UNCHANGED <<req, overlay_bytes, transform>>
    BY <1>3 DEF Finish, local, Controlled, Control
  <2>2. response'[r].body = r /\ pc'[r] = "answered"
    BY <1>3, ImageAnswers DEF Finish, Respond, TypeOK
  <2>3. \A k \in Key : \A e \in offered'[k] : e \in offered[k] \/ (e = r /\ k = req[r].key)
    BY <1>3, <2>1, KindAssumption DEF Finish, Cache!Put, TypeOK
  <2> QED
    BY <1>1, <2>1, <2>2, <2>3 DEF OnlyRendersCached, PuttersAnswered
<1>4. ASSUME NEW r \in Request, Lookup(r)
      PROVE  UNCHANGED offered
  BY <1>4 DEF Lookup, Cache!Get
<1> QED
  BY <1>2, <1>3, <1>4
     DEF Next, vars, cache, Handle, Arrive, Route, SourceArrives, SourceFails, OverlayArrives,
         OverlayFails, StartTransform, TransformEnds, Fail, Disconnect, ShutdownSignal, Stop,
         Connect, HangUp

-----------------------------------------------------------------------------
\* Source bytes and redirects come from Fail only, on its conditions.
Excused(s) ==
  \A a \in {response[s]} \ {None} :
    a.body \in {"raw", "redirect"} =>
      /\ transform[s] \in {"failed", "panicked"}
      /\ config.on_failure = "passthrough"
      /\ ~req[s].thumbhash
      /\ a.body = "redirect" <=> (req[s].redirect /\ HasLocation(s))

LEMMA FallbackStep ==
  ASSUME TypeOK, Controlled, RawOnlyAsFallback, [Next]_vars
  PROVE  RawOnlyAsFallback'
<1> SUFFICES ASSUME NEW s \in Request PROVE Excused(s)'
  BY DEF RawOnlyAsFallback, Excused
<1>0. Excused(s) /\ Control(s)
  BY DEF RawOnlyAsFallback, Excused, Controlled
<1>1. ASSUME config' = config, Same(s)
      PROVE  Excused(s)'
  BY <1>0, <1>1 DEF Excused, Same, HasLocation
<1>2. ASSUME NEW r \in Request, Steps(r), s # r
      PROVE  Excused(s)'
  BY <1>1, <1>2, OthersSame
<1>3. ASSUME response'[s] = None
      PROVE  Excused(s)'
  BY <1>3 DEF Excused
<1>4. ASSUME NEW body, body \notin {"raw", "redirect"}, response'[s].body = body
      PROVE  Excused(s)'
  BY <1>4 DEF Excused
<1>5. ASSUME NEW status \in Statuses, NEW body \in Bodies \ {"raw", "redirect"},
             Respond(s, status, body)
      PROVE  Excused(s)'
  <2>1. response'[s] = [status |-> status, body |-> body]
    BY <1>5, AnswerTyped
  <2>2. response'[s].body = body
    BY <2>1
  <2> QED
    BY <1>4, <1>5, <2>2
<1>6. ASSUME NEW q \in Kind, Arrive(s, q)
      PROVE  Excused(s)'
  <2>1. response[s] = None
    BY <1>0, <1>6 DEF Arrive, Control
  <2>2. response'[s] = None \/ response'[s] = [status |-> 503, body |-> "error"]
    BY <1>6, <2>1 DEF Arrive, TypeOK
  <2> QED
    BY <1>3, <1>4, <2>2
<1>7. CASE Route(s)
  <2>1. Refusal(req[s]) # 0 => Refusal(req[s]) \in Statuses
    BY <1>0, <1>7, ErrorStatuses DEF Route, Control
  <2> QED
    BY <1>0, <1>3, <1>5, <1>7, <2>1 DEF Route, Goto, Control, Statuses, Bodies
<1>8. CASE Lookup(s)
  <2>1. reply' \in [key : Key, entry : Request \cup {None}]
    BY <1>0, <1>8, CacheAnswers DEF Lookup, Control
  <2>2. \/ UNCHANGED response
        \/ /\ reply'.entry \in Request
           /\ Respond(s, 200, reply'.entry) \/ Respond(s, 304, reply'.entry)
    BY <1>8, <2>1, ImageAnswers DEF Lookup, Goto
  <2> QED
    BY <1>0, <1>3, <1>5, <1>8, <2>2, RequestAssumption DEF Lookup, Control, Statuses, Bodies
<1>9. CASE SourceArrives(s) \/ OverlayArrives(s)
  BY <1>0, <1>3, <1>9 DEF SourceArrives, OverlayArrives, Goto, Control
<1>10. CASE SourceFails(s) \/ OverlayFails(s)
  BY <1>5, <1>10, ErrorStatuses DEF SourceFails, OverlayFails, Bodies
<1>11. CASE StartTransform(s)
  BY <1>0, <1>3, <1>5, <1>11 DEF StartTransform, Goto, Control, Statuses, Bodies
<1>12. CASE Finish(s)
  BY <1>5, <1>12, ImageAnswers, RequestAssumption DEF Finish, Statuses, Bodies
<1>13. CASE Fail(s)
  <2>1. /\ transform[s] \in {"failed", "hash_failed", "panicked"}
        /\ UNCHANGED <<config, req, transform>>
    BY <1>13 DEF Fail, local
  <2>2. CASE config.on_failure = "error" \/ req[s].thumbhash
    BY <1>5, <1>13, <2>2, ErrorStatuses, ConfigAssumption DEF Fail, Bodies, TypeOK
  <2>3. CASE config.on_failure = "passthrough" /\ ~req[s].thumbhash
    <3>1. transform[s] \in {"failed", "panicked"}
      BY <1>0, <2>1, <2>3 DEF Control
    <3>2. response'[s].body = IF req[s].redirect /\ HasLocation(s) THEN "redirect" ELSE "raw"
      BY <1>13, <2>3, ImageAnswers DEF Fail, Respond, TypeOK
    <3> QED
      BY <2>1, <2>3, <3>1, <3>2 DEF Excused, HasLocation
  <2> QED
    BY <1>13, <2>2, <2>3 DEF Fail
<1>14. CASE TransformEnds(s)
  BY <1>0, <1>14 DEF TransformEnds, Excused
<1>15. CASE Disconnect(s)
  <2>1. pc[s] \notin {"answered", "closed"} /\ UNCHANGED response
    BY <1>15 DEF Disconnect, Suspended, AwaitsR2
  <2> QED
    BY <1>0, <1>3, <2>1 DEF Control
<1>16. CASE UNCHANGED <<config, slots, permits, pc, req, local, response, cache>>
  BY <1>1, <1>16 DEF local, Same
<1>17. CASE UNCHANGED <<config, slots, permits, req, local, response, cache>>
  BY <1>0, <1>17 DEF local, Excused, HasLocation
<1> QED
  BY WhoSteps, <1>2, <1>6, <1>7, <1>8, <1>9, <1>10, <1>11, <1>12, <1>13, <1>14, <1>15, <1>16,
     <1>17 DEF Steps, Handle

-----------------------------------------------------------------------------
\* At first nothing is in flight and every slot and permit is free.
LEMMA InitIInv == Init => IInv
<1> SUFFICES ASSUME Init PROVE IInv
  OBVIOUS
<1>1. TypeOK
  BY LimitAssumption DEF Init, Cache!Init, TypeOK
<1>2. InFlight = {} /\ Running = {}
  BY DEF Init, InFlight, Running
<1>3. PermitsConserved /\ SlotsConserved
  BY <1>2, FS_EmptySet, LimitAssumption DEF Init, PermitsConserved, SlotsConserved
<1>4. Controlled
  BY DEF Init, Controlled, Control
<1>5. OnlyRendersCached /\ PuttersAnswered /\ RawOnlyAsFallback
  BY DEF Init, Cache!Init, OnlyRendersCached, PuttersAnswered, RawOnlyAsFallback
<1> QED
  BY <1>1, <1>3, <1>4, <1>5 DEF IInv

LEMMA IInvInvariant == Spec => []IInv
<1>1. IInv /\ [Next]_vars => IInv'
  <2> SUFFICES ASSUME IInv, [Next]_vars PROVE IInv'
    OBVIOUS
  <2>1. /\ SlotsConserved' /\ slots' \in 0..max_connections
        /\ PermitsConserved' /\ permits' \in 0..parallelism
    BY SlotsStep, PermitsStep DEF IInv
  <2> QED
    BY <2>1, TypeStep, ControlStep, CacheStep, FallbackStep DEF IInv
<1> QED
  BY InitIInv, <1>1, PTL DEF Spec

\* The state of the server and of its handlers keeps its types; slots and permits are
\* never negative and never more than there are.
THEOREM TypeCorrect == Spec => []TypeOK
BY IInvInvariant, PTL DEF IInv

\* No panic, disconnect or shutdown leaks a libvips permit or frees one early, and no way
\* out of a handler leaks its slot (server.rs:225-237, 461-475).
THEOREM NothingLeaks == Spec => []LimitsConserved
<1>1. IInv => LimitsConserved BY DEF IInv, LimitsConserved
<1> QED BY <1>1, IInvInvariant, PTL

\* What the cache is offered is complete (server.rs:439-506).
THEOREM CompleteRendersCached == Spec => []OnlyRendersCached
BY IInvInvariant, PTL DEF IInv

\* Source bytes and redirects are the fallback of a failed transform only
\* (server.rs:506-624).
THEOREM FallbackOnly == Spec => []RawOnlyAsFallback
BY IInvInvariant, PTL DEF IInv

\* What the gates forbid is never fetched (server.rs:320-342).
THEOREM GatesFirst == Spec => []NoGatedFetch
<1>1. IInv => NoGatedFetch
  <2> SUFFICES ASSUME IInv, NEW r \in Request, tries[r] > 0 \/ overlay_bytes[r] > 0
               PROVE  /\ req[r].remote => config.allow_remote_sources
                      /\ req[r].overlays > 0 => config.allow_draw_overlays
    BY DEF NoGatedFetch
  <2>1. Refusal(req[r]) = 0 /\ req[r] \in Kind
    BY DEF IInv, Controlled, Control, TypeOK
  <2> QED
    BY <2>1, GatesPassed
<1> QED
  BY <1>1, IInvInvariant, PTL
=============================================================================
