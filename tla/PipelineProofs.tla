--------------------------- MODULE PipelineProofs ----------------------------
(***************************************************************************)
(* transform(), proved for every set of calls and every limit: nothing is  *)
(* decoded before the budgets were checked, no edit is lost on the way to  *)
(* the encoder, the format is the one that the variant cache computed, an  *)
(* animation shows its frames, a call that fails has a cause, and a still  *)
(* has the size that was asked for, reduced decode or not.                 *)
(***************************************************************************)
EXTENDS Pipeline, ImageProofs

\* The stages before the image that the others work on is decoded.
Early == {"probe", "check_budget", "reload"}

\* What each of the early stages finds, and what holds of the plan once it is made.
IInv ==
  /\ job \in Job
  /\ stage \notin {"probe", "failed"} => job.source.readable
  /\ stage = "check_budget" => current = from_buffer(job.source, strict)
  /\ stage = "reload" =>
       /\ current = from_buffer(job.source, strict)
       /\ plan.n_pages = job.source.pages
       /\ animated_output => plan.effective_pages = Least(plan.n_pages, max_frames)
  /\ stage = "extract_frame" => Len(current.frames) <= max_frames
  /\ stage \notin {"probe", "check_budget", "failed"} =>
       /\ Pixels(job.source) <= max_pixels
       /\ animated_output => Pixels(job.source) * plan.n_pages <= max_animated_pixels

\* A function on 1..n is a tuple of n elements.
LEMMA TupleLength ==
  ASSUME NEW S, NEW n \in Nat, NEW a \in [1..n -> S]
  PROVE  Len(a) = n /\ DOMAIN a = 1..n
<1>1. a \in Seq(S) BY SeqDef
<1>2. DOMAIN a = 1..Len(a) /\ Len(a) \in Nat BY <1>1, LenProperties
<1>3. DOMAIN a = 1..n OBVIOUS
<1> QED BY <1>2, <1>3

\* A stack of n pages shows n frames.
LEMMA StackedFrames ==
  ASSUME NEW n \in Nat
  PROVE  Len([i \in 1..n |-> i]) = n
<1>1. [i \in 1..n |-> i] \in [1..n -> Nat] OBVIOUS
<1> QED BY <1>1, TupleLength

\* What the probe knows of a source (imgx-vips/src/image.rs, from_buffer).
LEMMA Probed ==
  ASSUME NEW source \in Readable, NEW strictly \in BOOLEAN
  PROVE  LET image == from_buffer(source, strictly)
         IN /\ image.width = source.width /\ image.height = source.height
            /\ image.n_pages = source.pages /\ PageHeight(image) = source.height
            /\ Len(image.frames) = 1
<1>1. Len([i \in 1..1 |-> i]) = 1 BY StackedFrames
<1> QED BY <1>1
       DEF from_buffer, from_buffer_with_option, PageHeight, NoImage, Source, Readable, Absent

\* What is not readable gives no image, and what cannot be stacked no stack.
LEMMA Unread ==
  ASSUME NEW source, NEW strictly, NEW n
  PROVE  /\ from_buffer(source, strictly) # NoImage => source.readable
         /\ from_buffer_animated(source, n, strictly) # NoImage => source.stackable
BY DEF from_buffer, from_buffer_animated

\* A limit of frames that an i32 holds stays itself.
LEMMA FramesHeld == as_i32(max_frames) = max_frames
BY FramesAssumption, JobAssumption DEF as_i32, MAX_I32

\* An image of n pages, or of all of them for -1.
LEMMA Stacked ==
  ASSUME NEW source \in Source, source.stackable, NEW strictly \in BOOLEAN,
         NEW n \in Nat \cup {-1}
  PROVE  Len(from_buffer_animated(source, n, strictly).frames)
           = IF n = -1 THEN source.pages ELSE n
<1> DEFINE m == IF n = -1 THEN source.pages ELSE n
<1>1. m \in Nat BY DEF Source
<1>2. Len([i \in 1..m |-> i]) = m BY <1>1, StackedFrames
<1>3. from_buffer_animated(source, n, strictly).frames = [i \in 1..m |-> i]
  BY DEF from_buffer_animated, from_buffer_with_option, NoImage
<1> QED BY <1>2, <1>3

-----------------------------------------------------------------------------
\* What a stage may do when it is none of the first three.
Moves(nexts) ==
  /\ UNCHANGED <<job, plan>>
  /\ stage' \in nexts \cup {"failed"}

\* A stage that hands an image on moves to the next one or fails.
LEMMA BecomesMoves ==
  ASSUME NEW image, NEW next, Becomes(image, next)
  PROVE  Moves({next}) /\ (stage' = "failed" \/ (current' = image /\ image # NoImage))
BY DEF Becomes, Advance, Fail, Moves

\* So does one that loads it.
LEMMA LoadedMoves ==
  ASSUME NEW image, NEW next, Loaded(image, next)
  PROVE  Moves({next}) /\ (stage' = "failed" \/ (current' = image /\ image # NoImage))
BY DEF Loaded, Becomes, Advance, Fail, Moves

\* An error ends the call.
LEMMA FailMoves ==
  ASSUME NEW error, Fail(error)
  PROVE  Moves({}) /\ stage' = "failed"
BY DEF Fail, Moves

\* So does an answer, or it is drawn upon.
LEMMA ReturnMoves ==
  ASSUME NEW r, NEW next, Return(r, next)
  PROVE  Moves({next})
BY DEF Return, Moves

\* The stages that work on the image, whatever they do to it.
Late == {"trim", "trim_sides", "rotate_flip", "resize", "pad", "effects", "background",
         "border", "answer", "overlays", "done"}

\* The actions after the reload.
LateStage ==
  \/ ExtractFrame \/ Trim \/ TrimSides \/ RotateFlip \/ Resize \/ Pad \/ Effects
  \/ Background \/ Border \/ AnswerJson \/ AnswerThumbhash \/ Encode \/ DrawOverlays

\* They change neither the job nor the plan, and lead to each other only.
LEMMA LateMoves ==
  ASSUME LateStage
  PROVE  stage \in Late \cup {"extract_frame"} /\ Moves(Late)
<1>1. CASE ExtractFrame
  BY <1>1, BecomesMoves, LoadedMoves DEF ExtractFrame, Moves, Late
<1>2. CASE Trim
  BY <1>2, BecomesMoves, FailMoves DEF Trim, Moves, Late
<1>3. CASE TrimSides
  BY <1>3, BecomesMoves DEF TrimSides, Moves, Late
<1>4. CASE RotateFlip
  BY <1>4, BecomesMoves DEF RotateFlip, Moves, Late
<1>5. CASE Resize
  BY <1>5, BecomesMoves, FailMoves DEF Resize, Advance, Moves, Late
<1>6. CASE Pad
  BY <1>6, BecomesMoves DEF Pad, Moves, Late
<1>7. CASE Effects
  BY <1>7, BecomesMoves DEF Effects, Moves, Late
<1>8. CASE Background
  BY <1>8, BecomesMoves DEF Background, Moves, Late
<1>9. CASE Border
  BY <1>9, BecomesMoves DEF Border, Moves, Late
<1>10. CASE AnswerJson
  BY <1>10, ReturnMoves, FailMoves DEF AnswerJson, Moves, Late
<1>11. CASE AnswerThumbhash
  BY <1>11, ReturnMoves, FailMoves DEF AnswerThumbhash, HashRaster, Moves, Late
<1>12. CASE Encode
  BY <1>12, ReturnMoves, FailMoves DEF Encode, Moves, Late
<1>13. CASE DrawOverlays
  BY <1>13, ReturnMoves, FailMoves DEF DrawOverlays, Moves, Late
<1> QED BY <1>1, <1>2, <1>3, <1>4, <1>5, <1>6, <1>7, <1>8, <1>9, <1>10, <1>11, <1>12, <1>13
         DEF LateStage

-----------------------------------------------------------------------------
\* At the start no stage has found anything.
LEMMA InitIInv == Init => IInv
BY DEF Init, IInv

\* The probe decodes the first page.
LEMMA ProbeIInv ==
  ASSUME IInv, Probe
  PROVE  IInv'
<1>1. stage = "probe" BY DEF Probe
<1> DEFINE image == from_buffer(job.source, strict)
<1>2. Moves({"check_budget"}) /\ (stage' = "failed" \/ (current' = image /\ image # NoImage))
  BY LoadedMoves DEF Probe
<1>3. job' = job /\ strict' = strict BY <1>2 DEF Moves, strict, tp
<1>4. image # NoImage => job.source.readable BY Unread
<1> QED BY <1>2, <1>3, <1>4 DEF IInv, Moves

\* An animated response is one of a source within the budget.
LEMMA AnimatedWithin ==
  ASSUME NEW image, decided_format(image) # None
  PROVE  n_pages_of(image) > 1 /\ ~over_budget(image)
BY DEF decided_format, animated_format

\* The check refuses a source over the budget, and plans what to decode.
LEMMA CheckBudgetIInv ==
  ASSUME IInv, CheckBudget
  PROVE  IInv'
<1>1. stage = "check_budget" /\ current = from_buffer(job.source, strict) /\ job \in Job
        /\ job.source.readable
  BY DEF CheckBudget, IInv
<1>2. CASE current.width * current.height > max_pixels
  <2>1. Moves({}) BY <1>2, FailMoves DEF CheckBudget
  <2> QED BY <2>1 DEF IInv, Moves
<1>3. CASE ~(current.width * current.height > max_pixels)
  <2>1. /\ stage' = "reload" /\ job' = job /\ current' = current
        /\ plan' = PlanFor(current)
    BY <1>3 DEF CheckBudget, Advance
  <2>2. strict' = strict BY <2>1 DEF strict, tp
  <2>3. job.source \in Source /\ job.source \in Readable
    BY <1>1, JobAssumption DEF Readable
  <2> DEFINE source == job.source
  <2>4. /\ source.width \in Nat /\ source.height \in Nat /\ source.pages \in Nat
        /\ max_pixels \in Nat /\ max_frames \in Nat \ {0} /\ max_animated_pixels \in Nat \ {0}
    BY <2>3, JobAssumption DEF Source
  <2>5. strict \in BOOLEAN BY DEF strict
  <2>6. /\ current.width = source.width /\ current.height = source.height
        /\ current.n_pages = source.pages /\ PageHeight(current) = source.height
    BY <1>1, <2>3, <2>5, Probed
  <2>7. ~(Pixels(source) > max_pixels) BY <1>3, <2>6 DEF Pixels
  <2>8. Pixels(source) \in Nat BY <2>4 DEF Pixels
  <2>9. Pixels(source) <= max_pixels BY <2>4, <2>7, <2>8
  <2>10. plan'.n_pages = source.pages BY <2>1, <2>6 DEF PlanFor, n_pages_of
  <2>11. ASSUME animated_output'
         PROVE  /\ plan'.effective_pages = Least(plan'.n_pages, max_frames)
                /\ Pixels(source) * plan'.n_pages <= max_animated_pixels
    <3>1. decided_format(current) # None
      BY <2>1, <2>11 DEF animated_output, PlanFor
    <3>2. n_pages_of(current) > 1 /\ ~over_budget(current) BY <3>1, AnimatedWithin
    <3>3. plan'.effective_pages = Least(plan'.n_pages, max_frames)
      BY <2>1, <3>2, FramesHeld DEF PlanFor, effective_pages
    <3>4. ~(Pixels(source) * source.pages > max_animated_pixels)
      BY <3>2, <2>6 DEF over_budget, n_pages_of, Pixels
    <3>5. Pixels(source) * source.pages \in Nat BY <2>4, <2>8
    <3>6. Pixels(source) * source.pages <= max_animated_pixels BY <3>4, <3>5, <2>4
    <3> QED BY <3>3, <3>6, <2>10
  <2> QED BY <1>1, <2>1, <2>2, <2>9, <2>10, <2>11 DEF IInv
<1> QED BY <1>2, <1>3

\* What is decoded of an animation has no more frames than planned.
LEMMA ReloadIInv ==
  ASSUME IInv, Reload
  PROVE  IInv'
<1>1. /\ stage = "reload" /\ job \in Job /\ current = from_buffer(job.source, strict)
      /\ plan.n_pages = job.source.pages
      /\ animated_output => plan.effective_pages = Least(plan.n_pages, max_frames)
      /\ Pixels(job.source) <= max_pixels /\ job.source.readable
      /\ animated_output => Pixels(job.source) * plan.n_pages <= max_animated_pixels
  BY DEF Reload, IInv
<1>2. job.source \in Source /\ job.source \in Readable /\ max_frames \in Nat \ {0}
  BY <1>1, JobAssumption DEF Readable
<1>3. job.source.pages \in Nat /\ strict \in BOOLEAN BY <1>2 DEF Source, strict
<1>4. Moves({"extract_frame"}) /\ (stage' = "failed" \/ Len(current'.frames) <= max_frames)
  <2>1. CASE animated_output
    <3> DEFINE n == IF plan.effective_pages < plan.n_pages THEN plan.effective_pages ELSE -1
    <3>1. Moves({"extract_frame"})
            /\ (stage' = "failed"
                  \/ (/\ current' = from_buffer_animated(job.source, n, strict)
                      /\ job.source.stackable))
      BY <1>1, <2>1, LoadedMoves, Unread DEF Reload
    <3>2. plan.effective_pages = Least(job.source.pages, max_frames) BY <1>1, <2>1
    <3>3. plan.effective_pages \in Nat BY <1>2, <1>3, <3>2 DEF Least
    <3>4. n \in Nat \cup {-1} BY <3>3
    <3>5. job.source.stackable =>
            Len(from_buffer_animated(job.source, n, strict).frames)
              = IF n = -1 THEN job.source.pages ELSE n
      BY <1>2, <1>3, <3>4, Stacked
    <3>6. (IF n = -1 THEN job.source.pages ELSE n) <= max_frames
      BY <1>1, <1>2, <1>3, <3>2, <3>3 DEF Least
    <3> QED BY <3>1, <3>5, <3>6
  <2>2. CASE ~animated_output
    <3>1. Moves({"extract_frame"}) /\ (stage' = "failed" \/ current' = current)
      BY <2>2, BecomesMoves DEF Reload
    <3>2. Len(current.frames) = 1 BY <1>1, <1>2, <1>3, Probed
    <3>3. 1 <= max_frames BY <1>2
    <3>4. Len(current.frames) <= max_frames BY <3>2, <3>3
    <3> QED BY <3>1, <3>4
  <2> QED BY <2>1, <2>2
<1>5. job' = job /\ plan' = plan /\ stage' \in {"extract_frame", "failed"} BY <1>4 DEF Moves
<1> QED BY <1>1, <1>4, <1>5 DEF IInv, animated_output

\* The stages after it leave the source and the plan alone.
LEMMA LateIInv ==
  ASSUME IInv, LateStage
  PROVE  IInv'
<1>1. stage \in Late \cup {"extract_frame"} /\ job' = job /\ plan' = plan
        /\ stage' \in Late \cup {"failed"}
  BY LateMoves DEF Moves
<1>2. /\ Pixels(job.source) <= max_pixels /\ job.source.readable
      /\ animated_output => Pixels(job.source) * plan.n_pages <= max_animated_pixels
  BY <1>1 DEF IInv, Late
<1>3. job \in Job BY DEF IInv
<1> QED BY <1>1, <1>2, <1>3 DEF IInv, Late, animated_output

\* Where a stage has an image, the source was readable.
LEMMA SourceReadable ==
  ASSUME IInv, stage \notin {"probe", "failed"}
  PROVE  job.source \in Readable
BY JobAssumption DEF IInv, Readable

\* Every step keeps the invariant of the budgets.
LEMMA IInvInductive == IInv /\ [Next]_vars => IInv'
<1> SUFFICES ASSUME IInv, [Next]_vars PROVE IInv'
  OBVIOUS
<1>1. CASE Probe BY <1>1, ProbeIInv
<1>2. CASE CheckBudget BY <1>2, CheckBudgetIInv
<1>3. CASE Reload BY <1>3, ReloadIInv
<1>4. CASE LateStage BY <1>4, LateIInv
<1>5. CASE UNCHANGED vars
  <2>1. /\ stage' = stage /\ job' = job /\ current' = current /\ plan' = plan
    BY <1>5 DEF vars
  <2> QED BY <2>1 DEF IInv, strict, tp, animated_output
<1> QED BY <1>1, <1>2, <1>3, <1>4, <1>5 DEF Next, LateStage

\* INV-11, INV-20, INV-22, for every set of calls and every limit: what the stages
\* after the check decode is a source within the budget of pixels, an animated
\* response one within the budgets of frames and of all pages' pixels
\* (pipeline.rs:138-204).
THEOREM BudgetFirst == Spec => []WithinBudget
<1>1. IInv => WithinBudget BY DEF IInv, WithinBudget
<1> QED BY <1>1, InitIInv, IInvInductive, PTL DEF Spec

-----------------------------------------------------------------------------
\* The source as the probe sees it, and as VariantCache does.
probed == from_buffer(job.source, strict)
SeenSource ==
  [animated |-> job.source.pages > 1
                /\ Pixels(job.source) * job.source.pages <= max_animated_pixels,
   alpha |-> job.source.alpha]

\* Which alpha band, which frame and which edits the image has before a stage.
AlphaAt(next) ==
  IF next \in {"border", "answer"} THEN keeps_alpha(tp, job.source)
  ELSE IF next = "background" THEN job.source.alpha /\ tp.saturation = None
  ELSE job.source.alpha

\* The frame that a still shows, the last one if there are not so many.
FrameAsked ==
  IF tp.frame # None /\ is_animated THEN Least(tp.frame + 1, plan.n_pages) ELSE 1

\* Before the extraction it is the first.
FrameAt(next) ==
  IF next \in {"check_budget", "reload", "extract_frame"} THEN 1 ELSE FrameAsked

\* The edits of the two trims.
TrimAsked == IF tp.trim # None THEN {"trim"} ELSE {}
SidesAsked == IF trims_a_side(tp) THEN {"sides"} ELSE {}

\* The edits that are done before a stage.
EditsAt(next) ==
  IF next \in {"check_budget", "reload", "extract_frame", "trim"} THEN {}
  ELSE IF next = "trim_sides" THEN TrimAsked
  ELSE IF next = "rotate_flip" THEN TrimAsked \cup SidesAsked
  ELSE Asked

\* The stages up to the resize, where no image is of a reduced decode and the page
\* height of an animation is that of its source; and those that follow it.
Unresized == {"check_budget", "reload", "extract_frame", "trim", "trim_sides", "rotate_flip",
              "resize"}
Resizes == {"pad", "effects", "background", "border", "answer"}

\* What holds of the image that a stage finds.
Found(next, image, decoded_again) ==
  /\ IsPicture(image)
  /\ image.broken = (strict /\ job.source.damaged)
  /\ image.alpha = AlphaAt(next)
  /\ image.grey => job.source.grey
  /\ (animated_output /\ next \in Unresized \ {"check_budget", "reload"}) => image.page_height # 0
  /\ (~animated_output /\ tp.frame = None) => image.page_height = 0
  /\ (~animated_output /\ ~decoded_again) =>
       image.frames \in Only(FrameAt(next)) /\ EditsAt(next) \subseteq image.edits
  /\ decoded_again => next \in Resizes /\ resize_reads_source(tp, animated_output)

\* The plan is made of what the probe saw, and of nothing later.
Planned ==
  /\ plan \in {NoPlan, PlanFor(probed)}
  /\ stage \in {"probe", "check_budget"} => plan = NoPlan
  /\ stage \notin {"probe", "check_budget", "failed"} => plan = PlanFor(probed)

\* Each stage finds a picture with what the ones before did to it.
Images ==
  /\ stage \in Stage
  /\ reduced \in BOOLEAN
  /\ stage = "probe" => ~reduced
  /\ current = NoImage \/ IsPicture(current)
  /\ stage \notin {"probe", "failed"} => IsPicture(current)
  /\ stage \in Unresized \cup Resizes => Found(stage, current, reduced)

\* An answer has the format that VariantCache computes of the request.
Answered ==
  /\ DOMAIN result = DOMAIN NoResult /\ IsImage(result.data)
  /\ stage \notin {"overlays", "done"} => result.format = None
  /\ stage \in {"overlays", "done"} =>
       /\ result.format = output_format(job.accept, tp, SeenSource)
       /\ result.reported = reported_format(job.accept, tp, SeenSource)
       /\ strict => ~job.source.damaged /\ result.length \in {24, 28, 32, 36}

\* What every stage relies on, with the invariant of the budgets.
Held == Planned /\ Images /\ Answered

\* It holds before the first stage.
LEMMA InitHeld == Init => Held
<1> SUFFICES ASSUME Init PROVE Held OBVIOUS
<1>1. Planned BY DEF Init, Planned
<1>2. Images BY DEF Init, Images, Stage, Unresized, Resizes
<1>3. IsImage(NoImage) BY DEF IsImage, NoImage
<1>4. Answered BY <1>3 DEF Init, Answered, NoResult
<1> QED BY <1>1, <1>2, <1>4 DEF Held

\* The job and its options do not change; a plan that is made stays.
LEMMA SameJob ==
  ASSUME job' = job
  PROVE  /\ tp' = tp /\ strict' = strict /\ probed' = probed /\ SeenSource' = SeenSource
         /\ Asked' = Asked /\ TrimAsked' = TrimAsked /\ SidesAsked' = SidesAsked
         /\ \A next : AlphaAt(next)' = AlphaAt(next)
         /\ \A next : EditsAt(next)' = EditsAt(next)
         /\ \A image : PlanFor(image)' = PlanFor(image)
<1>1. tp' = tp BY DEF tp
<1>2. strict' = strict BY <1>1 DEF strict
<1>3. probed' = probed BY <1>2 DEF probed
<1>4. SeenSource' = SeenSource BY DEF SeenSource
<1>5. Asked' = Asked /\ TrimAsked' = TrimAsked /\ SidesAsked' = SidesAsked
  BY <1>1 DEF Asked, TrimAsked, SidesAsked
<1>6. \A next : AlphaAt(next)' = AlphaAt(next) BY <1>1 DEF AlphaAt
<1>7. \A next : EditsAt(next)' = EditsAt(next) BY <1>5 DEF EditsAt
<1>8. \A image : PlanFor(image)' = PlanFor(image) BY <1>1 DEF PlanFor, decided_format
<1> QED BY <1>1, <1>2, <1>3, <1>4, <1>5, <1>6, <1>7, <1>8

\* With the plan, what a stage finds is the same before and after a step.
LEMMA SamePlan ==
  ASSUME job' = job, plan' = plan
  PROVE  /\ animated_output' = animated_output /\ is_animated' = is_animated
         /\ FrameAsked' = FrameAsked
         /\ \A next : FrameAt(next)' = FrameAt(next)
         /\ \A next, image, decoded_again :
              Found(next, image, decoded_again)' <=> Found(next, image, decoded_again)
<1>1. animated_output' = animated_output /\ is_animated' = is_animated
  BY DEF animated_output, is_animated
<1>2. tp' = tp /\ strict' = strict
        /\ (\A next : AlphaAt(next)' = AlphaAt(next)) /\ (\A next : EditsAt(next)' = EditsAt(next))
  BY SameJob
<1>3. FrameAsked' = FrameAsked BY <1>1, <1>2 DEF FrameAsked
<1>4. \A next : FrameAt(next)' = FrameAt(next) BY <1>3 DEF FrameAt
<1>5. ASSUME NEW next, NEW image, NEW decoded_again
      PROVE  Found(next, image, decoded_again)' <=> Found(next, image, decoded_again)
  BY <1>1, <1>2, <1>4 DEF Found
<1> QED BY <1>1, <1>3, <1>4, <1>5

\* A call that failed has nothing to hold but the plan.
LEMMA FailHeld ==
  ASSUME Held, NEW error, Fail(error)
  PROVE  Held'
<1>1. /\ stage' = "failed" /\ result' = [NoResult EXCEPT !.error = error, !.failed = stage]
      /\ job' = job /\ current' = current /\ plan' = plan /\ reduced' = reduced
  BY DEF Fail
<1>2. Planned'
  <2>1. probed' = probed /\ PlanFor(probed)' = PlanFor(probed) BY <1>1, SameJob
  <2> QED BY <1>1, <2>1 DEF Held, Planned
<1>3. Images' BY <1>1 DEF Held, Images, Stage, Unresized, Resizes
<1>4. IsImage(NoImage) BY DEF IsImage, NoImage
<1>5. Answered' BY <1>1, <1>4 DEF Answered, NoResult
<1> QED BY <1>2, <1>3, <1>5 DEF Held

\* A stage after the check hands an image on.
LEMMA AdvanceHeld ==
  ASSUME Held, NEW image, NEW next \in (Unresized \cup Resizes) \ {"check_budget", "reload"},
         stage \notin {"probe", "check_budget", "failed", "overlays", "done"},
         Advance(image, next), plan' = plan, reduced' \in BOOLEAN,
         image # NoImage => Found(next, image, reduced')
  PROVE  Held'
<1>1. image # NoImage /\ current' = image /\ stage' = next /\ job' = job /\ result' = result
  BY DEF Advance
<1>2. Planned'
  <2>1. probed' = probed /\ PlanFor(probed)' = PlanFor(probed) BY <1>1, SameJob
  <2> QED BY <1>1, <2>1 DEF Held, Planned, Unresized, Resizes
<1>3. Images'
  <2>1. Found(next, image, reduced') BY <1>1
  <2>2. Found(stage', current', reduced')
    BY <1>1, <2>1
  <2>3. Found(stage, current, reduced)' BY <1>1, <2>2, SamePlan
  <2>4. IsPicture(image) BY <2>1 DEF Found
  <2> QED BY <1>1, <2>3, <2>4 DEF Images, Stage, Unresized, Resizes
<1>4. Answered' BY <1>1 DEF Held, Answered, Unresized, Resizes
<1> QED BY <1>2, <1>3, <1>4 DEF Held

\* Such a stage, or its failure.
LEMMA BecomesHeld ==
  ASSUME Held, NEW image, NEW next \in (Unresized \cup Resizes) \ {"check_budget", "reload"},
         stage \notin {"probe", "check_budget", "failed", "overlays", "done"},
         Becomes(image, next),
         image # NoImage => Found(next, image, reduced)
  PROVE  Held'
<1>1. CASE Advance(image, next) /\ UNCHANGED <<plan, reduced>>
  <2>1. plan' = plan /\ reduced' = reduced BY <1>1
  <2>2. reduced' \in BOOLEAN BY <2>1 DEF Held, Images
  <2>3. image # NoImage => Found(next, image, reduced') BY <2>1
  <2> QED BY <1>1, <2>1, <2>2, <2>3, AdvanceHeld
<1>2. CASE Fail("Vips") BY <1>2, FailHeld
<1> QED BY <1>1, <1>2 DEF Becomes

-----------------------------------------------------------------------------
\* What the constants and the options of a call are.
LEMMA JobTyped ==
  ASSUME job \in Job
  PROVE  /\ job.source \in Source /\ job.accept \in AcceptHeader
         /\ WellTyped(tp) /\ validate(tp) /\ strict \in BOOLEAN
         /\ job.source.width \in Nat \ {0} /\ job.source.height \in Nat \ {0}
         /\ job.source.pages \in Nat /\ job.source.damaged \in BOOLEAN
         /\ job.source.alpha \in BOOLEAN /\ job.source.grey \in BOOLEAN
         /\ job.source.readable \in BOOLEAN /\ job.source.stackable \in BOOLEAN
         /\ job.overlay \in Source
         /\ max_pixels \in Nat /\ max_frames \in Nat \ {0} /\ max_animated_pixels \in Nat \ {0}
BY JobAssumption DEF tp, strict, Source

\* A stack of whole frames.
StackedPages(source, n) == IF n = -1 THEN source.pages ELSE n

\* What m decoded pages of a source are.
IsStack(image, source, m, strictly) ==
  /\ IsPicture(image) /\ image.frames = [i \in 1..m |-> i] /\ image.edits = {}
  /\ image.width = source.width /\ image.height = source.height * m
  /\ image.page_height = source.height /\ image.orientation = source.orientation
  /\ image.alpha = source.alpha /\ image.grey = source.grey
  /\ image.broken = (strictly /\ source.damaged)

\* Decoding them gives a stack of as many frames.
LEMMA DecodedStack ==
  ASSUME NEW source \in Source, source.stackable, NEW strictly \in BOOLEAN, NEW n,
         StackedPages(source, n) \in Nat \ {0}
  PROVE  IsStack(from_buffer_animated(source, n, strictly), source, StackedPages(source, n), strictly)
<1>1. source.width \in Nat \ {0} /\ source.height \in Nat \ {0} BY DEF Source
<1> DEFINE m == StackedPages(source, n)
<1>2. source.height * m \in Nat \ {0} BY <1>1
<1>3. m = IF n = -1 THEN source.pages ELSE n BY DEF StackedPages
<1> HIDE DEF m
<1>4. IsStack(from_buffer_animated(source, n, strictly), source, m, strictly)
  BY <1>1, <1>2, <1>3, FieldsTold
  DEF IsStack, from_buffer_animated, from_buffer_with_option, NoImage, IsPicture, Fields
<1> QED BY <1>4 DEF m

\* PROBE: the first page, of the first frame, unedited.
LEMMA ProbeHeld ==
  ASSUME Held, job \in Job, Probe
  PROVE  Held'
<1>1. stage = "probe" BY DEF Probe
<1>2. CASE Fail("Vips") BY <1>2, FailHeld
<1>3. CASE Advance(probed, "check_budget") /\ UNCHANGED <<plan, reduced>>
  <2>1. /\ current' = probed /\ stage' = "check_budget" /\ job' = job /\ result' = result
        /\ plan' = plan /\ reduced' = reduced
    BY <1>3 DEF Advance
  <2>2. plan = NoPlan /\ reduced = FALSE BY <1>1 DEF Held, Planned, Images
  <2>3. ~animated_output BY <2>2 DEF animated_output, NoPlan
  <2> DEFINE source == job.source
  <2>11. source \in Readable
    <3>1. probed # NoImage BY <1>3 DEF Advance
    <3> QED BY <3>1, Unread, JobTyped DEF probed, Readable
  <2>4. IsPicture(probed) /\ probed.frames = <<1>> /\ probed.edits = {}
          /\ probed.alpha = source.alpha /\ probed.grey = source.grey /\ probed.page_height = 0
          /\ probed.broken = (strict /\ source.damaged)
    BY <2>11, JobTyped, Decoded DEF probed
  <2>5. Found("check_budget", probed, FALSE)
    BY <2>3, <2>4 DEF Found, AlphaAt, FrameAt, EditsAt, Only, Unresized
  <2>6. probed' = probed BY <2>1, SameJob
  <2>7. Found("check_budget", probed, FALSE)' BY <2>1, <2>5, <2>6, SamePlan
  <2>8. Images'
    BY <2>1, <2>2, <2>4, <2>6, <2>7 DEF Held, Images, Stage, Unresized, Resizes
  <2>9. Planned' BY <2>1, <2>2 DEF Planned
  <2>10. Answered' BY <2>1, <1>1 DEF Held, Answered
  <2> QED BY <2>8, <2>9, <2>10 DEF Held
<1> QED BY <1>2, <1>3 DEF Probe, Loaded, Becomes, probed

\* CHECK BUDGET: the plan is made of it.
LEMMA CheckBudgetHeld ==
  ASSUME Held, IInv, CheckBudget
  PROVE  Held'
<1>1. stage = "check_budget" /\ current = probed /\ job \in Job
  BY DEF CheckBudget, IInv, probed
<1>2. CASE Fail("ExceedsMaxPixels") BY <1>2, FailHeld
<1>3. CASE Advance(current, "reload") /\ plan' = PlanFor(current) /\ UNCHANGED reduced
  <2>1. /\ current' = probed /\ stage' = "reload" /\ job' = job /\ result' = result
        /\ plan' = PlanFor(probed) /\ reduced' = reduced
    BY <1>1, <1>3 DEF Advance
  <2>2. Found("check_budget", current, reduced) BY <1>1 DEF Held, Images, Unresized
  <2>3. reduced = FALSE BY <2>2 DEF Found, Resizes, Held, Images
  <2> DEFINE source == job.source
  <2>4. IsPicture(probed) /\ probed.frames = <<1>> /\ probed.edits = {}
          /\ probed.alpha = source.alpha /\ probed.grey = source.grey /\ probed.page_height = 0
          /\ probed.broken = (strict /\ source.damaged)
    BY <1>1, SourceReadable, JobTyped, Decoded DEF probed
  <2>5. /\ probed' = probed /\ strict' = strict /\ PlanFor(probed)' = PlanFor(probed)
        /\ AlphaAt("reload")' = AlphaAt("reload") /\ EditsAt("reload")' = EditsAt("reload")
    BY <2>1, SameJob
  <2>6. FrameAt("reload")' = 1 /\ EditsAt("reload") = {} /\ AlphaAt("reload") = job.source.alpha
    BY DEF FrameAt, EditsAt, AlphaAt
  <2>7. Found("reload", probed, FALSE)'
    BY <2>1, <2>4, <2>5, <2>6 DEF Found, Only
  <2>8. Images'
    BY <2>1, <2>3, <2>4, <2>5, <2>7 DEF Held, Images, Stage, Unresized, Resizes
  <2>9. Planned' BY <2>1, <2>5 DEF Planned
  <2>10. Answered' BY <2>1, <1>1 DEF Held, Answered
  <2> QED BY <2>8, <2>9, <2>10 DEF Held
<1> QED BY <1>2, <1>3 DEF CheckBudget

\* An animated response has pages to decode.
LEMMA AnimatedPages ==
  ASSUME Held, IInv, animated_output
  PROVE  /\ plan.n_pages = job.source.pages /\ plan.n_pages > 1
         /\ plan.animated_format = decided_format(probed) /\ decided_format(probed) # None
         /\ plan.effective_pages = Least(plan.n_pages, max_frames)
         /\ plan.effective_pages \in Nat \ {0} /\ plan.n_pages \in Nat \ {0}
<1>1. job \in Job BY DEF IInv
<1>2. plan = PlanFor(probed) BY DEF Held, Planned, animated_output, NoPlan
<1>5. decided_format(probed) # None BY <1>2 DEF animated_output, PlanFor
<1>6. n_pages_of(probed) > 1 /\ ~over_budget(probed) BY <1>5, AnimatedWithin
<1>10. job.source \in Readable
  <2>1. probed # NoImage BY <1>6 DEF n_pages_of, NoImage, Absent
  <2> QED BY <2>1, <1>1, Unread, JobTyped DEF probed, Readable
<1>3. probed.n_pages = job.source.pages BY <1>1, <1>10, JobTyped, Decoded DEF probed
<1>4. plan.n_pages = job.source.pages /\ plan.animated_format = decided_format(probed)
  BY <1>2, <1>3 DEF PlanFor, n_pages_of
<1>7. plan.effective_pages = Least(plan.n_pages, max_frames)
  BY <1>2, <1>6, FramesHeld DEF PlanFor, effective_pages
<1>8. plan.n_pages > 1 BY <1>3, <1>4, <1>6 DEF n_pages_of
<1>9. job.source.pages \in Nat /\ max_frames \in Nat \ {0} BY <1>1, JobTyped
<1> QED BY <1>4, <1>5, <1>7, <1>8, <1>9 DEF Least

\* No animation is of one frame of the source only.
LEMMA AnimatedAsks ==
  ASSUME Held, IInv, animated_output
  PROVE  tp.frame = None /\ tp.anim # "static" /\ tp.format \notin {"json", "thumbhash"}
<1>1. decided_format(probed) # None BY AnimatedPages
<1>2. ~AsksStill(tp) /\ negotiate_animated_format(job.accept, tp.format) # None
  BY <1>1 DEF decided_format, animated_format
<1> QED BY <1>2, FormatAssumption DEF AsksStill, negotiate_animated_format, Explicit, supports_animation

\* RELOAD: an animation is decoded as a stack with a page height.
LEMMA ReloadHeld ==
  ASSUME Held, IInv, Reload
  PROVE  Held'
<1>1. stage = "reload" /\ current = probed /\ job \in Job BY DEF Reload, IInv, probed
<1>2. Found("reload", current, reduced) BY <1>1 DEF Held, Images, Unresized
<1>3. reduced = FALSE BY <1>2 DEF Found, Resizes, Held, Images
<1>4. CASE ~animated_output
  <2>1. Becomes(current, "extract_frame") BY <1>1, <1>4 DEF Reload
  <2>2. Found("extract_frame", current, reduced)
    BY <1>2, <1>3, <1>4 DEF Found, AlphaAt, FrameAt, EditsAt
  <2> QED BY <1>1, <2>1, <2>2, BecomesHeld DEF Unresized
<1>5. CASE animated_output
  <2> DEFINE n == IF plan.effective_pages < plan.n_pages THEN plan.effective_pages ELSE -1
             image == from_buffer_animated(job.source, n, strict)
             m == IF n = -1 THEN job.source.pages ELSE n
  <2>1. Becomes(image, "extract_frame") \/ Fail("Vips") BY <1>1, <1>5 DEF Reload, Loaded
  <2>2. n \in Nat \cup {-1} /\ m \in Nat \ {0} BY <1>5, AnimatedPages
  <2>3. job.source \in Source /\ strict \in BOOLEAN /\ job.source.height # 0 BY <1>1, JobTyped
  <2>4. m = StackedPages(job.source, n) BY DEF StackedPages
  <2> HIDE DEF n
  <2>8. image # NoImage => job.source.stackable BY Unread
  <2>5. image # NoImage => IsStack(image, job.source, m, strict)
    BY <2>2, <2>3, <2>4, <2>8, DecodedStack
  <2> HIDE DEF image, m
  <2>6. image # NoImage =>
          /\ IsPicture(image) /\ image.page_height = job.source.height
          /\ image.alpha = job.source.alpha /\ image.grey = job.source.grey
          /\ image.broken = (strict /\ job.source.damaged)
    BY <2>5 DEF IsStack
  <2>7. image # NoImage => Found("extract_frame", image, reduced)
    BY <1>3, <1>5, <2>3, <2>6 DEF Found, AlphaAt
  <2> QED BY <1>1, <2>1, <2>7, BecomesHeld, FailHeld DEF Unresized
<1> QED BY <1>4, <1>5

-----------------------------------------------------------------------------
\* A frame of the stack.
IsColumn(image, page, m) ==
  /\ page \in Nat \ {0} /\ m \in Nat \ {0} /\ m > 1
  /\ IsPicture(image) /\ image.height = page * m /\ image.frames = [i \in 1..m |-> i]

\* The k-th frame from the top, counted from 0.
FrameOf(image, k, page) == crop(image, 0, k * page, image.width, page)

\* A crop of one frame's rows shows that frame alone.
LEMMA OneOfTheStack ==
  ASSUME NEW image, NEW page, NEW m, IsColumn(image, page, m), NEW k \in 0..(m - 1),
         FrameOf(image, k, page) # NoImage
  PROVE  FrameOf(image, k, page).frames = <<k + 1>>
<1>0. /\ page \in Nat \ {0} /\ m \in Nat \ {0} /\ m > 1
      /\ IsPicture(image) /\ image.height = page * m /\ image.frames = [i \in 1..m |-> i]
  BY DEF IsColumn
<1>1. [i \in 1..m |-> i] \in [1..m -> Nat] BY <1>0
<1>2. Len(image.frames) = m BY <1>0, <1>1, TupleLength
<1>3. FrameHeight(image) = page
  <2>1. m * page = image.height BY <1>0
  <2>2. (page * m) \div m = page BY <1>0, QuotientIs
  <2> QED BY <1>0, <1>2, <2>2 DEF FrameHeight
<1>4. (k * page) \div page = k /\ (k * page + page - 1) \div page = k
  <2>1. k * page \in Int /\ page * k = k * page /\ k \in Int BY <1>0
  <2>2. k * page + page - 1 \in Int /\ page * k <= k * page + page - 1
          /\ k * page + page - 1 < page * k + page
    BY <1>0, <2>1
  <2>3. page * k <= k * page /\ k * page < page * k + page BY <1>0, <2>1
  <2> QED BY <1>0, <2>1, <2>2, <2>3, QuotientIs
<1>5. page # image.height
  <2>1. m - 1 \in Nat \ {0} BY <1>0
  <2>2. page * (m - 1) \in Nat \ {0} BY <1>0, <2>1
  <2>3. page * m = page + page * (m - 1) BY <1>0
  <2> QED BY <1>0, <2>2, <2>3
<1>6. image.frames # <<>> BY <1>2
<1>7. FramesIn(image, k * page, page) = <<image.frames[k + 1]>>
  BY <1>0, <1>3, <1>4, <1>5, <1>6 DEF FramesIn
<1>8. image.frames[k + 1] = k + 1 BY <1>0
<1> DEFINE cut == crop(image, 0, k * page, image.width, page)
<1>9. cut # NoImage => cut.frames = FramesIn(image, k * page, page)
  BY <1>0, FieldsTold DEF crop, IsPicture, Fields
<1>10. cut = FrameOf(image, k, page) BY DEF FrameOf
<1> HIDE DEF cut
<1> QED BY <1>7, <1>8, <1>9, <1>10

\* EXTRACT FRAME: the crop of the stack shows the frame that was asked for.
LEMMA ExtractFrameHeld ==
  ASSUME Held, IInv, ExtractFrame
  PROVE  Held'
<1>1. stage = "extract_frame" /\ job \in Job BY DEF ExtractFrame, IInv
<1>2. Found("extract_frame", current, reduced) BY <1>1 DEF Held, Images, Unresized
<1>3. reduced = FALSE BY <1>2 DEF Found, Resizes, Held, Images
<1>4. plan = PlanFor(probed) BY <1>1 DEF Held, Planned
<1>5. plan.n_pages = job.source.pages
  BY <1>1, <1>4, SourceReadable, JobTyped, Decoded DEF probed, PlanFor, n_pages_of
<1>6. CASE tp.frame # None /\ is_animated /\ ~job.source.stackable
  <2> DEFINE image == crop(NoImage, 0, safe_frame(tp.frame, plan.n_pages) * NoImage.page_height,
                           NoImage.width, NoImage.page_height)
  <2>1. image = NoImage BY DEF crop, NoImage
  <2>2. from_buffer_animated(job.source, -1, strict) = NoImage
    BY <1>6 DEF from_buffer_animated
  <2> HIDE DEF image
  <2>3. Loaded(image, "trim") BY <1>1, <1>6, <2>2 DEF ExtractFrame, image
  <2>4. Fail("Vips") BY <2>1, <2>3 DEF Loaded, Becomes, Advance
  <2> QED BY <2>4, FailHeld
<1>7. CASE ~(tp.frame # None /\ is_animated)
  <2>1. Becomes(current, "trim") BY <1>1, <1>7 DEF ExtractFrame
  <2>2. Found("trim", current, reduced)
    BY <1>2, <1>3, <1>7 DEF Found, AlphaAt, FrameAt, FrameAsked, EditsAt, Unresized
  <2> QED BY <1>1, <2>1, <2>2, BecomesHeld DEF Unresized
<1>8. CASE tp.frame # None /\ is_animated /\ job.source.stackable
  <2> DEFINE pages == job.source.pages
             page == job.source.height
             stack == from_buffer_animated(job.source, -1, strict)
             k == safe_frame(tp.frame, pages)
             image == crop(stack, 0, k * page, stack.width, page)
  <2>1. pages \in Nat \ {0} /\ pages > 1 /\ page \in Nat \ {0} /\ strict \in BOOLEAN
          /\ job.source \in Source
    BY <1>1, <1>5, <1>8, JobTyped DEF is_animated
  <2>2. ~animated_output BY <1>8, AnimatedAsks
  <2>3. tp.frame \in Nat
    <3>1. WellTyped(tp) BY <1>1, JobTyped
    <3> QED BY <1>8, <3>1 DEF WellTyped, WholeNumber
  <2>4. k \in 0..(pages - 1) /\ k + 1 = FrameAsked
    BY <1>5, <1>8, <2>1, <2>3 DEF safe_frame, FrameAsked, Least
  <2>5. IsStack(stack, job.source, pages, strict)
    BY <1>8, <2>1, DecodedStack DEF StackedPages
  <2>6. Becomes(image, "trim") \/ Fail("Vips")
    <3>1. stack.page_height = page BY <2>5 DEF IsStack
    <3> HIDE DEF stack
    <3> QED BY <1>1, <1>5, <1>8, <3>1 DEF ExtractFrame, Loaded, stack
  <2> HIDE DEF stack, pages, k
  <2>7. image # NoImage => image.frames = <<k + 1>>
    <3>1. IsColumn(stack, page, pages) BY <2>1, <2>5 DEF IsStack, IsColumn
    <3>2. image = FrameOf(stack, k, page) BY DEF FrameOf
    <3> HIDE DEF image, page
    <3> QED BY <2>4, <3>1, <3>2, OneOfTheStack
  <2>8. image = NoImage \/ Kept(stack, image)
    <3>1. k * page \in Int BY <2>1, <2>4
    <3>2. IsPicture(stack) /\ stack.width \in Int BY <2>5 DEF IsStack, IsPicture
    <3>3. 0 \in Int /\ page \in Int BY <2>1
    <3> HIDE DEF page
    <3> QED BY <3>1, <3>2, <3>3, CropKeeps
  <2>9. stack.alpha = job.source.alpha /\ stack.broken = (strict /\ job.source.damaged)
          /\ stack.grey = job.source.grey
    BY <2>5 DEF IsStack
  <2> HIDE DEF image
  <2>10. image # NoImage => Found("trim", image, reduced)
    BY <1>3, <1>8, <2>2, <2>4, <2>7, <2>8, <2>9
    DEF Found, AlphaAt, FrameAt, EditsAt, Only, Kept, SameLook, Unresized
  <2> QED BY <1>1, <2>6, <2>10, BecomesHeld, FailHeld DEF Unresized
<1> QED BY <1>6, <1>7, <1>8

-----------------------------------------------------------------------------
\* An image of the same bands, frame and damage, that at least these edits were added to.
Edited(a, b, edits) ==
  /\ IsPicture(b) /\ b.alpha = a.alpha /\ b.grey = a.grey
  /\ b.broken = a.broken /\ b.page_height = a.page_height
  /\ SameFrame(a, b) /\ a.edits \cup edits \subseteq b.edits

\* Two edits in a row.
LEMMA EditedTwice ==
  ASSUME NEW a, NEW b, NEW c, NEW e, NEW f, Edited(a, b, e), Edited(b, c, f)
  PROVE  Edited(a, c, e \cup f)
BY DEF Edited, SameFrame

\* No edit at all.
LEMMA EditedNot ==
  ASSUME NEW a, IsPicture(a)
  PROVE  Edited(a, a, {})
BY DEF Edited, SameFrame

\* What marks an edit changes nothing else.
LEMMA WithEdits ==
  ASSUME NEW image, IsPicture(image), NEW edits
  PROVE  Edited(image, With(edits, image), edits)
<1> DEFINE b == With(edits, image)
<1>1. /\ DOMAIN b = DOMAIN image /\ b.width = image.width /\ b.height = image.height
      /\ b.page_height = image.page_height /\ b.alpha = image.alpha /\ b.grey = image.grey
      /\ b.broken = image.broken /\ b.frames = image.frames
      /\ b.edits = image.edits \cup edits
  BY FieldsTold DEF With, IsPicture, Fields
<1> HIDE DEF b
<1>2. Edited(image, b, edits) BY <1>1 DEF Edited, IsPicture, SameFrame
<1> QED BY <1>2 DEF b

\* A crop that succeeds loses no edit, nor do turns and flips.
LEMMA CropEdits ==
  ASSUME NEW image, IsPicture(image), NEW left \in Int, NEW top \in Int,
         NEW width \in Int, NEW height \in Int,
         crop(image, left, top, width, height) # NoImage
  PROVE  Edited(image, crop(image, left, top, width, height), {})
<1> DEFINE b == crop(image, left, top, width, height)
<1>1. Kept(image, b) BY CropKeeps
<1>2. b.page_height = image.page_height BY FieldsTold DEF crop, IsPicture, Fields
<1> HIDE DEF b
<1>3. Edited(image, b, {}) BY <1>1, <1>2 DEF Edited, Kept, SameLook
<1> QED BY <1>3 DEF b

\* A turn is no edit by itself.
LEMMA RotEdits ==
  ASSUME NEW image, IsPicture(image), NEW angle
  PROVE  Edited(image, rot(image, angle), {})
<1> DEFINE b == rot(image, angle)
<1>1. Kept(image, b) BY RotKeeps
<1>2. b.page_height = image.page_height BY FieldsTold DEF rot, IsPicture, Fields
<1> HIDE DEF b
<1>3. Edited(image, b, {}) BY <1>1, <1>2 DEF Edited, Kept, SameLook
<1> QED BY <1>3 DEF b

\* Nor is a flip.
LEMMA FlipEdits ==
  ASSUME NEW image, IsPicture(image), NEW direction
  PROVE  Edited(image, flip(image, direction), {})
<1> DEFINE b == flip(image, direction)
<1>1. Kept(image, b) BY FlipKeeps
<1>2. b.page_height = image.page_height BY FieldsTold DEF flip, IsPicture, Fields
<1> HIDE DEF b
<1>3. Edited(image, b, {}) BY <1>1, <1>2 DEF Edited, Kept, SameLook
<1> QED BY <1>3 DEF b

\* The turn that the options ask for is seen on the image.
LEMMA RotatedEdits ==
  ASSUME NEW image, IsPicture(image), NEW rotation
  PROVE  Edited(image, Rotated(image, rotation),
                IF rotation \notin {None, "0"} THEN {"rotate"} ELSE {})
<1>1. CASE rotation \in {None, "0"} BY <1>1, EditedNot DEF Rotated
<1>2. CASE rotation \notin {None, "0"}
  <2> DEFINE b == rot(image, rotation)
  <2>1. Edited(image, b, {}) BY RotEdits
  <2> HIDE DEF b
  <2>2. Edited(b, With({"rotate"}, b), {"rotate"}) BY <2>1, WithEdits DEF Edited
  <2>3. Edited(image, With({"rotate"}, b), {} \cup {"rotate"}) BY <2>1, <2>2, EditedTwice
  <2>4. {} \cup {"rotate"} = {"rotate"} OBVIOUS
  <2> QED BY <1>2, <2>3, <2>4 DEF Rotated, b
<1> QED BY <1>1, <1>2

\* One of the two turns of a flip.
LEMMA OneFlip ==
  ASSUME NEW image, IsPicture(image), NEW direction, NEW edits
  PROVE  Edited(image, With(edits, flip(image, direction)), edits)
<1> DEFINE b == flip(image, direction)
<1>1. Edited(image, b, {}) BY FlipEdits
<1> HIDE DEF b
<1>2. Edited(b, With(edits, b), edits) BY <1>1, WithEdits DEF Edited
<1>3. Edited(image, With(edits, b), {} \cup edits) BY <1>1, <1>2, EditedTwice
<1>4. {} \cup edits = edits OBVIOUS
<1> QED BY <1>3, <1>4 DEF b

\* So are the two flips.
LEMMA FlippedEdits ==
  ASSUME NEW image, IsPicture(image), NEW mode
  PROVE  Edited(image, Flipped(image, mode),
                (IF mode \in {"h", "hv"} THEN {"flip h"} ELSE {})
                  \cup (IF mode \in {"v", "hv"} THEN {"flip v"} ELSE {}))
<1> DEFINE h == IF mode \in {"h", "hv"} THEN {"flip h"} ELSE {}
           v == IF mode \in {"v", "hv"} THEN {"flip v"} ELSE {}
           across == IF mode \in {"h", "hv"} THEN With({"flip h"}, flip(image, "horizontal"))
                     ELSE image
           turned == IF mode \in {"v", "hv"} THEN With({"flip v"}, flip(across, "vertical"))
                     ELSE across
<1>1. Edited(image, across, h)
  <2>1. CASE mode \in {"h", "hv"} BY <2>1, OneFlip
  <2>2. CASE mode \notin {"h", "hv"} BY <2>2, EditedNot
  <2> QED BY <2>1, <2>2
<1> HIDE DEF across, h
<1>2. IsPicture(across) BY <1>1 DEF Edited
<1>3. Edited(across, turned, v)
  <2>1. CASE mode \in {"v", "hv"} BY <1>2, <2>1, OneFlip
  <2>2. CASE mode \notin {"v", "hv"} BY <1>2, <2>2, EditedNot
  <2> QED BY <2>1, <2>2
<1>4. turned = Flipped(image, mode) BY DEF Flipped, across
<1> HIDE DEF turned, v
<1>5. Edited(image, turned, h \cup v) BY <1>1, <1>3, EditedTwice
<1> QED BY <1>4, <1>5 DEF h, v

\* An edited image, before the next of these stages.
Editing == {"trim", "trim_sides", "rotate_flip", "resize"}

\* The next of these stages finds the edits that it counts on.
LEMMA FoundNext ==
  ASSUME NEW a, NEW b, NEW now \in Editing, NEW next \in Editing, NEW edits,
         Found(now, a, FALSE), Edited(a, b, edits),
         ~animated_output => EditsAt(next) \subseteq EditsAt(now) \cup edits
  PROVE  Found(next, b, FALSE)
<1>1. AlphaAt(now) = AlphaAt(next) /\ FrameAt(now) = FrameAt(next)
  BY DEF AlphaAt, FrameAt, Editing
<1>2. now \in Unresized \ {"check_budget", "reload"} BY DEF Editing, Unresized
<1> QED BY <1>1, <1>2 DEF Found, Edited, SameFrame

\* None of these stages has an image of a reduced decode.
LEMMA NotReduced ==
  ASSUME Held, stage \in Unresized
  PROVE  reduced = FALSE /\ Found(stage, current, FALSE) /\ IsPicture(current)
<1>1. Found(stage, current, reduced) /\ reduced \in BOOLEAN BY DEF Held, Images
<1>2. stage \notin Resizes BY DEF Unresized, Resizes
<1> QED BY <1>1, <1>2 DEF Found

\* A stage that edits, and hands on what the next one counts on.
LEMMA EditHeld ==
  ASSUME Held, NEW next \in Editing, stage \in Editing, NEW image, NEW edits,
         Becomes(image, next), image # NoImage => Edited(current, image, edits),
         ~animated_output => EditsAt(next) \subseteq EditsAt(stage) \cup edits
  PROVE  Held'
<1>1. stage \in Unresized BY DEF Editing, Unresized
<1>2. reduced = FALSE /\ Found(stage, current, FALSE) BY <1>1, NotReduced
<1>3. image # NoImage => Found(next, image, reduced) BY <1>2, FoundNext
<1>4. next \in (Unresized \cup Resizes) \ {"check_budget", "reload"} BY DEF Editing, Unresized
<1>5. stage \notin {"probe", "check_budget", "failed", "overlays", "done"} BY DEF Editing
<1> QED BY <1>3, <1>4, <1>5, BecomesHeld

\* A box that the trim cuts out is one of the image.
LEMMA TrimBox ==
  ASSUME NEW image, IsPicture(image), NEW box \in find_trim(image), box[3] > 0, box[4] > 0
  PROVE  LET cut == crop(image, box[1], box[2], box[3], box[4])
         IN cut # NoImage /\ Edited(image, cut, {})
<1>1. image.width \in Nat \ {0} /\ image.height \in Nat \ {0} BY DEF IsPicture
<1>2. /\ box[1] \in Int /\ box[2] \in Int /\ box[3] \in Int /\ box[4] \in Int
      /\ box[1] >= 0 /\ box[2] >= 0
      /\ box[1] + box[3] <= image.width /\ box[2] + box[4] <= image.height
  BY <1>1 DEF find_trim
<1> DEFINE cut == crop(image, box[1], box[2], box[3], box[4])
<1>3. cut.width = box[3] BY <1>2, FieldsTold DEF crop, IsPicture, Fields
<1>4. cut # NoImage BY <1>2, <1>3 DEF NoImage
<1>5. Edited(image, cut, {}) BY <1>2, <1>4, CropEdits
<1> QED BY <1>4, <1>5

\* TRIM: the box that find_trim() reports is within the image.
LEMMA TrimHeld ==
  ASSUME Held, Trim
  PROVE  Held'
<1>1. stage = "trim" BY DEF Trim
<1>2. IsPicture(current) BY <1>1, NotReduced DEF Unresized
<1>3. EditsAt("trim_sides") = TrimAsked BY DEF EditsAt
<1>4. CASE tp.trim = None \/ animated_output
  <2>1. Becomes(current, "trim_sides") BY <1>1, <1>4 DEF Trim
  <2>2. ~animated_output => TrimAsked = {} BY <1>4 DEF TrimAsked
  <2> QED BY <1>1, <1>2, <1>3, <2>1, <2>2, EditedNot, EditHeld DEF Editing
<1>5. CASE Fail("Vips") BY <1>5, FailHeld
<1>6. ASSUME NEW box \in find_trim(current), tp.trim # None,
             Becomes(With({"trim"}, IF box[3] > 0 /\ box[4] > 0
                                    THEN crop(current, box[1], box[2], box[3], box[4])
                                    ELSE current), "trim_sides")
      PROVE  Held'
  <2> DEFINE cut == IF box[3] > 0 /\ box[4] > 0
                    THEN crop(current, box[1], box[2], box[3], box[4])
                    ELSE current
  <2>1. Edited(current, cut, {})
    <3>1. CASE box[3] > 0 /\ box[4] > 0 BY <1>2, <3>1, TrimBox
    <3>2. CASE ~(box[3] > 0 /\ box[4] > 0) BY <1>2, <3>2, EditedNot
    <3> QED BY <3>1, <3>2
  <2>2. Becomes(With({"trim"}, cut), "trim_sides") BY <1>6
  <2> HIDE DEF cut
  <2>3. Edited(current, With({"trim"}, cut), {} \cup {"trim"})
    BY <2>1, WithEdits, EditedTwice DEF Edited
  <2>4. TrimAsked \subseteq {} \cup {"trim"} BY DEF TrimAsked
  <2>5. EditsAt("trim_sides") \subseteq EditsAt(stage) \cup ({} \cup {"trim"})
    BY <1>3, <2>4
  <2> QED BY <1>1, <2>2, <2>3, <2>5, EditHeld DEF Editing
<1> QED BY <1>1, <1>4, <1>5, <1>6 DEF Trim

-----------------------------------------------------------------------------
\* A part of a side is a whole number of pixels.
LEMMA ResolvedWhole ==
  ASSUME NEW v \in Int \cup {None}, NEW side \in Nat
  PROVE  Resolved(v, side) \subseteq Int
<1>1. CASE v = None BY <1>1 DEF Resolved
<1>2. CASE v # None
  <2>1. v \in Int /\ v * side \in Int BY <1>2
  <2>2. Nearest(v * side, 1000) \subseteq Int /\ Nearest(v, 1000) \subseteq Int
    BY <2>1, QuotientsWhole
  <2> QED BY <1>2, <2>1, <2>2 DEF Resolved, Least
<1> QED BY <1>1, <1>2

\* TRIM SIDES: a crop by the four sides, or an error.
LEMMA TrimSidesHeld ==
  ASSUME Held, job \in Job, TrimSides
  PROVE  Held'
<1>1. stage = "trim_sides" BY DEF TrimSides
<1>2. IsPicture(current) BY <1>1, NotReduced DEF Unresized
<1>3. EditsAt("rotate_flip") = TrimAsked \cup SidesAsked /\ EditsAt("trim_sides") = TrimAsked
  BY DEF EditsAt
<1> DEFINE Sides == {"trim_top", "trim_right", "trim_bottom", "trim_left"}
<1>4. CASE animated_output \/ \A f \in Sides : tp[f] = None
  <2>1. Becomes(current, "rotate_flip") BY <1>1, <1>4 DEF TrimSides
  <2>2. ~animated_output => SidesAsked = {} BY <1>4 DEF SidesAsked, trims_a_side
  <2> QED BY <1>1, <1>2, <1>3, <2>1, <2>2, EditedNot, EditHeld DEF Editing
<1>5. CASE ~(animated_output \/ \A f \in Sides : tp[f] = None)
  <2> DEFINE w == current.width
             h == current.height
  <2>1. w \in Nat \ {0} /\ h \in Nat \ {0} BY <1>2 DEF IsPicture
  <2>2. \A f \in Sides : tp[f] \in Int \cup {None}
    <3>1. WellTyped(tp) BY JobTyped
    <3> QED BY <3>1 DEF WellTyped, OneDecimal
  <2>3. PICK top \in Resolved(tp.trim_top, h), bottom \in Resolved(tp.trim_bottom, h),
             left \in Resolved(tp.trim_left, w), right \in Resolved(tp.trim_right, w) :
          LET cut == crop(current, left, top, AtLeast1(w - left - right),
                          AtLeast1(h - top - bottom))
          IN Becomes(IF cut = NoImage THEN cut
                     ELSE With(IF trims_a_side(tp) THEN {"sides"} ELSE {}, cut),
                     "rotate_flip")
    BY <1>1, <1>5 DEF TrimSides
  <2>4. top \in Int /\ bottom \in Int /\ left \in Int /\ right \in Int
    BY <2>1, <2>2, <2>3, ResolvedWhole
  <2> DEFINE width == AtLeast1(w - left - right)
             height == AtLeast1(h - top - bottom)
             cut == crop(current, left, top, width, height)
             image == IF cut = NoImage THEN cut ELSE With(SidesAsked, cut)
  <2>5. width \in Int /\ height \in Int BY <2>1, <2>4 DEF AtLeast1
  <2>6. Becomes(image, "rotate_flip") BY <2>3 DEF SidesAsked
  <2> HIDE DEF width, height
  <2>7. cut # NoImage => Edited(current, cut, {}) BY <1>2, <2>4, <2>5, CropEdits
  <2> HIDE DEF cut
  <2>8. image # NoImage => Edited(current, image, {} \cup SidesAsked)
    <3> SUFFICES ASSUME image # NoImage PROVE Edited(current, image, {} \cup SidesAsked) OBVIOUS
    <3>1. cut # NoImage /\ image = With(SidesAsked, cut) OBVIOUS
    <3>2. Edited(current, cut, {}) /\ IsPicture(cut) BY <2>7, <3>1 DEF Edited
    <3>3. Edited(cut, image, SidesAsked) BY <3>1, <3>2, WithEdits
    <3> QED BY <3>2, <3>3, EditedTwice
  <2> HIDE DEF image
  <2>9. EditsAt("rotate_flip") \subseteq EditsAt(stage) \cup ({} \cup SidesAsked) BY <1>1, <1>3
  <2> QED BY <1>1, <2>6, <2>8, <2>9, EditHeld DEF Editing
<1> QED BY <1>4, <1>5

\* ROTATE/FLIP: both edits, in this order.
LEMMA RotateFlipHeld ==
  ASSUME Held, RotateFlip
  PROVE  Held'
<1>1. stage = "rotate_flip" BY DEF RotateFlip
<1>2. IsPicture(current) BY <1>1, NotReduced DEF Unresized
<1> DEFINE turn == IF tp.rotate \notin {None, "0"} THEN {"rotate"} ELSE {}
           mirror == (IF tp.flip \in {"h", "hv"} THEN {"flip h"} ELSE {})
                       \cup (IF tp.flip \in {"v", "hv"} THEN {"flip v"} ELSE {})
           turned == Rotated(current, tp.rotate)
           image == Flipped(turned, tp.flip)
<1>3. Edited(current, turned, turn) BY <1>2, RotatedEdits
<1>4. EditsAt("resize") = Asked /\ EditsAt("rotate_flip") = TrimAsked \cup SidesAsked
  BY DEF EditsAt
<1>5. EditsAt("resize") \subseteq EditsAt("rotate_flip") \cup (turn \cup mirror)
  BY <1>4 DEF Asked, TrimAsked, SidesAsked
<1>6. Becomes(image, "resize") BY <1>1 DEF RotateFlip
<1> HIDE DEF turn, turned
<1>7. IsPicture(turned) BY <1>3 DEF Edited
<1>8. Edited(turned, image, mirror) BY <1>7, FlippedEdits
<1> HIDE DEF image, mirror
<1>9. Edited(current, image, turn \cup mirror) BY <1>3, <1>8, EditedTwice
<1> QED BY <1>1, <1>5, <1>6, <1>9, EditHeld DEF Editing

-----------------------------------------------------------------------------
\* Where the resize reads the source, no stage before it has anything to do.
LEMMA ReadsNoEdits ==
  ASSUME job \in Job, resize_reads_source(tp, animated_output)
  PROVE  Asked = {} /\ tp.frame = None /\ ~animated_output /\ tp.trim = None
         /\ ~trims_a_side(tp)
<1>1. /\ ~animated_output /\ tp.frame = None /\ tp.trim = None /\ ~trims_a_side(tp)
      /\ tp.rotate \in {None, "0"} /\ tp.flip = None
  BY DEF resize_reads_source
<1>2. None \notin {"h", "v", "hv"}
  <2>1. <<"flip", FlipWords>> \in WordTables BY DEF WordTables
  <2>2. None \notin Meanings(FlipWords) BY <2>1, WordAssumption
  <2>3. {"h", "v", "hv"} \subseteq Meanings(FlipWords)
    <3>1. /\ <<"h", "h">> \in FlipWords /\ <<"v", "v">> \in FlipWords
          /\ <<"hv", "hv">> \in FlipWords
      BY DEF FlipWords
    <3>2. \A e \in FlipWords : e[2] \in Meanings(FlipWords) BY DEF Meanings
    <3> QED BY <3>1, <3>2
  <2> QED BY <2>2, <2>3
<1> QED BY <1>1, <1>2 DEF Asked

\* The stages of a resized image that change no more than its bands.
LEMMA ResizedHeld ==
  ASSUME Held, stage = "resize", NEW image, NEW decoded_again \in BOOLEAN,
         NEW next \in {"pad", "effects"}, Advance(image, next), plan' = plan,
         reduced' = decoded_again, image # NoImage => Found(next, image, decoded_again)
  PROVE  Held'
<1>1. next \in (Unresized \cup Resizes) \ {"check_budget", "reload"} BY DEF Unresized, Resizes
<1> QED BY <1>1, AdvanceHeld

\* RESIZE: the image at hand with all its edits, or the source when there are none.
LEMMA ResizeHeld ==
  ASSUME Held, IInv, Resize
  PROVE  Held'
<1>1. stage = "resize" /\ job \in Job BY DEF Resize, IInv
<1>2. /\ reduced = FALSE /\ Found("resize", current, FALSE) /\ IsPicture(current)
  BY <1>1, NotReduced DEF Unresized
<1>3. \A next \in {"pad", "effects"} :
        AlphaAt(next) = AlphaAt("resize") /\ FrameAt(next) = FrameAt("resize")
          /\ EditsAt(next) = EditsAt("resize")
          /\ AlphaAt(next) = job.source.alpha
  BY DEF AlphaAt, FrameAt, EditsAt
<1>4. CASE effective_width(tp) = None /\ effective_height(tp) = None
  <2>1. Becomes(current, "effects") BY <1>1, <1>4 DEF Resize
  <2>2. Found("effects", current, reduced) BY <1>2, <1>3 DEF Found, Unresized, Resizes
  <2>3. "effects" \in (Unresized \cup Resizes) \ {"check_budget", "reload"}
    BY DEF Unresized, Resizes
  <2> QED BY <1>1, <2>1, <2>2, <2>3, BecomesHeld
<1>5. CASE ~(effective_width(tp) = None /\ effective_height(tp) = None)
  <2>1. PICK out \in Resized(current, resize_source, tp, animated_output, plan.effective_pages) :
          \/ Advance(out.image, "pad") /\ reduced' = out.reduced /\ UNCHANGED plan
          \/ out.image = NoImage /\ Fail("Vips")
    BY <1>1, <1>5 DEF Resize
  <2>2. WellTyped(tp) /\ validate(tp) /\ job.source \in Source BY <1>1, JobTyped
  <2>3. /\ effective_width(tp) \in BoxSide \cup {None}
        /\ effective_height(tp) \in BoxSide \cup {None}
    BY <2>2, EffectiveSides
  <2>4. resize_source # None => resize_source = job.source /\ resize_reads_source(tp, animated_output)
    BY DEF resize_source
  <2>5. resize_source # None => resize_source \in Readable BY <1>1, <2>4, SourceReadable
  <2>6. animated_output \in BOOLEAN BY DEF animated_output
  <2>7. animated_output =>
          plan.effective_pages \in Nat \ {0} /\ current.page_height # 0 /\ resize_source = None
    <3>1. animated_output => plan.effective_pages \in Nat \ {0} BY AnimatedPages
    <3>2. animated_output => current.page_height # 0 BY <1>2 DEF Found, Unresized
    <3>3. animated_output => resize_source = None BY <2>4 DEF resize_reads_source
    <3> QED BY <3>1, <3>2, <3>3
  <2>8. Fits(current, resize_source, out) \/ (animated_output /\ Covers(current, out))
    <3> DEFINE source == resize_source
               animated == animated_output
               pages == plan.effective_pages
    <3>1. out \in Resized(current, source, tp, animated, pages) BY <2>1
    <3>2. source # None => source \in Readable BY <2>5
    <3>3. /\ animated \in BOOLEAN
          /\ animated => pages \in Nat \ {0} /\ current.page_height # 0 /\ source = None
      BY <2>6, <2>7
    <3> HIDE DEF source, animated, pages
    <3>4. Fits(current, source, out) \/ (animated /\ Covers(current, out))
      BY <1>2, <1>5, <2>3, <3>1, <3>2, <3>3, ResizedFits
    <3> QED BY <3>4 DEF source, animated
  <2>9. out.image # NoImage => Found("pad", out.image, out.reduced) /\ out.reduced \in BOOLEAN
    <3> SUFFICES ASSUME out.image # NoImage
                 PROVE  Found("pad", out.image, out.reduced) /\ out.reduced \in BOOLEAN
      OBVIOUS
    <3>1. "pad" \in Resizes /\ "pad" \notin Unresized BY DEF Resizes, Unresized
    <3>2. CASE out.reduced /\ resize_source # None /\ Reduced(resize_source, out.image)
               /\ out.reduced \in BOOLEAN
      <4>1. resize_reads_source(tp, animated_output) /\ Reduced(job.source, out.image)
        BY <2>4, <3>2
      <4>2. strict = FALSE BY <4>1 DEF resize_reads_source, strict
      <4>3. out.reduced = TRUE BY <3>2
      <4>4. Found("pad", out.image, TRUE)
        BY <1>3, <3>1, <4>1, <4>2 DEF Found, Reduced
      <4> QED BY <4>3, <4>4
    <3>3. CASE ~out.reduced /\ Kept(current, out.image) /\ out.reduced \in BOOLEAN
      <4>1. out.reduced = FALSE BY <3>3
      <4>2. Found("pad", out.image, FALSE)
        BY <1>2, <1>3, <3>1, <3>3 DEF Found, Kept, SameLook, SameFrame
      <4> QED BY <4>1, <4>2
    <3>4. CASE animated_output /\ Covers(current, out)
      <4>1. out.reduced = FALSE BY <3>4 DEF Covers, Outcome
      <4>2. IsPicture(out.image) /\ SameLook(current, out.image) BY <3>4 DEF Covers
      <4>3. Found("pad", out.image, FALSE)
        BY <1>2, <1>3, <3>1, <3>4, <4>2 DEF Found, SameLook
      <4> QED BY <4>1, <4>3
    <3> QED BY <2>8, <3>2, <3>3, <3>4 DEF Fits
  <2>10. CASE Advance(out.image, "pad") /\ reduced' = out.reduced /\ UNCHANGED plan
    <3>1. out.image # NoImage BY <2>10 DEF Advance
    <3> QED BY <1>1, <2>9, <2>10, <3>1, ResizedHeld
  <2>11. CASE Fail("Vips") BY <2>11, FailHeld
  <2> QED BY <2>1, <2>10, <2>11
<1> QED BY <1>4, <1>5

\* A stage between the resize and the answer, that keeps the frame and the edits.
LEMMA LateHeld ==
  ASSUME Held, stage \in Resizes, NEW next \in Resizes, NEW image, Becomes(image, next),
         image # NoImage =>
           /\ IsPicture(image) /\ image.broken = current.broken /\ image.alpha = AlphaAt(next)
           /\ image.grey => current.grey
           /\ SameFrame(current, image) /\ current.edits \subseteq image.edits
           /\ current.page_height = 0 => image.page_height = 0
  PROVE  Held'
<1>1. Found(stage, current, reduced) BY DEF Held, Images
<1>2. stage \notin Unresized /\ next \notin Unresized /\ next \in Resizes
  BY DEF Unresized, Resizes
<1>3. FrameAt(next) = FrameAt(stage) /\ EditsAt(next) = EditsAt(stage)
  BY DEF FrameAt, EditsAt, Resizes
<1>4. image # NoImage => Found(next, image, reduced)
  BY <1>1, <1>2, <1>3 DEF Found, SameFrame
<1>5. next \in (Unresized \cup Resizes) \ {"check_budget", "reload"} BY DEF Resizes
<1>6. stage \notin {"probe", "check_budget", "failed", "overlays", "done"} BY DEF Resizes
<1> QED BY <1>4, <1>5, <1>6, BecomesHeld

\* The image of such a stage.
LEMMA LatePicture ==
  ASSUME Held, stage \in Resizes
  PROVE  IsPicture(current) /\ current.alpha = AlphaAt(stage)
         /\ (current.grey => job.source.grey)
         /\ current.broken = (strict /\ job.source.damaged)
BY DEF Held, Images, Found

\* PAD: the pad does not touch the frame.
LEMMA PadHeld ==
  ASSUME Held, job \in Job, Pad
  PROVE  Held'
<1>1. stage = "pad" /\ stage \in Resizes /\ "effects" \in Resizes BY DEF Pad, Resizes
<1>2. IsPicture(current) /\ current.alpha = AlphaAt("pad") BY <1>1, LatePicture
<1>3. AlphaAt("pad") = AlphaAt("effects") BY DEF AlphaAt
<1> DEFINE image == IF animated_output THEN current ELSE Padded(current, tp)
<1>4. Becomes(image, "effects") BY DEF Pad
<1>5. image = NoImage \/ Kept(current, image)
  <2>1. WellTyped(tp) /\ validate(tp) BY JobTyped
  <2>2. /\ effective_width(tp) \in BoxSide \cup {None}
        /\ effective_height(tp) \in BoxSide \cup {None}
    BY <2>1, EffectiveSides
  <2> QED BY <1>2, <2>2, KeptOnce, PaddedKeeps
<1> HIDE DEF image
<1> QED BY <1>1, <1>2, <1>3, <1>4, <1>5, LateHeld DEF Kept, SameLook

-----------------------------------------------------------------------------
\* An image of the same size, with other pixels and perhaps other bands.
Toned(a, b) ==
  /\ IsPicture(b) /\ b.broken = a.broken /\ b.frames = a.frames /\ a.edits \subseteq b.edits
  /\ b.width = a.width /\ b.height = a.height /\ b.page_height = a.page_height
  /\ b.grey => a.grey

\* A filter changes pixels only.
LEMMA FilterTones ==
  ASSUME NEW image, IsPicture(image),
         NEW b \in {sharpen(image), gaussblur(image), linear1(image), gamma(image)}
  PROVE  Toned(image, b) /\ b.alpha = image.alpha
<1>1. /\ DOMAIN b = DOMAIN image /\ b.width = image.width /\ b.height = image.height
      /\ b.page_height = image.page_height /\ b.alpha = image.alpha /\ b.grey = image.grey
      /\ b.broken = image.broken /\ b.frames = image.frames
      /\ image.edits \subseteq b.edits
  BY FieldsTold DEF sharpen, gaussblur, linear1, gamma, IsPicture, Fields
<1> QED BY <1>1 DEF Toned, IsPicture

\* A change of the bands.
LEMMA BandsTone ==
  ASSUME NEW image, IsPicture(image), NEW alpha, NEW b, b = [image EXCEPT !.alpha = alpha]
  PROVE  Toned(image, b) /\ b.alpha = alpha
<1>1. /\ DOMAIN b = DOMAIN image /\ b.width = image.width /\ b.height = image.height
      /\ b.page_height = image.page_height /\ b.alpha = alpha /\ b.grey = image.grey
      /\ b.broken = image.broken /\ b.frames = image.frames /\ b.edits = image.edits
  BY FieldsTold DEF IsPicture, Fields
<1> QED BY <1>1 DEF Toned, IsPicture

\* A change to bands of colour.
LEMMA ColourTones ==
  ASSUME NEW image, IsPicture(image)
  PROVE  Toned(image, colourspace(image))
<1> DEFINE b == colourspace(image)
<1>1. /\ DOMAIN b = DOMAIN image /\ b.width = image.width /\ b.height = image.height
      /\ b.page_height = image.page_height /\ b.alpha = image.alpha /\ b.grey = FALSE
      /\ b.broken = image.broken /\ b.frames = image.frames /\ b.edits = image.edits
  BY FieldsTold DEF colourspace, IsPicture, Fields
<1> HIDE DEF b
<1>2. Toned(image, b) BY <1>1 DEF Toned, IsPicture
<1> QED BY <1>2 DEF b

\* Two changes in a row.
LEMMA TonedTwice ==
  ASSUME NEW a, NEW b, NEW c, Toned(a, b), Toned(b, c)
  PROVE  Toned(a, c)
BY DEF Toned

\* No change at all.
LEMMA TonedNot ==
  ASSUME NEW a, IsPicture(a)
  PROVE  Toned(a, a)
BY DEF Toned

\* A saturation leaves no alpha band.
LEMMA SaturatedTones ==
  ASSUME NEW image, IsPicture(image)
  PROVE  Toned(image, Saturated(image)) /\ Saturated(image).alpha = FALSE
<1> DEFINE z == colourspace(image)
           a == extract_band(z)
           b == bandjoin2(a, FALSE)
           c == bandjoin2(b, FALSE)
<1>5. Toned(image, z) BY ColourTones
<1> HIDE DEF z
<1>1. Toned(z, a) BY <1>5, BandsTone DEF Toned, extract_band, flatten
<1> HIDE DEF a
<1>2. Toned(a, b) BY <1>1, BandsTone DEF Toned, bandjoin2
<1> HIDE DEF b
<1>3. Toned(b, c) /\ c.alpha = FALSE BY <1>2, BandsTone DEF Toned, bandjoin2
<1>4. c = Saturated(image) BY DEF Saturated, a, b, z
<1> HIDE DEF c
<1>6. Toned(image, b) BY <1>1, <1>2, <1>5, TonedTwice
<1> QED BY <1>3, <1>4, <1>6, TonedTwice

\* A stage between the resize and the answer that changes pixels or bands.
LEMMA ToneHeld ==
  ASSUME Held, stage \in Resizes, NEW next \in Resizes, NEW image, Becomes(image, next),
         Toned(current, image), image.alpha = AlphaAt(next)
  PROVE  Held'
BY LateHeld, SameFrames DEF Toned

\* EFFECTS: the alpha band outlives all of them but the saturation.
LEMMA EffectsHeld ==
  ASSUME Held, job \in Job, Effects
  PROVE  Held'
<1>1. stage = "effects" /\ stage \in Resizes /\ "background" \in Resizes BY DEF Effects, Resizes
<1>2. IsPicture(current) /\ current.alpha = AlphaAt("effects") BY <1>1, LatePicture
<1> DEFINE a == IF tp.sharpen # None THEN sharpen(current) ELSE current
           b == IF tp.blur # None THEN gaussblur(a) ELSE a
           c == IF tp.brightness # None \/ tp.contrast # None THEN linear1(b) ELSE b
           d == IF tp.gamma # None THEN gamma(c) ELSE c
           e == IF tp.saturation # None THEN Saturated(d) ELSE d
<1>3. Becomes(e, "background") BY DEF Effects
<1>4. Toned(current, a) /\ a.alpha = current.alpha BY <1>2, FilterTones, TonedNot
<1> HIDE DEF a
<1>5. Toned(a, b) /\ b.alpha = a.alpha BY <1>4, FilterTones, TonedNot DEF Toned
<1> HIDE DEF b
<1>6. Toned(b, c) /\ c.alpha = b.alpha BY <1>5, FilterTones, TonedNot DEF Toned
<1> HIDE DEF c
<1>7. Toned(c, d) /\ d.alpha = c.alpha BY <1>6, FilterTones, TonedNot DEF Toned
<1> HIDE DEF d
<1>8. Toned(d, e) /\ e.alpha = (IF tp.saturation # None THEN FALSE ELSE d.alpha)
  <2>1. IsPicture(d) BY <1>7 DEF Toned
  <2> QED BY <2>1, SaturatedTones, TonedNot
<1> HIDE DEF e
<1>9. Toned(current, e) BY <1>4, <1>5, <1>6, <1>7, <1>8, TonedTwice
<1>10. AlphaAt("background") = (job.source.alpha /\ tp.saturation = None)
        /\ AlphaAt("effects") = job.source.alpha
  BY DEF AlphaAt
<1>11. e.alpha = AlphaAt("background")
  <2>1. e.alpha = IF tp.saturation # None THEN FALSE ELSE job.source.alpha
    BY <1>2, <1>4, <1>5, <1>6, <1>7, <1>8, <1>10
  <2>2. job.source.alpha \in BOOLEAN BY JobTyped
  <2> QED BY <2>1, <2>2, <1>10
<1> QED BY <1>1, <1>3, <1>9, <1>11, ToneHeld

\* BACKGROUND: an alpha band is left where keeps_alpha says so.
LEMMA BackgroundHeld ==
  ASSUME Held, job \in Job, Background
  PROVE  Held'
<1>1. stage = "background" /\ stage \in Resizes /\ "border" \in Resizes BY DEF Background, Resizes
<1>2. IsPicture(current) /\ current.alpha = AlphaAt("background") BY <1>1, LatePicture
<1> DEFINE image == IF tp.background # None /\ tp.fit # "pad" /\ current.alpha
                    THEN flatten(current) ELSE current
<1>3. Becomes(image, "border") BY DEF Background
<1>4. AlphaAt("border") = keeps_alpha(tp, job.source)
        /\ AlphaAt("background") = (job.source.alpha /\ tp.saturation = None)
  BY DEF AlphaAt
<1>5. Toned(current, image) /\ image.alpha = AlphaAt("border")
  <2>1. CASE tp.background # None /\ tp.fit # "pad" /\ current.alpha
    <3>1. Toned(current, image) /\ image.alpha = FALSE BY <1>2, <2>1, BandsTone DEF flatten
    <3>2. keeps_alpha(tp, job.source) = FALSE BY <2>1 DEF keeps_alpha
    <3> QED BY <1>4, <3>1, <3>2
  <2>2. CASE ~(tp.background # None /\ tp.fit # "pad" /\ current.alpha)
    <3>1. image = current BY <2>2
    <3>2. current.alpha = keeps_alpha(tp, job.source) BY <1>2, <1>4, <2>2 DEF keeps_alpha
    <3> QED BY <1>2, <1>4, <3>1, <3>2, TonedNot
  <2> QED BY <2>1, <2>2
<1> HIDE DEF image
<1> QED BY <1>1, <1>3, <1>5, ToneHeld

\* A border has no negative side.
LEMMA RintWhole ==
  ASSUME NEW n \in Nat
  PROVE  Nearest(n, 1000) \subseteq Nat
<1>1. (2 * n + 1000) \div 2000 \in Nat
        /\ ((2 * n + 1000) % 2000 = 0 => (2 * n + 1000) \div 2000 # 0)
  OBVIOUS
<1>2. Rint(n, 1000) = (2 * n + 1000) \div 2000 BY DEF Rint
<1>3. Nearest(n, 1000)
        = {Rint(n, 1000)} \cup (IF (2 * n + 1000) % 2000 = 0 THEN {Rint(n, 1000) - 1} ELSE {})
  BY DEF Nearest
<1> QED BY <1>1, <1>2, <1>3

\* The sides of a border are numbers of pixels.
LEMMA BorderSides ==
  ASSUME job \in Job
  PROVE  \A f \in {"border_top", "border_bottom", "border_left", "border_right"} :
           BorderSide(tp[f]) \subseteq Nat
<1> SUFFICES ASSUME NEW f \in {"border_top", "border_bottom", "border_left", "border_right"}
             PROVE  BorderSide(tp[f]) \subseteq Nat
  OBVIOUS
<1>1. WellTyped(tp) /\ validate(tp) BY JobTyped
<1>2. tp[f] \in Nat \cup {None} /\ tp.border_width \in Nat \cup {None}
  BY <1>1 DEF WellTyped, WholeNumber
<1>3. tp.dpr \in Nat
  <2>1. tp.dpr \in Int /\ tp.dpr # None BY <1>1 DEF WellTyped, OneDecimal
  <2>2. <<"dpr", 1000, 5000>> \in Bounds BY DEF Bounds
  <2>3. contains(1000, 5000, tp.dpr) BY <1>1, <2>1, <2>2 DEF validate
  <2> QED BY <2>1, <2>3 DEF contains
<1> DEFINE px == IF tp[f] # None THEN tp[f]
                 ELSE IF tp.border_width # None THEN tp.border_width ELSE 0
<1>4. px \in Nat BY <1>2
<1> HIDE DEF px
<1>5. px * tp.dpr \in Nat BY <1>3, <1>4
<1>6. Nearest(px * tp.dpr, 1000) \subseteq Nat BY <1>5, RintWhole
<1> QED BY <1>6 DEF BorderSide, px

\* BORDER: none of it changes the bands.
LEMMA BorderHeld ==
  ASSUME Held, job \in Job, Border
  PROVE  Held'
<1>1. stage = "border" /\ stage \in Resizes /\ "answer" \in Resizes BY DEF Border, Resizes
<1>2. IsPicture(current) /\ current.alpha = AlphaAt("border") BY <1>1, LatePicture
<1>3. AlphaAt("answer") = AlphaAt("border") BY DEF AlphaAt
<1>4. ASSUME NEW image, Becomes(image, "answer"), image = NoImage \/ Kept(current, image)
      PROVE  Held'
  BY <1>1, <1>2, <1>3, <1>4, LateHeld DEF Kept, SameLook
<1>5. CASE Becomes(current, "answer") BY <1>2, <1>4, <1>5, KeptOnce
<1>6. ASSUME NEW top \in BorderSide(tp.border_top), NEW bottom \in BorderSide(tp.border_bottom),
             NEW left \in BorderSide(tp.border_left), NEW right \in BorderSide(tp.border_right),
             Becomes(IF {top, bottom, left, right} = {0} THEN current
                     ELSE embed(current, current.width + left + right,
                                current.height + top + bottom), "answer")
      PROVE  Held'
  <2>1. top \in Nat /\ bottom \in Nat /\ left \in Nat /\ right \in Nat BY BorderSides
  <2> DEFINE width == current.width + left + right
             height == current.height + top + bottom
  <2>2. width \in Nat \ {0} /\ height \in Nat \ {0} BY <1>2, <2>1 DEF IsPicture
  <2>3. Becomes(IF {top, bottom, left, right} = {0} THEN current
                ELSE embed(current, width, height), "answer")
    BY <1>6
  <2> HIDE DEF width, height
  <2>4. LET on == embed(current, width, height) IN on = NoImage \/ Kept(current, on)
    BY <1>2, <2>2, EmbedKeeps
  <2> QED BY <1>2, <1>4, <2>3, <2>4, KeptOnce
<1> QED BY <1>5, <1>6 DEF Border

-----------------------------------------------------------------------------
\* The formats that an image is encoded to, and those that are a text.
Encodable == {"jpeg", "baseline-jpeg", "png", "webp", "avif", "gif"}
TextBody == {"json", "thumbhash"}

\* The first format that is supported is one of the order.
LEMMA FirstOfOrder ==
  ASSUME NEW accept, NEW order, Len(order) \in Nat, NEW otherwise
  PROVE  \/ FirstSupported(accept, order, otherwise) = otherwise
         \/ \E i \in 1..Len(order) : FirstSupported(accept, order, otherwise) = order[i]
<1> DEFINE hits == {i \in 1..Len(order) : supports(accept, order[i])}
<1>1. hits \in SUBSET Nat /\ hits \subseteq 1..Len(order) OBVIOUS
<1>2. FirstSupported(accept, order, otherwise)
        = IF hits = {} THEN otherwise
          ELSE order[CHOOSE i \in hits : \A j \in hits : i <= j]
  BY DEF FirstSupported
<1> HIDE DEF hits
<1>3. hits # {} => \E i \in hits : \A j \in hits : i <= j BY <1>1, LeastNat
<1>4. hits # {} => (CHOOSE i \in hits : \A j \in hits : i <= j) \in hits BY <1>3
<1> QED BY <1>1, <1>2, <1>4

\* What is negotiated can be encoded, unless a text is asked for.
LEMMA Negotiated ==
  ASSUME NEW accept, NEW has_alpha, NEW requested,
         requested \in Encodable \cup TextBody \cup {"auto", None}
  PROVE  LET format == negotiate_format(accept, has_alpha, requested)
         IN /\ format \in Encodable \cup TextBody
            /\ requested \notin TextBody => format \in Encodable
<1>1. CASE Explicit(requested)
  BY <1>1 DEF negotiate_format, Explicit, Encodable, TextBody
<1>2. CASE ~Explicit(requested) /\ has_alpha
  <2> DEFINE order == <<"avif", "webp", "png">>
  <2>1. Len(order) \in Nat /\ \A i \in 1..Len(order) : order[i] \in Encodable
    BY DEF Encodable
  <2>2. negotiate_format(accept, has_alpha, requested) = FirstSupported(accept, order, "jpeg")
    BY <1>2 DEF negotiate_format
  <2> HIDE DEF order
  <2>3. FirstSupported(accept, order, "jpeg") \in Encodable
    BY <2>1, FirstOfOrder DEF Encodable
  <2> QED BY <2>1, <2>2, <2>3 DEF Encodable
<1>3. CASE ~Explicit(requested) /\ ~has_alpha
  <2> DEFINE order == <<"avif", "webp", "jpeg", "png">>
  <2>1. Len(order) \in Nat /\ \A i \in 1..Len(order) : order[i] \in Encodable
    BY DEF Encodable
  <2>2. negotiate_format(accept, has_alpha, requested) = FirstSupported(accept, order, "jpeg")
    BY <1>3 DEF negotiate_format
  <2> HIDE DEF order
  <2>3. FirstSupported(accept, order, "jpeg") \in Encodable
    BY <2>1, FirstOfOrder DEF Encodable
  <2> QED BY <2>1, <2>2, <2>3 DEF Encodable
<1> QED BY <1>1, <1>2, <1>3

\* The formats that a request can name.
LEMMA RequestedFormat ==
  ASSUME job \in Job
  PROVE  tp.format \in Encodable \cup TextBody \cup {"auto", None}
<1>1. WellTyped(tp) BY JobTyped
<1>2. <<"format", FormatWords>> \in WordTables BY DEF WordTables
<1>3. tp.format \in Meanings(FormatWords) \cup {None} BY <1>1, <1>2 DEF WellTyped
<1>4. Meanings(FormatWords) \subseteq Encodable \cup TextBody \cup {"auto"}
  BY DEF Meanings, FormatWords, Encodable, TextBody
<1> QED BY <1>3, <1>4

\* An animation is a webp or a gif.
LEMMA AnimatedEncodable ==
  ASSUME NEW accept, NEW options, NEW source, animated_format(accept, options, source) # None
  PROVE  animated_format(accept, options, source) \in {"webp", "gif"}
<1> DEFINE order == <<"webp", "gif">>
<1>1. Len(order) \in Nat /\ \A i \in 1..Len(order) : order[i] \in {"webp", "gif"}
  OBVIOUS
<1> HIDE DEF order
<1>2. FirstSupported(accept, order, None) \in {None, "webp", "gif"} BY <1>1, FirstOfOrder
<1>3. FirstSupported(accept, <<"webp", "gif">>, None) \in {None, "webp", "gif"}
  BY <1>2 DEF order
<1> QED BY <1>3 DEF animated_format, negotiate_animated_format, supports_animation

\* The format of a response can be encoded, unless it is a text.
LEMMA OutputEncodable ==
  ASSUME job \in Job
  PROVE  LET format == output_format(job.accept, tp, SeenSource)
         IN format \in Encodable \cup TextBody
              /\ (tp.format \notin TextBody => format \in Encodable)
<1> DEFINE animated == animated_format(job.accept, tp, SeenSource)
           still == negotiate_format(job.accept, keeps_alpha(tp, SeenSource), tp.format)
<1>1. animated # None => animated \in {"webp", "gif"} BY AnimatedEncodable
<1>2. still \in Encodable \cup TextBody /\ (tp.format \notin TextBody => still \in Encodable)
  BY RequestedFormat, Negotiated
<1>3. output_format(job.accept, tp, SeenSource)
        = IF animated # None THEN animated
          ELSE apply_compression_fast(still, CompressesFast(tp))
  BY DEF output_format, static_format
<1> HIDE DEF animated, still
<1> QED BY <1>1, <1>2, <1>3 DEF apply_compression_fast, Encodable, TextBody

\* The probe decides as the variant cache does.
LEMMA DecidedAsSeen ==
  ASSUME job \in Job, job.source \in Readable
  PROVE  decided_format(probed) = animated_format(job.accept, tp, SeenSource)
<1>1. job.source \in Source /\ strict \in BOOLEAN /\ max_animated_pixels \in Nat BY JobTyped
<1>2. /\ probed.width = job.source.width /\ probed.n_pages = job.source.pages
      /\ PageHeight(probed) = job.source.height /\ probed.alpha = job.source.alpha
  BY <1>1, Probed, Decoded DEF probed
<1>3. job.source.width \in Nat /\ job.source.height \in Nat /\ job.source.pages \in Nat
  BY <1>1 DEF Source
<1> DEFINE all == job.source.width * job.source.height * job.source.pages
<1>4. all \in Int BY <1>3
<1>5. over_budget(probed) <=> (job.source.pages > 1 /\ all > max_animated_pixels)
  BY <1>2 DEF over_budget, n_pages_of
<1>6. Pixels(job.source) * job.source.pages = all BY DEF Pixels
<1> HIDE DEF all
<1>7. (n_pages_of(probed) > 1 /\ ~over_budget(probed)) <=> SeenSource.animated
  <2>1. SeenSource.animated <=> (job.source.pages > 1 /\ all <= max_animated_pixels)
    BY <1>6 DEF SeenSource
  <2>2. n_pages_of(probed) = job.source.pages BY <1>2 DEF n_pages_of
  <2>3. (all > max_animated_pixels) <=> ~(all <= max_animated_pixels) BY <1>1, <1>4
  <2> QED BY <1>5, <2>1, <2>2, <2>3
<1> DEFINE seen == [animated |-> n_pages_of(probed) > 1 /\ ~over_budget(probed),
                    alpha |-> probed.alpha]
<1>8. seen.animated <=> SeenSource.animated BY <1>7
<1>9. decided_format(probed) = animated_format(job.accept, tp, seen) BY DEF decided_format
<1> HIDE DEF seen
<1> QED BY <1>8, <1>9 DEF animated_format

\* What the format of an answer is.
LEMMA AnsweredFormat ==
  ASSUME Held, IInv, stage = "answer"
  PROVE  /\ animated_output => output_format(job.accept, tp, SeenSource) = plan.animated_format
         /\ ~animated_output =>
              output_format(job.accept, tp, SeenSource)
                = apply_compression_fast(
                    negotiate_format(job.accept, current.alpha, tp.format), CompressesFast(tp))
         /\ static_format(job.accept, None, tp, SeenSource)
              = apply_compression_fast(
                  negotiate_format(job.accept, current.alpha, None), CompressesFast(tp))
<1>1. job \in Job BY DEF IInv
<1>2. plan = PlanFor(probed) BY DEF Held, Planned
<1>3. plan.animated_format = animated_format(job.accept, tp, SeenSource)
  BY <1>1, <1>2, SourceReadable, DecidedAsSeen DEF PlanFor
<1>4. current.alpha = keeps_alpha(tp, job.source) BY LatePicture DEF Resizes, AlphaAt
<1>5. keeps_alpha(tp, SeenSource) = keeps_alpha(tp, job.source) BY DEF keeps_alpha, SeenSource
<1> QED BY <1>3, <1>4, <1>5 DEF output_format, static_format, animated_output

-----------------------------------------------------------------------------
\* What a failed operation returns has the fields of an image.
LEMMA NoImageIs == IsImage(NoImage)
BY DEF IsImage, NoImage

\* So has a picture.
LEMMA PictureIs ==
  ASSUME NEW image, IsPicture(image)
  PROVE  IsImage(image)
BY DEF IsImage, IsPicture

\* An encoder keeps the size, or fails.
LEMMA FileIs ==
  ASSUME NEW image, IsImage(image), NEW format, NEW do_strip
  PROVE  IsImage(Encoded(image, format, do_strip))
<1> DEFINE file == Encoded(image, format, do_strip)
<1>1. file = NoImage \/ (/\ DOMAIN file = DOMAIN image
                         /\ file.width = image.width /\ file.height = image.height)
  BY FieldsTold DEF Encoded, IsImage, Fields
<1> HIDE DEF file
<1>2. IsImage(file) BY <1>1, NoImageIs DEF IsImage
<1> QED BY <1>2 DEF file

\* So does the encoder of every format.
LEMMA EncodedIs ==
  ASSUME NEW image, IsImage(image), NEW format \in Encodable
  PROVE  IsImage(encode_image(image, format))
<1>1. IsImage(flatten(image)) BY FieldsTold DEF IsImage, flatten, Fields
<1>2. CASE format \in {"jpeg", "baseline-jpeg"} BY <1>1, <1>2, FileIs DEF encode_image, save_jpeg
<1>3. CASE format = "png" BY <1>3, FileIs DEF encode_image, save_png
<1>4. CASE format = "webp" BY <1>4, FileIs DEF encode_image, save_webp_with_effort
<1>5. CASE format = "avif" BY <1>5, FileIs DEF encode_image, save_avif
<1>6. CASE format = "gif"
  <2>1. ASSUME NEW b, IsImage(b) PROVE IsImage(save_gif(b))
    <3> DEFINE file == Encoded(b, "gif", FALSE)
    <3>1. IsImage(file) BY <2>1, FileIs
    <3>2. save_gif(b) = [file EXCEPT !.broken = b.page_height # Absent
                                       /\ (b.page_height > b.height
                                             \/ b.height % b.page_height # 0)]
      BY DEF save_gif
    <3> HIDE DEF file
    <3>3. ASSUME NEW x PROVE IsImage([file EXCEPT !.broken = x])
      BY <3>1, FieldsTold DEF IsImage, Fields
    <3> QED BY <3>2, <3>3
  <2>2. IsImage([image EXCEPT !.page_height = image.height, !.n_pages = 1])
    BY FieldsTold DEF IsImage, Fields
  <2> QED BY <1>6, <2>1, <2>2 DEF encode_image, encode_gif
<1> QED BY <1>2, <1>3, <1>4, <1>5, <1>6 DEF Encodable

\* One more overlay, unless one before it failed.
Over(image, entry) ==
  IF image = NoImage THEN NoImage ELSE composite_draw_overlay(image, job.overlay, entry)

\* An image that overlays are drawn on keeps its size, where they can be.
LEMMA DrawnOnIs ==
  ASSUME NEW base, IsImage(base), NEW entry
  PROVE  IsImage(Over(base, entry))
<1>1. ASSUME NEW overlay PROVE IsImage(composite_over(base, overlay))
  BY FieldsTold DEF composite_over, IsImage, Fields
<1> QED BY <1>1, NoImageIs DEF Over, composite_draw_overlay

-----------------------------------------------------------------------------
\* The images after each number of overlays.
DrawnSteps(f, base, k) ==
  f = [n \in 0..k |-> IF n = 0 THEN base ELSE Over(f[n - 1], tp.draw[n])]

\* There is such a function, for every number of overlays.
LEMMA StepsExist ==
  ASSUME NEW base, NEW k \in Nat
  PROVE  \E f : DrawnSteps(f, base, k)
<1> DEFINE G == {n \in Nat : \E f : DrawnSteps(f, base, n)}
<1>1. 0 \in G
  <2>1. DrawnSteps([n \in 0..0 |-> base], base, 0) BY DEF DrawnSteps
  <2> QED BY <2>1
<1>2. ASSUME NEW n \in Nat, n \in G PROVE n + 1 \in G
  <2>1. PICK f : DrawnSteps(f, base, n) BY <1>2
  <2> DEFINE last == Over(f[n], tp.draw[n + 1])
             g == [i \in 0..(n + 1) |-> IF i = n + 1 THEN last ELSE f[i]]
  <2>2. ASSUME NEW i \in 0..(n + 1)
        PROVE  g[i] = IF i = 0 THEN base ELSE Over(g[i - 1], tp.draw[i])
    <3>1. CASE i = n + 1 BY <3>1
    <3>2. CASE i # n + 1
      <4>1. i \in 0..n BY <3>2
      <4>2. f[i] = IF i = 0 THEN base ELSE Over(f[i - 1], tp.draw[i])
        BY <2>1, <4>1 DEF DrawnSteps
      <4>3. i # 0 => g[i - 1] = f[i - 1] BY <4>1
      <4> QED BY <4>1, <4>2, <4>3
    <3> QED BY <3>1, <3>2
  <2>3. DrawnSteps(g, base, n + 1) BY <2>2 DEF DrawnSteps
  <2> HIDE DEF g
  <2> QED BY <2>3
<1> HIDE DEF G
<1>3. Nat \subseteq G BY <1>1, <1>2, Induction
<1> QED BY <1>3 DEF G

\* The last of the images has the fields of an image.
LEMMA DrawnIs ==
  ASSUME NEW base, IsImage(base), Len(tp.draw) \in Nat
  PROVE  IsImage(drawn_on(base))
<1> DEFINE k == Len(tp.draw)
           f == CHOOSE g : DrawnSteps(g, base, k)
           G == {n \in Nat : n <= k => IsImage(f[n])}
<1>1. drawn_on(base) = f[k] BY DEF drawn_on, DrawnSteps, Over
<1>2. DrawnSteps(f, base, k) BY StepsExist
<1> HIDE DEF f, k
<1>3. k \in Nat BY DEF k
<1>4. \A n \in 0..k : f[n] = IF n = 0 THEN base ELSE Over(f[n - 1], tp.draw[n])
  BY <1>2 DEF DrawnSteps
<1>5. 0 \in G BY <1>3, <1>4
<1>6. ASSUME NEW n \in Nat, n \in G PROVE n + 1 \in G
  <2> SUFFICES ASSUME n + 1 <= k PROVE IsImage(f[n + 1]) OBVIOUS
  <2>1. n + 1 \in 0..k /\ n <= k /\ n + 1 # 0 /\ (n + 1) - 1 = n BY <1>3
  <2>2. f[n + 1] = Over(f[n], tp.draw[n + 1]) BY <1>4, <2>1
  <2>3. IsImage(f[n]) BY <1>6, <2>1
  <2> QED BY <2>2, <2>3, DrawnOnIs
<1> HIDE DEF G
<1>7. Nat \subseteq G BY <1>5, <1>6, Induction
<1> QED BY <1>1, <1>3, <1>7 DEF G

\* The first page of a file is an image of its width and its page height.
LEMMA FirstPageIs ==
  ASSUME NEW file, IsImage(file)
  PROVE  IsImage(first_page(file))
<1>1. PageHeight(file) \in Nat BY DEF PageHeight, IsImage
<1> DEFINE source == [width |-> file.width, height |-> PageHeight(file), pages |-> file.n_pages,
                      orientation |-> file.orientation, alpha |-> file.alpha,
                      grey |-> file.grey, loader |-> file.loader, readable |-> TRUE,
                      stackable |-> TRUE, damaged |-> FALSE]
<1>2. source.width \in Nat /\ source.height \in Nat /\ source.readable
  BY <1>1 DEF IsImage
<1>3. first_page(file) = from_buffer(source, FALSE) BY DEF first_page
<1> HIDE DEF source
<1> DEFINE page == from_buffer(source, FALSE)
<1>4. DOMAIN page = DOMAIN NoImage BY DEF from_buffer, from_buffer_with_option, NoImage
<1>5. page.width = source.width /\ page.height = source.height * 1
  BY <1>2 DEF from_buffer, from_buffer_with_option, NoImage
<1>6. source.height * 1 \in Nat BY <1>2
<1> HIDE DEF page
<1>7. IsImage(page) BY <1>2, <1>4, <1>5, <1>6 DEF IsImage
<1> QED BY <1>3, <1>7 DEF page

-----------------------------------------------------------------------------
\* An answer, or an overlay, leaves the image and the plan alone.
LEMMA ReturnHeld ==
  ASSUME Held, stage \in {"answer", "overlays"}, NEW next \in {"overlays", "done"}, NEW r,
         Return(r, next), DOMAIN r = DOMAIN NoResult, IsImage(r.data),
         r.format = output_format(job.accept, tp, SeenSource),
         r.reported = reported_format(job.accept, tp, SeenSource),
         strict => ~job.source.damaged /\ r.length \in {24, 28, 32, 36}
  PROVE  Held'
<1>1. /\ result' = r /\ stage' = next /\ job' = job /\ current' = current /\ plan' = plan
      /\ reduced' = reduced
  BY DEF Return
<1>2. /\ probed' = probed /\ PlanFor(probed)' = PlanFor(probed) /\ tp' = tp
      /\ strict' = strict /\ SeenSource' = SeenSource
  BY <1>1, SameJob
<1>3. Planned' BY <1>1, <1>2 DEF Held, Planned
<1>4. Images'
  <2>1. IsPicture(current) BY DEF Held, Images
  <2> QED BY <1>1, <2>1 DEF Held, Images, Stage, Unresized, Resizes
<1>5. Answered'
  <2>1. result'.format = output_format(job.accept, tp, SeenSource)' BY <1>1, <1>2
  <2>2. result'.reported = reported_format(job.accept, tp, SeenSource)' BY <1>1, <1>2
  <2>3. IsImage(result.data)' BY <1>1
  <2> QED BY <1>1, <1>2, <2>1, <2>2, <2>3 DEF Answered
<1> QED BY <1>3, <1>4, <1>5 DEF Held

\* JSON: it reports the format that an image would have had.
LEMMA AnswerJsonHeld ==
  ASSUME Held, IInv, AnswerJson
  PROVE  Held'
<1>1. stage = "answer" /\ tp.format = "json" BY DEF AnswerJson
<1> DEFINE format == apply_compression_fast(negotiate_format(job.accept, current.alpha, None),
                                            CompressesFast(tp))
           r == [ResultOf("json") EXCEPT !.reported = format]
<1>2. Fail("Vips") \/ Return(r, "overlays") BY DEF AnswerJson
<1>3. ~animated_output BY <1>1, AnimatedAsks
<1>4. output_format(job.accept, tp, SeenSource) = "json"
  BY <1>1, <1>3, AnsweredFormat, FormatAssumption
  DEF negotiate_format, apply_compression_fast, Explicit
<1>5. reported_format(job.accept, tp, SeenSource) = format
  BY <1>1, AnsweredFormat DEF reported_format
<1>6. /\ DOMAIN r = DOMAIN NoResult /\ r.data = NoImage /\ r.format = "json"
      /\ r.reported = format
  BY DEF ResultOf, NoResult
<1>7. ~strict BY <1>1 DEF strict
<1> HIDE DEF format, r
<1>8. IsImage(r.data) BY <1>6, NoImageIs
<1> QED BY <1>1, <1>2, <1>4, <1>5, <1>6, <1>7, <1>8, FailHeld, ReturnHeld

\* ENCODE: an animation in the format that was planned, a still in that of its bands.
LEMMA EncodeHeld ==
  ASSUME Held, IInv, Encode
  PROVE  Held'
<1>1. stage = "answer" /\ tp.format \notin {"json", "thumbhash"} /\ job \in Job
  BY DEF Encode, IInv
<1> DEFINE still == apply_compression_fast(
                      negotiate_format(job.accept, current.alpha, tp.format), CompressesFast(tp))
           format == IF animated_output THEN plan.animated_format ELSE still
           data == encode_image(current, format)
           r == [ResultOf(format) EXCEPT
                   !.data = data, !.is_animated = animated_output,
                   !.frame_count = IF animated_output THEN plan.effective_pages ELSE Absent]
<1>2. Fail("Vips") \/ Return(r, "overlays") BY DEF Encode
<1>3. format = output_format(job.accept, tp, SeenSource) BY <1>1, AnsweredFormat
<1>4. format \in Encodable BY <1>1, <1>3, OutputEncodable DEF TextBody
<1>5. reported_format(job.accept, tp, SeenSource) = None BY <1>1 DEF reported_format
<1> HIDE DEF format
<1>6. IsImage(data) BY <1>1, <1>4, LatePicture, PictureIs, EncodedIs DEF Resizes
<1> HIDE DEF data
<1>7. /\ DOMAIN r = DOMAIN NoResult /\ r.data = data /\ r.format = format
      /\ r.reported = None
  BY DEF ResultOf, NoResult
<1> HIDE DEF r
<1>8. ~strict BY <1>1 DEF strict
<1> QED BY <1>1, <1>2, <1>3, <1>5, <1>6, <1>7, <1>8, FailHeld, ReturnHeld

\* THUMBHASH: the raster is as damaged as the image, and then cannot be read.
LEMMA AnswerThumbhashHeld ==
  ASSUME Held, IInv, AnswerThumbhash
  PROVE  Held'
<1>1. stage = "answer" /\ strict /\ tp.format = "thumbhash" /\ job \in Job
  BY DEF AnswerThumbhash, IInv, strict
<1>2. /\ IsPicture(current) /\ current.alpha = keeps_alpha(tp, job.source)
      /\ current.broken = (strict /\ job.source.damaged)
  BY <1>1, LatePicture DEF Resizes, AlphaAt
<1> DEFINE small == thumbhash_raster
           bytes == write_to_memory(small)
           rgba == rgba_from_bands(bytes, small.width, small.height, bands(small))
<1>3. HashRaster(small, bytes, rgba) BY DEF AnswerThumbhash
<1>4. Kept(current, small)
  <2> DEFINE opts == [height |-> MAX_SIDE, crop |-> "none", size |-> "down", no_rotate |-> TRUE]
  <2>1. opts.height \in Nat /\ opts.crop = "none" /\ MAX_SIDE \in Nat \ {0} BY DEF MAX_SIDE
  <2>2. small = thumbnail(current, MAX_SIDE, opts) BY DEF thumbhash_raster
  <2> HIDE DEF opts, small
  <2>3. Kept(current, thumbnail(current, MAX_SIDE, opts)) BY <1>2, <2>1, ThumbnailKeeps
  <2> QED BY <2>2, <2>3
<1> HIDE DEF small
<1>5. small.alpha \in BOOLEAN /\ small.broken = (strict /\ job.source.damaged)
  <2>1. small.alpha = keeps_alpha(tp, job.source) /\ small.broken = (strict /\ job.source.damaged)
    BY <1>2, <1>4 DEF Kept, SameLook
  <2>2. keeps_alpha(tp, job.source) \in BOOLEAN
    BY <1>1, JobTyped DEF keeps_alpha
  <2> QED BY <2>1, <2>2
<1>6. bytes # Absent => ~job.source.damaged BY <1>1, <1>5 DEF write_to_memory
<1> HIDE DEF bytes, rgba
<1>7. CASE \E error : Fail(error) BY <1>7, FailHeld
<1>8. ASSUME NEW hash \in Hashes(small, rgba), bytes # Absent, hash.error = "none",
             Return([ResultOf("thumbhash") EXCEPT !.length = to_base64(hash.length)], "overlays")
      PROVE  Held'
  <2> DEFINE r == [ResultOf("thumbhash") EXCEPT !.length = to_base64(hash.length)]
  <2>1. to_base64(hash.length) \in {24, 28, 32, 36}
    <3>1. PICK has_alpha \in {FALSE, small.alpha} :
            hash = encode(small.width, small.height, rgba.length, has_alpha)
      BY DEF Hashes
    <3>2. has_alpha \in BOOLEAN BY <1>5
    <3> QED BY <1>8, <3>1, <3>2, HashLength
  <2>2. /\ DOMAIN r = DOMAIN NoResult /\ r.data = NoImage /\ r.format = "thumbhash"
        /\ r.reported = None /\ r.length = to_base64(hash.length)
    BY DEF ResultOf, NoResult
  <2>3. Return(r, "overlays") BY <1>8
  <2>4. ~animated_output BY <1>1, AnimatedAsks
  <2>5. output_format(job.accept, tp, SeenSource) = "thumbhash"
    BY <1>1, <2>4, AnsweredFormat, FormatAssumption
    DEF negotiate_format, apply_compression_fast, Explicit
  <2>6. reported_format(job.accept, tp, SeenSource) = None BY <1>1 DEF reported_format
  <2> HIDE DEF r
  <2>7. IsImage(r.data) BY <2>2, NoImageIs
  <2> QED BY <1>1, <1>6, <1>8, <2>1, <2>2, <2>3, <2>5, <2>6, <2>7, ReturnHeld
<1> QED BY <1>3, <1>7, <1>8 DEF HashRaster

\* OVERLAYS: the response is encoded again, in the format that it had.
LEMMA DrawOverlaysHeld ==
  ASSUME Held, IInv, DrawOverlays
  PROVE  Held'
<1>1. stage = "overlays" /\ job \in Job BY DEF DrawOverlays, IInv
<1>2. /\ DOMAIN result = DOMAIN NoResult /\ IsImage(result.data)
      /\ result.format = output_format(job.accept, tp, SeenSource)
      /\ result.reported = reported_format(job.accept, tp, SeenSource)
      /\ strict => ~job.source.damaged /\ result.length \in {24, 28, 32, 36}
  BY <1>1 DEF Held, Answered
<1>3. CASE DrawsNothing
  <2>1. Return(result, "done") BY <1>1, <1>3 DEF DrawOverlays
  <2> QED BY <1>1, <1>2, <2>1, ReturnHeld
<1>4. CASE ~DrawsNothing
  <2> DEFINE data == encode_image(drawn_on(first_page(result.data)), result.format)
             r == [result EXCEPT !.data = data]
  <2>1. Fail("Vips") \/ Return(r, "done") BY <1>1, <1>4 DEF DrawOverlays
  <2>2. result.format \in Encodable
    BY <1>1, <1>2, <1>4, OutputEncodable DEF DrawsNothing, produces_text_body, TextBody
  <2>3. IsImage(data)
    <3>1. IsImage(first_page(result.data)) BY <1>2, FirstPageIs
    <3>2. Len(tp.draw) \in Nat BY <1>1, JobTyped DEF WellTyped, IsSequence
    <3>3. IsImage(drawn_on(first_page(result.data))) BY <3>1, <3>2, DrawnIs
    <3> QED BY <2>2, <3>3, EncodedIs
  <2> HIDE DEF data
  <2>4. /\ DOMAIN r = DOMAIN result /\ r.data = data /\ r.format = result.format
        /\ r.reported = result.reported /\ r.length = result.length
    BY <1>2 DEF NoResult
  <2> HIDE DEF r
  <2> QED BY <1>1, <1>2, <2>1, <2>3, <2>4, FailHeld, ReturnHeld
<1> QED BY <1>3, <1>4

-----------------------------------------------------------------------------
\* Where nothing changes, nothing is lost.
LEMMA StutterHeld ==
  ASSUME Held, UNCHANGED vars
  PROVE  Held'
<1>1. /\ stage' = stage /\ job' = job /\ current' = current /\ plan' = plan
      /\ reduced' = reduced /\ result' = result
  BY DEF vars
<1>2. /\ probed' = probed /\ PlanFor(probed)' = PlanFor(probed) /\ tp' = tp
      /\ strict' = strict /\ SeenSource' = SeenSource
  BY <1>1, SameJob
<1>3. Planned' BY <1>1, <1>2 DEF Held, Planned
<1>4. Images'
  <2>1. stage \in Unresized \cup Resizes => Found(stage, current, reduced)'
    <3>1. stage \in Unresized \cup Resizes => Found(stage, current, reduced) BY DEF Held, Images
    <3>2. Found(stage, current, reduced)' <=> Found(stage, current, reduced) BY <1>1, SamePlan
    <3> QED BY <3>1, <3>2
  <2> QED BY <1>1, <2>1 DEF Held, Images
<1>5. Answered'
  <2>1. output_format(job.accept, tp, SeenSource)' = output_format(job.accept, tp, SeenSource)
          /\ reported_format(job.accept, tp, SeenSource)' = reported_format(job.accept, tp, SeenSource)
    BY <1>1, <1>2
  <2> QED BY <1>1, <1>2, <2>1 DEF Held, Answered
<1> QED BY <1>3, <1>4, <1>5 DEF Held

\* Every step keeps what the stages rely on.
LEMMA HeldInductive == IInv /\ Held /\ [Next]_vars => Held'
<1> SUFFICES ASSUME IInv, Held, [Next]_vars PROVE Held'
  OBVIOUS
<1>1. job \in Job BY DEF IInv
<1>2. CASE Probe BY <1>1, <1>2, ProbeHeld
<1>3. CASE CheckBudget BY <1>3, CheckBudgetHeld
<1>4. CASE Reload BY <1>4, ReloadHeld
<1>5. CASE ExtractFrame BY <1>5, ExtractFrameHeld
<1>6. CASE Trim BY <1>6, TrimHeld
<1>7. CASE TrimSides BY <1>1, <1>7, TrimSidesHeld
<1>8. CASE RotateFlip BY <1>8, RotateFlipHeld
<1>9. CASE Resize BY <1>9, ResizeHeld
<1>10. CASE Pad BY <1>1, <1>10, PadHeld
<1>11. CASE Effects BY <1>1, <1>11, EffectsHeld
<1>12. CASE Background BY <1>1, <1>12, BackgroundHeld
<1>13. CASE Border BY <1>1, <1>13, BorderHeld
<1>14. CASE AnswerJson BY <1>14, AnswerJsonHeld
<1>15. CASE AnswerThumbhash BY <1>15, AnswerThumbhashHeld
<1>16. CASE Encode BY <1>16, EncodeHeld
<1>17. CASE DrawOverlays BY <1>17, DrawOverlaysHeld
<1>18. CASE UNCHANGED vars BY <1>18, StutterHeld
<1> QED
  BY <1>2, <1>3, <1>4, <1>5, <1>6, <1>7, <1>8, <1>9, <1>10, <1>11, <1>12, <1>13, <1>14, <1>15,
     <1>16, <1>17, <1>18
  DEF Next

\* Both invariants, of every behaviour.
LEMMA Invariants == Spec => [](IInv /\ Held)
BY InitIInv, IInvInductive, InitHeld, HeldInductive, PTL DEF Spec

\* Every value that the stages hand on has its type: an image with its fields, a plan
\* of a format that moves, a result (pipeline.rs:41-104).
THEOREM PipelineTyped == Spec => []TypeOK
<1>1. IInv /\ Held => TypeOK
  <2> SUFFICES ASSUME IInv, Held PROVE TypeOK OBVIOUS
  <2>1. stage \in Stage /\ reduced \in BOOLEAN BY DEF Held, Images
  <2>2. IsImage(current) BY NoImageIs, PictureIs DEF Held, Images
  <2>3. stage \notin {"probe", "failed"} => current # NoImage BY NotNoImage DEF Held, Images
  <2>4. plan.animated_format \in {None, "webp", "gif"}
    <3>1. plan = NoPlan \/ plan.animated_format = decided_format(probed)
      BY DEF Held, Planned, PlanFor
    <3> QED BY <3>1, AnimatedEncodable DEF NoPlan, decided_format
  <2>5. DOMAIN result = DOMAIN NoResult /\ IsImage(result.data) BY DEF Held, Answered
  <2> QED BY <2>1, <2>2, <2>3, <2>4, <2>5 DEF TypeOK
<1> QED BY <1>1, Invariants, PTL

\* INV-21, for every set of calls: a still that is answered shows every trim, turn and
\* flip that was asked for, and of the frames the one that was asked for or the last; a
\* resize that decodes the source again does so only where there is nothing to lose
\* (pipeline.rs:206-286, 758-768).
THEOREM EditsShown == Spec => []NoEditLost
<1>1. IInv /\ Held => NoEditLost
  <2> SUFFICES ASSUME IInv, Held, stage = "answer", ~animated_output
               PROVE  /\ Asked \subseteq current.edits
                      /\ reduced => Asked = {} /\ (tp.frame = None \/ ~is_animated)
                      /\ (current.frames # <<>> /\ ~reduced) => current.frames = <<FrameAsked>>
    BY DEF NoEditLost, FrameAsked
  <2>1. Found("answer", current, reduced) /\ job \in Job
    BY DEF Held, Images, Resizes, IInv
  <2>2. EditsAt("answer") = Asked /\ FrameAt("answer") = FrameAsked BY DEF EditsAt, FrameAt
  <2>3. ~reduced => current.frames \in {<<>>, <<FrameAsked>>} /\ Asked \subseteq current.edits
    BY <2>1, <2>2 DEF Found, Only
  <2>4. reduced => Asked = {} /\ tp.frame = None BY <2>1, ReadsNoEdits DEF Found
  <2> QED BY <2>3, <2>4
<1> QED BY <1>1, Invariants, PTL

\* For every call: the response has the format, and a json text reports the one, that
\* VariantCache computes of the request and the source alone, whatever the stages did to
\* the bands and pages of the image (pipeline.rs:178-188, 566-584, 621-633).
THEOREM FormatAsCached == Spec => []AsNegotiated
<1>1. Held => AsNegotiated BY DEF Held, Answered, AsNegotiated, SeenSource
<1> QED BY <1>1, Invariants, PTL

\* INV-18, INV-19, for every call: a hash is of 24 to 36 characters and of a source whose
\* pixels could all be decoded (pipeline.rs:602-619, 656-677, thumbhash.rs:26-130).
THEOREM HashesAreWhole == Spec => []HashIsWhole
<1>1. IInv /\ Held => HashIsWhole
  <2> SUFFICES ASSUME IInv, Held, result.format = "thumbhash"
               PROVE  ~job.source.damaged /\ result.length \in {24, 28, 32, 36}
    BY DEF HashIsWhole
  <2>1. stage \in {"overlays", "done"} BY FormatAssumption DEF Held, Answered
  <2>2. output_format(job.accept, tp, SeenSource) = "thumbhash" BY <2>1 DEF Held, Answered
  <2>3. tp.format \in TextBody BY <2>2, OutputEncodable DEF IInv, Encodable
  <2>4. tp.format # "json"
    <3> SUFFICES ASSUME tp.format = "json" PROVE FALSE OBVIOUS
    <3>1. animated_format(job.accept, tp, SeenSource) = None
      BY FormatAssumption DEF animated_format, negotiate_animated_format, Explicit, supports_animation
    <3>2. output_format(job.accept, tp, SeenSource) = "json"
      BY <3>1, FormatAssumption
      DEF output_format, static_format, negotiate_format, Explicit, apply_compression_fast
    <3> QED BY <2>2, <3>2
  <2>5. strict BY <2>3, <2>4 DEF TextBody, strict
  <2> QED BY <2>1, <2>5 DEF Held, Answered
<1> QED BY <1>1, Invariants, PTL

-----------------------------------------------------------------------------
\* The column of whole pages that the stages before the resize work on.
Column(image) ==
  /\ InPages(image, job.source.height, plan.effective_pages)
  /\ image.orientation = job.source.orientation /\ image.width = job.source.width
  /\ ~ActsOnStack => image.frames = FirstNumbers(plan.effective_pages)

\* What the resize may leave of it: its frames, of one height; or, where it covers a
\* box, frames of a row too many, or not all of them.
Framed(image) ==
  \/ tp.fit = "cover" /\ plan.effective_pages > MAX_JOINED
  \/ tp.fit = "cover" /\ image.height = plan.effective_pages * (effective_height(tp) + 1)
  \/ /\ image.frames = FirstNumbers(plan.effective_pages)
     /\ image.height = image.page_height * plan.effective_pages

\* A column that is turned on its side is none any more.
Sideways == tp.rotate \in {"90", "270"}

\* The stages that work on the column, and the resize among them.
Stacking == {"extract_frame", "trim", "trim_sides", "rotate_flip", "resize"}

\* What holds of the image that a stage hands on, beside its look.
Shape(next, image) ==
  /\ (next \in Stacking /\ animated_output /\ ~Sideways) => Column(image)
  /\ (next \in Resizes /\ animated_output /\ ~ActsOnStack /\ ~StackTooLong) => Framed(image)

\* A response in a file: its size is that of the image, a gif can be read, and an
\* animation shows its frames.
WholeFile(r) ==
  (/\ r.is_animated /\ ~ActsOnStack /\ ~StackTooLong
   /\ ~(tp.fit = "cover" /\ r.height = r.frame_count * (effective_height(tp) + 1))
   /\ ~(tp.fit = "cover" /\ r.frame_count > MAX_JOINED)) =>
    /\ r.frame_count = Least(job.source.pages, max_frames)
    /\ r.data.frames = FirstNumbers(r.frame_count)
    /\ r.data.n_pages = r.frame_count
    /\ r.data.page_height * r.frame_count = r.height

\* gifsave was given a page height that it can use.
GifReads(r) == r.format = "gif" => ~r.data.broken

\* What the overlays decode again is a picture of the size that was told.
Filed(r) ==
  r.format \notin TextBody =>
    IsPicture(r.data) /\ r.data.width = current.width /\ r.data.height = current.height

\* Why a call may fail at a stage.
Cause(error, failed) ==
  \/ error = "ExceedsMaxPixels" /\ failed = "check_budget" /\ Pixels(job.source) > max_pixels
  \/ error = "Vips" /\ CauseAt(failed)
  \/ error = "Thumbhash" /\ LooksPaged

\* What the stages agree about, with what each of them relies on.
Shaped ==
  /\ Shape(stage, current)
  /\ result.format # None => WholeFile(result) /\ GifReads(result)
  /\ stage = "overlays" => Filed(result)
  /\ stage = "failed" => Cause(result.error, result.failed)

\* The job and the plan do not change, nor what is said of an image.
LEMMA SameShape ==
  ASSUME job' = job, plan' = plan
  PROVE  /\ \A next, image : Shape(next, image)' <=> Shape(next, image)
         /\ \A r : (WholeFile(r)' <=> WholeFile(r)) /\ (GifReads(r)' <=> GifReads(r))
         /\ current' = current => \A r : Filed(r)' <=> Filed(r)
         /\ current' = current =>
              \A error, failed : Cause(error, failed)' <=> Cause(error, failed)
<1>1. tp' = tp /\ strict' = strict /\ animated_output' = animated_output
  BY SameJob, SamePlan
<1>2. ActsOnStack' <=> ActsOnStack BY <1>1 DEF ActsOnStack
<1>3. Sideways' <=> Sideways BY <1>1 DEF Sideways
<1>4. \A image : (Column(image)' <=> Column(image)) /\ (Framed(image)' <=> Framed(image))
  BY <1>1, <1>2 DEF Column, Framed
<1>9. StackTooLong' <=> StackTooLong BY <1>1 DEF StackTooLong
<1>5. \A next, image : Shape(next, image)' <=> Shape(next, image)
  BY <1>1, <1>2, <1>3, <1>4, <1>9 DEF Shape
<1>6. \A r : (WholeFile(r)' <=> WholeFile(r)) /\ (GifReads(r)' <=> GifReads(r))
  BY <1>1, <1>2, <1>9 DEF WholeFile, GifReads
<1>7. ASSUME current' = current PROVE \A r : Filed(r)' <=> Filed(r)
  BY <1>7 DEF Filed
<1>8. ASSUME current' = current
      PROVE  \A error, failed : Cause(error, failed)' <=> Cause(error, failed)
  <2>1. /\ TooLarge' <=> TooLarge
        /\ CutsTurnedStack' <=> CutsTurnedStack
        /\ HashOfDamage' <=> HashOfDamage
    BY <1>1, <1>8 DEF TooLarge, CutsTurnedStack, HashOfDamage
  <2>6. TrimsTooMuch' <=> TrimsTooMuch
    <3>1. /\ tp.trim_left' = tp.trim_left /\ tp.trim_top' = tp.trim_top
          /\ current.width' = current.width /\ current.height' = current.height
      BY <1>1, <1>8
    <3>2. /\ Resolved(tp.trim_left, current.width)' = Resolved(tp.trim_left, current.width)
          /\ Resolved(tp.trim_top, current.height)' = Resolved(tp.trim_top, current.height)
      BY <3>1 DEF Resolved
    <3> QED BY <3>1, <3>2 DEF TrimsTooMuch
  <2>2. OverlayTooWide' <=> OverlayTooWide BY <1>1, <1>8 DEF OverlayTooWide
  <2>3. LooksPaged' <=> LooksPaged BY <1>1, <1>8 DEF LooksPaged
  <2>4. \A failed : CauseAt(failed)' <=> CauseAt(failed)
    <3>1. /\ job.source' = job.source /\ job.overlay' = job.overlay
          /\ keeps_alpha(tp, job.source)' = keeps_alpha(tp, job.source)
      BY <1>1 DEF keeps_alpha
    <3> QED BY <1>9, <2>1, <2>2, <2>6, <3>1 DEF CauseAt
  <2>5. Pixels(job.source)' = Pixels(job.source) BY DEF Pixels
  <2> QED BY <2>3, <2>4, <2>5 DEF Cause
<1> QED BY <1>5, <1>6, <1>7, <1>8

\* At the start there is nothing to agree about.
LEMMA InitShaped == Init => Shaped
<1> SUFFICES ASSUME Init PROVE Shaped OBVIOUS
<1>1. stage = "probe" /\ result.format = None BY DEF Init, NoResult
<1> QED BY <1>1 DEF Shaped, Shape, Stacking, Resizes

\* An error has a cause.
LEMMA FailShaped ==
  ASSUME Shaped, NEW error, Fail(error), Cause(error, stage)
  PROVE  Shaped'
<1>1. /\ stage' = "failed" /\ job' = job /\ current' = current /\ plan' = plan
      /\ result'.error = error /\ result'.failed = stage /\ result'.format = None
  BY DEF Fail, NoResult
<1>2. \A failed : Cause(error, failed)' <=> Cause(error, failed) BY <1>1, SameShape
<1>3. Cause(result'.error, result'.failed) BY <1>1
<1>4. Cause(result.error, result.failed)' BY <1>1, <1>3, SameShape
<1> QED BY <1>1, <1>4 DEF Shaped, Shape, Stacking, Resizes

\* A stage hands an image on.
LEMMA AdvanceShaped ==
  ASSUME Held, Shaped, NEW image, NEW next, next \notin {"overlays", "failed"},
         Advance(image, next), stage \notin {"overlays", "done"}, plan' = plan,
         Shape(next, image)
  PROVE  Shaped'
<1>1. /\ stage' = next /\ job' = job /\ current' = image /\ result' = result
  BY DEF Advance
<1>2. Shape(next, image)' BY <1>1, SameShape
<1>3. result.format = None BY DEF Held, Answered
<1> QED BY <1>1, <1>2, <1>3 DEF Shaped

\* Such a stage, or its failure for a cause.
LEMMA TriedShaped ==
  ASSUME Held, Shaped, NEW image, NEW next, next \notin {"overlays", "failed"},
         Becomes(image, next), stage \notin {"overlays", "done"},
         image = NoImage => CauseAt(stage),
         image # NoImage => Shape(next, image)
  PROVE  Shaped'
<1>1. CASE Advance(image, next) /\ UNCHANGED <<plan, reduced>>
  <2>1. image # NoImage BY <1>1 DEF Advance
  <2> QED BY <1>1, <2>1, AdvanceShaped
<1>2. CASE image = NoImage /\ Fail("Vips")
  <2>1. Cause("Vips", stage) BY <1>2 DEF Cause
  <2> QED BY <1>2, <2>1, FailShaped
<1> QED BY <1>1, <1>2 DEF Becomes

\* A stage that does not fail.
LEMMA BecomesShaped ==
  ASSUME Held, Shaped, NEW image, NEW next, next \notin {"overlays", "failed"},
         Becomes(image, next), stage \notin {"overlays", "done"}, IsPicture(image),
         Shape(next, image)
  PROVE  Shaped'
<1>1. image # NoImage BY NotNoImage
<1> QED BY <1>1, TriedShaped

\* A load fails for what is not whole, or for a damaged source under a hash.
LEMMA LoadedShaped ==
  ASSUME Held, Shaped, NEW image, NEW next, next \notin {"overlays", "failed"},
         Loaded(image, next), stage \in {"probe", "reload", "extract_frame"},
         image = NoImage => CauseAt(stage),
         image # NoImage =>
           (image.broken => strict /\ job.source.damaged) /\ Shape(next, image)
  PROVE  Shaped'
<1>1. CASE Becomes(image, next) BY <1>1, TriedShaped
<1>2. CASE image.broken /\ Fail("Vips")
  <2>2. ~NoImage.broken BY DEF NoImage
  <2>1. Cause("Vips", stage) BY <1>2, <2>2 DEF Cause, CauseAt, HashOfDamage
  <2> QED BY <1>2, <2>1, FailShaped
<1> QED BY <1>1, <1>2 DEF Loaded

-----------------------------------------------------------------------------
\* PROBE.
LEMMA ProbeShaped ==
  ASSUME Held, IInv, Shaped, Probe
  PROVE  Shaped'
<1>1. stage = "probe" /\ Loaded(probed, "check_budget") /\ job \in Job
  BY DEF Probe, probed, IInv
<1>2. probed # NoImage => probed.broken = (strict /\ job.source.damaged)
  <2> SUFFICES ASSUME probed # NoImage PROVE probed.broken = (strict /\ job.source.damaged)
    OBVIOUS
  <2>1. job.source \in Readable BY <1>1, Unread, JobTyped DEF probed, Readable
  <2> QED BY <1>1, <2>1, JobTyped, Decoded DEF probed
<1>3. Shape("check_budget", probed) BY DEF Shape, Stacking, Resizes
<1>4. probed = NoImage => CauseAt(stage)
  <2> SUFFICES ASSUME probed = NoImage PROVE ~job.source.readable BY <1>1 DEF CauseAt
  <2> SUFFICES ASSUME job.source.readable PROVE FALSE BY <1>1, JobTyped
  <2>1. job.source \in Readable BY <1>1, JobTyped DEF Readable
  <2>2. IsPicture(probed) BY <1>1, <2>1, JobTyped, Decoded DEF probed
  <2> QED BY <2>2, NotNoImage
<1> QED BY <1>1, <1>2, <1>3, <1>4, LoadedShaped

\* CHECK BUDGET: what is refused is over the budget.
LEMMA CheckBudgetShaped ==
  ASSUME Held, IInv, Shaped, CheckBudget
  PROVE  Shaped'
<1>1. stage = "check_budget" /\ current = probed /\ job \in Job
  BY DEF CheckBudget, IInv, probed
<1>2. CASE current.width * current.height > max_pixels /\ Fail("ExceedsMaxPixels")
  <2>1. current.width = job.source.width /\ current.height = job.source.height
    BY <1>1, SourceReadable, JobTyped, Decoded DEF probed
  <2>2. Cause("ExceedsMaxPixels", stage) BY <1>1, <1>2, <2>1 DEF Cause, Pixels
  <2> QED BY <1>2, <2>2, FailShaped
<1>3. CASE Advance(current, "reload")
  <2>1. stage' = "reload" /\ result' = result BY <1>3 DEF Advance
  <2>2. result.format = None BY <1>1 DEF Held, Answered
  <2> QED BY <2>1, <2>2 DEF Shaped, Shape, Stacking, Resizes
<1> QED BY <1>2, <1>3 DEF CheckBudget

\* RELOAD: an animation is a column of the pages that were planned.
LEMMA ReloadShaped ==
  ASSUME Held, IInv, Shaped, Reload
  PROVE  Shaped'
<1>1. stage = "reload" /\ current = probed /\ job \in Job BY DEF Reload, IInv, probed
<1>2. CASE ~animated_output
  <2>1. Becomes(current, "extract_frame") BY <1>1, <1>2 DEF Reload
  <2>2. IsPicture(current) BY <1>1 DEF Held, Images
  <2>3. Shape("extract_frame", current) BY <1>2 DEF Shape
  <2> QED BY <1>1, <2>1, <2>2, <2>3, BecomesShaped
<1>3. CASE animated_output
  <2> DEFINE n == IF plan.effective_pages < plan.n_pages THEN plan.effective_pages ELSE -1
             image == from_buffer_animated(job.source, n, strict)
             m == plan.effective_pages
  <2>1. Loaded(image, "extract_frame") BY <1>1, <1>3 DEF Reload
  <2>2. /\ plan.n_pages = job.source.pages /\ m = Least(plan.n_pages, max_frames)
        /\ m \in Nat \ {0} /\ plan.n_pages \in Nat \ {0}
    BY <1>3, AnimatedPages
  <2>3. StackedPages(job.source, n) = m
    <3>1. max_frames \in Nat \ {0} BY <1>1, JobTyped
    <3> QED BY <2>2, <3>1 DEF StackedPages, Least
  <2>4. job.source \in Source /\ strict \in BOOLEAN /\ job.source.height \in Nat \ {0}
    BY <1>1, JobTyped
  <2> HIDE DEF n, m
  <2>5. job.source.stackable => IsStack(image, job.source, m, strict)
    BY <2>2, <2>3, <2>4, DecodedStack
  <2>9. image # NoImage => job.source.stackable BY Unread
  <2> HIDE DEF image
  <2>6. job.source.stackable => Column(image)
    BY <2>2, <2>4, <2>5 DEF IsStack, Column, InPages, FirstNumbers, m
  <2>7. image # NoImage => Shape("extract_frame", image)
    BY <2>6, <2>9 DEF Shape, Stacking, Resizes
  <2>8. image # NoImage => image.broken = (strict /\ job.source.damaged)
    BY <2>5, <2>9 DEF IsStack
  <2>10. image = NoImage => CauseAt(stage)
    <3>1. job.source.stackable => image # NoImage BY <2>5, NotNoImage DEF IsStack
    <3> QED BY <1>1, <3>1 DEF CauseAt
  <2> QED BY <1>1, <2>1, <2>7, <2>8, <2>10, LoadedShaped
<1> QED BY <1>2, <1>3

\* EXTRACT FRAME: the frame lies in the stack.
LEMMA ExtractFrameShaped ==
  ASSUME Held, IInv, Shaped, ExtractFrame
  PROVE  Shaped'
<1>1. stage = "extract_frame" /\ job \in Job BY DEF ExtractFrame, IInv
<1>2. IsPicture(current) BY <1>1 DEF Held, Images
<1>3. plan = PlanFor(probed) BY <1>1 DEF Held, Planned
<1>4. plan.n_pages = job.source.pages
  BY <1>1, <1>3, SourceReadable, JobTyped, Decoded DEF probed, PlanFor, n_pages_of
<1>7. CASE tp.frame # None /\ is_animated /\ ~job.source.stackable
  <2> DEFINE image == crop(NoImage, 0, safe_frame(tp.frame, plan.n_pages) * NoImage.page_height,
                           NoImage.width, NoImage.page_height)
  <2>1. image = NoImage BY DEF crop, NoImage
  <2>2. from_buffer_animated(job.source, -1, strict) = NoImage
    BY <1>7 DEF from_buffer_animated
  <2> HIDE DEF image
  <2>3. Loaded(image, "trim") BY <1>1, <1>7, <2>2 DEF ExtractFrame, image
  <2>4. Fail("Vips") BY <2>1, <2>3 DEF Loaded, Becomes, Advance
  <2>5. Cause("Vips", stage) BY <1>1, <1>7 DEF Cause, CauseAt
  <2> QED BY <2>4, <2>5, FailShaped
<1>5. CASE ~(tp.frame # None /\ is_animated)
  <2>1. Becomes(current, "trim") BY <1>1, <1>5 DEF ExtractFrame
  <2>2. Shape("trim", current) BY <1>1 DEF Shaped, Shape, Stacking, Resizes
  <2> QED BY <1>1, <1>2, <2>1, <2>2, BecomesShaped
<1>6. CASE tp.frame # None /\ is_animated /\ job.source.stackable
  <2> DEFINE pages == job.source.pages
             page == job.source.height
             stack == from_buffer_animated(job.source, -1, strict)
             k == safe_frame(tp.frame, pages)
             image == crop(stack, 0, k * page, stack.width, page)
  <2>1. pages \in Nat \ {0} /\ pages > 1 /\ page \in Nat \ {0} /\ strict \in BOOLEAN
          /\ job.source \in Source
    BY <1>1, <1>4, <1>6, JobTyped DEF is_animated
  <2>2. ~animated_output BY <1>6, AnimatedAsks
  <2>3. tp.frame \in Nat
    <3>1. WellTyped(tp) BY <1>1, JobTyped
    <3> QED BY <1>6, <3>1 DEF WellTyped, WholeNumber
  <2>4. k \in 0..(pages - 1) BY <2>1, <2>3 DEF safe_frame
  <2>5. IsStack(stack, job.source, pages, strict)
    BY <1>6, <2>1, DecodedStack DEF StackedPages
  <2>6. Loaded(image, "trim")
    <3>1. stack.page_height = page BY <2>5 DEF IsStack
    <3> HIDE DEF stack
    <3> QED BY <1>1, <1>4, <1>6, <3>1 DEF ExtractFrame, stack
  <2> HIDE DEF stack, pages, k
  <2>7. IsPicture(stack) /\ stack.width \in Nat \ {0} /\ stack.height = page * pages
          /\ stack.broken = (strict /\ job.source.damaged)
    BY <2>5 DEF IsStack, IsPicture
  <2>8. k * page \in Nat /\ k * page + page <= stack.height
    <3> HIDE DEF page
    <3>1. (k + 1) * page <= pages * page BY <2>1, <2>4, ProductsOrdered
    <3>2. (k + 1) * page = k * page + page /\ pages * page = page * pages BY <2>1, <2>4
    <3>3. k * page \in Nat /\ page * pages \in Nat BY <2>1, <2>4
    <3> QED BY <2>7, <3>1, <3>2, <3>3
  <2> DEFINE row == k * page
  <2>9. image = crop(stack, 0, row, stack.width, page) OBVIOUS
  <2> HIDE DEF image, row, page
  <2>10. Inside(stack, 0, row, stack.width, page)
    BY <2>1, <2>7, <2>8 DEF Inside, row, page
  <2>11. Kept(stack, image) BY <2>1, <2>7, <2>8, <2>9, <2>10, CropKeeps DEF row
  <2>12. IsPicture(image) /\ image.broken = (strict /\ job.source.damaged)
    BY <2>7, <2>11 DEF Kept, SameLook
  <2>13. Shape("trim", image) BY <2>2 DEF Shape
  <2>14. image # NoImage BY <2>12, NotNoImage
  <2> QED BY <1>1, <2>6, <2>12, <2>13, <2>14, LoadedShaped
<1> QED BY <1>5, <1>6, <1>7

\* A stage that leaves an animation as it is.
LEMMA KeepsShape ==
  ASSUME Held, Shaped, stage \in Stacking, NEW next \in Stacking
  PROVE  Shape(next, current)
BY DEF Shaped, Shape, Stacking, Resizes

\* TRIM: it fails for the damage only, the box lies in the image.
LEMMA TrimShaped ==
  ASSUME Held, IInv, Shaped, Trim
  PROVE  Shaped'
<1>1. stage = "trim" BY DEF Trim
<1>2. IsPicture(current) /\ current.broken = (strict /\ job.source.damaged)
  BY <1>1, NotReduced DEF Unresized, Found
<1>3. CASE tp.trim = None \/ animated_output
  <2>1. Becomes(current, "trim_sides") BY <1>1, <1>3 DEF Trim
  <2>2. Shape("trim_sides", current) BY <1>1, KeepsShape DEF Stacking
  <2> QED BY <1>1, <1>2, <2>1, <2>2, BecomesShaped
<1>4. CASE current.broken /\ Fail("Vips")
  <2>1. Cause("Vips", stage) BY <1>1, <1>2, <1>4 DEF Cause, CauseAt, HashOfDamage
  <2> QED BY <1>4, <2>1, FailShaped
<1>5. ASSUME NEW box \in find_trim(current), ~animated_output,
             Becomes(With({"trim"}, IF box[3] > 0 /\ box[4] > 0
                                    THEN crop(current, box[1], box[2], box[3], box[4])
                                    ELSE current), "trim_sides")
      PROVE  Shaped'
  <2> DEFINE cut == IF box[3] > 0 /\ box[4] > 0
                    THEN crop(current, box[1], box[2], box[3], box[4])
                    ELSE current
             image == With({"trim"}, cut)
  <2>1. IsPicture(cut) BY <1>2, TrimBox DEF Edited
  <2>2. Becomes(image, "trim_sides") BY <1>5
  <2> HIDE DEF cut
  <2>3. IsPicture(image) BY <2>1, WithEdits DEF Edited
  <2>4. Shape("trim_sides", image) BY <1>5 DEF Shape
  <2> HIDE DEF image
  <2> QED BY <1>1, <2>2, <2>3, <2>4, BecomesShaped
<1> QED BY <1>1, <1>3, <1>4, <1>5 DEF Trim

-----------------------------------------------------------------------------
\* What is trimmed off a side is nothing below zero, and no more than the side.
LEMMA ResolvedWithin ==
  ASSUME NEW v \in Nat \cup {None}, NEW side \in Nat
  PROVE  Resolved(v, side) \subseteq 0..side
<1>1. CASE v = None BY <1>1 DEF Resolved
<1>2. CASE v # None
  <2>1. v \in Nat /\ v * side \in Nat BY <1>2
  <2>2. Nearest(v * side, 1000) \subseteq Nat /\ Nearest(v, 1000) \subseteq Nat
    BY <2>1, RintWhole
  <2> QED BY <1>2, <2>1, <2>2 DEF Resolved, Least
<1> QED BY <1>1, <1>2

\* validate() lets no negative trim pass.
LEMMA TrimsTyped ==
  ASSUME job \in Job
  PROVE  \A f \in {"trim_top", "trim_right", "trim_bottom", "trim_left"} :
           tp[f] \in Nat \cup {None}
<1>1. WellTyped(tp) /\ validate(tp) BY JobTyped
<1>2. \A f \in {"trim_top", "trim_right", "trim_bottom", "trim_left"} :
        tp[f] \in Int \cup {None} /\ ~Negative(tp[f])
  BY <1>1 DEF WellTyped, OneDecimal, validate
<1> QED BY <1>2, NumberAssumption DEF Negative

\* TRIM SIDES: it fails only where the left or the upper trim takes the whole side.
LEMMA TrimSidesShaped ==
  ASSUME Held, IInv, Shaped, TrimSides
  PROVE  Shaped'
<1>1. stage = "trim_sides" /\ job \in Job BY DEF TrimSides, IInv
<1>2. IsPicture(current) BY <1>1 DEF Held, Images
<1> DEFINE Sides == {"trim_top", "trim_right", "trim_bottom", "trim_left"}
           w == current.width
           h == current.height
<1>3. w \in Nat \ {0} /\ h \in Nat \ {0} BY <1>2 DEF IsPicture
<1>4. CASE animated_output \/ \A f \in Sides : tp[f] = None
  <2>1. Becomes(current, "rotate_flip") BY <1>1, <1>4 DEF TrimSides
  <2>2. Shape("rotate_flip", current) BY <1>1, KeepsShape DEF Stacking
  <2> QED BY <1>1, <1>2, <2>1, <2>2, BecomesShaped
<1>5. ASSUME ~animated_output,
             NEW top \in Resolved(tp.trim_top, h), NEW bottom \in Resolved(tp.trim_bottom, h),
             NEW left \in Resolved(tp.trim_left, w), NEW right \in Resolved(tp.trim_right, w),
             LET cut == crop(current, left, top, AtLeast1(w - left - right),
                             AtLeast1(h - top - bottom))
             IN Becomes(IF cut = NoImage THEN cut
                        ELSE With(IF trims_a_side(tp) THEN {"sides"} ELSE {}, cut),
                        "rotate_flip")
      PROVE  Shaped'
  <2> DEFINE width == AtLeast1(w - left - right)
             height == AtLeast1(h - top - bottom)
             cut == crop(current, left, top, width, height)
             edits == IF trims_a_side(tp) THEN {"sides"} ELSE {}
             image == With(edits, cut)
  <2>1. /\ top \in Nat /\ bottom \in Nat /\ left \in Nat /\ right \in Nat
        /\ left <= w /\ top <= h
    <3>1. /\ tp.trim_top \in Nat \cup {None} /\ tp.trim_bottom \in Nat \cup {None}
          /\ tp.trim_left \in Nat \cup {None} /\ tp.trim_right \in Nat \cup {None}
      BY <1>1, TrimsTyped
    <3>2. w \in Nat /\ h \in Nat BY <1>3
    <3> HIDE DEF w, h
    <3>3. Resolved(tp.trim_top, h) \subseteq 0..h /\ Resolved(tp.trim_bottom, h) \subseteq 0..h
      BY <3>1, <3>2, ResolvedWithin
    <3>4. Resolved(tp.trim_left, w) \subseteq 0..w /\ Resolved(tp.trim_right, w) \subseteq 0..w
      BY <3>1, <3>2, ResolvedWithin
    <3>5. top \in 0..h /\ bottom \in 0..h /\ left \in 0..w /\ right \in 0..w
      BY <3>3, <3>4
    <3> QED BY <3>2, <3>5
  <2>2. width \in Nat \ {0} /\ height \in Nat \ {0} BY <1>3, <2>1 DEF AtLeast1
  <2>3. left # w => left + width <= w BY <1>3, <2>1 DEF AtLeast1
  <2>4. top # h => top + height <= h BY <1>3, <2>1 DEF AtLeast1
  <2>5. Becomes(IF cut = NoImage THEN cut ELSE image, "rotate_flip") BY <1>5
  <2> HIDE DEF width, height, image
  <2>6. CASE cut # NoImage
    <3>1. IsPicture(cut) BY <1>2, <2>1, <2>2, <2>6, CropKeeps DEF Kept
    <3> HIDE DEF cut
    <3>2. IsPicture(image) BY <3>1, WithEdits DEF Edited, image
    <3>3. Shape("rotate_flip", image) BY <1>5 DEF Shape
    <3> QED BY <1>1, <2>5, <2>6, <3>2, <3>3, BecomesShaped
  <2>7. CASE cut = NoImage
    <3>1. ~Inside(current, left, top, width, height)
      <4> SUFFICES ASSUME Inside(current, left, top, width, height) PROVE FALSE OBVIOUS
      <4>1. IsPicture(cut) BY <1>2, <2>1, <2>2, CropKeeps DEF Kept
      <4> QED BY <2>7, <4>1, NotNoImage
    <3>2. left = w \/ top = h BY <1>3, <2>1, <2>2, <2>3, <2>4, <3>1 DEF Inside
    <3>3. TrimsTooMuch BY <1>5, <3>2 DEF TrimsTooMuch
    <3>4. Cause("Vips", stage) BY <1>1, <3>3 DEF Cause, CauseAt
    <3>5. Fail("Vips") BY <2>5, <2>7 DEF Becomes, Advance
    <3> QED BY <3>4, <3>5, FailShaped
  <2> QED BY <2>6, <2>7
<1>6. ASSUME ~(animated_output \/ \A f \in Sides : tp[f] = None) PROVE Shaped'
  <2>1. PICK top \in Resolved(tp.trim_top, h), bottom \in Resolved(tp.trim_bottom, h),
             left \in Resolved(tp.trim_left, w), right \in Resolved(tp.trim_right, w) :
          LET cut == crop(current, left, top, AtLeast1(w - left - right),
                          AtLeast1(h - top - bottom))
          IN Becomes(IF cut = NoImage THEN cut
                     ELSE With(IF trims_a_side(tp) THEN {"sides"} ELSE {}, cut),
                     "rotate_flip")
    BY <1>1, <1>6 DEF TrimSides
  <2> QED BY <1>5, <1>6, <2>1
<1> QED BY <1>4, <1>6

\* The turns that an option may ask for.
LEMMA Rotations ==
  ASSUME job \in Job
  PROVE  tp.rotate \in {None, "0", "90", "180", "270"}
<1>1. WellTyped(tp) BY JobTyped
<1>2. <<"rotate", RotationWords>> \in WordTables BY DEF WordTables
<1>3. tp.rotate \in Meanings(RotationWords) \cup {None} BY <1>1, <1>2 DEF WellTyped
<1> QED BY <1>3 DEF Meanings, RotationWords

\* A column upside down, or mirrored, is a column of as many pages.
SameColumn(a, b) ==
  /\ DOMAIN b = DOMAIN a /\ b.width = a.width /\ b.height = a.height
  /\ b.page_height = a.page_height /\ b.orientation = a.orientation

\* A column stays one where no size is changed.
LEMMA ColumnKept ==
  ASSUME NEW a, NEW b, Column(a), SameColumn(a, b),
         ActsOnStack \/ b.frames = a.frames
  PROVE  Column(b)
BY DEF Column, InPages, IsPicture, SameColumn

\* ROTATE/FLIP: it never fails, and what is not turned on its side stays a column.
LEMMA RotateFlipShaped ==
  ASSUME Held, IInv, Shaped, RotateFlip
  PROVE  Shaped'
<1>1. stage = "rotate_flip" /\ job \in Job BY DEF RotateFlip, IInv
<1>2. IsPicture(current) BY <1>1 DEF Held, Images
<1> DEFINE turned == Rotated(current, tp.rotate)
           across == IF tp.flip \in {"h", "hv"}
                     THEN With({"flip h"}, flip(turned, "horizontal")) ELSE turned
           image == IF tp.flip \in {"v", "hv"}
                    THEN With({"flip v"}, flip(across, "vertical")) ELSE across
<1>3. Becomes(image, "resize") BY <1>1 DEF RotateFlip, Flipped
<1>4. IsPicture(turned) BY <1>2, RotatedEdits DEF Edited
<1>5. ~Sideways => /\ SameColumn(current, turned)
                   /\ ActsOnStack \/ turned.frames = current.frames
  <2>1. CASE tp.rotate \in {None, "0"} BY <2>1 DEF Rotated, SameColumn
  <2>2. CASE tp.rotate = "180" /\ None # "180"
    <3> DEFINE a == [current EXCEPT !.frames = Reverse(@)]
    <3>1. turned = With({"rotate"}, a) BY <2>2 DEF Rotated, rot
    <3>2. SameColumn(current, a) BY <1>2, FieldsTold DEF SameColumn, IsPicture, Fields
    <3>3. DOMAIN a = Fields BY <1>2, <3>2, FieldsTold DEF IsPicture, SameColumn
    <3> HIDE DEF a
    <3>4. SameColumn(a, With({"rotate"}, a)) BY <3>3 DEF With, SameColumn, Fields
    <3> HIDE DEF turned
    <3>5. ActsOnStack BY <2>2 DEF ActsOnStack
    <3> QED BY <3>1, <3>2, <3>4, <3>5 DEF SameColumn
  <2> QED BY <1>1, <2>1, <2>2, Rotations DEF Sideways
<1> HIDE DEF turned
<1>6. IsPicture(across) /\ SameColumn(turned, across) /\ across.frames = turned.frames
  BY <1>4, FieldsTold DEF With, flip, SameColumn, IsPicture, Fields
<1> HIDE DEF across
<1>7. /\ IsPicture(image) /\ SameColumn(across, image)
      /\ ActsOnStack \/ image.frames = across.frames
  <2>1. CASE tp.flip \in {"v", "hv"}
    <3> DEFINE a == [across EXCEPT !.frames = Reverse(@)]
    <3>1. image = With({"flip v"}, a) BY <2>1 DEF flip
    <3>2. SameColumn(across, a) BY <1>6, FieldsTold DEF SameColumn, IsPicture, Fields
    <3>3. DOMAIN a = Fields BY <1>6, <3>2, FieldsTold DEF IsPicture, SameColumn
    <3> HIDE DEF a
    <3>4. SameColumn(a, With({"flip v"}, a)) BY <3>3 DEF With, SameColumn, Fields
    <3> HIDE DEF image
    <3>5. ActsOnStack BY <2>1 DEF ActsOnStack
    <3> QED BY <1>6, <3>1, <3>2, <3>4, <3>5 DEF SameColumn, IsPicture
  <2>2. CASE tp.flip \notin {"v", "hv"} BY <1>6, <2>2 DEF SameColumn
  <2> QED BY <2>1, <2>2
<1> HIDE DEF image
<1>8. Shape("resize", image)
  <2> SUFFICES ASSUME animated_output, ~Sideways PROVE Column(image)
    BY DEF Shape, Stacking, Resizes
  <2>1. Column(current) BY <1>1 DEF Shaped, Shape, Stacking
  <2> QED BY <1>5, <1>6, <1>7, <2>1, ColumnKept
<1> QED BY <1>1, <1>3, <1>7, <1>8, BecomesShaped

-----------------------------------------------------------------------------
\* A side is asked for where the option is given.
LEMMA SidesAskedFor ==
  ASSUME job \in Job
  PROVE  /\ (effective_width(tp) = None) <=> (tp.width = None)
         /\ (effective_height(tp) = None) <=> (tp.height = None)
<1>1. /\ tp.dpr \in Int /\ tp.width \in Nat \cup {None} /\ tp.height \in Nat \cup {None}
  BY JobTyped DEF WellTyped, WholeNumber, OneDecimal
<1>2. ASSUME NEW side \in Nat, NEW dpr \in Int PROVE Effective(side, dpr) # None
  <2>1. side # None BY NumberAssumption
  <2>2. side * dpr \in Int OBVIOUS
  <2>3. (side * dpr) \div 1000 \in Int BY <2>2
  <2>4. Least((side * dpr) \div 1000, 8192) \in Int BY <2>3 DEF Least
  <2> DEFINE n == Least((side * dpr) \div 1000, 8192)
  <2>5. n # None BY <2>4, NumberAssumption
  <2>6. Effective(side, dpr) = n BY <2>1 DEF Effective
  <2> HIDE DEF n
  <2> QED BY <2>5, <2>6
<1>3. \A dpr : Effective(None, dpr) = None BY DEF Effective
<1> QED BY <1>1, <1>2, <1>3 DEF effective_width, effective_height

\* An animation that is left upright is a column of all its frames before the resize.
LEMMA UprightColumn ==
  ASSUME Held, IInv, Shaped, stage = "resize", animated_output, ~Sideways
  PROVE  /\ InPages(current, job.source.height, plan.effective_pages)
         /\ Turns(current) <=> Turns(job.source)
         /\ Overturned(current) <=> Overturned(job.source)
         /\ current.width = job.source.width
         /\ ~ActsOnStack => current.frames = FirstNumbers(plan.effective_pages)
BY DEF Shaped, Shape, Stacking, Column, Turns, Overturned

\* Options that do not act on the stack turn nothing.
LEMMA NotSideways ==
  ASSUME IInv, ~ActsOnStack
  PROVE  ~Sideways
<1>1. tp.rotate \in {None, "0"} BY DEF ActsOnStack
<1>2. <<"rotate", RotationWords>> \in WordTables BY DEF WordTables
<1>3. None \notin Meanings(RotationWords) BY <1>2, WordAssumption
<1>4. \A e \in RotationWords : e[2] \in Meanings(RotationWords) BY DEF Meanings
<1>5. <<"90", "90">> \in RotationWords /\ <<"270", "270">> \in RotationWords
  BY DEF RotationWords
<1>6. "90" \in Meanings(RotationWords) /\ "270" \in Meanings(RotationWords) BY <1>4, <1>5
<1> QED BY <1>1, <1>3, <1>6 DEF Sideways

\* A column that is not too long is in the range of libvips at every size.
LEMMA StackInRange ==
  ASSUME job \in Job, animated_output, tp.fit = "cover", ~StackTooLong,
         plan.effective_pages \in Nat \ {0},
         effective_width(tp) \in BoxSide, effective_height(tp) \in BoxSide,
         NEW size \in CoverSizes(job.source.width, job.source.height,
                                 effective_width(tp), effective_height(tp))
  PROVE  size[1] <= MAX_COORD /\ size[2] <= MAX_COORD \div plan.effective_pages
<1> DEFINE W == job.source.width
           H == job.source.height
           tw == effective_width(tp)
           th == effective_height(tp)
           m == plan.effective_pages
           scale == LargerOf(<<tw, W>>, <<th, H>>)
<1>1. tw # None /\ th # None BY NumberAssumption DEF BoxSide
<1>2. ~(size[1] > MAX_COORD \/ size[2] > MAX_COORD \div m) BY <1>1 DEF StackTooLong
<1>3. W \in Nat \ {0} /\ H \in Nat \ {0} /\ tw \in Nat \ {0} /\ th \in Nat \ {0}
  BY JobTyped DEF BoxSide
<1>4. MAX_COORD \in Nat /\ MAX_COORD \div m \in Int BY Quotient DEF MAX_COORD
<1>5. size \in Ceiling(W * scale[1], scale[2]) \X Ceiling(H * scale[1], scale[2])
  BY DEF CoverSizes
<1> HIDE DEF W, H, tw, th, scale, m
<1>6. size[1] \in Ceiling(W * scale[1], scale[2]) /\ size[2] \in Ceiling(H * scale[1], scale[2])
  BY <1>5
<1>7. size[1] \in Nat /\ size[2] \in Nat BY <1>3, <1>6, ScaleCovers DEF scale
<1> QED BY <1>2, <1>4, <1>7 DEF m

\* Frames that cover a box: cut of a column that was turned or is too long they may be
\* none, else they are whole, or for one of the reasons that Framed names.
LEMMA CoverShaped ==
  ASSUME Held, IInv, Shaped, stage = "resize", animated_output, tp.fit = "cover",
         effective_width(tp) \in BoxSide, effective_height(tp) \in BoxSide,
         NEW o \in AnimatedCover(current, plan.effective_pages,
                                 effective_width(tp), effective_height(tp))
  PROVE  /\ o.image = NoImage => CutsTurnedStack \/ StackTooLong
         /\ Shape("pad", o.image)
<1> DEFINE m == plan.effective_pages
           tw == effective_width(tp)
           th == effective_height(tp)
<1>1. ASSUME ~Sideways, ~Turns(job.source), ~StackTooLong
      PROVE  /\ IsPicture(o.image)
             /\ (~ActsOnStack /\ m <= MAX_JOINED) =>
                  /\ o.image.frames = FirstNumbers(m) /\ o.image.page_height = th
                  /\ o.image.height \in {m * th, m * (th + 1)}
  <2>1. /\ InPages(current, job.source.height, m) /\ ~Turns(current)
        /\ Overturned(current) <=> Overturned(job.source)
        /\ ~ActsOnStack => current.frames = FirstNumbers(m)
        /\ current.width = job.source.width
    BY <1>1, UprightColumn
  <2>2. ~ActsOnStack => ~Overturned(job.source)
    <3>1. effective_width(tp) # None BY NumberAssumption DEF BoxSide
    <3>2. tp.width # None BY <3>1, SidesAskedFor DEF IInv
    <3> QED BY <3>2 DEF ActsOnStack
  <2>3. o \in AnimatedCover(current, m, tw, th) OBVIOUS
  <2>4. tw \in BoxSide /\ th \in BoxSide OBVIOUS
  <2> DEFINE page == job.source.height
  <2>7. \A size \in CoverSizes(current.width, page, tw, th) :
          size[1] <= MAX_COORD /\ size[2] <= MAX_COORD \div m
    <3>1. m \in Nat \ {0} BY AnimatedPages
    <3>2. job \in Job BY DEF IInv
    <3> QED BY <1>1, <2>1, <3>1, <3>2, StackInRange
  <2> HIDE DEF m, tw, th, page
  <2>5. InPages(current, page, m) BY <2>1 DEF page
  <2>6. /\ IsPicture(o.image)
        /\ (current.frames = FirstNumbers(m) /\ ~Overturned(current) /\ m <= MAX_JOINED) =>
             /\ o.image.frames = FirstNumbers(m) /\ o.image.page_height = th
             /\ o.image.height \in {m * th, m * (th + 1)}
    BY <2>1, <2>3, <2>4, <2>5, <2>7, CoverWhole
  <2> QED BY <2>1, <2>2, <2>6
<1>2. o.image = NoImage => CutsTurnedStack \/ StackTooLong
  BY <1>1, NotNoImage DEF CutsTurnedStack, Sideways
<1>3. ASSUME ~ActsOnStack, ~StackTooLong PROVE Framed(o.image)
  <2>1. ~Sideways BY <1>3, NotSideways
  <2>2. ~Turns(job.source)
    <3>1. effective_width(tp) # None BY NumberAssumption DEF BoxSide
    <3>2. tp.width # None BY <3>1, SidesAskedFor DEF IInv
    <3> QED BY <1>3, <3>2 DEF ActsOnStack
  <2>3. m \in Nat \ {0} BY AnimatedPages
  <2>4. th \in Int BY DEF BoxSide
  <2>5. CASE m > MAX_JOINED BY <2>5 DEF Framed
  <2>6. CASE ~(m > MAX_JOINED)
    <3>1. m <= MAX_JOINED BY <2>3, <2>6 DEF MAX_JOINED
    <3>2. /\ o.image.frames = FirstNumbers(m) /\ o.image.page_height = th
          /\ o.image.height \in {m * th, m * (th + 1)}
      BY <1>1, <1>3, <2>1, <2>2, <3>1
    <3>3. m * th = th * m BY <2>3, <2>4
    <3> QED BY <3>2, <3>3 DEF Framed
  <2> QED BY <2>5, <2>6
<1>4. "pad" \notin Stacking BY DEF Stacking
<1> QED BY <1>2, <1>3, <1>4 DEF Shape

\* Fitted to a box without a crop, they are whole.
LEMMA PlainShaped ==
  ASSUME Held, IInv, Shaped, stage = "resize", animated_output, ~ActsOnStack,
         effective_width(tp) \in BoxSide \cup {None},
         effective_height(tp) \in BoxSide \cup {None},
         effective_width(tp) # None \/ effective_height(tp) # None,
         tp.fit # "cover",
         NEW o \in PlainResize(current, None, tp, TRUE, plan.effective_pages)
  PROVE  Framed(o.image)
<1> DEFINE m == plan.effective_pages
           page == job.source.height
           options == tp
<1>1. ~Sideways BY NotSideways
<1>2. /\ InPages(current, page, m) /\ (Turns(current) <=> Turns(job.source))
      /\ (Overturned(current) <=> Overturned(job.source))
      /\ current.frames = FirstNumbers(m)
  BY <1>1, UprightColumn
<1>3. tp.width # None \/ tp.height # None BY SidesAskedFor DEF IInv
<1>4. ~Turns(current) /\ ~Overturned(current) /\ tp.fit \notin {"crop", "aspect-crop"}
  BY <1>2, <1>3 DEF ActsOnStack
<1>5. /\ effective_width(options) \in BoxSide \cup {None}
      /\ effective_height(options) \in BoxSide \cup {None}
      /\ effective_width(options) # None \/ effective_height(options) # None
      /\ options.fit \notin {"cover", "crop", "aspect-crop"}
      /\ o \in PlainResize(current, None, options, TRUE, m)
  BY <1>4
<1> HIDE DEF m, page, options
<1>6. o.image.frames = current.frames /\ o.image.height = o.image.page_height * m
  BY <1>2, <1>4, <1>5, PlainWhole
<1> QED BY <1>2, <1>6 DEF Framed, m

\* RESIZE: it fails only for frames that are cut out of a column that was turned or is
\* too long.
LEMMA ResizeShaped ==
  ASSUME Held, IInv, Shaped, Resize
  PROVE  Shaped'
<1>1. stage = "resize" /\ job \in Job BY DEF Resize, IInv
<1>2. /\ reduced = FALSE /\ Found("resize", current, FALSE) /\ IsPicture(current)
  BY <1>1, NotReduced DEF Unresized
<1>3. CASE effective_width(tp) = None /\ effective_height(tp) = None
  <2>1. Becomes(current, "effects") BY <1>1, <1>3 DEF Resize
  <2>2. Shape("effects", current)
    <3> SUFFICES ASSUME animated_output, ~ActsOnStack PROVE Framed(current)
      BY DEF Shape, Stacking
    <3>1. InPages(current, job.source.height, plan.effective_pages)
            /\ current.frames = FirstNumbers(plan.effective_pages)
      BY <1>1, NotSideways, UprightColumn
    <3> QED BY <3>1 DEF InPages, Framed
  <2> QED BY <1>1, <1>2, <2>1, <2>2, BecomesShaped
<1>4. CASE ~(effective_width(tp) = None /\ effective_height(tp) = None)
  <2>1. PICK out \in Resized(current, resize_source, tp, animated_output, plan.effective_pages) :
          \/ Advance(out.image, "pad") /\ reduced' = out.reduced /\ UNCHANGED plan
          \/ out.image = NoImage /\ Fail("Vips")
    BY <1>1, <1>4 DEF Resize
  <2>2. WellTyped(tp) /\ validate(tp) /\ job.source \in Source BY <1>1, JobTyped
  <2>3. /\ effective_width(tp) \in BoxSide \cup {None}
        /\ effective_height(tp) \in BoxSide \cup {None}
    BY <2>2, EffectiveSides
  <2>4. ASSUME out.image = NoImage => CutsTurnedStack \/ StackTooLong, Shape("pad", out.image)
        PROVE  Shaped'
    <3>1. CASE Advance(out.image, "pad") /\ UNCHANGED plan
      BY <1>1, <2>4, <3>1, AdvanceShaped
    <3>2. CASE out.image = NoImage /\ Fail("Vips")
      <4>1. Cause("Vips", stage) BY <1>1, <2>4, <3>2 DEF Cause, CauseAt
      <4> QED BY <3>2, <4>1, FailShaped
    <3> QED BY <2>1, <3>1, <3>2
  <2>5. resize_source # None => resize_source = job.source /\ resize_reads_source(tp, animated_output)
    BY DEF resize_source
  <2>6. animated_output => resize_source = None /\ current.page_height # 0
    BY <1>2, <2>5 DEF resize_reads_source, Found, Unresized
  <2>7. CASE animated_output /\ tp.fit = "cover"
             /\ effective_width(tp) # None /\ effective_height(tp) # None
    <3>1. out \in AnimatedCover(current, plan.effective_pages, effective_width(tp),
                                effective_height(tp))
      BY <2>1, <2>7 DEF Resized
    <3>2. effective_width(tp) \in BoxSide /\ effective_height(tp) \in BoxSide BY <2>3, <2>7
    <3>3. /\ out.image = NoImage => CutsTurnedStack \/ StackTooLong
          /\ Shape("pad", out.image)
      BY <1>1, <2>7, <3>1, <3>2, CoverShaped
    <3> QED BY <2>4, <3>3
  <2>8. CASE animated_output /\ ~(tp.fit = "cover"
             /\ effective_width(tp) # None /\ effective_height(tp) # None)
    <3>1. out \in PlainResize(current, None, tp, animated_output, plan.effective_pages)
      BY <2>1, <2>6, <2>8 DEF Resized
    <3>2. animated_output = TRUE BY <2>8 DEF animated_output
    <3> DEFINE options == tp
               pages == plan.effective_pages
    <3>3. /\ effective_width(options) \in BoxSide \cup {None}
          /\ effective_height(options) \in BoxSide \cup {None}
          /\ effective_width(options) # None \/ effective_height(options) # None
          /\ out \in PlainResize(current, None, options, TRUE, pages)
          /\ pages \in Nat \ {0} /\ current.page_height # 0
      BY <1>4, <2>3, <2>6, <2>8, <3>1, <3>2, AnimatedPages
    <3>4. Fits(current, None, out)
      <4> HIDE DEF options, pages
      <4> QED BY <1>2, <3>3, PlainFits
    <3>5. IsPicture(out.image) BY <3>4 DEF Fits, Kept
    <3>6. Shape("pad", out.image)
      <4> SUFFICES ASSUME ~ActsOnStack PROVE Framed(out.image) BY DEF Shape, Stacking
      <4>1. tp.fit # "cover" BY <1>1, <1>4, <2>8, SidesAskedFor DEF ActsOnStack
      <4> QED BY <1>1, <2>8, <3>3, <4>1, PlainShaped
    <3> QED BY <2>4, <3>5, <3>6, NotNoImage
  <2>9. CASE ~animated_output
    <3> DEFINE source == resize_source
               options == tp
               animated == animated_output
               pages == plan.effective_pages
    <3>1. /\ effective_width(options) \in BoxSide \cup {None}
          /\ effective_height(options) \in BoxSide \cup {None}
          /\ effective_width(options) # None \/ effective_height(options) # None
          /\ out \in Resized(current, source, options, animated, pages)
          /\ source # None => source \in Readable
          /\ animated \in BOOLEAN /\ ~animated
      BY <1>1, <1>4, <2>1, <2>3, <2>5, <2>9, SourceReadable DEF animated_output
    <3> HIDE DEF source, options, animated, pages
    <3>2. Fits(current, source, out) BY <1>2, <3>1, ResizedFits
    <3>3. IsPicture(out.image) BY <3>2 DEF Fits, Kept, Reduced
    <3>4. Shape("pad", out.image) BY <2>9 DEF Shape
    <3> QED BY <2>4, <3>3, <3>4, NotNoImage
  <2> QED BY <2>7, <2>8, <2>9
<1> QED BY <1>3, <1>4

-----------------------------------------------------------------------------
\* A stage between the resize and the answer, that leaves the frames of an animation.
LEMMA LateShaped ==
  ASSUME Held, Shaped, stage \in Resizes, NEW next \in Resizes, NEW image,
         Becomes(image, next), image = NoImage => CauseAt(stage),
         animated_output => /\ image.frames = current.frames /\ image.height = current.height
                            /\ image.page_height = current.page_height
  PROVE  Shaped'
<1>1. next \notin Stacking /\ next \notin {"overlays", "failed"} BY DEF Stacking, Resizes
<1>2. stage \notin {"overlays", "done"} BY DEF Resizes
<1>3. Shape(next, image)
  <2> SUFFICES ASSUME animated_output, ~ActsOnStack, ~StackTooLong PROVE Framed(image)
    BY <1>1 DEF Shape
  <2>1. Framed(current) BY DEF Shaped, Shape
  <2> QED BY <2>1 DEF Framed
<1> QED BY <1>1, <1>2, <1>3, TriedShaped

\* PAD.
LEMMA PadShaped ==
  ASSUME Held, job \in Job, Shaped, Pad
  PROVE  Shaped'
<1>1. stage = "pad" /\ stage \in Resizes /\ "effects" \in Resizes BY DEF Pad, Resizes
<1>2. IsPicture(current) /\ current.alpha = AlphaAt("pad") /\ (current.grey => job.source.grey)
  BY <1>1, LatePicture
<1> DEFINE image == IF animated_output THEN current ELSE Padded(current, tp)
<1>3. Becomes(image, "effects") BY DEF Pad
<1>4. image = NoImage => CauseAt(stage)
  <2>1. WellTyped(tp) /\ validate(tp) BY JobTyped
  <2>2. /\ effective_width(tp) \in BoxSide \cup {None}
        /\ effective_height(tp) \in BoxSide \cup {None}
    BY <2>1, EffectiveSides
  <2>3. image = NoImage => current.grey /\ current.alpha
    BY <1>2, <2>2, PaddedKeeps, NotNoImage DEF Kept
  <2>4. AlphaAt("pad") = job.source.alpha BY DEF AlphaAt
  <2> QED BY <1>1, <1>2, <2>3, <2>4 DEF CauseAt
<1>5. animated_output => image = current OBVIOUS
<1> HIDE DEF image
<1> QED BY <1>1, <1>3, <1>4, <1>5, LateShaped

\* EFFECTS.
LEMMA EffectsShaped ==
  ASSUME Held, job \in Job, Shaped, Effects
  PROVE  Shaped'
<1>1. stage = "effects" /\ stage \in Resizes /\ "background" \in Resizes BY DEF Effects, Resizes
<1>2. IsPicture(current) BY <1>1, LatePicture
<1> DEFINE a == IF tp.sharpen # None THEN sharpen(current) ELSE current
           b == IF tp.blur # None THEN gaussblur(a) ELSE a
           c == IF tp.brightness # None \/ tp.contrast # None THEN linear1(b) ELSE b
           d == IF tp.gamma # None THEN gamma(c) ELSE c
           e == IF tp.saturation # None THEN Saturated(d) ELSE d
<1>3. Becomes(e, "background") BY DEF Effects
<1>4. Toned(current, a) BY <1>2, FilterTones, TonedNot
<1> HIDE DEF a
<1>5. Toned(a, b) BY <1>4, FilterTones, TonedNot DEF Toned
<1> HIDE DEF b
<1>6. Toned(b, c) BY <1>5, FilterTones, TonedNot DEF Toned
<1> HIDE DEF c
<1>7. Toned(c, d) BY <1>6, FilterTones, TonedNot DEF Toned
<1> HIDE DEF d
<1>8. Toned(d, e)
  <2>1. IsPicture(d) BY <1>7 DEF Toned
  <2> QED BY <2>1, SaturatedTones, TonedNot
<1> HIDE DEF e
<1>9. Toned(current, e) BY <1>4, <1>5, <1>6, <1>7, <1>8, TonedTwice
<1> QED BY <1>1, <1>3, <1>9, NotNoImage, LateShaped DEF Toned

\* BACKGROUND.
LEMMA BackgroundShaped ==
  ASSUME Held, Shaped, Background
  PROVE  Shaped'
<1>1. stage = "background" /\ stage \in Resizes /\ "border" \in Resizes BY DEF Background, Resizes
<1>2. IsPicture(current) BY <1>1, LatePicture
<1> DEFINE image == IF tp.background # None /\ tp.fit # "pad" /\ current.alpha
                    THEN flatten(current) ELSE current
<1>3. Becomes(image, "border") BY DEF Background
<1>4. Toned(current, image) BY <1>2, BandsTone, TonedNot DEF flatten
<1> HIDE DEF image
<1> QED BY <1>1, <1>3, <1>4, NotNoImage, LateShaped DEF Toned

\* BORDER: a still is framed by it.
LEMMA BorderShaped ==
  ASSUME Held, job \in Job, Shaped, Border
  PROVE  Shaped'
<1>1. stage = "border" /\ stage \in Resizes /\ "answer" \in Resizes BY DEF Border, Resizes
<1>2. IsPicture(current) /\ current.alpha = AlphaAt("border") /\ (current.grey => job.source.grey)
  BY <1>1, LatePicture
<1>3. CASE Becomes(current, "answer") BY <1>1, <1>2, <1>3, NotNoImage, LateShaped
<1>4. ASSUME ~animated_output,
             NEW top \in BorderSide(tp.border_top), NEW bottom \in BorderSide(tp.border_bottom),
             NEW left \in BorderSide(tp.border_left), NEW right \in BorderSide(tp.border_right),
             Becomes(IF {top, bottom, left, right} = {0} THEN current
                     ELSE embed(current, current.width + left + right,
                                current.height + top + bottom), "answer")
      PROVE  Shaped'
  <2>1. top \in Nat /\ bottom \in Nat /\ left \in Nat /\ right \in Nat BY BorderSides
  <2>2. current.width \in Nat \ {0} /\ current.height \in Nat \ {0} BY <1>2 DEF IsPicture
  <2> DEFINE width == current.width + left + right
             height == current.height + top + bottom
  <2>5. width \in Nat \ {0} /\ height \in Nat \ {0} BY <2>1, <2>2
  <2> DEFINE image == IF {top, bottom, left, right} = {0} THEN current
                      ELSE embed(current, width, height)
  <2>3. Becomes(image, "answer") BY <1>4
  <2> HIDE DEF width, height
  <2>4. image = NoImage => CauseAt(stage)
    <3>1. image = NoImage => current.grey /\ current.alpha
      BY <1>2, <2>5, EmbedKeeps, NotNoImage DEF Kept
    <3>2. AlphaAt("border") = keeps_alpha(tp, job.source) BY DEF AlphaAt
    <3> QED BY <1>1, <1>2, <3>1, <3>2 DEF CauseAt
  <2> HIDE DEF image
  <2> QED BY <1>1, <1>4, <2>3, <2>4, LateShaped
<1> QED BY <1>3, <1>4 DEF Border

-----------------------------------------------------------------------------
\* The file of an image: of the size that it has, unless a side is too long.
FileOf(image, file) ==
  \/ file = NoImage /\ (image.width > 16383 \/ image.height > 16383)
  \/ IsPicture(file) /\ file.width = image.width /\ file.height = image.height

\* The pages of a file are the frames of the image.
PagedFile(image, file, m) ==
  file.frames = FirstNumbers(m) /\ file.n_pages = m /\ file.page_height = image.page_height

\* Every format takes sides of 16383 pixels.
LEMMA LongestSides ==
  ASSUME NEW format
  PROVE  LongestSide(format) \in Nat /\ 16383 <= LongestSide(format)
BY DEF LongestSide

\* An encoder.
LEMMA FileWhole ==
  ASSUME NEW image, IsPicture(image), NEW format, NEW do_strip
  PROVE  FileOf(image, Encoded(image, format, do_strip))
<1> DEFINE paged == format \in {"webp", "gif"}
           page == IF paged THEN PageHeight(image) ELSE image.height
           file == Encoded(image, format, do_strip)
           longest == LongestSide(format)
<1>1. /\ page \in 1..image.height /\ image.width \in Nat \ {0} /\ image.height \in Nat \ {0}
      /\ DOMAIN image = Fields
  BY PagesDivide, FieldsTold DEF IsPicture
<1>2. longest \in Nat /\ 16383 <= longest BY LongestSides
<1>3. CASE image.width > longest \/ page > longest
  <2>1. file = NoImage BY <1>3 DEF Encoded
  <2>2. image.width > 16383 \/ image.height > 16383
    <3> HIDE DEF page, longest, file
    <3> QED BY <1>1, <1>2, <1>3
  <2> QED BY <2>1, <2>2 DEF FileOf
<1>4. CASE ~(image.width > longest \/ page > longest)
  <2>1. /\ DOMAIN file = DOMAIN image /\ file.width = image.width /\ file.height = image.height
        /\ file.page_height = IF paged THEN page ELSE Absent
    BY <1>1, <1>4 DEF Encoded, Fields
  <2>2. page \in Nat BY <1>1
  <2> HIDE DEF file, page
  <2>3. IsPicture(file) BY <1>1, <2>1, <2>2, FieldsTold DEF IsPicture, Absent
  <2> QED BY <2>1, <2>3 DEF FileOf, file
<1> QED BY <1>3, <1>4

\* Its pages.
LEMMA FilePages ==
  ASSUME NEW image, NEW page, NEW m, InPages(image, page, m), image.frames = FirstNumbers(m),
         NEW format \in {"webp", "gif"}, NEW do_strip,
         Encoded(image, format, do_strip) # NoImage
  PROVE  PagedFile(image, Encoded(image, format, do_strip), m)
<1>1. PageHeight(image) = page /\ image.height \div page = m BY PagesSeen
<1>2. Len(image.frames) = m BY FirstNumbersIs DEF InPages
<1>3. DOMAIN image = Fields BY FieldsTold DEF InPages, IsPicture
<1> DEFINE file == Encoded(image, format, do_strip)
<1>4. file.n_pages = m /\ file.page_height = page /\ file.frames = image.frames
  BY <1>1, <1>2, <1>3 DEF Encoded, Fields
<1> HIDE DEF file
<1>5. image.page_height = page BY DEF InPages
<1> QED BY <1>4, <1>5 DEF PagedFile, file

\* The page height that gifsave can use.
LEMMA Remainder ==
  ASSUME NEW n \in Nat, NEW d \in Nat \ {0}
  PROVE  n % d = n - d * (n \div d)
OBVIOUS

\* A gif whose page height divides its height can be read.
LEMMA GifReadable ==
  ASSUME NEW image, IsPicture(image),
         image.page_height # 0 =>
           image.page_height <= image.height /\ image.height % image.page_height = 0
  PROVE  /\ FileOf(image, save_gif(image)) /\ ~save_gif(image).broken
         /\ \A m : PagedFile(image, Encoded(image, "gif", FALSE), m)
                     => PagedFile(image, save_gif(image), m)
         /\ Encoded(image, "gif", FALSE) = NoImage => save_gif(image) = NoImage
<1> DEFINE file == Encoded(image, "gif", FALSE)
           ph == image.page_height
           bad == ph # Absent /\ (ph > image.height \/ image.height % ph # 0)
<1>1. save_gif(image) = [file EXCEPT !.broken = bad] BY DEF save_gif
<1>2. bad = FALSE BY DEF Absent, IsPicture
<1>3. FileOf(image, file) BY FileWhole
<1> HIDE DEF file, bad
<1> DEFINE gif == [file EXCEPT !.broken = FALSE]
<1>4. CASE file = NoImage
  <2>1. gif = NoImage
    <3>1. NoImage = [x \in DOMAIN NoImage |-> NoImage[x]] /\ NoImage.broken = FALSE
      BY DEF NoImage
    <3>2. [NoImage EXCEPT !.broken = NoImage.broken] = NoImage BY <3>1
    <3> QED BY <1>4, <3>1, <3>2
  <2>2. FileOf(image, gif) /\ ~gif.broken
    BY <1>3, <1>4, <2>1, NotNoImage DEF FileOf, NoImage
  <2> QED BY <1>1, <1>2, <1>4, <2>1, <2>2 DEF file
<1>5. CASE file # NoImage
  <2>1. IsPicture(file) /\ file.width = image.width /\ file.height = image.height
    BY <1>3, <1>5 DEF FileOf
  <2>2. DOMAIN file = Fields BY <2>1, FieldsTold DEF IsPicture
  <2>3. /\ DOMAIN gif = DOMAIN file /\ gif.width = file.width /\ gif.height = file.height
        /\ gif.page_height = file.page_height /\ gif.n_pages = file.n_pages
        /\ gif.frames = file.frames /\ gif.broken = FALSE
    BY <2>2 DEF Fields
  <2> HIDE DEF gif
  <2>4. IsPicture(gif) BY <2>1, <2>3 DEF IsPicture
  <2>5. FileOf(image, gif) BY <2>1, <2>3, <2>4 DEF FileOf
  <2>6. \A m : PagedFile(image, file, m) => PagedFile(image, gif, m) BY <2>3 DEF PagedFile
  <2>7. save_gif(image) = gif BY <1>1, <1>2 DEF gif
  <2> QED BY <1>5, <2>3, <2>5, <2>6, <2>7 DEF file
<1> QED BY <1>4, <1>5

\* INV-3: whatever page height a gif was left with, it can be read.
LEMMA GifEncoded ==
  ASSUME NEW image, IsPicture(image)
  PROVE  FileOf(image, encode_gif(image)) /\ ~encode_gif(image).broken
<1>1. image.page_height \in Nat /\ image.height \in Nat \ {0} /\ DOMAIN image = Fields
  BY FieldsTold DEF IsPicture
<1>2. page_height_of(image) # None <=> image.page_height # 0
  BY <1>1, NumberAssumption DEF page_height_of, Absent
<1> DEFINE ragged == page_height_of(image) # None
                       /\ (image.page_height > image.height
                             \/ image.height % image.page_height # 0)
           single == [image EXCEPT !.page_height = image.height, !.n_pages = 1]
<1>3. encode_gif(image) = save_gif(IF ragged THEN single ELSE image) BY DEF encode_gif
<1>4. CASE ragged
  <2>1. /\ DOMAIN single = DOMAIN image /\ single.width = image.width
        /\ single.height = image.height /\ single.page_height = image.height
    BY <1>1 DEF Fields
  <2> HIDE DEF single
  <2>2. IsPicture(single) BY <1>1, <2>1 DEF IsPicture
  <2>3. image.height % image.height = 0 BY <1>1
  <2>4. FileOf(single, save_gif(single)) /\ ~save_gif(single).broken
    <3>1. single.page_height <= single.height /\ single.height % single.page_height = 0
      BY <1>1, <2>1, <2>3
    <3> QED BY <2>2, <3>1, GifReadable
  <2>5. FileOf(image, save_gif(single)) BY <2>1, <2>4 DEF FileOf
  <2> QED BY <1>3, <1>4, <2>4, <2>5
<1>5. CASE ~ragged
  <2>1. image.page_height # 0 =>
          image.page_height <= image.height /\ image.height % image.page_height = 0
    BY <1>1, <1>2, <1>5
  <2> QED BY <1>3, <1>5, <2>1, GifReadable
<1> QED BY <1>4, <1>5

\* The file of any format, and a gif can be read.
LEMMA EncodedFile ==
  ASSUME NEW image, IsPicture(image), NEW format \in Encodable
  PROVE  /\ FileOf(image, encode_image(image, format))
         /\ format = "gif" => ~encode_image(image, format).broken
<1>1. CASE format \in {"jpeg", "baseline-jpeg"}
  <2> DEFINE flat == flatten(image)
  <2>1. Toned(image, flat) BY BandsTone DEF flatten
  <2>2. encode_image(image, format) = Encoded(flat, "jpeg", tp.metadata = "strip")
    BY <1>1 DEF encode_image, save_jpeg
  <2> HIDE DEF flat
  <2>3. FileOf(flat, encode_image(image, format)) BY <2>1, <2>2, FileWhole DEF Toned
  <2> QED BY <1>1, <2>1, <2>3 DEF FileOf, Toned
<1>2. CASE format = "png" BY <1>2, FileWhole DEF encode_image, save_png
<1>3. CASE format = "webp" BY <1>3, FileWhole DEF encode_image, save_webp_with_effort
<1>4. CASE format = "avif" BY <1>4, FileWhole DEF encode_image, save_avif
<1>5. CASE format = "gif" BY <1>5, GifEncoded DEF encode_image
<1> QED BY <1>1, <1>2, <1>3, <1>4, <1>5 DEF Encodable

\* An animation shows the frames that its image has.
LEMMA EncodedPages ==
  ASSUME NEW image, NEW page, NEW m, InPages(image, page, m), image.frames = FirstNumbers(m),
         NEW format \in {"webp", "gif"}, encode_image(image, format) # NoImage
  PROVE  PagedFile(image, encode_image(image, format), m)
<1>1. CASE format = "webp"
  BY <1>1, FilePages DEF encode_image, save_webp_with_effort
<1>2. CASE format = "gif"
  <2>1. /\ IsPicture(image) /\ image.page_height = page /\ page \in Nat \ {0} /\ m \in Nat \ {0}
        /\ image.height = page * m
    BY DEF InPages
  <2>2. image.height \div page = m BY PagesSeen
  <2>3. image.height \in Nat /\ image.height % page = image.height - page * (image.height \div page)
    BY <2>1, Remainder DEF IsPicture
  <2>4. image.height % page = 0 BY <2>1, <2>2, <2>3
  <2>5. page <= image.height
    <3>1. PageHeight(image) = page BY PagesSeen
    <3> QED BY <2>1, <3>1, PagesDivide
  <2>6. encode_gif(image) = save_gif(image) BY <2>1, <2>4, <2>5 DEF encode_gif
  <2>7. encode_image(image, format) = save_gif(image) BY <1>2, <2>6 DEF encode_image
  <2>8. Encoded(image, "gif", FALSE) # NoImage BY <2>1, <2>4, <2>5, <2>7, GifReadable
  <2>9. PagedFile(image, Encoded(image, "gif", FALSE), m) BY <2>8, FilePages
  <2> QED BY <2>1, <2>4, <2>5, <2>7, <2>9, GifReadable
<1> QED BY <1>1, <1>2

-----------------------------------------------------------------------------
\* An answer, drawn upon or not.
LEMMA ReturnShaped ==
  ASSUME Shaped, NEW next \in {"overlays", "done"}, NEW r, Return(r, next),
         WholeFile(r), GifReads(r), next = "overlays" => Filed(r)
  PROVE  Shaped'
<1>1. /\ result' = r /\ stage' = next /\ job' = job /\ current' = current /\ plan' = plan
  BY DEF Return
<1>2. WholeFile(r)' /\ GifReads(r)' /\ (next = "overlays" => Filed(r)') BY <1>1, SameShape
<1>3. WholeFile(result)' /\ GifReads(result)' /\ (next = "overlays" => Filed(result)')
  BY <1>1, <1>2 DEF WholeFile, GifReads, Filed
<1> QED BY <1>1, <1>3 DEF Shaped, Shape, Stacking, Resizes

\* A file of the image at hand, or none because that is too large.
LEMMA CurrentFile ==
  ASSUME NEW image, FileOf(image, NoImage), image.width = current.width,
         image.height \in Nat, current.height \in Nat, image.height <= current.height
  PROVE  TooLarge
<1>1. ~IsPicture(NoImage) BY NotNoImage
<1>2. image.width > 16383 \/ image.height > 16383 BY <1>1 DEF FileOf
<1> QED BY <1>2 DEF TooLarge

\* JSON.
LEMMA AnswerJsonShaped ==
  ASSUME Held, IInv, Shaped, AnswerJson
  PROVE  Shaped'
<1>1. stage = "answer" /\ tp.format = "json" BY DEF AnswerJson
<1>2. IsPicture(current) BY <1>1, LatePicture DEF Resizes
<1> DEFINE format == apply_compression_fast(negotiate_format(job.accept, current.alpha, None),
                                            CompressesFast(tp))
           r == [ResultOf("json") EXCEPT !.reported = format]
<1>3. \/ encode_image(current, format) = NoImage /\ Fail("Vips")
      \/ Return(r, "overlays")
  BY DEF AnswerJson
<1>4. format \in Encodable
  <2> DEFINE still == negotiate_format(job.accept, current.alpha, None)
  <2>1. still \in Encodable
    <3>1. None \notin TextBody BY FormatAssumption DEF TextBody
    <3> QED BY <3>1, Negotiated
  <2>2. format = apply_compression_fast(still, CompressesFast(tp)) OBVIOUS
  <2> HIDE DEF still, format
  <2> QED BY <2>1, <2>2 DEF apply_compression_fast, Encodable
<1>5. r.is_animated = FALSE /\ r.format = "json" BY DEF ResultOf, NoResult
<1> HIDE DEF format, r
<1>6. CASE encode_image(current, format) = NoImage /\ Fail("Vips")
  <2>1. FileOf(current, NoImage) BY <1>2, <1>4, <1>6, EncodedFile
  <2>2. TooLarge BY <1>2, <2>1, CurrentFile DEF IsPicture
  <2>3. Cause("Vips", stage) BY <1>1, <2>2 DEF Cause, CauseAt
  <2> QED BY <1>6, <2>3, FailShaped
<1>7. CASE Return(r, "overlays")
  <2>1. WholeFile(r) /\ GifReads(r) /\ Filed(r)
    BY <1>5 DEF WholeFile, GifReads, Filed, TextBody
  <2> QED BY <1>7, <2>1, ReturnShaped
<1> QED BY <1>3, <1>6, <1>7

\* ENCODE: an animation that kept its frames is a file of as many pages.
LEMMA EncodeShaped ==
  ASSUME Held, IInv, Shaped, Encode
  PROVE  Shaped'
<1>1. stage = "answer" /\ tp.format \notin {"json", "thumbhash"} /\ job \in Job
  BY DEF Encode, IInv
<1>2. IsPicture(current) BY <1>1, LatePicture DEF Resizes
<1> DEFINE still == apply_compression_fast(
                      negotiate_format(job.accept, current.alpha, tp.format), CompressesFast(tp))
           format == IF animated_output THEN plan.animated_format ELSE still
           data == encode_image(current, format)
           count == IF animated_output THEN plan.effective_pages ELSE Absent
           r == [ResultOf(format) EXCEPT
                   !.data = data, !.is_animated = animated_output, !.frame_count = count]
<1>3. \/ data = NoImage /\ Fail("Vips")
      \/ data # NoImage /\ Return(r, "overlays")
  BY DEF Encode
<1>4. format \in Encodable
  <2>1. format = output_format(job.accept, tp, SeenSource) BY <1>1, AnsweredFormat
  <2> QED BY <1>1, <2>1, OutputEncodable DEF TextBody
<1>5. animated_output => format \in {"webp", "gif"}
  BY AnimatedPages, AnimatedEncodable DEF decided_format
<1> HIDE DEF format
<1>6. FileOf(current, data) /\ (format = "gif" => ~data.broken) BY <1>2, <1>4, EncodedFile
<1>7. ASSUME animated_output, ~ActsOnStack, ~StackTooLong,
             ~(tp.fit = "cover" /\ current.height = count * (effective_height(tp) + 1)),
             ~(tp.fit = "cover" /\ count > MAX_JOINED), data # NoImage
      PROVE  /\ count = Least(job.source.pages, max_frames)
             /\ PagedFile(current, data, count)
             /\ current.page_height * count = current.height
  <2>1. count = plan.effective_pages /\ count \in Nat \ {0}
          /\ count = Least(job.source.pages, max_frames)
    BY <1>7, AnimatedPages
  <2>2. Framed(current) BY <1>1, <1>7 DEF Shaped, Shape, Resizes
  <2>3. current.frames = FirstNumbers(count) /\ current.height = current.page_height * count
    BY <1>7, <2>1, <2>2 DEF Framed
  <2>4. current.page_height \in Nat /\ current.height \in Nat \ {0} BY <1>2 DEF IsPicture
  <2>5. current.page_height # 0 BY <2>1, <2>3, <2>4
  <2> HIDE DEF count
  <2>6. InPages(current, current.page_height, count)
    BY <1>2, <2>1, <2>3, <2>4, <2>5 DEF InPages
  <2> DEFINE page == current.page_height
  <2>7. InPages(current, page, count) BY <2>6
  <2> HIDE DEF page
  <2>8. PagedFile(current, data, count) BY <1>5, <1>7, <2>3, <2>7, EncodedPages
  <2> QED BY <2>1, <2>3, <2>8
<1> HIDE DEF data, count
<1>8. /\ r.data = data /\ r.format = format /\ r.is_animated = animated_output
      /\ r.frame_count = count /\ r.height = current.height
  BY DEF ResultOf, NoResult
<1> HIDE DEF r
<1>9. CASE data = NoImage /\ Fail("Vips")
  <2>1. TooLarge BY <1>2, <1>6, <1>9, CurrentFile DEF IsPicture
  <2>2. Cause("Vips", stage) BY <1>1, <2>1 DEF Cause, CauseAt
  <2> QED BY <1>9, <2>2, FailShaped
<1>10. CASE data # NoImage /\ Return(r, "overlays")
  <2>1. WholeFile(r)
    <3> SUFFICES ASSUME r.is_animated, ~ActsOnStack, ~StackTooLong,
                        ~(tp.fit = "cover" /\ r.height = r.frame_count * (effective_height(tp) + 1)),
                        ~(tp.fit = "cover" /\ r.frame_count > MAX_JOINED)
                 PROVE  /\ r.frame_count = Least(job.source.pages, max_frames)
                        /\ r.data.frames = FirstNumbers(r.frame_count)
                        /\ r.data.n_pages = r.frame_count
                        /\ r.data.page_height * r.frame_count = r.height
      BY DEF WholeFile
    <3> QED BY <1>7, <1>8, <1>10 DEF PagedFile
  <2>2. GifReads(r) BY <1>6, <1>8 DEF GifReads
  <2>3. Filed(r) BY <1>6, <1>8, <1>10 DEF Filed, FileOf
  <2> QED BY <1>10, <2>1, <2>2, <2>3, ReturnShaped
<1> QED BY <1>3, <1>9, <1>10

\* THUMBHASH: a raster that cannot be hashed is one of a frame that looks like pages.
LEMMA AnswerThumbhashShaped ==
  ASSUME Held, IInv, Shaped, AnswerThumbhash
  PROVE  Shaped'
<1>1. stage = "answer" /\ strict /\ tp.format = "thumbhash" /\ job \in Job
  BY DEF AnswerThumbhash, IInv, strict
<1>2. /\ IsPicture(current) /\ current.alpha = keeps_alpha(tp, job.source)
      /\ current.broken = (strict /\ job.source.damaged)
  BY <1>1, LatePicture DEF Resizes, AlphaAt
<1> DEFINE small == thumbhash_raster
           bytes == write_to_memory(small)
           rgba == rgba_from_bands(bytes, small.width, small.height, bands(small))
           opts == [height |-> MAX_SIDE, crop |-> "none", size |-> "down", no_rotate |-> TRUE]
<1>3. HashRaster(small, bytes, rgba) BY DEF AnswerThumbhash
<1>4. small = thumbnail(current, MAX_SIDE, opts) BY DEF thumbhash_raster
<1>5. /\ opts.height = MAX_SIDE /\ opts.crop = "none" /\ opts.size = "down" /\ opts.no_rotate
  OBVIOUS
<1>6. opts.height \in Nat /\ MAX_SIDE \in Nat \ {0} BY DEF MAX_SIDE
<1> HIDE DEF small, opts
<1>7. Kept(current, small)
  <2>1. Kept(current, thumbnail(current, MAX_SIDE, opts)) BY <1>2, <1>6, ThumbnailKeeps
  <2> QED BY <1>4, <2>1
<1>8. IsPicture(small) /\ small.broken = (strict /\ job.source.damaged)
  BY <1>2, <1>7 DEF Kept, SameLook
<1>9. small.width \in Nat \ {0} /\ small.height \in Nat \ {0} BY <1>8 DEF IsPicture
<1>10. ASSUME bytes = Absent PROVE strict /\ job.source.damaged
  <2>1. bands(small) \in 1..4 BY DEF bands
  <2>2. small.width * small.height \in Nat \ {0} BY <1>9
  <2>3. small.width * small.height * bands(small) # 0 BY <2>1, <2>2
  <2> QED BY <1>8, <1>10, <2>3 DEF write_to_memory, Absent
<1>11. ASSUME bytes # Absent PROVE rgba = Ok(4 * small.width * small.height)
  <2>1. bands(small) \in 1..4 BY DEF bands
  <2>2. bytes = small.width * small.height * bands(small) BY <1>11 DEF write_to_memory
  <2> HIDE DEF bytes
  <2> QED BY <2>1, <2>2 DEF rgba_from_bands
<1>12. LooksPaged \/ (small.width <= MAX_SIDE /\ small.height <= MAX_SIDE)
  <2> SUFFICES ASSUME ~LooksPaged PROVE small.width <= MAX_SIDE /\ small.height <= MAX_SIDE
    OBVIOUS
  <2>1. PageHeight(current) = current.height
    <3>1. CASE tp.frame # None BY <3>1 DEF LooksPaged
    <3>2. CASE tp.frame = None
      <4>1. ~animated_output BY <1>1, AnimatedAsks
      <4>2. current.page_height = 0 BY <1>1, <3>2, <4>1 DEF Held, Images, Found, Resizes
      <4> QED BY <4>2 DEF PageHeight
    <3> QED BY <3>1, <3>2
  <2>2. LET s == thumbnail(current, MAX_SIDE, opts)
        IN s.width <= MAX_SIDE /\ s.height <= MAX_SIDE
    BY <1>2, <1>5, <2>1, RasterFits
  <2> QED BY <1>4, <2>2
<1> HIDE DEF bytes, rgba
<1>13. CASE bytes = Absent /\ Fail("Vips")
  <2>1. Cause("Vips", stage) BY <1>1, <1>10, <1>13 DEF Cause, CauseAt, HashOfDamage
  <2> QED BY <1>13, <2>1, FailShaped
<1>14. rgba.error # "none" => bytes = Absent BY <1>11 DEF Ok
<1>15. ASSUME NEW hash \in Hashes(small, rgba), bytes # Absent, hash.error # "none",
              Fail("Thumbhash")
       PROVE  Shaped'
  <2>1. PICK has_alpha \in {FALSE, small.alpha} :
          hash = encode(small.width, small.height, rgba.length, has_alpha)
    BY DEF Hashes
  <2>2. rgba.length = 4 * small.width * small.height BY <1>11, <1>15 DEF Ok
  <2>3. small.width \notin 1..MAX_SIDE \/ small.height \notin 1..MAX_SIDE
    BY <1>15, <2>1, <2>2 DEF encode, Ok
  <2>4. LooksPaged BY <1>6, <1>9, <1>12, <2>3
  <2>5. Cause("Thumbhash", stage) BY <2>4 DEF Cause
  <2> QED BY <1>15, <2>5, FailShaped
<1>16. ASSUME NEW hash, Return([ResultOf("thumbhash") EXCEPT !.length = to_base64(hash.length)],
                               "overlays")
       PROVE  Shaped'
  <2> DEFINE r == [ResultOf("thumbhash") EXCEPT !.length = to_base64(hash.length)]
  <2>1. r.is_animated = FALSE /\ r.format = "thumbhash" BY DEF ResultOf, NoResult
  <2>2. Return(r, "overlays") BY <1>16
  <2> HIDE DEF r
  <2>3. WholeFile(r) /\ GifReads(r) /\ Filed(r)
    BY <2>1 DEF WholeFile, GifReads, Filed, TextBody
  <2> QED BY <2>2, <2>3, ReturnShaped
<1> QED BY <1>3, <1>13, <1>14, <1>15, <1>16 DEF HashRaster

-----------------------------------------------------------------------------
\* A picture of the size of another one.
Sized(a, b) == IsPicture(b) /\ b.width = a.width /\ b.height = a.height

\* A length in an overlay's box is a number of pixels.
LEMMA OverlaySides ==
  ASSUME NEW v \in Nat, NEW side \in Nat
  PROVE  OverlaySide(v, side) \in Nat
<1>1. v * side \in Nat OBVIOUS
<1>2. Nearest(v * side, 1000) \subseteq Nat /\ Nearest(v, 1000) \subseteq Nat BY <1>1, RintWhole
<1>3. Rint(v * side, 1000) \in Nat /\ Rint(v, 1000) \in Nat BY <1>2 DEF Nearest
<1> QED BY <1>3 DEF OverlaySide

\* validate() lets no negative length pass.
LEMMA OverlayBox ==
  ASSUME job \in Job, NEW i \in DOMAIN tp.draw
  PROVE  tp.draw[i].width \in Nat \cup {None} /\ tp.draw[i].height \in Nat \cup {None}
<1> DEFINE entry == tp.draw[i]
<1>1. IsOverlay(entry) /\ ValidOverlay(entry) BY JobTyped DEF WellTyped, validate
<1> HIDE DEF entry
<1>2. \A f \in {"width", "height"} : entry[f] \in Int \cup {None} /\ ~Negative(entry[f])
  <2>1. \A f \in {"width", "height"} : f \in OverlayDecimals BY DEF OverlayDecimals
  <2>2. \A f \in {"width", "height"} : entry[f] \in Int \cup {None} BY <1>1, <2>1 DEF IsOverlay
  <2>3. \A f \in {"width", "height", "top", "left", "bottom", "right"} : ~Negative(entry[f])
    BY <1>1, Zenon DEF ValidOverlay
  <2> QED BY <2>2, <2>3
<1>3. entry.width \in Nat \cup {None} /\ entry.height \in Nat \cup {None}
  BY <1>2, NumberAssumption DEF Negative
<1> QED BY <1>3 DEF entry

\* An overlay that was decoded has a size unless its box is wider than any image.
LEMMA OverlaySized ==
  ASSUME job \in Job, NEW i \in DOMAIN tp.draw, NEW overlay, IsPicture(overlay),
         NEW base, IsPicture(base)
  PROVE  \/ IsPicture(SizedOverlay(overlay, tp.draw[i], base))
         \/ OverlayWidth(overlay, tp.draw[i], base) > MAX_COORD
<1> DEFINE entry == tp.draw[i]
           w == OverlayWidth(overlay, entry, base)
           h == IF entry.height = None THEN None ELSE OverlaySide(entry.height, base.height)
           opts == build_thumbnail_options(IF entry.fit = None THEN "contain" ELSE entry.fit,
                                           IF entry.gravity = None THEN "center" ELSE entry.gravity,
                                           h)
<1>1. entry.width \in Nat \cup {None} /\ entry.height \in Nat \cup {None} BY OverlayBox
<1>2. SizedOverlay(overlay, entry, base)
        = IF entry.width = None /\ entry.height = None THEN overlay
          ELSE thumbnail_in_range(overlay, w, opts)
  BY DEF SizedOverlay
<1> HIDE DEF entry
<1>3. base.width \in Nat /\ base.height \in Nat /\ overlay.width \in Nat \ {0}
  BY DEF IsPicture
<1>4. w \in Nat \ {0}
  <2>1. entry.width # None => OverlaySide(entry.width, base.width) \in Nat
    BY <1>1, <1>3, OverlaySides
  <2> QED BY <1>3, <2>1 DEF OverlayWidth, AtLeast1
<1>5. h # None => h \in Nat BY <1>1, <1>3, OverlaySides
<1> HIDE DEF w, h
<1>6. DOMAIN opts = DOMAIN ThumbnailOptions /\ opts.height \in Nat
  BY <1>5 DEF build_thumbnail_options, ThumbnailOptions, Absent
<1> HIDE DEF opts
<1>7. Kept(overlay, thumbnail_in_range(overlay, w, opts)) \/ w > MAX_COORD
  BY <1>4, <1>6, InRangeKeeps
<1>8. IsPicture(SizedOverlay(overlay, entry, base)) \/ w > MAX_COORD
  BY <1>2, <1>7 DEF Kept
<1> QED BY <1>8 DEF entry, w

\* Why an overlay cannot be drawn.
OverlayFails == ~job.overlay.readable \/ OverlayTooWide

\* What is drawn on a picture leaves its size.
LEMMA DrawnOnSized ==
  ASSUME job \in Job, NEW base, IsPicture(base), base.width = current.width,
         NEW i \in DOMAIN tp.draw
  PROVE  LET drawn == Over(base, tp.draw[i])
         IN (drawn = NoImage /\ OverlayFails) \/ Sized(base, drawn)
<1> DEFINE overlay == from_buffer(job.overlay, FALSE)
           entry == tp.draw[i]
           sized == SizedOverlay(overlay, entry, base)
<1>1. Over(base, entry) = composite_draw_overlay(base, job.overlay, entry)
  BY NotNoImage DEF Over
<1>2. ASSUME NEW top PROVE Sized(base, composite_over(base, top))
  BY FieldsTold DEF composite_over, Sized, IsPicture, Fields
<1>3. overlay # NoImage => IsPicture(overlay)
  <2>1. CASE job.overlay.readable
    <3>1. job.overlay \in Readable BY <2>1, JobTyped DEF Readable
    <3> QED BY <3>1, Decoded
  <2>2. CASE ~job.overlay.readable BY <2>2 DEF from_buffer
  <2> QED BY <2>1, <2>2
<1>4. CASE overlay = NoImage
  <2>1. ~job.overlay.readable
    <3> SUFFICES ASSUME job.overlay.readable PROVE FALSE OBVIOUS
    <3>1. job.overlay \in Readable BY JobTyped DEF Readable
    <3> QED BY <1>4, <3>1, Decoded, NotNoImage
  <2>2. composite_draw_overlay(base, job.overlay, entry) = NoImage
    BY <1>4 DEF composite_draw_overlay
  <2> QED BY <1>1, <2>1, <2>2 DEF OverlayFails
<1>5. CASE overlay # NoImage /\ sized = NoImage
  <2>1. OverlayWidth(overlay, entry, base) > MAX_COORD
    BY <1>3, <1>5, OverlaySized, NotNoImage
  <2>2. OverlayWidth(overlay, entry, base) = OverlayWidth(overlay, entry, current)
    BY DEF OverlayWidth
  <2>3. OverlayTooWide BY <2>1, <2>2 DEF OverlayTooWide
  <2>4. composite_draw_overlay(base, job.overlay, entry) = NoImage
    BY <1>5 DEF composite_draw_overlay
  <2> QED BY <1>1, <2>3, <2>4 DEF OverlayFails
<1>6. CASE overlay # NoImage /\ sized # NoImage
  <2>1. \E top : composite_draw_overlay(base, job.overlay, entry) = composite_over(base, top)
    BY <1>6 DEF composite_draw_overlay
  <2> QED BY <1>1, <1>2, <2>1
<1> QED BY <1>4, <1>5, <1>6

\* So do all the overlays.
LEMMA DrawnSized ==
  ASSUME job \in Job, NEW base, IsPicture(base), base.width = current.width
  PROVE  LET drawn == drawn_on(base)
         IN (drawn = NoImage /\ OverlayFails) \/ Sized(base, drawn)
<1> DEFINE k == Len(tp.draw)
           f == CHOOSE g : DrawnSteps(g, base, k)
           After(image) == (image = NoImage /\ OverlayFails) \/ Sized(base, image)
           G == {n \in Nat : n <= k => After(f[n])}
<1>1. drawn_on(base) = f[k] BY DEF drawn_on, DrawnSteps, Over
<1>2. k \in Nat /\ DOMAIN tp.draw = 1..k BY JobTyped DEF WellTyped, IsSequence
<1>3. DrawnSteps(f, base, k) BY <1>2, StepsExist
<1> HIDE DEF f, k
<1>4. \A n \in 0..k : f[n] = IF n = 0 THEN base ELSE Over(f[n - 1], tp.draw[n])
  BY <1>3 DEF DrawnSteps
<1>5. 0 \in G BY <1>2, <1>4 DEF Sized
<1>6. ASSUME NEW n \in Nat, n \in G PROVE n + 1 \in G
  <2> SUFFICES ASSUME n + 1 <= k PROVE After(f[n + 1]) OBVIOUS
  <2>1. n + 1 \in 0..k /\ n <= k /\ n + 1 # 0 /\ (n + 1) - 1 = n /\ n + 1 \in 1..k BY <1>2
  <2>2. f[n + 1] = Over(f[n], tp.draw[n + 1]) BY <1>4, <2>1
  <2>3. After(f[n]) BY <1>6, <2>1
  <2>4. CASE f[n] = NoImage /\ OverlayFails BY <2>2, <2>4 DEF Over
  <2>5. CASE Sized(base, f[n])
    <3>1. IsPicture(f[n]) /\ f[n].width = current.width BY <2>5 DEF Sized
    <3>2. n + 1 \in DOMAIN tp.draw BY <1>2, <2>1
    <3>3. (f[n + 1] = NoImage /\ OverlayFails) \/ Sized(f[n], f[n + 1])
      BY <2>2, <3>1, <3>2, DrawnOnSized
    <3>4. Sized(f[n], f[n + 1]) => Sized(base, f[n + 1]) BY <2>5 DEF Sized
    <3> QED BY <3>3, <3>4
  <2> QED BY <2>3, <2>4, <2>5
<1> HIDE DEF G
<1>7. Nat \subseteq G BY <1>5, <1>6, Induction
<1> QED BY <1>1, <1>2, <1>7 DEF G

\* The first page of a file is a picture that is not larger.
LEMMA FirstPageSized ==
  ASSUME NEW file, IsPicture(file)
  PROVE  /\ IsPicture(first_page(file)) /\ first_page(file).width = file.width
         /\ first_page(file).height <= file.height
<1>1. PageHeight(file) \in 1..file.height /\ file.width \in Nat \ {0} /\ file.height \in Nat \ {0}
  BY PagesDivide DEF IsPicture
<1> DEFINE source == [width |-> file.width, height |-> PageHeight(file), pages |-> file.n_pages,
                      orientation |-> file.orientation, alpha |-> file.alpha,
                      grey |-> file.grey, loader |-> file.loader, readable |-> TRUE,
                      stackable |-> TRUE, damaged |-> FALSE]
<1>2. /\ source.width = file.width /\ source.height \in Nat \ {0}
      /\ source.height <= file.height /\ source.readable
  BY <1>1
<1>3. first_page(file) = from_buffer(source, FALSE) BY DEF first_page
<1> HIDE DEF source
<1> DEFINE page == from_buffer(source, FALSE)
<1>4. DOMAIN page = DOMAIN NoImage BY DEF from_buffer, from_buffer_with_option, NoImage
<1>5. page.width = source.width /\ page.height = source.height * 1 /\ page.page_height = 0
  BY <1>2 DEF from_buffer, from_buffer_with_option, NoImage, Absent
<1>6. source.height * 1 = source.height BY <1>2
<1> HIDE DEF page
<1>7. IsPicture(page) BY <1>1, <1>2, <1>4, <1>5, <1>6 DEF IsPicture
<1> QED BY <1>2, <1>3, <1>5, <1>6, <1>7 DEF page

\* OVERLAYS: they are drawn on stills only.
LEMMA DrawOverlaysShaped ==
  ASSUME Held, IInv, Shaped, DrawOverlays
  PROVE  Shaped'
<1>1. stage = "overlays" /\ job \in Job BY DEF DrawOverlays, IInv
<1>2. result.format \in Encodable \cup TextBody
  BY <1>1, OutputEncodable DEF Held, Answered
<1>3. result.format # None BY <1>2, FormatAssumption DEF Encodable, TextBody
<1>4. WholeFile(result) /\ GifReads(result) /\ Filed(result) BY <1>1, <1>3 DEF Shaped
<1>5. CASE DrawsNothing
  <2>1. Return(result, "done") BY <1>1, <1>5 DEF DrawOverlays
  <2> QED BY <1>4, <2>1, ReturnShaped
<1>6. CASE ~DrawsNothing
  <2> DEFINE page == first_page(result.data)
             image == drawn_on(page)
             data == encode_image(image, result.format)
             r == [result EXCEPT !.data = data]
  <2>1. \/ (image = NoImage \/ data = NoImage) /\ Fail("Vips")
        \/ image # NoImage /\ Return(r, "done")
    BY <1>1, <1>6 DEF DrawOverlays
  <2>2. ~result.is_animated /\ result.format \notin TextBody
    BY <1>6 DEF DrawsNothing, produces_text_body, TextBody
  <2>3. IsPicture(result.data) /\ result.data.width = current.width
          /\ result.data.height = current.height
    BY <1>4, <2>2 DEF Filed
  <2>4. IsPicture(page) /\ page.width = current.width /\ page.height <= current.height
    BY <2>3, FirstPageSized
  <2> HIDE DEF page
  <2>5. (image = NoImage /\ OverlayFails) \/ Sized(page, image)
    BY <1>1, <2>4, DrawnSized
  <2> HIDE DEF image
  <2>6. image # NoImage => Sized(page, image) BY <2>5
  <2>7. image # NoImage => FileOf(image, data) /\ (result.format = "gif" => ~data.broken)
    BY <1>2, <2>2, <2>6, EncodedFile DEF Sized
  <2> HIDE DEF data
  <2>8. DOMAIN result = DOMAIN NoResult BY DEF Held, Answered
  <2>9. r.data = data /\ r.format = result.format /\ r.is_animated = result.is_animated
    BY <2>8 DEF NoResult
  <2> HIDE DEF r
  <2>10. CASE image = NoImage /\ Fail("Vips")
    <3>1. OverlayFails
      <4>1. ~Sized(page, image) BY <2>10, NotNoImage DEF Sized
      <4> QED BY <2>5, <4>1
    <3>2. Cause("Vips", stage) BY <1>1, <3>1 DEF OverlayFails, Cause, CauseAt
    <3> QED BY <2>10, <3>2, FailShaped
  <2>11. CASE image # NoImage /\ data = NoImage /\ Fail("Vips")
    <3>1. FileOf(image, NoImage) /\ image.width = current.width
      BY <2>4, <2>6, <2>7, <2>11 DEF Sized
    <3>2. image.height \in Nat /\ current.height \in Nat /\ image.height <= current.height
      BY <2>3, <2>4, <2>6, <2>11 DEF Sized, IsPicture
    <3>3. TooLarge BY <3>1, <3>2, CurrentFile
    <3>4. Cause("Vips", stage) BY <1>1, <3>3 DEF Cause, CauseAt
    <3> QED BY <2>11, <3>4, FailShaped
  <2>12. CASE image # NoImage /\ Return(r, "done")
    <3>1. WholeFile(r) /\ GifReads(r) BY <2>2, <2>7, <2>9, <2>12 DEF WholeFile, GifReads
    <3> QED BY <2>12, <3>1, ReturnShaped
  <2> QED BY <2>1, <2>10, <2>11, <2>12
<1> QED BY <1>5, <1>6

-----------------------------------------------------------------------------
\* Where nothing changes, the stages agree as before.
LEMMA StutterShaped ==
  ASSUME Shaped, UNCHANGED vars
  PROVE  Shaped'
<1>1. /\ stage' = stage /\ job' = job /\ current' = current /\ plan' = plan
      /\ result' = result
  BY DEF vars
<1>2. Shape(stage, current)' BY <1>1, SameShape DEF Shaped
<1>4. result.format # None => WholeFile(result)' /\ GifReads(result)'
  BY <1>1, SameShape DEF Shaped
<1>5. stage = "overlays" => Filed(result)' BY <1>1, SameShape DEF Shaped
<1>6. stage = "failed" => Cause(result.error, result.failed)' BY <1>1, SameShape DEF Shaped
<1> QED BY <1>1, <1>2, <1>4, <1>5, <1>6 DEF Shaped, Shape, WholeFile, GifReads, Filed, Cause

\* Every step keeps what the stages agree about.
LEMMA ShapedInductive == IInv /\ Held /\ Shaped /\ [Next]_vars => Shaped'
<1> SUFFICES ASSUME IInv, Held, Shaped, [Next]_vars PROVE Shaped'
  OBVIOUS
<1>1. job \in Job BY DEF IInv
<1>2. CASE Probe BY <1>2, ProbeShaped
<1>3. CASE CheckBudget BY <1>3, CheckBudgetShaped
<1>4. CASE Reload BY <1>4, ReloadShaped
<1>5. CASE ExtractFrame BY <1>5, ExtractFrameShaped
<1>6. CASE Trim BY <1>6, TrimShaped
<1>7. CASE TrimSides BY <1>7, TrimSidesShaped
<1>8. CASE RotateFlip BY <1>8, RotateFlipShaped
<1>9. CASE Resize BY <1>9, ResizeShaped
<1>10. CASE Pad BY <1>1, <1>10, PadShaped
<1>11. CASE Effects BY <1>1, <1>11, EffectsShaped
<1>12. CASE Background BY <1>12, BackgroundShaped
<1>13. CASE Border BY <1>1, <1>13, BorderShaped
<1>14. CASE AnswerJson BY <1>14, AnswerJsonShaped
<1>15. CASE AnswerThumbhash BY <1>15, AnswerThumbhashShaped
<1>16. CASE Encode BY <1>16, EncodeShaped
<1>17. CASE DrawOverlays BY <1>17, DrawOverlaysShaped
<1>18. CASE UNCHANGED vars BY <1>18, StutterShaped
<1> QED
  BY <1>2, <1>3, <1>4, <1>5, <1>6, <1>7, <1>8, <1>9, <1>10, <1>11, <1>12, <1>13, <1>14, <1>15,
     <1>16, <1>17, <1>18
  DEF Next

\* All three invariants, of every behaviour.
LEMMA AgreedInvariants == Spec => [](IInv /\ Held /\ Shaped)
BY InitIInv, IInvInductive, InitHeld, HeldInductive, InitShaped, ShapedInductive, PTL DEF Spec

\* INV-2, INV-3, for every set of calls: an animated response of options that do not act
\* on the stack shows the first max_frames frames of its source, in their order and of
\* one height, and says how many; and no gif is written with a page height that does not
\* divide its rows, whatever the stages left behind (pipeline.rs:170-204, 345-395,
\* 456-462, 1092-1134).
THEOREM FramesStayWhole == Spec => []FramesIntact
<1>1. IInv /\ Held /\ Shaped => FramesIntact
  <2> SUFFICES ASSUME IInv, Held, Shaped PROVE FramesIntact OBVIOUS
  <2>1. WholeFrames
    <3> SUFFICES ASSUME stage = "done", result.is_animated, ~ActsOnStack, ~OneRowTooHigh,
                        ~JoinsTooMany, ~StackTooLong
                 PROVE  /\ result.frame_count = Least(job.source.pages, max_frames)
                        /\ result.data.frames = FirstNumbers(result.frame_count)
                        /\ result.data.n_pages = result.frame_count
                        /\ result.data.page_height * result.frame_count = result.height
      BY DEF WholeFrames, FirstNumbers
    <3>1. result.format \in Encodable \cup TextBody
      BY OutputEncodable DEF IInv, Held, Answered
    <3>2. result.format # None BY <3>1, FormatAssumption DEF Encodable, TextBody
    <3>3. WholeFile(result) BY <3>2 DEF Shaped
    <3> QED BY <3>3 DEF WholeFile, OneRowTooHigh, JoinsTooMany
  <2>2. result.format = "gif" => ~result.data.broken
    <3>1. result.format = "gif" => result.format # None BY FormatAssumption
    <3> QED BY <3>1 DEF Shaped, GifReads
  <2> QED BY <2>1, <2>2 DEF FramesIntact
<1> QED BY <1>1, AgreedInvariants, PTL

\* For every set of calls, every source and every overlay: a call that validate() let pass
\* fails at a stage only for what that stage cannot do, as named there; no other crop of a
\* stage, index of a frame or raster of a hash is out of its bounds, whatever the stages
\* before left (pipeline.rs:136-286, 358-478, 536-584, 606-677, 950-1110;
\* image.rs:204-222, 676-708).
THEOREM FailsForCause == Spec => []FailsOnlyForCause
<1>1. Shaped => FailsOnlyForCause BY DEF Shaped, Cause, FailsOnlyForCause
<1> QED BY <1>1, AgreedInvariants, PTL

-----------------------------------------------------------------------------
\* A job asks for one of the fits.
LEMMA FitAsked ==
  ASSUME job \in Job
  PROVE  tp.fit \in FitModes
<1>1. tp.fit \in Meanings(FitWords) BY JobTyped DEF WellTyped
<1> QED BY <1>1 DEF Meanings, FitWords, FitModes

\* What holds of a still before the resize: it has no more pixels than the source; it is
\* the image of the source where that may be decoded again; and a frame that is neither
\* turned on its side nor trimmed is level.
Untouched(image) ==
  /\ image.width * image.height <= Pixels(job.source)
  /\ resize_reads_source(tp, animated_output) => image = from_buffer(job.source, FALSE)
  /\ (tp.frame # None /\ ~MayLookPaged) => Level(image)

\* The sides are given both.
SidesGiven == effective_width(tp) # None /\ effective_height(tp) # None

\* What holds after it of the size, before one of the stages or of the answer.
AsAsked(next, out) ==
  /\ ~MayLookPaged => Bounded(tp, out)
  /\ (~MayLookPaged /\ next # "pad" /\ tp.fit = "pad" /\ SidesGiven) =>
       out.width = effective_width(tp) /\ out.height = effective_height(tp)
  /\ tp.fit \in Shrinking => out.width * out.height <= Pixels(job.source)

\* The size that each stage counts on; a border is added to it last.
Sizing(next, image) ==
  /\ (next \in Unresized /\ ~animated_output) => Untouched(image)
  /\ (next \in Resizes /\ ~animated_output /\ (next = "answer" => ~Bordered)) =>
       AsAsked(next, image)

\* The image has it, and the answer tells it.
Measured ==
  /\ Sizing(stage, current)
  /\ (stage \in {"overlays", "done"} /\ ~result.is_animated /\ ~Bordered) =>
       AsAsked("answer", result)

\* Neither changes while a call goes on, nor what they say of an image.
LEMMA SameSizing ==
  ASSUME job' = job, animated_output' = animated_output
  PROVE  /\ \A next, image : Sizing(next, image)' <=> Sizing(next, image)
         /\ \A next, out : AsAsked(next, out)' <=> AsAsked(next, out)
         /\ Bordered' <=> Bordered
<1>1. tp' = tp BY DEF tp
<1>2. (MayLookPaged' <=> MayLookPaged) /\ (Bordered' <=> Bordered) /\ (SidesGiven' <=> SidesGiven)
  BY <1>1 DEF MayLookPaged, Bordered, SidesGiven
<1>3. \A image : Untouched(image)' <=> Untouched(image) BY <1>1, <1>2 DEF Untouched
<1>4. \A next, out : AsAsked(next, out)' <=> AsAsked(next, out) BY <1>1, <1>2 DEF AsAsked
<1>5. \A next, image : Sizing(next, image)' <=> Sizing(next, image)
  BY <1>2, <1>3, <1>4 DEF Sizing
<1> QED BY <1>2, <1>4, <1>5

\* A call that has not begun has no size yet.
LEMMA InitMeasured == Init => Measured
<1> SUFFICES ASSUME Init PROVE Measured OBVIOUS
<1>1. stage = "probe" BY DEF Init
<1> QED BY <1>1 DEF Measured, Sizing, Unresized, Resizes

\* Nor has one that failed.
LEMMA FailMeasured ==
  ASSUME NEW error, Fail(error)
  PROVE  Measured'
<1>1. stage' = "failed" BY DEF Fail
<1> QED BY <1>1 DEF Measured, Sizing, Unresized, Resizes

\* A stage hands an image on.
LEMMA AdvanceMeasured ==
  ASSUME NEW image, NEW next, next \notin {"overlays", "done"}, Advance(image, next),
         animated_output' = animated_output, Sizing(next, image)
  PROVE  Measured'
<1>1. stage' = next /\ job' = job /\ current' = image BY DEF Advance
<1>2. Sizing(next, image)' BY <1>1, SameSizing
<1>3. Sizing(stage, current)' BY <1>1, <1>2
<1> QED BY <1>1, <1>3 DEF Measured

\* Or it fails, or loads one.
LEMMA BecomesMeasured ==
  ASSUME NEW image, NEW next, next \notin {"overlays", "done"},
         Becomes(image, next) \/ Loaded(image, next),
         image # NoImage => Sizing(next, image)
  PROVE  Measured'
<1>1. CASE Advance(image, next) /\ UNCHANGED <<plan, reduced>>
  <2>1. image # NoImage BY <1>1 DEF Advance
  <2>2. animated_output' = animated_output BY <1>1 DEF animated_output
  <2> QED BY <1>1, <2>1, <2>2, AdvanceMeasured
<1>2. CASE Fail("Vips") BY <1>2, FailMeasured
<1> QED BY <1>1, <1>2 DEF Becomes, Loaded

\* An animation has a size of another kind.
LEMMA AnimatedSizing ==
  ASSUME animated_output, NEW next, NEW image
  PROVE  Sizing(next, image)
BY DEF Sizing

\* Before the resize, all that counts is what a stage leaves untouched.
LEMMA EarlySizing ==
  ASSUME NEW next \in Unresized, NEW image, ~animated_output => Untouched(image)
  PROVE  Sizing(next, image)
<1>1. next \notin Resizes BY DEF Unresized, Resizes
<1> QED BY <1>1 DEF Sizing

\* The image of such a stage.
LEMMA EarlyUntouched ==
  ASSUME Measured, stage \in Unresized, ~animated_output
  PROVE  Untouched(current)
BY DEF Measured, Sizing

-----------------------------------------------------------------------------
\* PROBE: the image of the source.
LEMMA ProbeMeasured ==
  ASSUME Held, IInv, Probe
  PROVE  Measured'
<1>1. stage = "probe" /\ Loaded(probed, "check_budget") /\ job \in Job
  BY DEF Probe, probed, IInv
<1>2. CASE ~job.source.readable
  <2>1. probed = NoImage BY <1>2 DEF probed, from_buffer
  <2> QED BY <1>1, <2>1, BecomesMeasured
<1>3. CASE job.source.readable
  <2>1. /\ probed.width = job.source.width /\ probed.height = job.source.height
        /\ probed.page_height = 0
    BY <1>1, <1>3, JobTyped, Decoded DEF probed, Readable
  <2>2. Untouched(probed)
    <3>1. resize_reads_source(tp, animated_output) => probed = from_buffer(job.source, FALSE)
      <4> SUFFICES ASSUME resize_reads_source(tp, animated_output)
                   PROVE  probed = from_buffer(job.source, FALSE)
        OBVIOUS
      <4>1. strict = FALSE BY DEF resize_reads_source, strict
      <4> QED BY <4>1 DEF probed
    <3>2. Level(probed) BY <2>1 DEF Level
    <3>3. probed.width * probed.height <= Pixels(job.source)
      <4>1. job.source.width \in Nat /\ job.source.height \in Nat BY <1>1, JobTyped
      <4>2. job.source.width * job.source.height \in Int BY <4>1
      <4> QED BY <2>1, <4>2 DEF Pixels
    <3> QED BY <3>1, <3>2, <3>3 DEF Untouched
  <2>3. Sizing("check_budget", probed) BY <2>2, EarlySizing DEF Unresized
  <2> QED BY <1>1, <2>3, BecomesMeasured
<1> QED BY <1>2, <1>3

\* CHECK BUDGET: a still stays as it is.
LEMMA CheckBudgetMeasured ==
  ASSUME Held, Measured, CheckBudget
  PROVE  Measured'
<1>1. stage = "check_budget" BY DEF CheckBudget
<1>2. CASE Fail("ExceedsMaxPixels") BY <1>2, FailMeasured
<1>3. CASE Advance(current, "reload")
  <2>1. stage' = "reload" /\ job' = job /\ current' = current BY <1>3 DEF Advance
  <2>2. plan = NoPlan BY <1>1 DEF Held, Planned
  <2>3. ~animated_output BY <2>2 DEF animated_output, NoPlan
  <2>4. Untouched(current) BY <1>1, <2>3, EarlyUntouched DEF Unresized
  <2>5. Sizing("reload", current) BY <2>4, EarlySizing DEF Unresized
  <2>6. CASE animated_output'
    <3>1. Sizing(stage, current)' BY <2>1, <2>6 DEF Sizing, Unresized, Resizes
    <3> QED BY <2>1, <3>1 DEF Measured
  <2>7. CASE ~animated_output'
    <3>1. animated_output' = animated_output BY <2>3, <2>7 DEF animated_output
    <3> QED BY <1>3, <2>5, <3>1, AdvanceMeasured
  <2> QED BY <2>6, <2>7
<1> QED BY <1>2, <1>3 DEF CheckBudget

\* RELOAD: so it does.
LEMMA ReloadMeasured ==
  ASSUME Measured, Reload
  PROVE  Measured'
<1>1. stage = "reload" BY DEF Reload
<1>2. CASE animated_output
  <2>1. PICK image : Loaded(image, "extract_frame") BY <1>1, <1>2 DEF Reload
  <2>2. Sizing("extract_frame", image) BY <1>2, AnimatedSizing
  <2> QED BY <2>1, <2>2, BecomesMeasured
<1>3. CASE ~animated_output
  <2>1. Becomes(current, "extract_frame") BY <1>1, <1>3 DEF Reload
  <2>2. Untouched(current) BY <1>1, <1>3, EarlyUntouched DEF Unresized
  <2>3. Sizing("extract_frame", current) BY <2>2, EarlySizing DEF Unresized
  <2> QED BY <2>1, <2>3, BecomesMeasured
<1> QED BY <1>2, <1>3

\* What a crop keeps beside the look: the page height and the orientation.
LEMMA CropSheet ==
  ASSUME NEW image, IsPicture(image), NEW left \in Int, NEW top \in Int,
         NEW width \in Int, NEW height \in Int,
         crop(image, left, top, width, height) # NoImage
  PROVE  LET cut == crop(image, left, top, width, height)
         IN /\ cut.width = width /\ cut.height = height
            /\ cut.page_height = image.page_height /\ cut.orientation = image.orientation
            /\ IsPicture(cut) /\ width <= image.width /\ height <= image.height
<1> DEFINE cut == crop(image, left, top, width, height)
<1>1. Inside(image, left, top, width, height) BY CropKeeps
<1>2. Kept(image, cut) /\ cut.width = width /\ cut.height = height BY <1>1, CropKeeps
<1>3. cut.page_height = image.page_height /\ cut.orientation = image.orientation
  BY FieldsTold DEF crop, IsPicture, Fields
<1> HIDE DEF cut
<1>4. width <= image.width /\ height <= image.height BY <1>1 DEF Inside, IsPicture
<1> QED BY <1>2, <1>3, <1>4 DEF Kept, cut

\* It has no more pixels.
LEMMA CropArea ==
  ASSUME NEW image, IsPicture(image), NEW left \in Int, NEW top \in Int,
         NEW width \in Int, NEW height \in Int,
         crop(image, left, top, width, height) # NoImage
  PROVE  LET cut == crop(image, left, top, width, height)
         IN cut.width * cut.height <= image.width * image.height
<1> DEFINE cut == crop(image, left, top, width, height)
<1>1. /\ cut.width = width /\ cut.height = height /\ IsPicture(cut)
      /\ width <= image.width /\ height <= image.height
  BY CropSheet
<1> HIDE DEF cut
<1>2. /\ width \in Nat /\ height \in Nat /\ image.width \in Nat /\ image.height \in Nat
  BY <1>1 DEF IsPicture
<1>3. width * height <= image.width * image.height BY <1>1, <1>2, AreasOrdered
<1> QED BY <1>1, <1>3 DEF cut

\* EXTRACT FRAME: a frame is as large as the source, and level.
LEMMA ExtractFrameMeasured ==
  ASSUME Held, IInv, Measured, ExtractFrame
  PROVE  Measured'
<1>1. stage = "extract_frame" /\ job \in Job BY DEF ExtractFrame, IInv
<1>2. CASE ~animated_output /\ tp.frame # None /\ is_animated /\ ~job.source.stackable
  <2> DEFINE image == crop(NoImage, 0, safe_frame(tp.frame, plan.n_pages) * NoImage.page_height,
                           NoImage.width, NoImage.page_height)
  <2>1. image = NoImage BY DEF crop, NoImage
  <2>2. from_buffer_animated(job.source, -1, strict) = NoImage
    BY <1>2 DEF from_buffer_animated
  <2> HIDE DEF image
  <2>3. Loaded(image, "trim") BY <1>1, <1>2, <2>2 DEF ExtractFrame, image
  <2> QED BY <2>1, <2>3, BecomesMeasured
<1>3. CASE animated_output
  <2>1. PICK image : Becomes(image, "trim") \/ Loaded(image, "trim")
    BY <1>1, <1>3 DEF ExtractFrame
  <2>2. Sizing("trim", image) BY <1>3, AnimatedSizing
  <2> QED BY <2>1, <2>2, BecomesMeasured
<1>4. CASE ~animated_output /\ ~(tp.frame # None /\ is_animated)
  <2>1. Becomes(current, "trim") BY <1>1, <1>4 DEF ExtractFrame
  <2>2. Untouched(current) BY <1>1, <1>4, EarlyUntouched DEF Unresized
  <2>3. Sizing("trim", current) BY <2>2, EarlySizing DEF Unresized
  <2> QED BY <2>1, <2>3, BecomesMeasured
<1>5. CASE ~animated_output /\ tp.frame # None /\ is_animated /\ job.source.stackable
  <2> DEFINE page == job.source.height
             stack == from_buffer_animated(job.source, -1, strict)
             k == safe_frame(tp.frame, plan.n_pages)
             image == crop(stack, 0, k * page, stack.width, page)
  <2>1. plan = PlanFor(probed) BY <1>1 DEF Held, Planned
  <2>2. plan.n_pages = job.source.pages
    BY <1>1, <2>1, SourceReadable, JobTyped, Decoded DEF probed, PlanFor, n_pages_of
  <2>3. /\ job.source.pages \in Nat \ {0} /\ page \in Nat \ {0} /\ strict \in BOOLEAN
        /\ job.source \in Source /\ job.source.width \in Nat \ {0}
    BY <1>1, <1>5, <2>2, JobTyped DEF is_animated
  <2>4. IsStack(stack, job.source, job.source.pages, strict)
    BY <1>5, <2>3, DecodedStack DEF StackedPages
  <2>5. /\ stack.page_height = page /\ stack.orientation = job.source.orientation
        /\ stack.width = job.source.width /\ IsPicture(stack)
    BY <2>4 DEF IsStack
  <2>6. k \in Int
    <3>1. WellTyped(tp) BY <1>1, JobTyped
    <3>2. tp.frame \in Nat BY <1>5, <3>1 DEF WellTyped, WholeNumber
    <3> QED BY <2>2, <2>3, <3>2 DEF safe_frame
  <2> HIDE DEF stack, k
  <2>7. Loaded(image, "trim") BY <1>1, <1>5, <2>5 DEF ExtractFrame, stack, k
  <2>8. image # NoImage => Untouched(image)
    <3> SUFFICES ASSUME image # NoImage PROVE Untouched(image) OBVIOUS
    <3>1. k * page \in Int /\ stack.width \in Int /\ page \in Int BY <2>3, <2>5, <2>6
    <3>2. /\ image.width = stack.width /\ image.height = page
          /\ image.page_height = stack.page_height /\ image.orientation = stack.orientation
      BY <2>5, <3>1, CropSheet
    <3> HIDE DEF image, page
    <3>3. ~resize_reads_source(tp, animated_output) BY <1>5 DEF resize_reads_source
    <3>4. ~MayLookPaged => Level(image)
      <4>1. (tp.frame # None /\ ~MayLookPaged) => ~Turns(job.source) BY DEF MayLookPaged
      <4>2. Turns(image) <=> Turns(job.source) BY <2>5, <3>2 DEF Turns
      <4> QED BY <1>5, <2>5, <3>2, <4>1, <4>2 DEF Level
    <3>5. image.width * image.height <= Pixels(job.source)
      BY <2>3, <2>5, <3>2 DEF Pixels, page
    <3> QED BY <3>3, <3>4, <3>5 DEF Untouched
  <2> HIDE DEF image
  <2>9. image # NoImage => Sizing("trim", image) BY <2>8, EarlySizing DEF Unresized
  <2> QED BY <2>7, <2>9, BecomesMeasured
<1> QED BY <1>2, <1>3, <1>4, <1>5

-----------------------------------------------------------------------------
\* TRIM: what it cuts is smaller, and no image of the source any more.
LEMMA TrimMeasured ==
  ASSUME Held, IInv, Measured, Trim
  PROVE  Measured'
<1>1. stage = "trim" /\ job \in Job BY DEF Trim, IInv
<1>2. IsPicture(current) BY <1>1, NotReduced DEF Unresized
<1>3. ~animated_output => Untouched(current) BY <1>1, EarlyUntouched DEF Unresized
<1>4. CASE tp.trim = None \/ animated_output
  <2>1. Becomes(current, "trim_sides") BY <1>1, <1>4 DEF Trim
  <2>2. Sizing("trim_sides", current) BY <1>3, EarlySizing DEF Unresized
  <2> QED BY <2>1, <2>2, BecomesMeasured
<1>5. CASE Fail("Vips") BY <1>5, FailMeasured
<1>6. ASSUME NEW box \in find_trim(current), tp.trim # None, ~animated_output,
             Becomes(With({"trim"}, IF box[3] > 0 /\ box[4] > 0
                                    THEN crop(current, box[1], box[2], box[3], box[4])
                                    ELSE current), "trim_sides")
      PROVE  Measured'
  <2> DEFINE cut == IF box[3] > 0 /\ box[4] > 0
                    THEN crop(current, box[1], box[2], box[3], box[4])
                    ELSE current
             image == With({"trim"}, cut)
  <2>1. Becomes(image, "trim_sides") BY <1>6
  <2>2. IsPicture(cut) /\ cut.width * cut.height <= current.width * current.height
    <3>1. current.width \in Nat \ {0} /\ current.height \in Nat \ {0} BY <1>2 DEF IsPicture
    <3>2. current.width * current.height \in Int BY <3>1
    <3>3. CASE box[3] > 0 /\ box[4] > 0
      <4>1. box[1] \in Int /\ box[2] \in Int /\ box[3] \in Int /\ box[4] \in Int
        BY <3>1 DEF find_trim
      <4>2. cut = crop(current, box[1], box[2], box[3], box[4]) BY <3>3
      <4>3. cut # NoImage /\ IsPicture(cut) BY <1>2, <3>3, TrimBox DEF Edited
      <4> HIDE DEF cut
      <4> QED BY <1>2, <4>1, <4>2, <4>3, CropArea
    <3>4. CASE ~(box[3] > 0 /\ box[4] > 0) BY <1>2, <3>2, <3>4
    <3> QED BY <3>3, <3>4
  <2> HIDE DEF cut
  <2>3. image.width = cut.width /\ image.height = cut.height
    BY <2>2, FieldsTold DEF With, IsPicture, Fields
  <2>4. image.width * image.height <= Pixels(job.source)
    <3>1. /\ cut.width \in Nat /\ cut.height \in Nat
          /\ current.width \in Nat /\ current.height \in Nat
      BY <1>2, <2>2 DEF IsPicture
    <3>2. cut.width * cut.height \in Int /\ current.width * current.height \in Int BY <3>1
    <3>3. job.source.width \in Nat /\ job.source.height \in Nat BY <1>1, JobTyped
    <3>4. Pixels(job.source) \in Int BY <3>3 DEF Pixels
    <3>5. current.width * current.height <= Pixels(job.source) BY <1>3, <1>6 DEF Untouched
    <3> QED BY <2>2, <2>3, <3>2, <3>4, <3>5
  <2> HIDE DEF image
  <2>5. Untouched(image) BY <1>6, <2>4 DEF Untouched, resize_reads_source, MayLookPaged
  <2>6. Sizing("trim_sides", image) BY <2>5, EarlySizing DEF Unresized
  <2> QED BY <2>1, <2>6, BecomesMeasured
<1> QED BY <1>1, <1>4, <1>5, <1>6 DEF Trim

\* Where no side is trimmed, nothing is cut off.
LEMMA NothingTrimmed ==
  ASSUME job \in Job, ~trims_a_side(tp), NEW side \in Nat \ {0},
         NEW f \in {"trim_top", "trim_right", "trim_bottom", "trim_left"}
  PROVE  Resolved(tp[f], side) = {0}
<1>1. tp[f] \in {None, 0} BY DEF trims_a_side
<1>2. CASE tp[f] = None BY <1>2 DEF Resolved
<1>3. CASE tp[f] = 0 /\ tp[f] # None
  <2>1. 0 * side = 0 OBVIOUS
  <2>2. Nearest(0, 1000) = {0} BY DEF Nearest, Rint
  <2>3. Least(0, side) = 0 BY DEF Least
  <2> QED BY <1>3, <2>1, <2>2, <2>3 DEF Resolved
<1> QED BY <1>1, <1>2, <1>3

\* The crop of a whole image is that image.
LEMMA CropWhole ==
  ASSUME NEW source \in Readable
  PROVE  LET image == from_buffer(source, FALSE)
         IN With({}, crop(image, 0, 0, image.width, image.height)) = image
<1> DEFINE image == from_buffer(source, FALSE)
           cut == crop(image, 0, 0, image.width, image.height)
           marked == With({}, cut)
<1>1. IsPicture(image) BY Decoded
<1>2. image = [x \in Fields |-> image[x]]
  <2>1. image = from_buffer_with_option(source, FALSE, 1) BY DEF Readable, from_buffer
  <2>2. NoImage = [x \in Fields |-> NoImage[x]] BY FieldsTold DEF NoImage, Fields
  <2> QED BY <2>1, <2>2 DEF from_buffer_with_option
<1> HIDE DEF image
<1>3. image.width \in Nat \ {0} /\ image.height \in Nat \ {0} BY <1>1 DEF IsPicture
<1>4. cut = [image EXCEPT !.width = image.width, !.height = image.height,
                          !.frames = FramesIn(image, 0, image.height)]
  BY <1>3 DEF crop
<1>5. FramesIn(image, 0, image.height) = image.frames BY DEF FramesIn
<1>6. cut = image BY <1>2, <1>4, <1>5
<1> HIDE DEF cut
<1>7. marked = [image EXCEPT !.edits = image.edits] BY <1>6 DEF With
<1> HIDE DEF marked
<1>8. marked = image BY <1>2, <1>7
<1> QED BY <1>8 DEF marked, cut, image

\* TRIM SIDES: what it cuts is smaller; without a side to trim, it cuts nothing.
LEMMA TrimSidesMeasured ==
  ASSUME Held, IInv, Measured, TrimSides
  PROVE  Measured'
<1>1. stage = "trim_sides" /\ job \in Job BY DEF TrimSides, IInv
<1>2. IsPicture(current) BY <1>1, NotReduced DEF Unresized
<1>3. ~animated_output => Untouched(current) BY <1>1, EarlyUntouched DEF Unresized
<1> DEFINE Sides == {"trim_top", "trim_right", "trim_bottom", "trim_left"}
           w == current.width
           h == current.height
<1>4. w \in Nat \ {0} /\ h \in Nat \ {0} BY <1>2 DEF IsPicture
<1>5. CASE animated_output \/ \A f \in Sides : tp[f] = None
  <2>1. Becomes(current, "rotate_flip") BY <1>1, <1>5 DEF TrimSides
  <2>2. Sizing("rotate_flip", current) BY <1>3, EarlySizing DEF Unresized
  <2> QED BY <2>1, <2>2, BecomesMeasured
<1>6. CASE ~(animated_output \/ \A f \in Sides : tp[f] = None)
  <2>1. PICK top \in Resolved(tp.trim_top, h), bottom \in Resolved(tp.trim_bottom, h),
             left \in Resolved(tp.trim_left, w), right \in Resolved(tp.trim_right, w) :
          LET cut == crop(current, left, top, AtLeast1(w - left - right),
                          AtLeast1(h - top - bottom))
          IN Becomes(IF cut = NoImage THEN cut
                     ELSE With(IF trims_a_side(tp) THEN {"sides"} ELSE {}, cut),
                     "rotate_flip")
    BY <1>1, <1>6 DEF TrimSides
  <2> DEFINE width == AtLeast1(w - left - right)
             height == AtLeast1(h - top - bottom)
             cut == crop(current, left, top, width, height)
             edits == IF trims_a_side(tp) THEN {"sides"} ELSE {}
             marked == With(edits, cut)
             image == IF cut = NoImage THEN cut ELSE marked
  <2>2. Becomes(image, "rotate_flip") BY <2>1
  <2>3. top \in Int /\ bottom \in Int /\ left \in Int /\ right \in Int
    <3>1. \A f \in Sides : tp[f] \in Int \cup {None} BY <1>1, TrimsTyped
    <3>2. w \in Nat /\ h \in Nat BY <1>4
    <3> HIDE DEF w, h
    <3> QED BY <2>1, <3>1, <3>2, ResolvedWhole
  <2>4. ~trims_a_side(tp) => left = 0 /\ top = 0 /\ width = w /\ height = h
    <3> SUFFICES ASSUME ~trims_a_side(tp) PROVE left = 0 /\ top = 0 /\ width = w /\ height = h
      OBVIOUS
    <3> HIDE DEF w, h
    <3>1. /\ Resolved(tp.trim_top, h) = {0} /\ Resolved(tp.trim_bottom, h) = {0}
          /\ Resolved(tp.trim_left, w) = {0} /\ Resolved(tp.trim_right, w) = {0}
      BY <1>1, <1>4, NothingTrimmed
    <3>2. top = 0 /\ bottom = 0 /\ left = 0 /\ right = 0 BY <2>1, <3>1
    <3> QED BY <1>4, <3>2 DEF AtLeast1
  <2>5. width \in Int /\ height \in Int BY <1>4, <2>3 DEF AtLeast1
  <2> HIDE DEF width, height
  <2>6. (~animated_output /\ image # NoImage) => Untouched(image)
    <3> SUFFICES ASSUME ~animated_output, image # NoImage PROVE Untouched(image) OBVIOUS
    <3>1. cut # NoImage /\ image = marked OBVIOUS
    <3>2. /\ cut.width = width /\ cut.height = height /\ IsPicture(cut)
          /\ cut.page_height = current.page_height /\ cut.orientation = current.orientation
      BY <1>2, <2>3, <2>5, <3>1, CropSheet
    <3>3. cut.width * cut.height <= current.width * current.height
      BY <1>2, <2>3, <2>5, <3>1, CropArea
    <3>4. resize_reads_source(tp, animated_output) => marked = from_buffer(job.source, FALSE)
      <4> SUFFICES ASSUME resize_reads_source(tp, animated_output)
                   PROVE  marked = from_buffer(job.source, FALSE)
        OBVIOUS
      <4>1. ~trims_a_side(tp) BY DEF resize_reads_source
      <4>2. current = from_buffer(job.source, FALSE) BY <1>3 DEF Untouched
      <4>3. job.source \in Readable BY <1>1, SourceReadable
      <4>4. marked = With({}, crop(current, 0, 0, w, h)) BY <2>4, <4>1
      <4> HIDE DEF marked
      <4> QED BY <4>2, <4>3, <4>4, CropWhole
    <3> HIDE DEF cut, edits
    <3>5. /\ marked.width = cut.width /\ marked.height = cut.height
          /\ marked.page_height = cut.page_height /\ marked.orientation = cut.orientation
      BY <3>2, FieldsTold DEF With, IsPicture, Fields
    <3> HIDE DEF marked, image
    <3>6. (tp.frame # None /\ ~MayLookPaged) => Level(marked)
      <4> SUFFICES ASSUME tp.frame # None, ~MayLookPaged PROVE Level(marked) OBVIOUS
      <4>1. ~trims_a_side(tp) BY DEF MayLookPaged
      <4>2. Level(current) BY <1>3 DEF Untouched
      <4>3. height = current.height BY <2>4, <4>1
      <4> QED BY <3>2, <3>5, <4>2, <4>3 DEF Level, Turns
    <3>7. marked.width * marked.height <= Pixels(job.source)
      <4>1. /\ cut.width \in Nat /\ cut.height \in Nat
            /\ current.width \in Nat /\ current.height \in Nat
        BY <1>2, <3>2 DEF IsPicture
      <4>2. cut.width * cut.height \in Int /\ current.width * current.height \in Int BY <4>1
      <4>3. job.source.width \in Nat /\ job.source.height \in Nat BY <1>1, JobTyped
      <4>4. Pixels(job.source) \in Int BY <4>3 DEF Pixels
      <4>5. current.width * current.height <= Pixels(job.source) BY <1>3 DEF Untouched
      <4> QED BY <3>3, <3>5, <4>2, <4>4, <4>5
    <3> QED BY <3>1, <3>4, <3>6, <3>7 DEF Untouched
  <2> HIDE DEF image
  <2>7. image # NoImage => Sizing("rotate_flip", image) BY <2>6, EarlySizing DEF Unresized
  <2> QED BY <2>2, <2>7, BecomesMeasured
<1> QED BY <1>5, <1>6

-----------------------------------------------------------------------------
\* A mark changes no size.
LEMMA MarkedSheet ==
  ASSUME NEW image, IsPicture(image), NEW edits
  PROVE  IsPicture(With(edits, image)) /\ SameColumn(image, With(edits, image))
<1> DEFINE b == With(edits, image)
<1>1. /\ DOMAIN b = DOMAIN image /\ b.width = image.width /\ b.height = image.height
      /\ b.page_height = image.page_height /\ b.orientation = image.orientation
  BY FieldsTold DEF With, IsPicture, Fields
<1> HIDE DEF b
<1>2. IsPicture(b) /\ SameColumn(image, b) BY <1>1 DEF IsPicture, SameColumn
<1> QED BY <1>2 DEF b

\* Nor does a flip.
LEMMA FlipSheet ==
  ASSUME NEW image, IsPicture(image), NEW direction
  PROVE  IsPicture(flip(image, direction)) /\ SameColumn(image, flip(image, direction))
<1> DEFINE b == flip(image, direction)
<1>1. /\ DOMAIN b = DOMAIN image /\ b.width = image.width /\ b.height = image.height
      /\ b.page_height = image.page_height /\ b.orientation = image.orientation
  BY FieldsTold DEF flip, IsPicture, Fields
<1> HIDE DEF b
<1>2. IsPicture(b) /\ SameColumn(image, b) BY <1>1 DEF IsPicture, SameColumn
<1> QED BY <1>2 DEF b

\* Nor a half turn; a quarter turn swaps the sides.
LEMMA RotSheet ==
  ASSUME NEW image, IsPicture(image), NEW angle
  PROVE  /\ IsPicture(rot(image, angle))
         /\ angle = "180" => SameColumn(image, rot(image, angle))
         /\ angle # "180" => /\ rot(image, angle).width = image.height
                             /\ rot(image, angle).height = image.width
<1> DEFINE b == rot(image, angle)
<1>1. /\ DOMAIN b = DOMAIN image
      /\ angle = "180" => /\ b.width = image.width /\ b.height = image.height
                          /\ b.page_height = image.page_height
                          /\ b.orientation = image.orientation
      /\ angle # "180" => b.width = image.height /\ b.height = image.width
  BY FieldsTold DEF rot, IsPicture, Fields
<1>2. IsPicture(b) BY RotKeeps DEF Kept
<1> HIDE DEF b
<1>3. angle = "180" => SameColumn(image, b) BY <1>1 DEF SameColumn
<1> QED BY <1>1, <1>2, <1>3 DEF b

\* What the flips do.
LEMMA FlippedSheet ==
  ASSUME NEW image, IsPicture(image), NEW mode
  PROVE  IsPicture(Flipped(image, mode)) /\ SameColumn(image, Flipped(image, mode))
<1> DEFINE across == IF mode \in {"h", "hv"} THEN With({"flip h"}, flip(image, "horizontal"))
                     ELSE image
           turned == IF mode \in {"v", "hv"} THEN With({"flip v"}, flip(across, "vertical"))
                     ELSE across
<1>1. ASSUME NEW a, IsPicture(a), NEW direction, NEW edits
      PROVE  LET b == With(edits, flip(a, direction)) IN IsPicture(b) /\ SameColumn(a, b)
  <2> DEFINE f == flip(a, direction)
  <2>1. IsPicture(f) /\ SameColumn(a, f) BY <1>1, FlipSheet
  <2> HIDE DEF f
  <2>2. IsPicture(With(edits, f)) /\ SameColumn(f, With(edits, f)) BY <2>1, MarkedSheet
  <2> QED BY <2>1, <2>2 DEF SameColumn, f
<1>2. IsPicture(across) /\ SameColumn(image, across)
  <2>1. SameColumn(image, image) BY DEF SameColumn
  <2> QED BY <1>1, <2>1
<1> HIDE DEF across
<1>3. IsPicture(turned) /\ SameColumn(across, turned)
  <2>1. SameColumn(across, across) BY DEF SameColumn
  <2> QED BY <1>1, <1>2, <2>1
<1>4. turned = Flipped(image, mode) BY DEF Flipped, across
<1> HIDE DEF turned
<1> QED BY <1>2, <1>3, <1>4 DEF SameColumn

\* What the turn does.
LEMMA RotatedSheet ==
  ASSUME NEW image, IsPicture(image), NEW rotation \in {None, "0", "90", "180", "270"}
  PROVE  LET turned == Rotated(image, rotation)
         IN /\ IsPicture(turned)
            /\ rotation \notin {"90", "270"} => SameColumn(image, turned)
            /\ turned.width * turned.height = image.width * image.height
<1>1. image.width \in Nat /\ image.height \in Nat BY DEF IsPicture
<1>2. image.height * image.width = image.width * image.height BY <1>1
<1>3. CASE rotation \in {None, "0"} BY <1>3 DEF Rotated, SameColumn
<1>4. CASE rotation \notin {None, "0"}
  <2> DEFINE b == rot(image, rotation)
             turned == With({"rotate"}, b)
  <2>1. /\ IsPicture(b)
        /\ rotation = "180" => SameColumn(image, b)
        /\ rotation # "180" => b.width = image.height /\ b.height = image.width
    BY RotSheet
  <2> HIDE DEF b
  <2>2. IsPicture(turned) /\ SameColumn(b, turned) BY <2>1, MarkedSheet
  <2> HIDE DEF turned
  <2>3. rotation = "180" => SameColumn(image, turned) BY <2>1, <2>2 DEF SameColumn
  <2>4. turned.width * turned.height = image.width * image.height
    BY <1>2, <2>1, <2>2, <2>3 DEF SameColumn
  <2>5. Rotated(image, rotation) = turned BY <1>4 DEF Rotated, turned, b
  <2> QED BY <1>4, <2>2, <2>3, <2>4, <2>5
<1> QED BY <1>3, <1>4

\* Where the resize reads the source, nothing is turned.
LEMMA NothingTurned ==
  ASSUME resize_reads_source(tp, animated_output), NEW image
  PROVE  Flipped(Rotated(image, tp.rotate), tp.flip) = image
<1>1. tp.rotate \in {None, "0"} /\ tp.flip = None BY DEF resize_reads_source
<1>2. None \notin {"h", "v", "hv"}
  <2>1. <<"flip", FlipWords>> \in WordTables BY DEF WordTables
  <2>2. None \notin Meanings(FlipWords) BY <2>1, WordAssumption
  <2>3. /\ <<"h", "h">> \in FlipWords /\ <<"v", "v">> \in FlipWords
        /\ <<"hv", "hv">> \in FlipWords
    BY DEF FlipWords
  <2>4. \A e \in FlipWords : e[2] \in Meanings(FlipWords) BY DEF Meanings
  <2> QED BY <2>2, <2>3, <2>4
<1> QED BY <1>1, <1>2 DEF Rotated, Flipped

\* ROTATE/FLIP: as many pixels as before.
LEMMA RotateFlipMeasured ==
  ASSUME Held, IInv, Measured, RotateFlip
  PROVE  Measured'
<1>1. stage = "rotate_flip" /\ job \in Job BY DEF RotateFlip, IInv
<1>2. IsPicture(current) BY <1>1, NotReduced DEF Unresized
<1>3. ~animated_output => Untouched(current) BY <1>1, EarlyUntouched DEF Unresized
<1> DEFINE turned == Rotated(current, tp.rotate)
           image == Flipped(turned, tp.flip)
<1>4. Becomes(image, "resize") BY <1>1 DEF RotateFlip
<1>5. /\ IsPicture(turned)
      /\ tp.rotate \notin {"90", "270"} => SameColumn(current, turned)
      /\ turned.width * turned.height = current.width * current.height
  BY <1>1, <1>2, Rotations, RotatedSheet
<1>6. resize_reads_source(tp, animated_output) => image = current BY NothingTurned
<1> HIDE DEF turned
<1>7. IsPicture(image) /\ SameColumn(turned, image) BY <1>5, FlippedSheet
<1> HIDE DEF image
<1>8. ~animated_output => Untouched(image)
  <2> SUFFICES ASSUME ~animated_output PROVE Untouched(image) OBVIOUS
  <2>1. image.width * image.height <= Pixels(job.source)
    BY <1>3, <1>5, <1>7 DEF Untouched, SameColumn
  <2>2. resize_reads_source(tp, animated_output) => image = from_buffer(job.source, FALSE)
    BY <1>3, <1>6 DEF Untouched
  <2>3. (tp.frame # None /\ ~MayLookPaged) => Level(image)
    <3> SUFFICES ASSUME tp.frame # None, ~MayLookPaged PROVE Level(image) OBVIOUS
    <3>1. tp.rotate \notin {"90", "270"} BY DEF MayLookPaged
    <3>2. SameColumn(current, turned) BY <1>5, <3>1
    <3>3. Level(current) BY <1>3 DEF Untouched
    <3> QED BY <1>7, <3>2, <3>3 DEF SameColumn, Level, Turns
  <2> QED BY <2>1, <2>2, <2>3 DEF Untouched
<1>9. Sizing("resize", image) BY <1>8, EarlySizing DEF Unresized
<1> QED BY <1>4, <1>9, BecomesMeasured

-----------------------------------------------------------------------------
\* What the resize is given of a still.
LEMMA ResizeGiven ==
  ASSUME Held, IInv, Measured, stage = "resize", ~animated_output
  PROVE  /\ IsPicture(current) /\ tp.fit \in FitModes
         /\ effective_width(tp) \in BoxSide \cup {None}
         /\ effective_height(tp) \in BoxSide \cup {None}
         /\ resize_source # None =>
              resize_source \in Readable /\ current = from_buffer(resize_source, FALSE)
         /\ current.width * current.height <= Pixels(job.source)
         /\ ~MayLookPaged => Level(current)
<1>1. job \in Job BY DEF IInv
<1>2. IsPicture(current) /\ Found("resize", current, FALSE) BY NotReduced DEF Unresized
<1>3. Untouched(current) BY EarlyUntouched DEF Unresized
<1>4. WellTyped(tp) /\ validate(tp) /\ job.source \in Readable BY <1>1, JobTyped, SourceReadable
<1>5. /\ effective_width(tp) \in BoxSide \cup {None}
      /\ effective_height(tp) \in BoxSide \cup {None}
  BY <1>4, EffectiveSides
<1>6. resize_source # None => resize_source = job.source /\ resize_reads_source(tp, animated_output)
  BY DEF resize_source
<1>7. resize_source # None => resize_source \in Readable /\ current = from_buffer(resize_source, FALSE)
  BY <1>3, <1>4, <1>6 DEF Untouched
<1>8. tp.frame = None => Level(current) BY <1>2 DEF Found, Level
<1> QED BY <1>1, <1>2, <1>3, <1>5, <1>7, <1>8, FitAsked DEF Untouched

\* RESIZE: within the box, with no more pixels than the source where the fit never
\* enlarges; or no side is asked for.
LEMMA ResizeMeasured ==
  ASSUME Held, Held', IInv, Measured, Resize
  PROVE  Measured'
<1>1. stage = "resize" /\ job \in Job BY DEF Resize, IInv
<1>2. CASE effective_width(tp) = None /\ effective_height(tp) = None
  <2>1. Becomes(current, "effects") BY <1>1, <1>2 DEF Resize
  <2>2. ~animated_output => AsAsked("effects", current)
    BY <1>1, <1>2, ResizeGiven DEF AsAsked, Bounded, SidesGiven
  <2>3. Sizing("effects", current) BY <2>2 DEF Sizing, Unresized
  <2> QED BY <2>1, <2>3, BecomesMeasured
<1>3. CASE ~(effective_width(tp) = None /\ effective_height(tp) = None)
  <2>1. PICK out \in Resized(current, resize_source, tp, animated_output, plan.effective_pages) :
          \/ Advance(out.image, "pad") /\ reduced' = out.reduced /\ UNCHANGED plan
          \/ out.image = NoImage /\ Fail("Vips")
    BY <1>1, <1>3 DEF Resize
  <2>2. (~animated_output /\ IsPicture(out.image)) => AsAsked("pad", out.image)
    <3> SUFFICES ASSUME ~animated_output, IsPicture(out.image) PROVE AsAsked("pad", out.image)
      OBVIOUS
    <3> DEFINE source == resize_source
               pages == plan.effective_pages
    <3>1. animated_output = FALSE BY DEF animated_output
    <3>2. out \in Resized(current, source, tp, FALSE, pages) BY <2>1, <3>1
    <3>3. /\ IsPicture(current) /\ tp.fit \in FitModes
          /\ effective_width(tp) \in BoxSide \cup {None}
          /\ effective_height(tp) \in BoxSide \cup {None}
          /\ source # None => source \in Readable /\ current = from_buffer(source, FALSE)
          /\ current.width * current.height <= Pixels(job.source)
          /\ ~MayLookPaged => Level(current)
      BY <1>1, ResizeGiven
    <3> HIDE DEF source, pages
    <3>4. /\ Level(current) => Bounded(tp, out.image)
          /\ NoLarger(tp, current, out.image)
          /\ \E full \in Resized(current, None, tp, FALSE, pages) : SameSize(out.image, full.image)
      BY <1>3, <3>2, <3>3, StillResized
    <3>5. tp.fit \in Shrinking => out.image.width * out.image.height <= Pixels(job.source)
      <4>1. /\ out.image.width \in Nat /\ out.image.height \in Nat
            /\ current.width \in Nat /\ current.height \in Nat
        BY <3>3 DEF IsPicture
      <4>2. out.image.width * out.image.height \in Int /\ current.width * current.height \in Int
        BY <4>1
      <4>3. job.source.width \in Nat /\ job.source.height \in Nat BY <1>1, JobTyped
      <4>4. Pixels(job.source) \in Int BY <4>3 DEF Pixels
      <4> QED BY <3>3, <3>4, <4>2, <4>4 DEF NoLarger
    <3> QED BY <3>3, <3>4, <3>5 DEF AsAsked
  <2>3. CASE Advance(out.image, "pad") /\ UNCHANGED plan
    <3>1. animated_output' = animated_output BY <2>3 DEF animated_output
    <3>2. stage' = "pad" /\ current' = out.image BY <2>3 DEF Advance
    <3>3. IsPicture(out.image) BY <3>2 DEF Held, Images
    <3>4. Sizing("pad", out.image) BY <2>2, <3>3 DEF Sizing, Unresized
    <3> QED BY <2>3, <3>1, <3>4, AdvanceMeasured
  <2>4. CASE Fail("Vips") BY <2>4, FailMeasured
  <2> QED BY <2>1, <2>3, <2>4
<1> QED BY <1>2, <1>3

\* PAD: the box is filled.
LEMMA PadMeasured ==
  ASSUME Held, IInv, Measured, Pad
  PROVE  Measured'
<1>1. stage = "pad" /\ stage \in Resizes /\ job \in Job BY DEF Pad, Resizes, IInv
<1>2. IsPicture(current) BY <1>1, LatePicture
<1> DEFINE image == IF animated_output THEN current ELSE Padded(current, tp)
<1>3. Becomes(image, "effects") BY <1>1 DEF Pad
<1>4. (~animated_output /\ image # NoImage) => AsAsked("effects", image)
  <2> SUFFICES ASSUME ~animated_output, Padded(current, tp) # NoImage
               PROVE  AsAsked("effects", Padded(current, tp))
    OBVIOUS
  <2> DEFINE w == effective_width(tp)
             h == effective_height(tp)
             width == IF w = None THEN current.width ELSE w
             height == IF h = None THEN current.height ELSE h
             padded == Padded(current, tp)
  <2>1. AsAsked("pad", current) BY <1>1 DEF Measured, Sizing
  <2>2. w \in BoxSide \cup {None} /\ h \in BoxSide \cup {None}
    <3>1. WellTyped(tp) /\ validate(tp) BY <1>1, JobTyped
    <3> QED BY <3>1, EffectiveSides
  <2>3. current.width \in Nat \ {0} /\ current.height \in Nat \ {0} BY <1>2 DEF IsPicture
  <2>4. width \in Nat \ {0} /\ height \in Nat \ {0} BY <2>2, <2>3 DEF BoxSide
  <2>5. CASE tp.fit # "pad"
    <3>1. padded = current BY <2>5 DEF Padded
    <3> QED BY <2>1, <2>5, <3>1 DEF AsAsked
  <2>6. CASE tp.fit = "pad"
    <3>1. padded = IF current.width < width \/ current.height < height
                   THEN embed(current, width, height) ELSE current
      BY <2>6 DEF Padded
    <3>2. /\ ~MayLookPaged /\ w # None => current.width <= w
          /\ ~MayLookPaged /\ h # None => current.height <= h
      BY <2>1, <2>6 DEF AsAsked, Bounded
    <3> DEFINE b == embed(current, width, height)
    <3>3. b # NoImage => b.width = width /\ b.height = height
      BY <1>2, FieldsTold DEF embed, Placed, IsPicture, Fields
    <3>4. padded # NoImage OBVIOUS
    <3> HIDE DEF b, padded, w, h
    <3>5. ASSUME ~MayLookPaged
          PROVE  /\ w # None => padded.width <= w
                 /\ h # None => padded.height <= h
                 /\ (w # None /\ h # None) => padded.width = w /\ padded.height = h
      <4>1. padded = b \/ (padded = current /\ ~(current.width < width \/ current.height < height))
        BY <3>1 DEF b
      <4>2. CASE padded = b BY <2>4, <3>3, <3>4, <4>2
      <4>3. CASE padded = current /\ ~(current.width < width \/ current.height < height)
        BY <2>3, <2>4, <3>2, <3>5, <4>3
      <4> QED BY <4>1, <4>2, <4>3
    <3> QED BY <2>6, <3>5 DEF AsAsked, Bounded, SidesGiven, Shrinking, w, h, padded
  <2> QED BY <2>5, <2>6
<1> HIDE DEF image
<1>5. image # NoImage => Sizing("effects", image) BY <1>4 DEF Sizing, Unresized
<1> QED BY <1>3, <1>5, BecomesMeasured

\* A stage after it that changes no size.
LEMMA LateMeasured ==
  ASSUME Measured, stage \in {"effects", "background", "border"},
         NEW next \in {"background", "border", "answer"}, NEW image, Becomes(image, next),
         (~animated_output /\ (next = "answer" => ~Bordered)) =>
           image.width = current.width /\ image.height = current.height
  PROVE  Measured'
<1>1. Sizing(next, image)
  <2> SUFFICES ASSUME ~animated_output, next = "answer" => ~Bordered
               PROVE  AsAsked(next, image)
    BY DEF Sizing, Unresized
  <2>1. AsAsked(stage, current) BY DEF Measured, Sizing, Resizes
  <2> QED BY <2>1 DEF AsAsked, Bounded
<1> QED BY <1>1, BecomesMeasured

\* EFFECTS.
LEMMA EffectsMeasured ==
  ASSUME Held, Measured, Effects
  PROVE  Measured'
<1>1. stage = "effects" /\ stage \in Resizes BY DEF Effects, Resizes
<1>2. IsPicture(current) BY <1>1, LatePicture
<1> DEFINE a == IF tp.sharpen # None THEN sharpen(current) ELSE current
           b == IF tp.blur # None THEN gaussblur(a) ELSE a
           c == IF tp.brightness # None \/ tp.contrast # None THEN linear1(b) ELSE b
           d == IF tp.gamma # None THEN gamma(c) ELSE c
           e == IF tp.saturation # None THEN Saturated(d) ELSE d
<1>3. Becomes(e, "background") BY DEF Effects
<1>4. Toned(current, a) BY <1>2, FilterTones, TonedNot
<1> HIDE DEF a
<1>5. Toned(a, b) BY <1>4, FilterTones, TonedNot DEF Toned
<1> HIDE DEF b
<1>6. Toned(b, c) BY <1>5, FilterTones, TonedNot DEF Toned
<1> HIDE DEF c
<1>7. Toned(c, d) BY <1>6, FilterTones, TonedNot DEF Toned
<1> HIDE DEF d
<1>8. Toned(d, e)
  <2>1. IsPicture(d) BY <1>7 DEF Toned
  <2> QED BY <2>1, SaturatedTones, TonedNot
<1> HIDE DEF e
<1>9. Toned(current, e) BY <1>4, <1>5, <1>6, <1>7, <1>8, TonedTwice
<1> QED BY <1>1, <1>3, <1>9, LateMeasured DEF Toned

\* BACKGROUND.
LEMMA BackgroundMeasured ==
  ASSUME Held, Measured, Background
  PROVE  Measured'
<1>1. stage = "background" /\ stage \in Resizes BY DEF Background, Resizes
<1>2. IsPicture(current) BY <1>1, LatePicture
<1> DEFINE image == IF tp.background # None /\ tp.fit # "pad" /\ current.alpha
                    THEN flatten(current) ELSE current
<1>3. Becomes(image, "border") BY DEF Background
<1>4. Toned(current, image) BY <1>2, BandsTone, TonedNot DEF flatten
<1> HIDE DEF image
<1> QED BY <1>1, <1>3, <1>4, LateMeasured DEF Toned

\* BORDER: without one, the image is left.
LEMMA BorderMeasured ==
  ASSUME Measured, Border
  PROVE  Measured'
<1>1. stage = "border" BY DEF Border
<1>2. CASE animated_output \/ ~Bordered
  <2>1. Becomes(current, "answer") BY <1>2 DEF Border
  <2> QED BY <1>1, <2>1, LateMeasured
<1>3. CASE ~(animated_output \/ ~Bordered)
  <2>1. PICK image : Becomes(image, "answer") BY <1>3 DEF Border
  <2> QED BY <1>1, <1>3, <2>1, LateMeasured
<1> QED BY <1>2, <1>3

-----------------------------------------------------------------------------
\* An answer tells the size of the image, as large as it came out.
LEMMA ReturnMeasured ==
  ASSUME Measured, NEW r, NEW next \in {"overlays", "done"}, Return(r, next),
         (~r.is_animated /\ ~Bordered) => AsAsked("answer", r)
  PROVE  Measured'
<1>1. /\ stage' = next /\ result' = r /\ job' = job /\ plan' = plan
  BY DEF Return
<1>2. animated_output' = animated_output BY <1>1 DEF animated_output
<1>3. /\ \A out : AsAsked("answer", out)' <=> AsAsked("answer", out)
      /\ Bordered' <=> Bordered
  BY <1>1, <1>2, SameSizing
<1>4. AsAsked("answer", r)' <=> AsAsked("answer", r) BY <1>3
<1>5. (~r.is_animated /\ ~Bordered) => AsAsked("answer", result)' BY <1>1, <1>4
<1>6. Sizing(stage, current)' BY <1>1 DEF Sizing, Unresized, Resizes
<1> QED BY <1>1, <1>3, <1>5, <1>6 DEF Measured

\* The size that a still is answered with.
LEMMA AnswerAsAsked ==
  ASSUME Measured, stage = "answer", ~animated_output, ~Bordered,
         NEW r, r.width = current.width, r.height = current.height
  PROVE  AsAsked("answer", r)
<1>1. AsAsked("answer", current) BY DEF Measured, Sizing, Resizes
<1> QED BY <1>1 DEF AsAsked, Bounded

\* JSON.
LEMMA AnswerJsonMeasured ==
  ASSUME Held, IInv, Measured, AnswerJson
  PROVE  Measured'
<1>1. stage = "answer" /\ tp.format = "json" BY DEF AnswerJson
<1>2. ~animated_output BY <1>1, AnimatedAsks
<1>3. Fail("Vips") \/ \E format : Return([ResultOf("json") EXCEPT !.reported = format], "overlays")
  BY DEF AnswerJson
<1>4. ASSUME NEW format, Return([ResultOf("json") EXCEPT !.reported = format], "overlays")
      PROVE  Measured'
  <2> DEFINE r == [ResultOf("json") EXCEPT !.reported = format]
  <2>1. r.width = current.width /\ r.height = current.height BY DEF ResultOf, NoResult
  <2>2. Return(r, "overlays") BY <1>4
  <2> HIDE DEF r
  <2> QED BY <1>1, <1>2, <2>1, <2>2, AnswerAsAsked, ReturnMeasured
<1> QED BY <1>3, <1>4, FailMeasured

\* THUMBHASH.
LEMMA AnswerThumbhashMeasured ==
  ASSUME Held, IInv, Measured, AnswerThumbhash
  PROVE  Measured'
<1>1. stage = "answer" /\ tp.format = "thumbhash" BY DEF AnswerThumbhash, strict
<1>2. ~animated_output BY <1>1, AnimatedAsks
<1>3. \/ \E error : Fail(error)
      \/ \E length : Return([ResultOf("thumbhash") EXCEPT !.length = length], "overlays")
  BY DEF AnswerThumbhash, HashRaster
<1>4. ASSUME NEW length, Return([ResultOf("thumbhash") EXCEPT !.length = length], "overlays")
      PROVE  Measured'
  <2> DEFINE r == [ResultOf("thumbhash") EXCEPT !.length = length]
  <2>1. r.width = current.width /\ r.height = current.height BY DEF ResultOf, NoResult
  <2>2. Return(r, "overlays") BY <1>4
  <2> HIDE DEF r
  <2> QED BY <1>1, <1>2, <2>1, <2>2, AnswerAsAsked, ReturnMeasured
<1> QED BY <1>3, <1>4, FailMeasured

\* ENCODE.
LEMMA EncodeMeasured ==
  ASSUME Measured, Encode
  PROVE  Measured'
<1>1. stage = "answer" BY DEF Encode
<1>2. \/ Fail("Vips")
      \/ \E format, data, frames :
           Return([ResultOf(format) EXCEPT !.data = data, !.is_animated = animated_output,
                                           !.frame_count = frames], "overlays")
  BY DEF Encode
<1>3. ASSUME NEW format, NEW data, NEW frames,
             Return([ResultOf(format) EXCEPT !.data = data, !.is_animated = animated_output,
                                             !.frame_count = frames], "overlays")
      PROVE  Measured'
  <2> DEFINE r == [ResultOf(format) EXCEPT !.data = data, !.is_animated = animated_output,
                                           !.frame_count = frames]
  <2>1. /\ r.width = current.width /\ r.height = current.height
        /\ r.is_animated = animated_output
    BY DEF ResultOf, NoResult
  <2>2. Return(r, "overlays") BY <1>3
  <2> HIDE DEF r
  <2>3. (~r.is_animated /\ ~Bordered) => AsAsked("answer", r) BY <1>1, <2>1, AnswerAsAsked
  <2> QED BY <2>2, <2>3, ReturnMeasured
<1> QED BY <1>2, <1>3, FailMeasured

\* OVERLAYS: the size that was told stays.
LEMMA DrawOverlaysMeasured ==
  ASSUME Held, Measured, DrawOverlays
  PROVE  Measured'
<1>1. stage = "overlays" BY DEF DrawOverlays
<1>2. (~result.is_animated /\ ~Bordered) => AsAsked("answer", result) BY <1>1 DEF Measured
<1>3. \/ Fail("Vips") \/ Return(result, "done")
      \/ \E data : Return([result EXCEPT !.data = data], "done")
  BY DEF DrawOverlays
<1>4. CASE Return(result, "done") BY <1>2, <1>4, ReturnMeasured
<1>5. ASSUME NEW data, Return([result EXCEPT !.data = data], "done") PROVE Measured'
  <2> DEFINE r == [result EXCEPT !.data = data]
  <2>1. DOMAIN result = DOMAIN NoResult BY DEF Held, Answered
  <2>2. /\ r.width = result.width /\ r.height = result.height
        /\ r.is_animated = result.is_animated
    BY <2>1 DEF NoResult
  <2>3. Return(r, "done") BY <1>5
  <2> HIDE DEF r
  <2>4. (~r.is_animated /\ ~Bordered) => AsAsked("answer", r)
    BY <1>2, <2>2 DEF AsAsked, Bounded
  <2> QED BY <2>3, <2>4, ReturnMeasured
<1> QED BY <1>3, <1>4, <1>5, FailMeasured

\* Where nothing changes, no size does.
LEMMA StutterMeasured ==
  ASSUME Measured, UNCHANGED vars
  PROVE  Measured'
<1>1. /\ stage' = stage /\ job' = job /\ current' = current /\ plan' = plan
      /\ result' = result
  BY DEF vars
<1>2. animated_output' = animated_output BY <1>1 DEF animated_output
<1>3. /\ Sizing(stage, current)' <=> Sizing(stage, current)
      /\ AsAsked("answer", result)' <=> AsAsked("answer", result)
      /\ Bordered' <=> Bordered
  BY <1>1, <1>2, SameSizing
<1> QED BY <1>1, <1>3 DEF Measured

\* Every step keeps the sizes.
LEMMA MeasuredInductive == IInv /\ Held /\ Measured /\ [Next]_vars => Measured'
<1> SUFFICES ASSUME IInv, Held, Measured, [Next]_vars PROVE Measured'
  OBVIOUS
<1>1. CASE Probe BY <1>1, ProbeMeasured
<1>2. CASE CheckBudget BY <1>2, CheckBudgetMeasured
<1>3. CASE Reload BY <1>3, ReloadMeasured
<1>4. CASE ExtractFrame BY <1>4, ExtractFrameMeasured
<1>5. CASE Trim BY <1>5, TrimMeasured
<1>6. CASE TrimSides BY <1>6, TrimSidesMeasured
<1>7. CASE RotateFlip BY <1>7, RotateFlipMeasured
<1>8. CASE Resize BY <1>8, HeldInductive, ResizeMeasured
<1>9. CASE Pad BY <1>9, PadMeasured
<1>10. CASE Effects BY <1>10, EffectsMeasured
<1>11. CASE Background BY <1>11, BackgroundMeasured
<1>12. CASE Border BY <1>12, BorderMeasured
<1>13. CASE AnswerJson BY <1>13, AnswerJsonMeasured
<1>14. CASE AnswerThumbhash BY <1>14, AnswerThumbhashMeasured
<1>15. CASE Encode BY <1>15, EncodeMeasured
<1>16. CASE DrawOverlays BY <1>16, DrawOverlaysMeasured
<1>17. CASE UNCHANGED vars BY <1>17, StutterMeasured
<1> QED
  BY <1>1, <1>2, <1>3, <1>4, <1>5, <1>6, <1>7, <1>8, <1>9, <1>10, <1>11, <1>12, <1>13, <1>14,
     <1>15, <1>16, <1>17
  DEF Next

\* With what the stages rely on, of every behaviour.
LEMMA MeasuredInvariants == Spec => [](IInv /\ Held /\ Measured)
BY InitIInv, IInvInductive, InitHeld, HeldInductive, InitMeasured, MeasuredInductive, PTL DEF Spec

\* For every call and every source: a still is never larger than the box that it asks for,
\* and as large where the fit fills it; contain, inside, crop and aspect-crop never give
\* more pixels than the source has (pipeline.rs:306-343, 396-478, 869-903).
THEOREM SizesAsAsked == Spec => []SizeAsAsked
<1>1. Measured => SizeAsAsked
  <2> SUFFICES ASSUME Measured PROVE SizeAsAsked OBVIOUS
  <2>1. (stage = "done" /\ ~result.is_animated /\ ~Bordered) => AsAsked("answer", result)
    BY DEF Measured
  <2>2. FitsTheBox
    <3> SUFFICES ASSUME stage = "done", ~result.is_animated, ~Bordered, ~MayLookPaged
                 PROVE  LET w == effective_width(tp)
                            h == effective_height(tp)
                            Within(side, limit) == limit = None \/ side <= limit
                        IN /\ tp.fit # "outside" =>
                                Within(result.width, w) /\ Within(result.height, h)
                           /\ (w # None /\ h # None /\ tp.fit \in {"cover", "fill", "pad"}) =>
                                result.width = w /\ result.height = h
      BY DEF FitsTheBox
    <3> QED BY <2>1 DEF AsAsked, Bounded, SidesGiven
  <2>3. NeverEnlarged BY <2>1 DEF NeverEnlarged, AsAsked, Shrinking, Pixels
  <2> QED BY <2>2, <2>3 DEF SizeAsAsked
<1> QED BY <1>1, MeasuredInvariants, PTL

-----------------------------------------------------------------------------
\* Only the resize decodes a source at a reduced size.
LEMMA OnlyResizeReduces ==
  ASSUME [Next]_vars, ~reduced, reduced'
  PROVE  Resize
<1>1. ASSUME NEW image, NEW next, Becomes(image, next) \/ Loaded(image, next) PROVE reduced' = reduced
  BY <1>1 DEF Becomes, Loaded, Fail
<1>2. ASSUME NEW error, Fail(error) PROVE reduced' = reduced BY <1>2 DEF Fail
<1>3. ASSUME NEW r, NEW next, Return(r, next) PROVE reduced' = reduced BY <1>3 DEF Return
<1>4. Probe => reduced' = reduced BY <1>1 DEF Probe
<1>5. CheckBudget => reduced' = reduced BY <1>2 DEF CheckBudget
<1>6. Reload => reduced' = reduced BY <1>1 DEF Reload
<1>7. ExtractFrame => reduced' = reduced BY <1>1 DEF ExtractFrame
<1>8. Trim => reduced' = reduced BY <1>1, <1>2 DEF Trim
<1>9. TrimSides => reduced' = reduced BY <1>1 DEF TrimSides
<1>10. RotateFlip => reduced' = reduced BY <1>1 DEF RotateFlip
<1>11. Pad => reduced' = reduced BY <1>1 DEF Pad
<1>12. Effects => reduced' = reduced BY <1>1 DEF Effects
<1>13. Background => reduced' = reduced BY <1>1 DEF Background
<1>14. Border => reduced' = reduced BY <1>1 DEF Border
<1>15. AnswerJson => reduced' = reduced BY <1>2, <1>3 DEF AnswerJson
<1>16. AnswerThumbhash => reduced' = reduced BY <1>2, <1>3 DEF AnswerThumbhash, HashRaster
<1>17. Encode => reduced' = reduced BY <1>2, <1>3 DEF Encode
<1>18. DrawOverlays => reduced' = reduced BY <1>2, <1>3 DEF DrawOverlays
<1>19. UNCHANGED vars => reduced' = reduced BY DEF vars
<1> QED
  BY <1>4, <1>5, <1>6, <1>7, <1>8, <1>9, <1>10, <1>11, <1>12, <1>13, <1>14, <1>15, <1>16, <1>17,
     <1>18, <1>19
  DEF Next

\* INV-23, for every call and every source: a reduced decode has a size that the full
\* decode could have, one pixel off or not (pipeline.rs:785-810, 840-867).
THEOREM ReducedAsFull == Spec => ReducedKeepsSize
<1>1. ASSUME IInv, Held, Held', Measured, [Next]_vars, ~reduced, reduced'
      PROVE  \E full \in Resized(current, None, tp, animated_output, plan.effective_pages) :
               SameSize(current', full.image)
  <2>1. Resize BY <1>1, OnlyResizeReduces
  <2>2. stage = "resize" BY <2>1 DEF Resize
  <2>3. ~(effective_width(tp) = None /\ effective_height(tp) = None)
    BY <1>1, <2>1 DEF Resize, Becomes, Fail
  <2>4. PICK out \in Resized(current, resize_source, tp, animated_output, plan.effective_pages) :
          Advance(out.image, "pad") /\ reduced' = out.reduced /\ UNCHANGED plan
    BY <1>1, <2>1, <2>3 DEF Resize, Fail
  <2>5. /\ job' = job /\ plan' = plan /\ stage' = "pad" /\ current' = out.image
    BY <2>4 DEF Advance
  <2>6. animated_output = FALSE
    <3>1. Found(stage, current, reduced)' BY <1>1, <2>5 DEF Held, Images, Resizes
    <3>2. resize_reads_source(tp, animated_output)' BY <1>1, <3>1 DEF Found
    <3>3. ~animated_output' BY <3>2 DEF resize_reads_source
    <3> QED BY <2>5, <3>3 DEF animated_output
  <2> DEFINE source == resize_source
             pages == plan.effective_pages
  <2>7. out \in Resized(current, source, tp, FALSE, pages) BY <2>4, <2>6
  <2>8. /\ IsPicture(current) /\ tp.fit \in FitModes
        /\ effective_width(tp) \in BoxSide \cup {None}
        /\ effective_height(tp) \in BoxSide \cup {None}
        /\ source # None => source \in Readable /\ current = from_buffer(source, FALSE)
    BY <1>1, <2>2, <2>6, ResizeGiven
  <2> HIDE DEF source, pages
  <2>9. \E full \in Resized(current, None, tp, FALSE, pages) : SameSize(out.image, full.image)
    BY <2>3, <2>7, <2>8, StillResized
  <2> QED BY <2>5, <2>6, <2>9 DEF pages
<1>2. /\ IInv /\ Held /\ Measured
      /\ IInv' /\ Held' /\ Measured'
      /\ [Next]_vars
      => [(~reduced /\ reduced') =>
            \E full \in Resized(current, None, tp, animated_output, plan.effective_pages) :
              SameSize(current', full.image)]_vars
  BY <1>1
<1> QED BY <1>2, MeasuredInvariants, PTL DEF Spec, ReducedKeepsSize
=============================================================================
