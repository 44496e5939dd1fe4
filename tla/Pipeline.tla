------------------------------- MODULE Pipeline -------------------------------
(***************************************************************************)
(* transform() of crates/imgx/src/transform/pipeline.rs, one action for    *)
(* each of its stages, and the overlays that server.rs draws on its result.*)
(* The stages hand one lazy image on; they agree about its frames through  *)
(* metadata that each of them may leave stale.                             *)
(***************************************************************************)
EXTENDS Resize, Negotiate, ThumbHash, FiniteSets

CONSTANTS
  Job,                  \* what transform() may be called with
  max_pixels,           \* TransformLimits
  max_frames,
  max_animated_pixels

\* A job: the options, the Accept header, the source and the bytes of an overlay.
\* (The options are those of parse() and passed validate(), so a thumbhash draws none.)
ASSUME JobAssumption ==
  /\ \A job \in Job :
       /\ job.accept \in AcceptHeader
       /\ job.source \in Source /\ job.overlay \in Source
       /\ WellTyped(job.tp) /\ validate(job.tp)
  /\ max_pixels \in Nat /\ max_frames \in Nat \ {0} /\ max_animated_pixels \in Nat \ {0}

\* A limit that an i32 holds; larger ones, which the settings allow, are left out.
ASSUME FramesAssumption == max_frames <= MAX_I32

VARIABLES
  job,       \* the call
  stage,     \* the stage to run next
  current,   \* the image
  plan,      \* n_pages, effective_pages and animated_format, None for a still
  reduced,   \* decoded_at_reduced_size
  result     \* the TransformResult, or the error

vars == <<job, stage, current, plan, reduced, result>>

tp == job.tp
strict == tp.format = "thumbhash"
is_animated == plan.n_pages > 1
animated_output == plan.animated_format # None

NoPlan == [n_pages |-> Absent, effective_pages |-> Absent, animated_format |-> None]
NoResult ==
  [error |-> None,
   failed |-> None,   \* the stage that made the error, kept for the properties
   format |-> None, reported |-> None, width |-> 0, height |-> 0,
   is_animated |-> FALSE, frame_count |-> Absent, data |-> NoImage, length |-> 0]

\* transform() returns an error: that of libvips, or one of its own.
Fail(error) ==
  /\ stage' = "failed"
  /\ result' = [NoResult EXCEPT !.error = error, !.failed = stage]
  /\ UNCHANGED <<job, current, plan, reduced>>

\* The stage is done, unless the operation failed.
Advance(image, next) ==
  /\ image # NoImage
  /\ current' = image
  /\ stage' = next
  /\ UNCHANGED <<job, result>>

Becomes(image, next) ==
  \/ Advance(image, next) /\ UNCHANGED <<plan, reduced>>
  \/ image = NoImage /\ Fail("Vips")

\* A load fails where a strict one meets damage in what it reads at once.
Loaded(image, next) == Becomes(image, next) \/ (image.broken /\ Fail("Vips"))

With(edits, image) == [image EXCEPT !.edits = @ \cup edits]

-----------------------------------------------------------------------------
Init ==
  /\ job \in Job
  /\ stage = "probe"
  /\ current = NoImage
  /\ plan = NoPlan
  /\ reduced = FALSE
  /\ result = NoResult

Probe ==
  /\ stage = "probe"
  /\ Loaded(from_buffer(job.source, strict), "check_budget")

n_pages_of(image) == image.n_pages

over_budget(image) ==
  /\ n_pages_of(image) > 1
  /\ image.width * PageHeight(image) * n_pages_of(image) > max_animated_pixels

\* A u32 as an i32: its upper half becomes negative.
as_i32(n) == IF n > MAX_I32 THEN n - MAX_I32 - MAX_I32 - 2 ELSE n

\* Over the budget of an animation, its first frame is what is left.
effective_pages(image) ==
  IF n_pages_of(image) > 1 /\ ~over_budget(image)
  THEN Least(n_pages_of(image), as_i32(max_frames))
  ELSE n_pages_of(image)

decided_format(image) ==
  animated_format(job.accept, tp,
                  [animated |-> n_pages_of(image) > 1 /\ ~over_budget(image), alpha |-> image.alpha])

PlanFor(image) ==
  [n_pages |-> n_pages_of(image), effective_pages |-> effective_pages(image),
   animated_format |-> decided_format(image)]

\* Mutant of CheckBudget: sources that shrink on load are never too large.
TrustsShrinking ==
  /\ stage = "check_budget"
  /\ IF current.width * current.height > max_pixels /\ ~shrinks_on_load(current)
     THEN Fail("ExceedsMaxPixels")
     ELSE Advance(current, "reload") /\ plan' = PlanFor(current) /\ UNCHANGED reduced

CheckBudget ==
  /\ stage = "check_budget"
  /\ IF current.width * current.height > max_pixels
     THEN Fail("ExceedsMaxPixels")
     ELSE Advance(current, "reload") /\ plan' = PlanFor(current) /\ UNCHANGED reduced

Reload ==
  /\ stage = "reload"
  /\ IF animated_output
     THEN Loaded(from_buffer_animated(job.source,
                   IF plan.effective_pages < plan.n_pages THEN plan.effective_pages ELSE -1,
                   strict), "extract_frame")
     ELSE Becomes(current, "extract_frame")

\* Mutant of safe_frame: a frame too many.
OnePastTheEnd(frame, pages) == IF frame > pages THEN pages - 1 ELSE frame

\* The last frame for one beyond it.
safe_frame(frame, pages) == IF frame >= pages THEN pages - 1 ELSE frame

ExtractFrame ==
  /\ stage = "extract_frame"
  /\ IF tp.frame # None /\ is_animated
     THEN LET stack == from_buffer_animated(job.source, -1, strict)
              height == stack.page_height
          IN Loaded(crop(stack, 0, safe_frame(tp.frame, plan.n_pages) * height,
                         stack.width, height), "trim")
     ELSE Becomes(current, "trim")

\* find_trim reads the pixels; a border all around is cut off.
Trim ==
  /\ stage = "trim"
  /\ IF tp.trim = None \/ animated_output THEN Becomes(current, "trim_sides")
     ELSE IF current.broken THEN Fail("Vips")
     ELSE \E box \in find_trim(current) :
            Becomes(With({"trim"}, IF box[3] > 0 /\ box[4] > 0
                                   THEN crop(current, box[1], box[2], box[3], box[4])
                                   ELSE current), "trim_sides")

\* Pixels, or below 1 a part of the side; at most the whole side.
Resolved(v, side) ==
  IF v = None THEN {0}
  ELSE {Least(n, side) : n \in IF v < 1000 THEN Nearest(v * side, 1000) ELSE Nearest(v, 1000)}

TrimSides ==
  /\ stage = "trim_sides"
  /\ LET w == current.width
         h == current.height
     IN IF animated_output \/ \A f \in {"trim_top", "trim_right", "trim_bottom", "trim_left"} :
                                 tp[f] = None
        THEN Becomes(current, "rotate_flip")
        ELSE \E top \in Resolved(tp.trim_top, h), bottom \in Resolved(tp.trim_bottom, h),
                left \in Resolved(tp.trim_left, w), right \in Resolved(tp.trim_right, w) :
               LET cut == crop(current, left, top, AtLeast1(w - left - right),
                               AtLeast1(h - top - bottom))
               IN Becomes(IF cut = NoImage THEN cut
                          ELSE With(IF trims_a_side(tp) THEN {"sides"} ELSE {}, cut),
                          "rotate_flip")

Rotated(image, rotation) ==
  IF rotation \in {None, "0"} THEN image ELSE With({"rotate"}, rot(image, rotation))

Flipped(image, mode) ==
  LET across == IF mode \in {"h", "hv"} THEN With({"flip h"}, flip(image, "horizontal")) ELSE image
  IN IF mode \in {"v", "hv"} THEN With({"flip v"}, flip(across, "vertical")) ELSE across

RotateFlip ==
  /\ stage = "rotate_flip"
  /\ Becomes(Flipped(Rotated(current, tp.rotate), tp.flip), "resize")

resize_source ==
  IF resize_reads_source(tp, animated_output) /\ shrinks_on_load(current) THEN job.source ELSE None

Resize ==
  /\ stage = "resize"
  /\ IF effective_width(tp) = None /\ effective_height(tp) = None
     THEN Becomes(current, "effects")
     ELSE \E out \in Resized(current, resize_source, tp, animated_output, plan.effective_pages) :
            \/ Advance(out.image, "pad") /\ reduced' = out.reduced /\ UNCHANGED plan
            \/ out.image = NoImage /\ Fail("Vips")

Pad ==
  /\ stage = "pad"
  /\ Becomes(IF animated_output THEN current ELSE Padded(current, tp), "effects")

-----------------------------------------------------------------------------
\* The lightness and hue bands and the scaled chroma, put together again.
Saturated(image) ==
  bandjoin2(bandjoin2(extract_band(colourspace(image)), FALSE), FALSE)

\* The filters, each on the result of the one before.
Effects ==
  /\ stage = "effects"
  /\ LET If(asked, after, before) == IF asked THEN after ELSE before
         a == If(tp.sharpen # None, sharpen(current), current)
         b == If(tp.blur # None, gaussblur(a), a)
         c == If(tp.brightness # None \/ tp.contrast # None, linear1(b), b)
         d == If(tp.gamma # None, gamma(c), c)
     IN Becomes(If(tp.saturation # None, Saturated(d), d), "background")

\* Mutant of Background: an image that is padded is flattened, too.
FlattensPads ==
  /\ stage = "background"
  /\ Becomes(IF tp.background # None /\ current.alpha THEN flatten(current) ELSE current,
             "border")

Background ==
  /\ stage = "background"
  /\ Becomes(IF tp.background # None /\ tp.fit # "pad" /\ current.alpha
             THEN flatten(current) ELSE current, "border")

\* A side of the border: its own width or that of all sides, times the ratio.
BorderSide(side) ==
  LET px == IF side # None THEN side ELSE IF tp.border_width # None THEN tp.border_width ELSE 0
  IN Nearest(px * tp.dpr, 1000)

Bordered == \E f \in {"border_width", "border_top", "border_right", "border_bottom",
                      "border_left"} : tp[f] # None

Border ==
  /\ stage = "border"
  /\ IF animated_output \/ ~Bordered THEN Becomes(current, "answer")
     ELSE \E top \in BorderSide(tp.border_top), bottom \in BorderSide(tp.border_bottom),
             left \in BorderSide(tp.border_left), right \in BorderSide(tp.border_right) :
            Becomes(IF {top, bottom, left, right} = {0} THEN current
                    ELSE embed(current, current.width + left + right,
                               current.height + top + bottom), "answer")

-----------------------------------------------------------------------------
\* Mutant of encode_gif: the page height is taken as it is.
KeepsPageHeight(image) == save_gif(image)

\* INV-3: pages that do not divide the height are given up.
encode_gif(image) ==
  save_gif(IF page_height_of(image) # None
              /\ (image.page_height > image.height \/ image.height % image.page_height # 0)
           THEN [image EXCEPT !.page_height = image.height, !.n_pages = 1]
           ELSE image)

encode_image(image, format) ==
  LET do_strip == tp.metadata = "strip" IN
  CASE format \in {"jpeg", "baseline-jpeg"} -> save_jpeg(image, do_strip)
    [] format = "png" -> save_png(image, do_strip)
    [] format = "webp" -> save_webp_with_effort(image, do_strip)
    [] format = "avif" -> save_avif(image, do_strip)
    [] format = "gif" -> encode_gif(image)

Return(r, next) ==
  /\ result' = r
  /\ stage' = next
  /\ UNCHANGED <<job, current, plan, reduced>>

\* The result of a stage that made no error.
ResultOf(format) == [NoResult EXCEPT !.format = format, !.width = current.width,
                                     !.height = current.height]

\* format=json encodes an image to report what it would have been.
AnswerJson ==
  /\ stage = "answer" /\ tp.format = "json"
  /\ LET format == apply_compression_fast(negotiate_format(job.accept, current.alpha, None),
                                          CompressesFast(tp))
     IN IF encode_image(current, format) = NoImage THEN Fail("Vips")
        ELSE Return([ResultOf("json") EXCEPT !.reported = format], "overlays")

\* The raster of a hash: at most 100 by 100, in the orientation of the pixels.
thumbhash_raster ==
  thumbnail(current, MAX_SIDE, [height |-> MAX_SIDE, crop |-> "none", size |-> "down",
                                no_rotate |-> TRUE])

\* An alpha band that is opaque everywhere does not count.
Hashes(small, rgba) ==
  {encode(small.width, small.height, rgba.length, has_alpha) : has_alpha \in {FALSE, small.alpha}}

HashRaster(small, bytes, rgba) ==
  IF bytes = Absent THEN Fail("Vips")
  ELSE IF rgba.error # "none" THEN Fail("Thumbhash")
  ELSE \E hash \in Hashes(small, rgba) :
         IF hash.error # "none" THEN Fail("Thumbhash")
         ELSE Return([ResultOf("thumbhash") EXCEPT !.length = to_base64(hash.length)], "overlays")

AnswerThumbhash ==
  /\ stage = "answer" /\ strict
  /\ \E small \in {thumbhash_raster} :
       LET bytes == write_to_memory(small)
       IN HashRaster(small, bytes, rgba_from_bands(bytes, small.width, small.height, bands(small)))

Encode ==
  /\ stage = "answer" /\ tp.format \notin {"json", "thumbhash"}
  /\ LET still == apply_compression_fast(negotiate_format(job.accept, current.alpha, tp.format),
                                         CompressesFast(tp))
         format == IF animated_output THEN plan.animated_format ELSE still
         data == encode_image(current, format)
     IN IF data = NoImage THEN Fail("Vips")
        ELSE Return([ResultOf(format) EXCEPT
                       !.data = data, !.is_animated = animated_output,
                       !.frame_count = IF animated_output THEN plan.effective_pages ELSE Absent],
                    "overlays")

-----------------------------------------------------------------------------
\* resolve_overlay_dim: pixels, or below 1 a part of the base.
OverlaySide(v, side) == IF v < 1000 THEN Rint(v * side, 1000) ELSE Rint(v, 1000)

OverlayWidth(overlay, entry, base) ==
  AtLeast1(IF entry.width = None THEN overlay.width ELSE OverlaySide(entry.width, base.width))

\* An overlay is fitted to its box, turned, tiled, given a ground and drawn.
SizedOverlay(overlay, entry, base) ==
  IF entry.width = None /\ entry.height = None THEN overlay
  ELSE LET h == IF entry.height = None THEN None ELSE OverlaySide(entry.height, base.height)
           fit == IF entry.fit = None THEN "contain" ELSE entry.fit
           gravity == IF entry.gravity = None THEN "center" ELSE entry.gravity
       IN thumbnail_in_range(overlay, OverlayWidth(overlay, entry, base),
                             build_thumbnail_options(fit, gravity, h))

Tiled(overlay, repeat, base) ==
  CASE repeat = "both" -> tile_to_size(overlay, base.width, base.height)
    [] repeat = "x" -> tile_to_size(overlay, base.width, overlay.height)
    [] repeat = "y" -> tile_to_size(overlay, overlay.width, base.height)
    [] OTHER -> overlay

OnGround(overlay, color) == IF color # None THEN flatten(overlay) ELSE overlay

Faded(overlay, opacity) ==
  IF opacity # None /\ overlay.alpha THEN bandjoin2(extract_band(overlay), TRUE) ELSE overlay

TurnedOverlay(overlay, rotation) ==
  IF rotation \in {None, "0"} THEN overlay ELSE rot(overlay, rotation)

composite_draw_overlay(base, bytes, entry) ==
  LET overlay == from_buffer(bytes, FALSE)
      sized == SizedOverlay(overlay, entry, base)
      tiled == Tiled(TurnedOverlay(sized, entry.rotate), entry.repeat, base)
      ready == Faded(OnGround(tiled, entry.background), entry.opacity)
  IN IF overlay = NoImage \/ sized = NoImage THEN NoImage
     ELSE composite_over(base, With({"overlay"}, ready))

DrawsNothing ==
  tp.draw = <<>> \/ result.is_animated \/ produces_text_body(result.format)

\* What from_buffer() makes of a file.
first_page(file) ==
  from_buffer([width |-> file.width, height |-> PageHeight(file), pages |-> file.n_pages,
               orientation |-> file.orientation, alpha |-> file.alpha, grey |-> file.grey,
               loader |-> file.loader, readable |-> TRUE, stackable |-> TRUE,
               damaged |-> FALSE], FALSE)

\* The overlays on a base, each over the ones before, until one fails.
drawn_on(base) ==
  LET after[n \in 0..Len(tp.draw)] ==
        IF n = 0 THEN base
        ELSE IF after[n - 1] = NoImage THEN NoImage
        ELSE composite_draw_overlay(after[n - 1], job.overlay, tp.draw[n])
  IN after[Len(tp.draw)]

\* apply_draw_overlays: the encoded result is decoded, drawn upon and encoded again.
DrawOverlays ==
  /\ stage = "overlays"
  /\ IF DrawsNothing THEN Return(result, "done")
     ELSE LET base == drawn_on(first_page(result.data))
              data == encode_image(base, result.format)
          IN IF base = NoImage \/ data = NoImage THEN Fail("Vips")
             ELSE Return([result EXCEPT !.data = data], "done")

-----------------------------------------------------------------------------
Next ==
  \/ Probe \/ CheckBudget \/ Reload \/ ExtractFrame \/ Trim \/ TrimSides
  \/ RotateFlip \/ Resize \/ Pad \/ Effects \/ Background \/ Border
  \/ AnswerJson \/ AnswerThumbhash \/ Encode \/ DrawOverlays

Spec == Init /\ [][Next]_vars

-----------------------------------------------------------------------------
Stage == {"probe", "check_budget", "reload", "extract_frame", "trim", "trim_sides",
          "rotate_flip", "resize", "pad", "effects", "background", "border", "answer",
          "overlays", "done", "failed"}

IsImage(image) == DOMAIN image = DOMAIN NoImage /\ image.width \in Nat /\ image.height \in Nat

TypeOK ==
  /\ stage \in Stage
  /\ IsImage(current) /\ (stage \notin {"probe", "failed"} => current # NoImage)
  /\ plan.animated_format \in {None, "webp", "gif"}
  /\ reduced \in BOOLEAN
  /\ DOMAIN result = DOMAIN NoResult /\ IsImage(result.data)

Pixels(source) == source.width * source.height

\* INV-11, INV-20, INV-22: no stage after the budget check sees a source whose first
\* frame is over the budget, reduced decode or not; and what an animated response
\* decodes stays within max_frames and max_animated_pixels (pipeline.rs:138-204).
WithinBudget ==
  stage \notin {"probe", "check_budget", "failed"} =>
    /\ Pixels(job.source) <= max_pixels
    /\ animated_output => Pixels(job.source) * plan.n_pages <= max_animated_pixels
    /\ stage = "extract_frame" => Len(current.frames) <= max_frames

\* Options under which the documents promise whole frames; the stages below act on
\* the stack as if it was one image, see the README.
ActsOnStack ==
  \/ tp.rotate \notin {None, "0"}
  \/ tp.flip \in {"v", "hv"}
  \/ tp.fit \in {"crop", "aspect-crop"}
  \/ tp.fit = "cover" /\ (tp.width = None) # (tp.height = None)
  \/ (Turns(job.source) \/ Overturned(job.source)) /\ (tp.width # None \/ tp.height # None)

\* Covering frames that came out a single row too high are not cut (INV-2).
OneRowTooHigh ==
  tp.fit = "cover" /\ result.height = result.frame_count * (effective_height(tp) + 1)

\* More frames are cut than can be put together again (image.rs, arrayjoin).
JoinsTooMany == tp.fit = "cover" /\ result.frame_count > MAX_JOINED

\* Frames that are very much narrower or lower than the box make a column that is
\* longer than libvips or an i32 takes.
StackTooLong ==
  LET w == effective_width(tp)
      h == effective_height(tp)
  IN /\ animated_output /\ tp.fit = "cover" /\ w # None /\ h # None
     /\ \E size \in CoverSizes(job.source.width, job.source.height, w, h) :
          size[1] > MAX_COORD \/ size[2] > MAX_COORD \div plan.effective_pages

WholeFrames ==
  (/\ stage = "done" /\ result.is_animated
   /\ ~ActsOnStack /\ ~OneRowTooHigh /\ ~JoinsTooMany /\ ~StackTooLong) =>
    /\ result.frame_count = Least(job.source.pages, max_frames)
    /\ result.data.frames = [i \in 1..result.frame_count |-> i]
    /\ result.data.n_pages = result.frame_count
    /\ result.data.page_height * result.frame_count = result.height

\* INV-2: an animation shows the first max_frames frames of its source, in their
\* order, cut where they end, and says how many; overlays leave it alone
\* (pipeline.rs:170-204, 345-395, 456-462, 1092-1098). INV-3: whatever page height
\* the stages left behind, gifsave gets one that divides the stack (1120-1134).
FramesIntact ==
  /\ WholeFrames
  /\ result.format = "gif" => ~result.data.broken

\* The edits that a still must show.
Asked ==
  (IF tp.rotate \notin {None, "0"} THEN {"rotate"} ELSE {})
    \cup (IF tp.flip \in {"h", "hv"} THEN {"flip h"} ELSE {})
    \cup (IF tp.flip \in {"v", "hv"} THEN {"flip v"} ELSE {})
    \cup (IF tp.trim # None THEN {"trim"} ELSE {})
    \cup (IF trims_a_side(tp) THEN {"sides"} ELSE {})

\* INV-21: the resize decodes the source once more, and no trim, turn or flip of the
\* image that it replaces is lost with it; nor is the frame that was asked for, the
\* last one if there are not so many (pipeline.rs:206-286, 758-768).
NoEditLost ==
  (stage = "answer" /\ ~animated_output) =>
    /\ Asked \subseteq current.edits
    /\ reduced => Asked = {} /\ (tp.frame = None \/ ~is_animated)
    /\ (current.frames # <<>> /\ ~reduced) =>
         current.frames =
           <<IF tp.frame # None /\ is_animated THEN Least(tp.frame + 1, plan.n_pages) ELSE 1>>

\* INV-23: a reduced decode has a size that the full decode could have
\* (pipeline.rs:785-810, 840-867).
ReducedKeepsSize ==
  [][(~reduced /\ reduced') =>
       \E full \in Resized(current, None, tp, animated_output, plan.effective_pages) :
         SameSize(current', full.image)]_vars

\* INV-19: a source whose pixels cannot all be decoded has no hash; INV-18: a hash
\* is 24 to 36 characters long, of 17 to 25 bytes (pipeline.rs:602-619, 656-677,
\* thumbhash.rs:26-130).
HashIsWhole ==
  result.format = "thumbhash" => ~job.source.damaged /\ result.length \in {24, 28, 32, 36}

\* A hash is asked of pixels that cannot all be decoded.
HashOfDamage == strict /\ job.source.damaged

\* The left or the top trim takes the whole side.
TrimsTooMuch ==
  \/ current.width \in Resolved(tp.trim_left, current.width)
  \/ current.height \in Resolved(tp.trim_top, current.height)

\* Borders and boxes that make an image too large for its encoder, and stacks that
\* were turned and have no frames to cut.
TooLarge == current.width > 16383 \/ current.height > 16383
CutsTurnedStack ==
  animated_output /\ tp.fit = "cover" /\ (tp.rotate \in {"90", "270"} \/ Turns(job.source))

\* A frame keeps the page height of its stack, which may divide what it is made into.
LooksPaged == tp.frame # None /\ PageHeight(current) # current.height

\* A frame that is turned on its side or trimmed may keep a page height that divides it.
MayLookPaged ==
  /\ tp.frame # None
  /\ \/ tp.rotate \in {"90", "270"} \/ Turns(job.source)
     \/ tp.trim # None \/ trims_a_side(tp)

\* An overlay's box is wider than any image.
OverlayTooWide ==
  \E i \in DOMAIN tp.draw :
    OverlayWidth(from_buffer(job.overlay, FALSE), tp.draw[i], current) > MAX_COORD

\* What libvips may refuse at a stage.
CauseAt(failed) ==
  \/ failed = "probe" /\ ~job.source.readable
  \/ failed \in {"reload", "extract_frame"} /\ ~job.source.stackable
  \/ failed \in {"probe", "reload", "extract_frame", "trim", "answer"} /\ HashOfDamage
  \/ failed = "trim_sides" /\ TrimsTooMuch
  \/ failed = "resize" /\ (CutsTurnedStack \/ StackTooLong)
  \/ failed = "pad" /\ job.source.grey /\ job.source.alpha
  \/ failed = "border" /\ job.source.grey /\ keeps_alpha(tp, job.source)
  \/ failed \in {"answer", "overlays"} /\ TooLarge
  \/ failed = "overlays" /\ (~job.overlay.readable \/ OverlayTooWide)

\* A request that validate() let pass fails at a stage only for what that stage cannot
\* do: read the source or the overlay, all pixels of it under a hash, cut a whole side
\* off, cut a turned or a far too long stack into frames, put a ground of colour under
\* grey with alpha, encode an image that is too large, or hash a frame that looks like
\* pages; or for its budget. No crop of a stage, no index of a frame is out of bounds
\* (pipeline.rs:136-286, 358-478, 536-584, 606-677, 950-1110; image.rs:204-222, 676-708).
FailsOnlyForCause ==
  stage = "failed" =>
    \/ /\ result.error = "ExceedsMaxPixels" /\ result.failed = "check_budget"
       /\ Pixels(job.source) > max_pixels
    \/ result.error = "Vips" /\ CauseAt(result.failed)
    \/ result.error = "Thumbhash" /\ LooksPaged

FitsTheBox ==
  (stage = "done" /\ result.data # NoImage /\ ~result.is_animated /\ ~Bordered /\ ~MayLookPaged) =>
    LET w == effective_width(tp)
        h == effective_height(tp)
        Within(side, limit) == limit = None \/ side <= limit
    IN /\ tp.fit # "outside" => Within(result.width, w) /\ Within(result.height, h)
       /\ (w # None /\ h # None /\ tp.fit \in {"cover", "fill", "pad"}) =>
            result.width = w /\ result.height = h

NeverEnlarged ==
  (/\ stage = "done" /\ result.data # NoImage /\ ~result.is_animated /\ ~Bordered
   /\ tp.fit \in {"contain", "inside", "crop", "aspect-crop"})
    => result.width * result.height <= Pixels(job.source)

\* fit: a still is never larger than the box, and as large as it where the fit fills
\* it; contain, inside, crop and aspect-crop never give more pixels than the source
\* has (pipeline.rs:306-343, 396-478, 869-903).
SizeAsAsked == FitsTheBox /\ NeverEnlarged

\* The format that a response is cached and answered under is the one that
\* VariantCache computes of the request alone, whatever the stages did to the bands
\* and pages of the image (pipeline.rs:178-188, 566-584, 621-633).
AsNegotiated ==
  stage = "done" =>
    LET seen == [animated |-> job.source.pages > 1
                              /\ Pixels(job.source) * job.source.pages <= max_animated_pixels,
                 alpha |-> job.source.alpha]
    IN /\ result.format = output_format(job.accept, tp, seen)
       /\ result.reported = reported_format(job.accept, tp, seen)

-----------------------------------------------------------------------------
\* What the documents say and the code does not do.

\* docs/INVARIANTS.md:20, "`page-height` metadata on the output stack always evenly
\* divides the total stack height" under fit=cover with both sides.
CoverKeepsFrames ==
  (stage = "answer" /\ animated_output /\ tp.fit = "cover") =>
    current.height % current.page_height = 0
=============================================================================
