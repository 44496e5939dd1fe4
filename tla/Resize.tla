-------------------------------- MODULE Resize --------------------------------
(***************************************************************************)
(* The RESIZE stage of crates/imgx/src/transform/pipeline.rs: which box an *)
(* image is fitted to, from which pixels, and what size comes out.         *)
(*                                                                         *)
(* The code computes with f64.  Quotients are compared exactly here, which *)
(* is what f64 does with sides of this length; a quotient that is rounded  *)
(* to an integer may come out on either side when it is exactly on the     *)
(* edge, and so is a set.                                                  *)
(***************************************************************************)
EXTENDS Params, VipsImage

\* A size that is not told is none.
ASSUME SizeAssumption == None \notin Nat \X Nat

AtLeast1(n) == IF n < 1 THEN 1 ELSE n

MAX_I32 == 2147483647

\* n / d as an integer: cut off, rounded, rounded up.
Truncated(n, d) == {n \div d} \cup (IF n % d = 0 THEN {n \div d - 1} ELSE {})
Nearest(n, d) == {Rint(n, d)} \cup (IF (2 * n + d) % (2 * d) = 0 THEN {Rint(n, d) - 1} ELSE {})
Ceiling(n, d) == IF n % d = 0 THEN {n \div d, n \div d + 1} ELSE {n \div d + 1}

\* Half of n, cut off towards zero.
Half(n) == IF n < 0 THEN -((-n) \div 2) ELSE n \div 2

Outcome(image, reduced) == [image |-> image, reduced |-> reduced]

\* Two images of one size.
SameSize(a, b) == a.width = b.width /\ a.height = b.height

-----------------------------------------------------------------------------
ThumbnailOptions == [height |-> Absent, crop |-> "none", size |-> "both", no_rotate |-> FALSE]

map_gravity_to_crop(gravity) ==
  CASE gravity = "smart" -> "entropy"
    [] gravity = "attention" -> "attention"
    [] OTHER -> "centre"

\* Mutant of build_thumbnail_options: crop enlarges a small image, like cover.
CropEnlarges(fit, gravity, height) ==
  [ThumbnailOptions EXCEPT
     !.height = IF height = None THEN Absent ELSE height,
     !.crop = IF fit \in {"cover", "crop", "aspect-crop"} THEN map_gravity_to_crop(gravity) ELSE @,
     !.size = CASE fit \in {"contain", "pad", "inside"} -> "down"
                [] fit = "fill" -> "force"
                [] OTHER -> "both"]

build_thumbnail_options(fit, gravity, height) ==
  [ThumbnailOptions EXCEPT
     !.height = IF height = None THEN Absent ELSE height,
     !.crop = IF fit \in {"cover", "crop", "aspect-crop"} THEN map_gravity_to_crop(gravity) ELSE @,
     !.size = CASE fit \in {"contain", "pad", "inside", "crop", "aspect-crop"} -> "down"
                [] fit = "fill" -> "force"
                [] fit = "outside" -> "up"
                [] OTHER -> "both"]

oriented_size(image) ==
  IF Turns(image) THEN <<image.height, image.width>> ELSE <<image.width, image.height>>

trims_a_side(tp) ==
  \E f \in {"trim_top", "trim_right", "trim_bottom", "trim_left"} : tp[f] \notin {None, 0}

crops_by_content(tp) ==
  tp.fit \in {"cover", "crop", "aspect-crop"} /\ tp.gravity \in {"smart", "attention"}

\* Mutant of resize_reads_source: a flip is not looked at.
ForgetsFlip(tp, animated_output) ==
  /\ tp.format # "thumbhash"
  /\ ~animated_output
  /\ tp.frame = None
  /\ tp.trim = None
  /\ ~trims_a_side(tp)
  /\ tp.rotate \in {None, "0"}
  /\ ~crops_by_content(tp)

\* No stage before the resize changed the image, and the crop window does not
\* depend on its content.
resize_reads_source(tp, animated_output) ==
  /\ tp.format # "thumbhash"
  /\ ~animated_output
  /\ tp.frame = None
  /\ tp.trim = None
  /\ ~trims_a_side(tp)
  /\ tp.rotate \in {None, "0"}
  /\ tp.flip = None
  /\ ~crops_by_content(tp)

-----------------------------------------------------------------------------
\* The size of a full decode: reduced_side follows the rounding of libvips.
reduced_side(length, shrink) == Shrunk(length, shrink)

contain_size(source, target) ==
  LET shrink == LargerOf(LargerOf(<<source[1], target[1]>>, <<source[2], target[2]>>), <<1, 1>>)
  IN <<reduced_side(source[1], shrink), reduced_side(source[2], shrink)>>

full_decode_size(oriented, width, opts) ==
  IF opts.crop # "none" \/ opts.size # "down" \/ opts.height = Absent THEN None
  ELSE contain_size(oriented, <<width, opts.height>>)

\* Mutant of resize: the size of the reduced decode is taken as it comes.
NeverCorrects(current, source, oriented, width, opts) ==
  IF source = None THEN {Outcome(thumbnail(current, width, opts), FALSE)}
  ELSE {Outcome(small, TRUE) : small \in thumbnail_buffer(source, width, opts)}

\* The image that is at hand is shrunk, or the source is decoded again at a
\* reduced size and, where that is a pixel off, once more with the exact size.
resize(current, source, oriented, width, opts) ==
  LET exact == IF oriented = None THEN None ELSE full_decode_size(oriented, width, opts)
      forced == [opts EXCEPT !.height = exact[2], !.size = "force"]
      Corrected(small) ==
        IF exact = None \/ <<small.width, small.height>> = exact THEN {small}
        ELSE thumbnail_buffer(source, exact[1], forced)
  IN IF source = None THEN {Outcome(thumbnail(current, width, opts), FALSE)}
     ELSE {Outcome(image, TRUE) :
             image \in UNION {Corrected(small) : small \in thumbnail_buffer(source, width, opts)}}

-----------------------------------------------------------------------------
\* The box: a side that is not given follows from the aspect ratio, unless the
\* fit takes what it gets.
effective_fit(tp) == IF tp.fit = "pad" THEN "contain" ELSE tp.fit

thumb_width(w, h, oriented) ==
  IF w # None THEN {w}
  ELSE {AtLeast1(Least(n, 8192)) : n \in Truncated(h * oriented[1], oriented[2])}

derived_height(fit, h, width, oriented) ==
  IF h = None /\ fit \notin {"cover", "fill", "crop", "aspect-crop"}
  THEN {AtLeast1(Least(n, 8192)) : n \in Nearest(width * oriented[2], oriented[1])}
  ELSE {h}

page_height_of(image) == IF image.page_height = Absent THEN None ELSE image.page_height

\* Frames of page_h rows, each cut to tw by th and put together again.
CroppedFrames(image, pages, page_h, tw, th) ==
  LET left == Half(image.width - tw)
      top == Half(page_h - th)
      frames == [i \in 1..Min({pages, MAX_JOINED}) |->
                   crop(image, left, (i - 1) * page_h + top, tw, th)]
  IN IF image.width <= tw /\ page_h <= th THEN image
     ELSE IF top = 0 THEN crop(image, left, 0, tw, image.height)
     ELSE IF \E i \in DOMAIN frames : frames[i] = NoImage THEN NoImage
     ELSE arrayjoin_vertical(frames)

\* The sizes of a frame, of width by page_h, that covers the box.
CoverSizes(width, page_h, tw, th) ==
  LET scale == LargerOf(<<tw, width>>, <<th, page_h>>)
  IN Ceiling(width * scale[1], scale[2]) \X Ceiling(page_h * scale[1], scale[2])

\* h rows for each of the pages, an i32: beyond its range the product wraps round, to
\* any number. What libvips does not take for a height is as good as none.
StackHeights(h, pages) ==
  IF h > MAX_I32 \div pages THEN 0..MAX_COORD ELSE {h * pages}

\* The sized stack, cut to frames of the box and told how high these are.
CutToBox(sized, pages, tw, th) ==
  LET cut == CroppedFrames(sized, pages, sized.height \div pages, tw, th)
  IN IF sized = NoImage \/ cut = NoImage THEN NoImage ELSE [cut EXCEPT !.page_height = th]

\* INV-2: no crop of the whole stack. It is resized so that each frame covers the
\* box, and the frames are cropped one by one.
AnimatedCover(image, pages, tw, th) ==
  LET page_h == IF page_height_of(image) = None THEN image.height \div pages
                ELSE image.page_height
      Sized(w, height) ==
        thumbnail_in_range(image, w, [ThumbnailOptions EXCEPT !.height = height])
  IN UNION {{Outcome(CutToBox(Sized(AtLeast1(size[1]), height), pages, tw, th), FALSE) :
               height \in StackHeights(AtLeast1(size[2]), pages)} :
              size \in CoverSizes(image.width, page_h, tw, th)}

\* An image that does not cover the box is not enlarged: the largest part of it
\* with the ratio of the box is cut out.
DirectCrop(image, tw, th) ==
  LET upright == autorot(image)
      w == upright.width
      h == upright.height
      Cut(cw, ch) == crop(upright, (w - cw) \div 2, (h - ch) \div 2, cw, ch)
  IN IF w * th > tw * h
     THEN {Cut(AtLeast1(Least(n, w)), h) : n \in Nearest(h * tw, th)}
     ELSE {Cut(w, AtLeast1(Least(n, h))) : n \in Nearest(w * th, tw)}

AspectCrop(image, source, tp, tw, th) ==
  LET oriented == oriented_size(image)
  IN IF tw > oriented[1] \/ th > oriented[2]
     THEN {Outcome(cut, FALSE) : cut \in DirectCrop(image, tw, th)}
     ELSE resize(image, source, None, tw, build_thumbnail_options("aspect-crop", tp.gravity, th))

\* After an animation is resized, its page-height is refreshed.
WithPages(image, pages) ==
  IF image.height \div pages = 0 THEN image
  ELSE [image EXCEPT !.page_height = image.height \div pages]

PlainResize(image, source, tp, animated_output, pages) ==
  LET fit == effective_fit(tp)
      oriented == oriented_size(image)
      Into(width) ==
        UNION {resize(image, source, oriented, width,
                      build_thumbnail_options(fit, tp.gravity, height)) :
                 height \in derived_height(fit, effective_height(tp), width, oriented)}
      outcomes ==
        UNION {Into(width) : width \in thumb_width(effective_width(tp), effective_height(tp), oriented)}
  IN IF animated_output
     THEN {[o EXCEPT !.image = WithPages(@, pages)] : o \in outcomes}
     ELSE outcomes

\* The three ways of the stage.
Resized(image, source, tp, animated_output, pages) ==
  LET w == effective_width(tp)
      h == effective_height(tp)
      boxed == w # None /\ h # None
  IN IF boxed /\ animated_output /\ tp.fit = "cover" THEN AnimatedCover(image, pages, w, h)
     ELSE IF boxed /\ ~animated_output /\ tp.fit = "aspect-crop"
     THEN AspectCrop(image, source, tp, w, h)
     ELSE PlainResize(image, source, tp, animated_output, pages)

\* fit=pad puts a still image that is smaller than the box in the middle of it.
Padded(image, tp) ==
  LET w == IF effective_width(tp) = None THEN image.width ELSE effective_width(tp)
      h == IF effective_height(tp) = None THEN image.height ELSE effective_height(tp)
  IN IF tp.fit = "pad" /\ (image.width < w \/ image.height < h)
     THEN embed(image, w, h)
     ELSE image
=============================================================================
