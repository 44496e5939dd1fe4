----------------------------- MODULE ImageProofs -----------------------------
(***************************************************************************)
(* What the operations on images keep and bound, for images of every size: *)
(* a thumbnail is never empty; of a still that shows one frame of its      *)
(* source no crop, turn or resize shows another one; the frames of an      *)
(* animation come out whole of a resize, and of the crops that cover a     *)
(* box; a raster for a hash is small enough.  How long a hash is, of a     *)
(* raster of every size.  And how large a still comes out of a resize: no  *)
(* larger than its box, as large where the fit fills it, and of one size   *)
(* whether it is shrunk from the image or decoded again.                   *)
(***************************************************************************)
EXTENDS Resize, ThumbHash, ParamsProofs, FiniteSetTheorems

\* An image with pixels, whatever its frames.
IsPicture(image) ==
  /\ DOMAIN image = DOMAIN NoImage
  /\ image.width \in Nat \ {0} /\ image.height \in Nat \ {0} /\ image.page_height \in Nat

\* The same bands, the same edits and the same damage, and no pages where there were none.
SameLook(a, b) ==
  /\ b.alpha = a.alpha /\ b.grey = a.grey /\ b.edits = a.edits /\ b.broken = a.broken
  /\ a.page_height = 0 => b.page_height = 0

\* One frame of the source, or a part of one.
Only(k) == {<<>>, <<k>>}

\* What showed no more than one frame shows no other one.
SameFrame(a, b) == \A k : a.frames \in Only(k) => b.frames \in Only(k)

\* A picture with the look and the frame of another one.
Kept(a, b) == IsPicture(b) /\ SameLook(a, b) /\ SameFrame(a, b)

\* The fields of an image, told once: NoImage is long.
Fields == {"width", "height", "n_pages", "page_height", "orientation", "alpha", "grey",
           "loader", "frames", "edits", "broken"}

\* They are those of every image.
LEMMA FieldsTold == DOMAIN NoImage = Fields
BY DEF NoImage, Fields

\* Two such operations in a row.
LEMMA KeptTwice ==
  ASSUME NEW a, NEW b, NEW c, Kept(a, b), Kept(b, c)
  PROVE  Kept(a, c)
BY DEF Kept, SameLook, SameFrame

\* An operation that is left out.
LEMMA KeptOnce ==
  ASSUME NEW a, IsPicture(a)
  PROVE  Kept(a, a)
BY DEF Kept, SameLook, SameFrame

\* A picture is not what a failed operation returns.
LEMMA NotNoImage ==
  ASSUME NEW image, IsPicture(image)
  PROVE  image # NoImage
BY DEF IsPicture, NoImage

\* Frames that a change of the metadata does not touch.
LEMMA SameFrames ==
  ASSUME NEW a, NEW b, a.frames = b.frames
  PROVE  SameFrame(a, b)
BY DEF SameFrame

-----------------------------------------------------------------------------
\* The quotient of two positive numbers.
LEMMA Quotient ==
  ASSUME NEW n \in Int, NEW d \in Nat \ {0}
  PROVE  /\ n \div d \in Int
         /\ d * (n \div d) <= n /\ n < d * (n \div d) + d
         /\ n >= 0 => n \div d >= 0
OBVIOUS

\* Numbers apart from each other are further apart as products.
LEMMA LessProduct ==
  ASSUME NEW p \in Int, NEW q \in Int, p < q, NEW d \in Nat
  PROVE  d * p + d <= d * q
<1>1. q = p + (q - p) /\ q - p - 1 \in Nat OBVIOUS
<1>2. d * (q - p - 1) \in Nat BY <1>1
<1>3. d * q = d * p + d + d * (q - p - 1) BY <1>1
<1> QED BY <1>2, <1>3

\* The one number between the bounds of a quotient.
LEMMA QuotientIs ==
  ASSUME NEW n \in Int, NEW d \in Nat \ {0}, NEW q \in Int, d * q <= n, n < d * q + d
  PROVE  n \div d = q
<1> DEFINE r == n \div d
<1>1. r \in Int /\ d * r <= n /\ n < d * r + d BY Quotient
<1> HIDE DEF r
<1>2. ~(r < q)
  <2> SUFFICES ASSUME r < q PROVE FALSE OBVIOUS
  <2>1. d * r + d <= d * q BY <1>1, LessProduct
  <2> QED BY <1>1, <2>1
<1>3. ~(q < r)
  <2> SUFFICES ASSUME q < r PROVE FALSE OBVIOUS
  <2>1. d * q + d <= d * r BY <1>1, LessProduct
  <2> QED BY <1>1, <2>1
<1> QED BY <1>1, <1>2, <1>3 DEF r

\* A quotient is at least one when the dividend is not the smaller one.
LEMMA QuotientPositive ==
  ASSUME NEW d \in Nat \ {0}, NEW n \in Int, d <= n
  PROVE  n \div d \in Nat \ {0}
<1> DEFINE r == n \div d
<1>1. r \in Int /\ n < d * r + d BY Quotient
<1> HIDE DEF r
<1>2. ~(r < 1)
  <2> SUFFICES ASSUME r < 1 PROVE FALSE OBVIOUS
  <2>1. d * r + d <= d * 1 BY <1>1, LessProduct
  <2> QED BY <1>1, <2>1
<1> QED BY <1>1, <1>2 DEF r

\* Rounded, a fraction that is not below one is at least one.
LEMMA RintPositive ==
  ASSUME NEW n \in Nat, NEW d \in Nat \ {0}, d <= n
  PROVE  Rint(n, d) \in Nat \ {0}
<1>1. 2 * d \in Nat \ {0} /\ 2 * n + d \in Int /\ 2 * d <= 2 * n + d OBVIOUS
<1> QED BY <1>1, QuotientPositive DEF Rint

\* A shrink factor is a fraction of positive numbers.
Fraction == (Nat \ {0}) \X (Nat \ {0})

\* A fraction is its two sides.
LEMMA FractionParts ==
  ASSUME NEW p \in Fraction
  PROVE  p[1] \in Nat \ {0} /\ p[2] \in Nat \ {0} /\ p = <<p[1], p[2]>>
BY DEF Fraction

\* The larger or smaller of two fractions is one of them.
LEMMA FractionsChosen ==
  ASSUME NEW p \in Fraction, NEW q \in Fraction
  PROVE  LargerOf(p, q) \in Fraction /\ SmallerOf(p, q) \in Fraction
BY DEF LargerOf, SmallerOf

\* No side shrinks to nothing.
LEMMA ShrunkPositive ==
  ASSUME NEW side \in Nat \ {0}, NEW shrink \in Fraction
  PROVE  Shrunk(side, shrink) \in Nat \ {0}
<1> DEFINE s == SmallerOf(shrink, <<side, 1>>)
<1>1. <<side, 1>> \in Fraction BY DEF Fraction
<1>2. s \in Fraction BY <1>1, FractionsChosen
<1>3. s[1] \in Nat \ {0} /\ s[2] \in Nat \ {0} BY <1>2, FractionParts
<1>4. s[1] <= side * s[2]
  <2>1. CASE Less(shrink, <<side, 1>>)
    <3>1. s = shrink BY <2>1 DEF SmallerOf
    <3>2. s[1] * 1 < side * s[2] BY <2>1, <3>1 DEF Less
    <3>3. side * s[2] \in Nat BY <1>3
    <3> QED BY <3>2, <3>3, <1>3
  <2>2. CASE ~Less(shrink, <<side, 1>>)
    <3>1. s = <<side, 1>> BY <2>2 DEF SmallerOf
    <3> QED BY <3>1
  <2> QED BY <2>1, <2>2
<1> HIDE DEF s
<1>5. side * s[2] \in Nat BY <1>3
<1>6. Rint(side * s[2], s[1]) \in Nat \ {0} BY <1>3, <1>4, <1>5, RintPositive
<1> QED BY <1>6 DEF Shrunk, s

-----------------------------------------------------------------------------
\* One frame turned round is that frame.
LEMMA OneReversed ==
  ASSUME NEW frames, NEW k, frames \in Only(k)
  PROVE  Reverse(frames) \in Only(k) /\ OneOrNone(frames) \in Only(k)
<1>1. CASE frames = <<>>
  BY <1>1 DEF Only, Reverse, OneOrNone
<1>2. CASE frames = <<k>>
  <2>1. Len(frames) = 1 /\ frames[1] = k BY <1>2
  <2>2. Reverse(frames) = [i \in 1..1 |-> k]
    <3>1. \A i \in 1..1 : frames[(1 - i) + 1] = k BY <2>1
    <3> QED BY <2>1, <3>1 DEF Reverse
  <2> QED BY <1>2, <2>1, <2>2 DEF Only, OneOrNone
<1> QED BY <1>1, <1>2 DEF Only

\* Of one frame, a region shows that one.
LEMMA RegionFrames ==
  ASSUME NEW image, IsPicture(image), NEW top \in Nat, NEW height \in Nat \ {0},
         top + height <= image.height, NEW k, image.frames \in Only(k)
  PROVE  FramesIn(image, top, height) \in Only(k)
<1>1. CASE image.frames = <<>>
  BY <1>1 DEF FramesIn, Only
<1>2. CASE image.frames = <<k>>
  <2>1. Len(image.frames) = 1 /\ image.frames[1] = k BY <1>2
  <2>2. image.height \in Nat \ {0} BY DEF IsPicture
  <2>3. FrameHeight(image) = image.height BY <2>1, <2>2 DEF FrameHeight
  <2>4. top \div image.height = 0 BY <2>2, QuotientIs
  <2>5. FramesIn(image, top, height) \in {image.frames, <<image.frames[0 + 1]>>, <<>>}
    BY <2>3, <2>4 DEF FramesIn
  <2> QED BY <1>2, <2>1, <2>5 DEF Only
<1> QED BY <1>1, <1>2 DEF Only

\* A region that lies in the image.
Inside(image, left, top, width, height) ==
  /\ left >= 0 /\ top >= 0 /\ width > 0 /\ height > 0
  /\ left + width <= image.width /\ top + height <= image.height

\* A crop is a part of the image, and fails only where there is none.
LEMMA CropKeeps ==
  ASSUME NEW image, IsPicture(image), NEW left \in Int, NEW top \in Int,
         NEW width \in Int, NEW height \in Int
  PROVE  LET cut == crop(image, left, top, width, height)
         IN IF Inside(image, left, top, width, height)
            THEN Kept(image, cut) /\ cut.width = width /\ cut.height = height
            ELSE cut = NoImage
<1> DEFINE inside == Inside(image, left, top, width, height)
           cut == [image EXCEPT !.width = width, !.height = height,
                                !.frames = FramesIn(image, top, height)]
<1>1. CASE ~inside BY <1>1 DEF crop, Inside
<1>2. CASE inside
  <2>1. crop(image, left, top, width, height) = cut BY <1>2 DEF crop, Inside
  <2>2. width \in Nat \ {0} /\ height \in Nat \ {0} /\ top \in Nat
          /\ top + height <= image.height
    BY <1>2 DEF Inside
  <2>3. /\ DOMAIN cut = Fields /\ cut.width = width /\ cut.height = height
        /\ cut.page_height = image.page_height /\ cut.alpha = image.alpha /\ cut.grey = image.grey
        /\ cut.edits = image.edits /\ cut.broken = image.broken
        /\ cut.frames = FramesIn(image, top, height)
    BY FieldsTold DEF IsPicture, Fields
  <2>4. IsPicture(cut) BY <2>2, <2>3, FieldsTold DEF IsPicture
  <2>5. SameFrame(image, cut)
    BY <2>2, <2>3, RegionFrames DEF SameFrame
  <2> QED BY <1>2, <2>1, <2>3, <2>4, <2>5 DEF Kept, SameLook
<1> QED BY <1>1, <1>2

\* Turning an image by right angles.
LEMMA RotKeeps ==
  ASSUME NEW image, IsPicture(image), NEW angle
  PROVE  Kept(image, rot(image, angle))
<1> DEFINE r == rot(image, angle)
<1>1. /\ DOMAIN r = Fields /\ r.width \in {image.width, image.height}
      /\ r.height \in {image.width, image.height}
      /\ r.page_height = image.page_height /\ r.alpha = image.alpha /\ r.grey = image.grey
      /\ r.edits = image.edits /\ r.broken = image.broken
      /\ r.frames \in {Reverse(image.frames), OneOrNone(image.frames)}
  BY FieldsTold DEF IsPicture, Fields, rot
<1>2. SameFrame(image, r) BY <1>1, OneReversed DEF SameFrame
<1> QED BY <1>1, <1>2, FieldsTold DEF Kept, SameLook, IsPicture

\* Mirroring it.
LEMMA FlipKeeps ==
  ASSUME NEW image, IsPicture(image), NEW direction
  PROVE  Kept(image, flip(image, direction))
<1> DEFINE r == flip(image, direction)
<1>1. /\ DOMAIN r = Fields /\ r.width = image.width /\ r.height = image.height
      /\ r.page_height = image.page_height /\ r.alpha = image.alpha /\ r.grey = image.grey
      /\ r.edits = image.edits /\ r.broken = image.broken
      /\ r.frames \in {Reverse(image.frames), image.frames}
  BY FieldsTold DEF IsPicture, Fields, flip
<1>2. SameFrame(image, r) BY <1>1, OneReversed DEF SameFrame
<1> QED BY <1>1, <1>2, FieldsTold DEF Kept, SameLook, IsPicture

\* Turning it upright.
LEMMA AutorotKeeps ==
  ASSUME NEW image, IsPicture(image)
  PROVE  Kept(image, autorot(image))
<1> DEFINE upright == IF Turns(image) THEN rot(image, "90")
                      ELSE IF Overturned(image) THEN rot(image, "180") ELSE image
           r == [upright EXCEPT !.orientation = Absent]
<1>1. Kept(image, upright) BY RotKeeps, KeptOnce
<1> HIDE DEF upright
<1>2. IsPicture(upright) BY <1>1 DEF Kept
<1>3. /\ DOMAIN r = Fields /\ r.width = upright.width /\ r.height = upright.height
      /\ r.page_height = upright.page_height /\ r.alpha = upright.alpha /\ r.grey = upright.grey
      /\ r.edits = upright.edits /\ r.broken = upright.broken /\ r.frames = upright.frames
  BY <1>2, FieldsTold DEF IsPicture, Fields
<1>4. Kept(upright, r) BY <1>2, <1>3, FieldsTold, SameFrames DEF Kept, SameLook, IsPicture
<1> QED BY <1>1, <1>4, KeptTwice DEF autorot, upright

\* Placing it on a canvas of another size.
LEMMA PlacedKeeps ==
  ASSUME NEW image, IsPicture(image), NEW width \in Nat \ {0}, NEW height \in Nat \ {0}
  PROVE  Kept(image, Placed(image, width, height))
<1> DEFINE r == Placed(image, width, height)
<1>1. /\ DOMAIN r = Fields /\ r.width = width /\ r.height = height
      /\ r.page_height = image.page_height /\ r.alpha = image.alpha /\ r.grey = image.grey
      /\ r.edits = image.edits /\ r.broken = image.broken
      /\ r.frames = OneOrNone(image.frames)
  BY FieldsTold DEF IsPicture, Fields, Placed
<1>2. SameFrame(image, r) BY <1>1, OneReversed DEF SameFrame
<1> QED BY <1>1, <1>2, FieldsTold DEF Kept, SameLook, IsPicture

\* Putting it on a ground of colour, which grey with alpha cannot have.
LEMMA EmbedKeeps ==
  ASSUME NEW image, IsPicture(image), NEW width \in Nat \ {0}, NEW height \in Nat \ {0}
  PROVE  LET on == embed(image, width, height)
         IN Kept(image, on) \/ (on = NoImage /\ image.grey /\ image.alpha)
<1>1. bands(image) = 2 => image.grey /\ image.alpha BY DEF bands
<1> QED BY <1>1, PlacedKeeps DEF embed

-----------------------------------------------------------------------------
\* The least of two numbers.
LEMMA MinOfTwo ==
  ASSUME NEW a \in Int, NEW b \in Int
  PROVE  Min({a, b}) \in {a, b} /\ Min({a, b}) <= a /\ Min({a, b}) <= b
<1>1. \E x \in {a, b} : \A y \in {a, b} : x <= y
  <2>1. CASE a <= b BY <2>1
  <2>2. CASE b <= a BY <2>2
  <2> QED BY <2>1, <2>2
<1> QED BY <1>1 DEF Min

\* The pages are a whole number of the height.
LEMMA PagesDivide ==
  ASSUME NEW image, IsPicture(image)
  PROVE  /\ PageHeight(image) \in 1..image.height
         /\ image.height \div PageHeight(image) \in Nat \ {0}
<1>1. image.height \in Nat \ {0} BY DEF IsPicture
<1>2. PageHeight(image) \in 1..image.height BY <1>1 DEF PageHeight
<1> QED BY <1>1, <1>2, QuotientPositive

\* Shrinking its pages: no side becomes empty.
LEMMA ScaledKeeps ==
  ASSUME NEW image, IsPicture(image), NEW page \in 1..image.height, NEW shrinks,
         shrinks[1] \in Fraction, shrinks[2] \in Fraction,
         image.page_height = 0 => page = image.height
  PROVE  Kept(image, Scaled(image, page, shrinks))
<1> DEFINE loaded == image.height \div page
           new_page == Shrunk(page, shrinks[2])
           r == Scaled(image, page, shrinks)
           width == Shrunk(image.width, shrinks[1])
<1>1. image.height \in Nat \ {0} /\ image.width \in Nat \ {0} /\ page \in Nat \ {0}
        /\ page <= image.height
  BY DEF IsPicture
<1>2. loaded \in Nat \ {0} BY <1>1, QuotientPositive
<1>7. image.page_height = 0 => loaded = 1
  <2>1. page * 1 <= page /\ page < page * 1 + page BY <1>1
  <2>2. page \div page = 1 BY <1>1, <2>1, QuotientIs
  <2> QED BY <2>2
<1>3. new_page \in Nat \ {0} /\ width \in Nat \ {0} BY <1>1, ShrunkPositive
<1> HIDE DEF loaded, new_page, width
<1>4. new_page * loaded \in Nat \ {0} BY <1>2, <1>3
<1>5. /\ DOMAIN r = Fields /\ r.width = width /\ r.height = new_page * loaded
      /\ r.page_height = (IF loaded > 1 THEN new_page ELSE image.page_height)
      /\ r.alpha = image.alpha /\ r.grey = image.grey
      /\ r.edits = image.edits /\ r.broken = image.broken /\ r.frames = image.frames
  BY FieldsTold DEF IsPicture, Fields, Scaled, loaded, new_page, width
<1>6. SameFrame(image, r) BY <1>5, SameFrames
<1> QED BY <1>3, <1>4, <1>5, <1>6, <1>7, FieldsTold DEF Kept, SameLook, IsPicture

\* A box is a pair of positive sides.
LEMMA ShrinksAreFractions ==
  ASSUME NEW width \in Nat \ {0}, NEW page \in Nat \ {0}, NEW box,
         box[1] \in Nat \ {0}, box[2] \in Nat \ {0}, NEW opts
  PROVE  LET s == Shrinks(width, page, box, opts) IN s[1] \in Fraction /\ s[2] \in Fraction
<1> DEFINE h == <<width, box[1]>>
           v == <<page, box[2]>>
           both == IF opts.crop = "none" THEN LargerOf(h, v) ELSE SmallerOf(h, v)
           bounded == CASE opts.size = "up" -> SmallerOf(both, <<1, 1>>)
                        [] opts.size = "down" -> LargerOf(both, <<1, 1>>)
                        [] OTHER -> both
<1>1. h \in Fraction /\ v \in Fraction /\ <<1, 1>> \in Fraction BY DEF Fraction
<1> HIDE DEF h, v
<1>2. both \in Fraction BY <1>1, FractionsChosen
<1> HIDE DEF both
<1>3. bounded \in Fraction BY <1>1, <1>2, FractionsChosen
<1> HIDE DEF bounded
<1>4. Shrinks(width, page, box, opts) \in {<<h, v>>, <<bounded, bounded>>}
  BY DEF Shrinks, h, v, both, bounded
<1> QED BY <1>1, <1>3, <1>4

\* Fitting its pages to a box never fails: what is cropped is within them.
LEMMA FittedKeeps ==
  ASSUME NEW image, IsPicture(image), NEW box, box[1] \in Nat \ {0}, box[2] \in Nat \ {0},
         NEW opts
  PROVE  Kept(image, FittedPages(image, box, opts))
<1> DEFINE page == PageHeight(image)
           shrinks == Shrinks(image.width, page, box, opts)
           small == Scaled(image, page, shrinks)
<1>1. page \in 1..image.height /\ image.width \in Nat \ {0} /\ image.height \in Nat \ {0}
  BY PagesDivide DEF IsPicture
<1>2. page \in Nat \ {0} /\ (image.page_height = 0 => page = image.height)
  BY <1>1 DEF PageHeight
<1> HIDE DEF page
<1>3. shrinks[1] \in Fraction /\ shrinks[2] \in Fraction BY <1>1, <1>2, ShrinksAreFractions
<1> HIDE DEF shrinks
<1>4. Kept(image, small) BY <1>1, <1>2, <1>3, ScaledKeeps
<1>5. IsPicture(small) BY <1>4 DEF Kept
<1> HIDE DEF small
<1> DEFINE w == Min({box[1], small.width})
           h == Min({box[2], small.height})
           cut == crop(small, 0, 0, w, h)
<1>6. w \in 1..small.width /\ h \in 1..small.height
  <2>1. small.width \in Nat \ {0} /\ small.height \in Nat \ {0} BY <1>5 DEF IsPicture
  <2>2. box[1] \in Nat \ {0} /\ box[2] \in Nat \ {0} OBVIOUS
  <2>3. /\ small.width \in Int /\ small.height \in Int /\ box[1] \in Int /\ box[2] \in Int
    BY <2>1
  <2>4. /\ w \in {box[1], small.width} /\ w <= small.width
        /\ h \in {box[2], small.height} /\ h <= small.height
    BY <2>3, MinOfTwo
  <2> QED BY <2>1, <2>2, <2>4
<1> HIDE DEF w, h
<1>7. Kept(small, cut)
  <2>1. small.width \in Int /\ small.height \in Int BY <1>5 DEF IsPicture
  <2>2. Inside(small, 0, 0, w, h) /\ w \in Int /\ h \in Int BY <1>6, <2>1 DEF Inside
  <2> QED BY <1>5, <2>2, CropKeeps
<1>8. Kept(image, cut) BY <1>4, <1>7, KeptTwice
<1>9. FittedPages(image, box, opts) = IF opts.crop = "none" THEN small ELSE cut
  BY DEF FittedPages, Fitted, small, cut, w, h, shrinks, page
<1> QED BY <1>4, <1>8, <1>9

\* A thumbnail of a box with sides shows what the image shows.
LEMMA ThumbnailKeeps ==
  ASSUME NEW image, IsPicture(image), NEW width \in Nat \ {0}, NEW opts,
         opts.height \in Nat
  PROVE  Kept(image, thumbnail(image, width, opts))
<1> DEFINE upright == IF opts.no_rotate THEN image ELSE autorot(image)
           height == IF opts.height = Absent THEN width ELSE opts.height
           box == <<width, height>>
           small == FittedPages(upright, box, opts)
<1>1. Kept(image, upright) BY AutorotKeeps, KeptOnce
<1>2. height \in Nat \ {0} BY DEF Absent
<1> HIDE DEF upright, height
<1>3. box[1] \in Nat \ {0} /\ box[2] \in Nat \ {0} BY <1>2
<1>4. IsPicture(upright) BY <1>1 DEF Kept
<1>5. Kept(upright, small) BY <1>3, <1>4, FittedKeeps
<1>6. thumbnail(image, width, opts) = small BY DEF thumbnail, upright, height
<1> QED BY <1>1, <1>5, <1>6, KeptTwice

\* A box that is too large for libvips has no thumbnail, or one of another height.
LEMMA InRangeKeeps ==
  ASSUME NEW image, IsPicture(image), NEW width \in Nat \ {0}, NEW opts,
         DOMAIN opts = DOMAIN ThumbnailOptions, opts.height \in Nat
  PROVE  LET small == thumbnail_in_range(image, width, opts)
         IN Kept(image, small) \/ (small = NoImage /\ width > MAX_COORD)
<1> DEFINE told == [opts EXCEPT !.height = IF @ > MAX_COORD THEN Absent ELSE @]
<1>1. told.height \in Nat BY DEF ThumbnailOptions, Absent
<1> HIDE DEF told
<1>2. Kept(image, thumbnail(image, width, told)) BY <1>1, ThumbnailKeeps
<1> QED BY <1>2 DEF thumbnail_in_range, told

-----------------------------------------------------------------------------
\* A source whose header is whole.
Readable == {source \in Source : source.readable}

\* A source that is decoded shows its first frame, and that one whole.
LEMMA Decoded ==
  ASSUME NEW source \in Readable, NEW strictly \in BOOLEAN
  PROVE  LET image == from_buffer(source, strictly)
         IN /\ IsPicture(image) /\ image.frames = <<1>> /\ image.edits = {}
            /\ image.width = source.width /\ image.height = source.height
            /\ image.page_height = 0 /\ image.n_pages = source.pages
            /\ image.alpha = source.alpha /\ image.grey = source.grey /\ image.broken = (strictly /\ source.damaged)
<1>1. source.width \in Nat \ {0} /\ source.height \in Nat \ {0} BY DEF Readable, Source
<1>2. source.height * 1 = source.height BY <1>1
<1>3. [i \in 1..1 |-> i] = <<1>> OBVIOUS
<1> QED
  BY <1>1, <1>2, <1>3, FieldsTold
  DEF Readable, from_buffer, from_buffer_with_option, NoImage, IsPicture, Fields, Absent

\* What a reduced decode may give.
Reduced(source, image) ==
  IsPicture(image) /\ image.alpha = source.alpha /\ image.grey = source.grey /\ image.broken = FALSE /\ image.page_height = 0

\* The decoder that shrinks returns a picture of the bands of the source.
LEMMA ReducedDecodes ==
  ASSUME NEW source \in Readable, NEW width \in Nat \ {0}, NEW opts, opts.height \in Nat,
         NEW image \in thumbnail_buffer(source, width, opts)
  PROVE  Reduced(source, image)
<1> DEFINE whole == from_buffer(source, FALSE)
           exact == thumbnail(whole, width, opts)
<1>1. IsPicture(whole) /\ whole.alpha = source.alpha /\ whole.grey = source.grey /\ whole.broken = FALSE
        /\ whole.page_height = 0
  BY Decoded
<1> HIDE DEF whole
<1>2. Kept(whole, exact) BY <1>1, ThumbnailKeeps
<1>3. Kept(whole, exact) => Reduced(source, exact) BY <1>1 DEF Kept, SameLook, Reduced
<1>4. CASE opts.size = "down" /\ opts.crop = "none"
  <2>1. Reduced(source, exact) BY <1>2, <1>3, <1>4
  <2> HIDE DEF exact
  <2>2. image \in AboutAs(exact) BY <1>4 DEF Readable, thumbnail_buffer, exact, whole
  <2>3. exact.width \in Int /\ exact.height \in Int BY <2>1 DEF Reduced, IsPicture
  <2> DEFINE Off(side) == {s \in {side - 1, side, side + 1} : s > 0}
  <2>4. PICK size \in Off(exact.width) \X Off(exact.height) :
          image = [exact EXCEPT !.width = size[1], !.height = size[2]]
    BY <2>2 DEF AboutAs
  <2>5. size[1] \in Nat \ {0} /\ size[2] \in Nat \ {0} BY <2>3
  <2>6. DOMAIN exact = Fields BY <2>1, FieldsTold DEF Reduced, IsPicture
  <2>7. /\ DOMAIN image = Fields /\ image.width = size[1] /\ image.height = size[2]
        /\ image.page_height = exact.page_height /\ image.alpha = exact.alpha /\ image.grey = exact.grey
        /\ image.broken = exact.broken
    BY <2>4, <2>6 DEF Fields
  <2> QED BY <2>1, <2>5, <2>7, FieldsTold DEF Reduced, IsPicture
<1>5. CASE ~(opts.size = "down" /\ opts.crop = "none")
  <2>1. image = exact BY <1>5 DEF Readable, thumbnail_buffer, exact, whole
  <2> QED BY <1>2, <1>3, <2>1
<1> QED BY <1>4, <1>5

\* An outcome of a resize, which never fails: the image itself, smaller or larger, or
\* another decode.
Fits(current, source, o) ==
  /\ o = Outcome(o.image, o.reduced) /\ o.reduced \in BOOLEAN
  /\ \/ o.reduced /\ source # None /\ Reduced(source, o.image)
     \/ ~o.reduced /\ Kept(current, o.image)

\* The two parts of an outcome.
LEMMA OutcomeParts ==
  ASSUME NEW image, NEW reduced
  PROVE  Outcome(image, reduced).image = image /\ Outcome(image, reduced).reduced = reduced
BY DEF Outcome

\* The size of a full decode is not empty.
LEMMA ContainPositive ==
  ASSUME NEW source, source[1] \in Nat \ {0}, source[2] \in Nat \ {0},
         NEW target, target[1] \in Nat \ {0}, target[2] \in Nat \ {0}
  PROVE  LET size == contain_size(source, target)
         IN size[1] \in Nat \ {0} /\ size[2] \in Nat \ {0}
<1> DEFINE a == <<source[1], target[1]>>
           b == <<source[2], target[2]>>
           shrink == LargerOf(LargerOf(a, b), <<1, 1>>)
<1>1. a \in Fraction /\ b \in Fraction /\ <<1, 1>> \in Fraction BY DEF Fraction
<1> HIDE DEF a, b
<1>2. shrink \in Fraction BY <1>1, FractionsChosen
<1> HIDE DEF shrink
<1>3. Shrunk(source[1], shrink) \in Nat \ {0} /\ Shrunk(source[2], shrink) \in Nat \ {0}
  BY <1>2, ShrunkPositive
<1> QED BY <1>3 DEF contain_size, reduced_side, shrink, a, b

\* Both ways of a resize: the image at hand, or the source once more.
LEMMA ResizeFits ==
  ASSUME NEW current, IsPicture(current), NEW source, source # None => source \in Readable,
         NEW oriented, oriented # None => oriented[1] \in Nat \ {0} /\ oriented[2] \in Nat \ {0},
         NEW width \in Nat \ {0}, NEW opts, opts.height \in Nat, DOMAIN opts = DOMAIN ThumbnailOptions,
         NEW o \in resize(current, source, oriented, width, opts)
  PROVE  Fits(current, source, o)
<1> DEFINE exact == IF oriented = None THEN None ELSE full_decode_size(oriented, width, opts)
           forced == [opts EXCEPT !.height = exact[2], !.size = "force"]
           Corrected(small) ==
             IF exact = None \/ <<small.width, small.height>> = exact THEN {small}
             ELSE thumbnail_buffer(source, exact[1], forced)
<1>1. CASE source = None
  <2>1. o = Outcome(thumbnail(current, width, opts), FALSE) BY <1>1 DEF resize
  <2>2. Kept(current, thumbnail(current, width, opts)) BY ThumbnailKeeps
  <2>3. o.image = thumbnail(current, width, opts) /\ o.reduced = FALSE BY <2>1, OutcomeParts
  <2> HIDE DEF exact, forced, Corrected
  <2> QED BY <2>1, <2>2, <2>3 DEF Fits
<1>2. CASE source # None
  <2>1. source \in Readable BY <1>2
  <2>2. PICK small \in thumbnail_buffer(source, width, opts) :
          \E image \in Corrected(small) : o = Outcome(image, TRUE)
    BY <1>2 DEF resize
  <2>5. PICK image \in Corrected(small) : o = Outcome(image, TRUE) BY <2>2
  <2>3. image = small \/ (exact # None /\ image \in thumbnail_buffer(source, exact[1], forced))
    BY <2>5
  <2>4. Reduced(source, image)
    <3>1. CASE image = small BY <2>1, <3>1, ReducedDecodes
    <3>2. CASE exact # None /\ image \in thumbnail_buffer(source, exact[1], forced)
      <4>1. oriented # None /\ exact = full_decode_size(oriented, width, opts) BY <3>2
      <4>2. exact = contain_size(oriented, <<width, opts.height>>) /\ opts.height # Absent
        BY <3>2, <4>1 DEF full_decode_size
      <4>3. opts.height \in Nat \ {0} BY <4>2 DEF Absent
      <4>4. exact[1] \in Nat \ {0} /\ exact[2] \in Nat \ {0}
        BY <4>1, <4>2, <4>3, ContainPositive
      <4>5. forced.height = exact[2] BY DEF ThumbnailOptions
      <4> HIDE DEF forced, exact
      <4> QED BY <2>1, <3>2, <4>4, <4>5, ReducedDecodes
    <3> QED BY <2>3, <3>1, <3>2
  <2>6. o.image = image /\ o.reduced = TRUE BY <2>5, OutcomeParts
  <2>7. o = Outcome(o.image, o.reduced) BY <2>5, <2>6
  <2> HIDE DEF exact, forced, Corrected
  <2> QED BY <1>2, <2>4, <2>6, <2>7 DEF Fits
<1> QED BY <1>1, <1>2

-----------------------------------------------------------------------------
\* The sides of a box are whole, and a side that follows from the other one is
\* at least 1.
BoxSide == Nat \ {0}

\* A side that was bounded is one of a box.
LEMMA SideBounded ==
  ASSUME NEW n \in Int
  PROVE  AtLeast1(n) \in BoxSide /\ AtLeast1(Least(n, 8192)) \in BoxSide
BY DEF AtLeast1, Least, BoxSide

\* Quotients that are rounded either way are whole numbers.
LEMMA QuotientsWhole ==
  ASSUME NEW n \in Int, NEW d \in Nat \ {0}
  PROVE  Truncated(n, d) \subseteq Int /\ Nearest(n, d) \subseteq Int /\ Ceiling(n, d) \subseteq Int
<1>1. n \div d \in Int BY Quotient
<1>2. Truncated(n, d) \subseteq Int BY <1>1 DEF Truncated
<1>3. Ceiling(n, d) \subseteq Int BY <1>1 DEF Ceiling
<1>4. 2 * d \in Nat \ {0} /\ 2 * n + d \in Int OBVIOUS
<1>5. (2 * n + d) \div (2 * d) \in Int BY <1>4, Quotient
<1>6. Nearest(n, d) \subseteq Int BY <1>5 DEF Nearest, Rint
<1> QED BY <1>2, <1>3, <1>6

\* The options of a thumbnail have a height, or none.
LEMMA OptionsBuilt ==
  ASSUME NEW fit, NEW gravity, NEW height \in BoxSide \cup {None}
  PROVE  LET opts == build_thumbnail_options(fit, gravity, height)
         IN DOMAIN opts = DOMAIN ThumbnailOptions /\ opts.height \in Nat
<1>1. height # None => height \in Nat BY DEF BoxSide
<1> QED BY <1>1 DEF build_thumbnail_options, ThumbnailOptions, Absent

\* The size of an upright image is not empty.
LEMMA OrientedSize ==
  ASSUME NEW image, IsPicture(image)
  PROVE  LET size == oriented_size(image) IN size[1] \in Nat \ {0} /\ size[2] \in Nat \ {0}
BY DEF oriented_size, IsPicture

\* An image is fitted to a box of which at least one side is given.
LEMMA PlainFits ==
  ASSUME NEW image, IsPicture(image), NEW source, source # None => source \in Readable,
         NEW params, effective_width(params) \in BoxSide \cup {None},
         effective_height(params) \in BoxSide \cup {None},
         effective_width(params) # None \/ effective_height(params) # None,
         NEW animated \in BOOLEAN, NEW pages,
         animated => pages \in Nat \ {0} /\ image.page_height # 0 /\ source = None,
         NEW o \in PlainResize(image, source, params, animated, pages)
  PROVE  Fits(image, source, o)
<1> DEFINE fit == effective_fit(params)
           oriented == oriented_size(image)
           w == effective_width(params)
           h == effective_height(params)
           Into(width) ==
             UNION {resize(image, source, oriented, width,
                           build_thumbnail_options(fit, params.gravity, height)) :
                      height \in derived_height(fit, h, width, oriented)}
           outcomes == UNION {Into(width) : width \in thumb_width(w, h, oriented)}
<1>1. oriented[1] \in Nat \ {0} /\ oriented[2] \in Nat \ {0} BY OrientedSize
<1> HIDE DEF oriented, fit
<1>2. \A width \in thumb_width(w, h, oriented) : width \in BoxSide
  <2>1. CASE w # None BY <2>1 DEF thumb_width
  <2>2. CASE w = None
    <3>1. h \in BoxSide BY <2>2
    <3>2. h * oriented[1] \in Int BY <1>1, <3>1 DEF BoxSide
    <3>3. Truncated(h * oriented[1], oriented[2]) \subseteq Int BY <1>1, <3>2, QuotientsWhole
    <3>4. \A n \in Int : AtLeast1(Least(n, 8192)) \in BoxSide BY SideBounded
    <3> QED BY <2>2, <3>3, <3>4 DEF thumb_width
  <2> QED BY <2>1, <2>2
<1>3. ASSUME NEW width \in BoxSide, NEW height \in derived_height(fit, h, width, oriented)
      PROVE  height \in BoxSide \cup {None}
  <2>1. width * oriented[2] \in Int BY <1>1 DEF BoxSide
  <2>2. Nearest(width * oriented[2], oriented[1]) \subseteq Int BY <1>1, <2>1, QuotientsWhole
  <2>3. \A n \in Int : AtLeast1(Least(n, 8192)) \in BoxSide BY SideBounded
  <2> QED BY <1>3, <2>2, <2>3 DEF derived_height
<1>4. ASSUME NEW p \in outcomes PROVE Fits(image, source, p)
  <2>1. PICK width \in thumb_width(w, h, oriented) : p \in Into(width) OBVIOUS
  <2>2. PICK height \in derived_height(fit, h, width, oriented) :
          p \in resize(image, source, oriented, width,
                       build_thumbnail_options(fit, params.gravity, height))
    BY <2>1
  <2>3. width \in Nat \ {0} BY <1>2 DEF BoxSide
  <2>4. height \in BoxSide \cup {None} BY <1>2, <1>3
  <2> DEFINE opts == build_thumbnail_options(fit, params.gravity, height)
  <2>5. DOMAIN opts = DOMAIN ThumbnailOptions /\ opts.height \in Nat BY <2>4, OptionsBuilt
  <2> HIDE DEF opts
  <2>6. p \in resize(image, source, oriented, width, opts) BY <2>2 DEF opts
  <2> QED BY <1>1, <2>3, <2>5, <2>6, ResizeFits
<1>5. PlainResize(image, source, params, animated, pages)
        = IF animated THEN {[p EXCEPT !.image = WithPages(@, pages)] : p \in outcomes} ELSE outcomes
  BY DEF PlainResize, fit, oriented
<1> HIDE DEF outcomes
<1>6. CASE ~animated BY <1>4, <1>5, <1>6
<1>7. CASE animated
  <2>0. pages \in Nat \ {0} BY <1>7
  <2>1. PICK p \in outcomes : o = [p EXCEPT !.image = WithPages(p.image, pages)]
    BY <1>5, <1>7
  <2>2. Fits(image, source, p) BY <1>4
  <2>3. p = Outcome(p.image, p.reduced) BY <2>2 DEF Fits
  <2>4. o.image = WithPages(p.image, pages) /\ o.reduced = p.reduced
          /\ o = Outcome(o.image, o.reduced)
    BY <2>1, <2>3 DEF Outcome
  <2> DEFINE a == p.image
             b == WithPages(a, pages)
  <2>5. Kept(image, a) /\ ~p.reduced BY <1>7, <2>2 DEF Fits
  <2>6. IsPicture(a) BY <2>5 DEF Kept
  <2> HIDE DEF a
  <2>7. a.height \div pages \in Nat BY <2>0, <2>6, Quotient DEF IsPicture
  <2>8. /\ DOMAIN b = Fields /\ b.width = a.width /\ b.height = a.height
        /\ b.page_height \in Nat /\ b.alpha = a.alpha /\ b.grey = a.grey
        /\ b.edits = a.edits /\ b.broken = a.broken /\ b.frames = a.frames
    BY <2>6, <2>7, FieldsTold DEF WithPages, IsPicture, Fields
  <2> HIDE DEF b
  <2>9. Kept(image, b)
    BY <1>7, <2>5, <2>6, <2>8, FieldsTold DEF Kept, SameLook, SameFrame, IsPicture
  <2>10. o.image = b BY <2>4 DEF a, b
  <2>11. o.reduced \in BOOLEAN BY <2>2, <2>4 DEF Fits
  <2> QED BY <2>4, <2>5, <2>9, <2>10, <2>11 DEF Fits
<1> QED BY <1>6, <1>7

\* A still is cut to the ratio of a box.
LEMMA AspectFits ==
  ASSUME NEW image, IsPicture(image), NEW source, source # None => source \in Readable,
         NEW params, NEW tw \in BoxSide, NEW th \in BoxSide,
         NEW o \in AspectCrop(image, source, params, tw, th)
  PROVE  Fits(image, source, o)
<1> DEFINE oriented == oriented_size(image)
           opts == build_thumbnail_options("aspect-crop", params.gravity, th)
<1>1. CASE ~(tw > oriented[1] \/ th > oriented[2])
  <2>1. o \in resize(image, source, None, tw, opts) BY <1>1 DEF AspectCrop
  <2>2. DOMAIN opts = DOMAIN ThumbnailOptions /\ opts.height \in Nat BY OptionsBuilt
  <2>3. tw \in Nat \ {0} BY DEF BoxSide
  <2> HIDE DEF opts
  <2> QED BY <2>1, <2>2, <2>3, ResizeFits
<1>2. CASE tw > oriented[1] \/ th > oriented[2]
  <2> DEFINE upright == autorot(image)
             w == upright.width
             h == upright.height
             Cut(cw, ch) == crop(upright, (w - cw) \div 2, (h - ch) \div 2, cw, ch)
  <2>1. PICK cut \in DirectCrop(image, tw, th) : o = Outcome(cut, FALSE)
    BY <1>2 DEF AspectCrop
  <2>2. Kept(image, upright) BY AutorotKeeps
  <2>3. IsPicture(upright) BY <2>2 DEF Kept
  <2> HIDE DEF upright
  <2>4. w \in Nat \ {0} /\ h \in Nat \ {0} BY <2>3 DEF IsPicture
  <2> HIDE DEF w, h
  <2>5. \E cw \in 1..w, ch \in 1..h : cut = Cut(cw, ch)
    <3>1. h * tw \in Int /\ w * th \in Int /\ tw \in Nat \ {0} /\ th \in Nat \ {0}
      BY <2>4 DEF BoxSide
    <3>2. Nearest(h * tw, th) \subseteq Int /\ Nearest(w * th, tw) \subseteq Int
      BY <3>1, QuotientsWhole
    <3>3. \A n \in Int : AtLeast1(Least(n, w)) \in 1..w /\ AtLeast1(Least(n, h)) \in 1..h
      BY <2>4 DEF AtLeast1, Least
    <3>4. CASE w * th > tw * h
      <4>1. PICK n \in Nearest(h * tw, th) : cut = Cut(AtLeast1(Least(n, w)), h)
        BY <2>1, <3>4 DEF DirectCrop, upright, w, h
      <4>2. AtLeast1(Least(n, w)) \in 1..w /\ h \in 1..h BY <2>4, <3>2, <3>3
      <4> HIDE DEF Cut
      <4> QED BY <4>1, <4>2
    <3>5. CASE ~(w * th > tw * h)
      <4>1. PICK n \in Nearest(w * th, tw) : cut = Cut(w, AtLeast1(Least(n, h)))
        BY <2>1, <3>5 DEF DirectCrop, upright, w, h
      <4>2. AtLeast1(Least(n, h)) \in 1..h /\ w \in 1..w BY <2>4, <3>2, <3>3
      <4> HIDE DEF Cut
      <4> QED BY <4>1, <4>2
    <3> QED BY <3>4, <3>5
  <2>6. PICK cw \in 1..w, ch \in 1..h : cut = Cut(cw, ch) BY <2>5
  <2> DEFINE left == (w - cw) \div 2
             top == (h - ch) \div 2
  <2>7. left \in Int /\ 0 <= left /\ left + cw <= w /\ top \in Int /\ 0 <= top /\ top + ch <= h
    BY <2>4, <2>6
  <2>12. cut = crop(upright, left, top, cw, ch) BY <2>6
  <2> HIDE DEF left, top
  <2>13. cw \in Int /\ ch \in Int /\ Inside(upright, left, top, cw, ch)
    BY <2>4, <2>6, <2>7 DEF Inside, w, h
  <2>8. Kept(upright, cut) BY <2>3, <2>7, <2>12, <2>13, CropKeeps
  <2>9. Kept(image, cut) BY <2>2, <2>8, KeptTwice
  <2>10. o.image = cut /\ o.reduced = FALSE BY <2>1, OutcomeParts
  <2>11. o = Outcome(o.image, o.reduced) BY <2>1, <2>10
  <2> QED BY <2>9, <2>10, <2>11 DEF Fits
<1> QED BY <1>1, <1>2

\* Frames that are cut out of a column and put together again.
LEMMA CroppedLook ==
  ASSUME NEW image, IsPicture(image), NEW pages \in Nat \ {0}, NEW page_h \in Int,
         NEW tw \in BoxSide, NEW th \in BoxSide
  PROVE  LET cut == CroppedFrames(image, pages, page_h, tw, th)
         IN cut = NoImage \/ (IsPicture(cut) /\ SameLook(image, cut))
<1> DEFINE left == Half(image.width - tw)
           top == Half(page_h - th)
           m == Min({pages, MAX_JOINED})
           frames == [i \in 1..m |-> crop(image, left, (i - 1) * page_h + top, tw, th)]
<1>1. image.width \in Nat \ {0} /\ image.height \in Nat \ {0} /\ tw \in Nat \ {0}
        /\ th \in Nat \ {0}
  BY DEF IsPicture, BoxSide
<1>2. left \in Int /\ top \in Int BY <1>1 DEF Half
<1>3. m \in Nat \ {0}
  <2>1. pages \in Int /\ MAX_JOINED \in Int /\ MAX_JOINED \in Nat \ {0} BY DEF MAX_JOINED
  <2>2. m \in {pages, MAX_JOINED} BY <2>1, MinOfTwo, Zenon
  <2> QED BY <2>1, <2>2
<1> HIDE DEF left, top, m
<1>4. \A i \in 1..m : frames[i] = NoImage \/ Kept(image, frames[i])
  <2> TAKE i \in 1..m
  <2>1. i \in Int BY <1>3
  <2>2. (i - 1) * page_h \in Int BY <2>1
  <2>3. (i - 1) * page_h + top \in Int BY <1>2, <2>2
  <2>4. frames[i] = crop(image, left, (i - 1) * page_h + top, tw, th) OBVIOUS
  <2> HIDE DEF frames
  <2> QED BY <1>1, <1>2, <2>3, <2>4, CropKeeps
<1>5. Len(frames) = m /\ DOMAIN frames = 1..m
  <2>1. DOMAIN frames = 1..m /\ frames = [i \in 1..m |-> frames[i]] OBVIOUS
  <2> HIDE DEF frames
  <2> QED BY <1>3, <2>1, LengthOf
<1> HIDE DEF frames
<1> DEFINE joined == arrayjoin_vertical(frames)
           strip == crop(image, left, 0, tw, image.height)
<1>6. strip = NoImage \/ Kept(image, strip) BY <1>1, <1>2, CropKeeps
<1>7. ASSUME ~ \E i \in DOMAIN frames : frames[i] = NoImage
      PROVE  IsPicture(joined) /\ SameLook(image, joined)
  <2> DEFINE a == frames[1]
             n == Min({Len(frames), MAX_JOINED})
  <2>1. Kept(image, a) BY <1>3, <1>4, <1>5, <1>7
  <2>2. n \in Nat \ {0}
    <3>1. MAX_JOINED \in Int /\ MAX_JOINED \in Nat \ {0} BY DEF MAX_JOINED
    <3>3. m \in Int BY <1>3
    <3>2. n \in {m, MAX_JOINED} BY <1>5, <3>1, <3>3, MinOfTwo, Zenon
    <3> QED BY <1>3, <3>1, <3>2
  <2> HIDE DEF n
  <2>3. IsPicture(a) BY <2>1 DEF Kept
  <2>4. n * a.height \in Nat \ {0} BY <2>2, <2>3 DEF IsPicture
  <2> HIDE DEF a
  <2>5. /\ DOMAIN joined = Fields /\ joined.width = a.width /\ joined.height = n * a.height
        /\ joined.page_height = a.page_height /\ joined.alpha = a.alpha /\ joined.grey = a.grey
        /\ joined.edits = a.edits /\ joined.broken = a.broken
    BY <2>3, FieldsTold DEF IsPicture, Fields, arrayjoin_vertical, a, n
  <2> HIDE DEF joined
  <2> QED BY <2>1, <2>3, <2>4, <2>5, FieldsTold DEF IsPicture, Kept, SameLook
<1>8. CroppedFrames(image, pages, page_h, tw, th) \in {image, strip, NoImage}
        \/ (CroppedFrames(image, pages, page_h, tw, th) = joined
              /\ ~ \E i \in DOMAIN frames : frames[i] = NoImage)
  BY DEF CroppedFrames, left, top, m, frames, strip, joined
<1> HIDE DEF joined, strip
<1> QED BY <1>6, <1>7, <1>8 DEF Kept, SameLook

\* An outcome that shows its frames, all of them or parts.
Covers(current, o) ==
  /\ o = Outcome(o.image, FALSE)
  /\ o.image = NoImage \/ (IsPicture(o.image) /\ SameLook(current, o.image))

\* Frames that cover a box: what is cut of each has the bands of the stack.
LEMMA CoverFits ==
  ASSUME NEW image, IsPicture(image), image.page_height # 0, NEW pages \in Nat \ {0},
         NEW tw \in BoxSide, NEW th \in BoxSide,
         NEW o \in AnimatedCover(image, pages, tw, th)
  PROVE  Covers(image, o)
<1> DEFINE page_h == image.page_height
           scale == LargerOf(<<tw, image.width>>, <<th, page_h>>)
           Options(height) == [ThumbnailOptions EXCEPT !.height = height]
           Sized(w, height) == thumbnail_in_range(image, w, Options(height))
           Cut(sized) == CutToBox(sized, pages, tw, th)
<1>1. /\ image.width \in Nat \ {0} /\ image.height \in Nat \ {0} /\ page_h \in Nat \ {0}
      /\ tw \in Nat \ {0} /\ th \in Nat \ {0}
  BY DEF IsPicture, BoxSide
<1>2. page_height_of(image) = page_h /\ page_height_of(image) # None
  BY <1>1, NumberAssumption DEF page_height_of, Absent
<1>3. scale[1] \in Nat \ {0} /\ scale[2] \in Nat \ {0}
  <2>1. <<tw, image.width>> \in Fraction /\ <<th, page_h>> \in Fraction BY <1>1 DEF Fraction
  <2>2. scale \in Fraction BY <2>1, FractionsChosen
  <2> QED BY <2>2, FractionParts
<1> HIDE DEF scale
<1>4. PICK size \in CoverSizes(image.width, page_h, tw, th) :
        \E height \in StackHeights(AtLeast1(size[2]), pages) :
          o = Outcome(Cut(Sized(AtLeast1(size[1]), height)), FALSE)
  BY <1>2 DEF AnimatedCover
<1> DEFINE w == size[1]
           h == size[2]
<1>5. PICK height \in StackHeights(AtLeast1(h), pages) :
        o = Outcome(Cut(Sized(AtLeast1(w), height)), FALSE)
  BY <1>4
<1>6. w \in Ceiling(image.width * scale[1], scale[2]) /\ h \in Ceiling(page_h * scale[1], scale[2])
  BY <1>4 DEF CoverSizes, scale
<1> HIDE DEF w, h
<1>7. AtLeast1(w) \in Nat \ {0} /\ AtLeast1(h) \in Nat \ {0}
  <2>1. image.width * scale[1] \in Int /\ page_h * scale[1] \in Int BY <1>1, <1>3
  <2>2. w \in Int /\ h \in Int BY <1>3, <1>6, <2>1, QuotientsWhole
  <2> QED BY <2>2, SideBounded DEF BoxSide
<1>8. height \in Nat
  <2>1. AtLeast1(h) * pages \in Nat BY <1>7
  <2> QED BY <1>5, <2>1 DEF StackHeights
<1> DEFINE sized == Sized(AtLeast1(w), height)
<1>9. sized = NoImage \/ (IsPicture(sized) /\ SameLook(image, sized))
  <2>1. Options(height).height \in Nat /\ DOMAIN Options(height) = DOMAIN ThumbnailOptions
    BY <1>8 DEF ThumbnailOptions
  <2> HIDE DEF Options
  <2>2. Kept(image, sized) \/ sized = NoImage BY <1>7, <2>1, InRangeKeeps
  <2> QED BY <2>2 DEF Kept
<1>10. o = Outcome(Cut(sized), FALSE) BY <1>5
<1> HIDE DEF sized
<1> DEFINE uncut == CroppedFrames(sized, pages, sized.height \div pages, tw, th)
           new == [uncut EXCEPT !.page_height = th]
<1>11. ASSUME sized # NoImage
       PROVE  uncut = NoImage \/ (IsPicture(uncut) /\ SameLook(sized, uncut))
  <2>1. sized.height \div pages \in Int BY <1>9, <1>11, Quotient DEF IsPicture
  <2> QED BY <1>9, <1>11, <2>1, CroppedLook
<1>12. ASSUME sized # NoImage, uncut # NoImage PROVE IsPicture(new) /\ SameLook(image, new)
  <2>1. IsPicture(uncut) /\ SameLook(sized, uncut) /\ SameLook(image, sized)
    BY <1>9, <1>11, <1>12
  <2> HIDE DEF uncut
  <2>2. /\ DOMAIN new = Fields /\ new.width = uncut.width /\ new.height = uncut.height
        /\ new.page_height = th /\ new.alpha = uncut.alpha /\ new.grey = uncut.grey
        /\ new.edits = uncut.edits /\ new.broken = uncut.broken
    BY <2>1, FieldsTold DEF IsPicture, Fields
  <2> HIDE DEF new
  <2> QED BY <1>1, <2>1, <2>2, FieldsTold DEF IsPicture, SameLook
<1>13. Cut(sized) = IF sized = NoImage \/ uncut = NoImage THEN NoImage ELSE new
  BY DEF CutToBox
<1> HIDE DEF Cut, new, uncut
<1>14. o.image = Cut(sized) /\ o = Outcome(o.image, FALSE) BY <1>10, OutcomeParts
<1> QED BY <1>12, <1>13, <1>14 DEF Covers

\* What the stage may give: of an animation its frames or parts of them, of a still
\* the frame that it shows or, decoded again, the first one.
LEMMA ResizedFits ==
  ASSUME NEW image, IsPicture(image), NEW source, source # None => source \in Readable,
         NEW params, effective_width(params) \in BoxSide \cup {None},
         effective_height(params) \in BoxSide \cup {None},
         effective_width(params) # None \/ effective_height(params) # None,
         NEW animated \in BOOLEAN, NEW pages,
         animated => pages \in Nat \ {0} /\ image.page_height # 0 /\ source = None,
         NEW o \in Resized(image, source, params, animated, pages)
  PROVE  Fits(image, source, o) \/ (animated /\ Covers(image, o))
<1> DEFINE w == effective_width(params)
           h == effective_height(params)
<1>1. CASE w # None /\ h # None /\ animated /\ params.fit = "cover"
  <2>1. o \in AnimatedCover(image, pages, w, h) BY <1>1 DEF Resized
  <2>2. w \in BoxSide /\ h \in BoxSide BY <1>1
  <2> HIDE DEF w, h
  <2> QED BY <1>1, <2>1, <2>2, CoverFits
<1>2. CASE w # None /\ h # None /\ ~animated /\ params.fit = "aspect-crop"
  <2>1. o \in AspectCrop(image, source, params, w, h) BY <1>2 DEF Resized
  <2>2. w \in BoxSide /\ h \in BoxSide BY <1>2
  <2> HIDE DEF w, h
  <2> QED BY <2>1, <2>2, AspectFits
<1>3. CASE o \in PlainResize(image, source, params, animated, pages)
  BY <1>3, PlainFits
<1> QED BY <1>1, <1>2, <1>3 DEF Resized

\* Padding an image to the box.
LEMMA PaddedKeeps ==
  ASSUME NEW image, IsPicture(image), NEW params, effective_width(params) \in BoxSide \cup {None},
         effective_height(params) \in BoxSide \cup {None}
  PROVE  LET on == Padded(image, params)
         IN Kept(image, on) \/ (on = NoImage /\ image.grey /\ image.alpha)
<1> DEFINE w == IF effective_width(params) = None THEN image.width ELSE effective_width(params)
           h == IF effective_height(params) = None THEN image.height ELSE effective_height(params)
           on == embed(image, w, h)
<1>1. w \in Nat \ {0} /\ h \in Nat \ {0} BY DEF IsPicture, BoxSide
<1>2. Padded(image, params) \in {image, on} BY DEF Padded
<1> HIDE DEF w, h
<1>3. Kept(image, on) \/ (on = NoImage /\ image.grey /\ image.alpha) BY <1>1, EmbedKeeps
<1> HIDE DEF on
<1> QED BY <1>2, <1>3, KeptOnce

\* min(side * dpr, 8192) of a side and a dpr that validate() lets pass.
LEMMA EffectiveSides ==
  ASSUME NEW params, WellTyped(params), validate(params)
  PROVE  /\ effective_width(params) \in BoxSide \cup {None}
         /\ effective_height(params) \in BoxSide \cup {None}
<1>1. /\ <<"width", 1, 8192>> \in Bounds /\ <<"height", 1, 8192>> \in Bounds
      /\ <<"dpr", 1000, 5000>> \in Bounds
  BY DEF Bounds
<1>2. \A b \in Bounds : params[b[1]] # None => contains(b[2], b[3], params[b[1]])
  BY DEF validate
<1>3. /\ params.width # None => contains(1, 8192, params.width)
      /\ params.height # None => contains(1, 8192, params.height)
      /\ params.dpr # None => contains(1000, 5000, params.dpr)
  BY <1>1, <1>2
<1>4. params.dpr # None /\ params.dpr \in Int \cup {None} /\ params.width \in Nat \cup {None}
        /\ params.height \in Nat \cup {None}
  BY DEF WellTyped, WholeNumber, OneDecimal
<1>5. ASSUME NEW side \in Nat, 1 <= side, NEW dpr \in Int, 1000 <= dpr
      PROVE  Least((side * dpr) \div 1000, 8192) \in BoxSide
  <2>1. side - 1 \in Nat /\ dpr \in Nat BY <1>5
  <2>2. (side - 1) * dpr \in Nat BY <2>1
  <2>3. side * dpr = (side - 1) * dpr + dpr BY <2>1
  <2>4. side * dpr \in Int /\ 1000 <= side * dpr BY <1>5, <2>2, <2>3
  <2>5. (side * dpr) \div 1000 \in Nat \ {0} BY <2>4, QuotientPositive
  <2> QED BY <2>5 DEF Least, BoxSide
<1> QED BY <1>3, <1>4, <1>5 DEF effective_width, effective_height, Effective, contains

-----------------------------------------------------------------------------
\* The pairs below a diagonal.
Below(n) == {c \in Nat \X Nat : c[1] + c[2] < n}

\* There are n * (n + 1) / 2 pairs below the diagonal.
LEMMA BelowSize ==
  ASSUME NEW n \in Nat
  PROVE  IsFiniteSet(Below(n)) /\ 2 * Cardinality(Below(n)) = n * (n + 1)
<1> DEFINE G == {k \in Nat : IsFiniteSet(Below(k)) /\ 2 * Cardinality(Below(k)) = k * (k + 1)}
<1>1. 0 \in G
  <2>1. Below(0) = {} BY DEF Below
  <2> QED BY <2>1, FS_EmptySet
<1>2. ASSUME NEW k \in Nat, k \in G PROVE k + 1 \in G
  <2> DEFINE diagonal == {<<i, k - i>> : i \in 0..k}
             f == [i \in 0..k |-> <<i, k - i>>]
  <2>1. IsFiniteSet(0..k) /\ Cardinality(0..k) = k + 1 BY FS_Interval
  <2>2. f \in Bijection(0..k, diagonal)
    <3>1. f \in [0..k -> diagonal] OBVIOUS
    <3>2. \A i, j \in 0..k : f[i] = f[j] => i = j OBVIOUS
    <3>3. \A c \in diagonal : \E i \in 0..k : f[i] = c OBVIOUS
    <3> QED BY <3>1, <3>2, <3>3 DEF Bijection, Injection, Surjection, IsInjective
  <2>3. ExistsBijection(0..k, diagonal) BY <2>2 DEF ExistsBijection
  <2>4. IsFiniteSet(diagonal) /\ Cardinality(diagonal) = k + 1 BY <2>1, <2>3, FS_Bijection
  <2>5. Below(k + 1) = Below(k) \cup diagonal
    <3>1. ASSUME NEW c \in Below(k + 1), c \notin Below(k) PROVE c \in diagonal
      <4>1. c[1] \in Nat /\ c[2] \in Nat /\ c = <<c[1], c[2]>> /\ c[1] + c[2] = k
        BY <3>1 DEF Below
      <4>2. c[1] \in 0..k /\ c[2] = k - c[1] BY <4>1
      <4> QED BY <4>1, <4>2
    <3>2. ASSUME NEW c \in Below(k) PROVE c \in Below(k + 1) BY DEF Below
    <3>3. ASSUME NEW i \in 0..k PROVE <<i, k - i>> \in Below(k + 1) BY DEF Below
    <3> QED BY <3>1, <3>2, <3>3
  <2>6. Below(k) \cap diagonal = {} BY DEF Below
  <2> HIDE DEF diagonal
  <2>7. IsFiniteSet(Below(k)) /\ 2 * Cardinality(Below(k)) = k * (k + 1) BY <1>2
  <2>8. IsFiniteSet(Below(k + 1)) /\ Cardinality(Below(k + 1)) = Cardinality(Below(k)) + (k + 1)
    <3>1. IsFiniteSet(Below(k) \cup diagonal)
            /\ Cardinality(Below(k) \cup diagonal)
                 = Cardinality(Below(k)) + Cardinality(diagonal) - Cardinality(Below(k) \cap diagonal)
      BY <2>4, <2>7, FS_Union
    <3>2. Cardinality(Below(k) \cap diagonal) = 0 BY <2>6, FS_EmptySet
    <3>3. Cardinality(Below(k)) \in Nat BY <2>7, FS_CardinalityType
    <3> QED BY <2>4, <2>5, <3>1, <3>2, <3>3
  <2>9. Cardinality(Below(k)) \in Nat BY <2>7, FS_CardinalityType
  <2> QED BY <2>7, <2>8, <2>9
<1> HIDE DEF G
<1>3. Nat \subseteq G BY <1>1, <1>2, Induction
<1> QED BY <1>3 DEF G

\* The terms of a channel, the DC term with them.
Channel(nx, ny) == {c \in (0..nx) \X (0..(ny - 1)) : c[1] * ny < nx * (ny - c[2])}

\* A channel whose longer side has n terms has no more than half of the square.
LEMMA ChannelBelow ==
  ASSUME NEW n \in Nat \ {0}, NEW m \in 1..n
  PROVE  Channel(n, m) \subseteq Below(n) /\ Channel(m, n) \subseteq Below(n)
<1>1. ASSUME NEW c \in Channel(n, m) PROVE c \in Below(n)
  <2>1. c[1] \in Nat /\ c[2] \in Nat /\ c \in Nat \X Nat /\ c[1] * m < n * (m - c[2])
    BY <1>1 DEF Channel
  <2> DEFINE x == c[1]
             y == c[2]
  <2>2. x \in Nat /\ y \in Nat /\ x * m < n * (m - y) BY <2>1
  <2> HIDE DEF x, y
  <2>3. m \in Nat /\ n - m \in Nat OBVIOUS
  <2>4. (n - m) * y \in Nat BY <2>2, <2>3
  <2>5. m * n - m * (x + y) = (n * (m - y) - x * m) + (n - m) * y BY <2>2, <2>3
  <2>6. m * (x + y) < m * n
    <3>1. m * (x + y) \in Nat /\ m * n \in Nat /\ n * (m - y) \in Int /\ x * m \in Nat
      BY <2>2, <2>3
    <3> QED BY <2>2, <2>4, <2>5, <3>1
  <2>7. ~(n <= x + y)
    <3> SUFFICES ASSUME n <= x + y PROVE FALSE OBVIOUS
    <3>1. x + y - n \in Nat BY <2>2
    <3>2. m * (x + y - n) \in Nat BY <2>3, <3>1
    <3>3. m * (x + y) = m * n + m * (x + y - n) BY <2>2, <2>3
    <3>4. m * n \in Nat BY <2>3
    <3> QED BY <2>6, <3>2, <3>3, <3>4
  <2> QED BY <2>1, <2>2, <2>7 DEF Below, x, y
<1>2. ASSUME NEW c \in Channel(m, n) PROVE c \in Below(n)
  <2>1. c[1] \in Nat /\ c[2] \in Nat /\ c[2] <= n - 1 /\ c \in Nat \X Nat
          /\ c[1] * n < m * (n - c[2])
    BY <1>2 DEF Channel
  <2> DEFINE x == c[1]
             z == n - c[2]
  <2>2. x \in Nat /\ z \in Nat /\ x * n < m * z BY <2>1
  <2>3. z = n - c[2] OBVIOUS
  <2> HIDE DEF x, z
  <2>4. n - m \in Nat /\ m \in Nat OBVIOUS
  <2>5. (n - m) * z \in Nat BY <2>2, <2>4
  <2>6. n * z = m * z + (n - m) * z BY <2>2, <2>4
  <2>7. m * z \in Nat /\ x * n \in Nat /\ n * z \in Nat BY <2>2, <2>4
  <2>8. x * n < n * z BY <2>2, <2>5, <2>6, <2>7
  <2>9. ~(z <= x)
    <3> SUFFICES ASSUME z <= x PROVE FALSE OBVIOUS
    <3>1. x - z \in Nat BY <2>2
    <3>2. n * (x - z) \in Nat BY <3>1
    <3>3. x * n = n * z + n * (x - z) BY <2>2
    <3> QED BY <2>7, <2>8, <3>2, <3>3
  <2> QED BY <2>1, <2>2, <2>3, <2>9 DEF Below, x
<1> QED BY <1>1, <1>2

\* A square channel is the whole half.
LEMMA SquareChannel ==
  ASSUME NEW n \in Nat \ {0}
  PROVE  Channel(n, n) = Below(n)
<1>1. Channel(n, n) \subseteq Below(n) BY ChannelBelow
<1>2. ASSUME NEW c \in Below(n) PROVE c \in Channel(n, n)
  <2>1. c[1] \in Nat /\ c[2] \in Nat /\ c = <<c[1], c[2]>> /\ c[1] + c[2] < n BY DEF Below
  <2>2. c \in (0..n) \X (0..(n - 1)) BY <2>1
  <2> DEFINE x == c[1]
             z == n - c[2]
  <2>3. x \in Nat /\ z \in Nat /\ z - x - 1 \in Nat BY <2>1
  <2> HIDE DEF x, z
  <2>4. n * (z - x - 1) \in Nat /\ n * z = x * n + n + n * (z - x - 1) BY <2>3
  <2>5. x * n \in Nat BY <2>3
  <2>6. x * n < n * z BY <2>4, <2>5
  <2> QED BY <2>2, <2>6 DEF Channel, x, z
<1> QED BY <1>1, <1>2

\* The AC terms of a channel, at most as many as of a square one.
LEMMA ChannelSize ==
  ASSUME NEW n \in Nat \ {0}, NEW m \in 1..n, NEW terms \in {encode_channel(n, m), encode_channel(m, n)}
  PROVE  terms \in Int /\ -1 <= terms /\ 2 * (terms + 1) <= n * (n + 1)
<1>1. IsFiniteSet(Below(n)) /\ 2 * Cardinality(Below(n)) = n * (n + 1) BY BelowSize
<1>2. PICK S \in SUBSET Below(n) : terms = Cardinality(S) - 1
  BY ChannelBelow DEF encode_channel, Channel
<1>3. IsFiniteSet(S) /\ Cardinality(S) <= Cardinality(Below(n)) BY <1>1, FS_Subset
<1>4. Cardinality(S) \in Nat /\ Cardinality(Below(n)) \in Nat BY <1>1, <1>3, FS_CardinalityType
<1> QED BY <1>1, <1>2, <1>3, <1>4

\* The two channels of one size, and the one of an alpha band.
LEMMA FixedChannels == encode_channel(3, 3) = 5 /\ encode_channel(5, 5) = 14
<1>1. \A n \in Nat \ {0} : encode_channel(n, n) = Cardinality(Below(n)) - 1
  BY SquareChannel DEF encode_channel, Channel
<1>2. \A n \in Nat : Cardinality(Below(n)) \in Nat /\ 2 * Cardinality(Below(n)) = n * (n + 1)
  BY BelowSize, FS_CardinalityType
<1>3. 2 * Cardinality(Below(3)) = 12 /\ 2 * Cardinality(Below(5)) = 30 BY <1>2
<1>4. Cardinality(Below(3)) = 6 /\ Cardinality(Below(5)) = 15 BY <1>2, <1>3
<1> QED BY <1>1, <1>4

\* The pairs of one column or row.
LEMMA LineSize ==
  ASSUME NEW k \in Nat, NEW line,
         \/ \E j : line = (0..k) \X {j}
         \/ \E j : line = {j} \X (0..k)
  PROVE  IsFiniteSet(line) /\ Cardinality(line) = k + 1
<1>1. IsFiniteSet(0..k) /\ Cardinality(0..k) = k + 1 BY FS_Interval
<1>2. ExistsBijection(0..k, line)
  <2>1. CASE \E j : line = (0..k) \X {j}
    <3>1. PICK j : line = (0..k) \X {j} BY <2>1
    <3> DEFINE f == [i \in 0..k |-> <<i, j>>]
    <3>2. f \in [0..k -> line] BY <3>1
    <3>3. \A a, b \in 0..k : f[a] = f[b] => a = b OBVIOUS
    <3>4. \A c \in line : \E i \in 0..k : f[i] = c BY <3>1
    <3>5. f \in Bijection(0..k, line)
      BY <3>2, <3>3, <3>4 DEF Bijection, Injection, Surjection, IsInjective
    <3> QED BY <3>5 DEF ExistsBijection
  <2>2. CASE \E j : line = {j} \X (0..k)
    <3>1. PICK j : line = {j} \X (0..k) BY <2>2
    <3> DEFINE f == [i \in 0..k |-> <<j, i>>]
    <3>2. f \in [0..k -> line] BY <3>1
    <3>3. \A a, b \in 0..k : f[a] = f[b] => a = b OBVIOUS
    <3>4. \A c \in line : \E i \in 0..k : f[i] = c BY <3>1
    <3>5. f \in Bijection(0..k, line)
      BY <3>2, <3>3, <3>4 DEF Bijection, Injection, Surjection, IsInjective
    <3> QED BY <3>5 DEF ExistsBijection
  <2> QED BY <2>1, <2>2
<1> QED BY <1>1, <1>2, FS_Bijection

\* Of seven terms along one side and three or more along the other, at least
\* fifteen are below the diagonal: seven, five and three of the first lines.
LEMMA SevenTerms ==
  ASSUME NEW m \in 3..7, NEW terms \in {encode_channel(7, m), encode_channel(m, 7)}
  PROVE  14 <= terms
<1>1. ASSUME NEW S, NEW first, NEW second, NEW third,
             first \subseteq S, second \subseteq S, third \subseteq S,
             first \cap second = {}, (first \cup second) \cap third = {}, IsFiniteSet(S),
             IsFiniteSet(first), Cardinality(first) = 7,
             IsFiniteSet(second), Cardinality(second) = 5,
             IsFiniteSet(third), Cardinality(third) = 3
      PROVE  15 <= Cardinality(S)
  <2> DEFINE two == first \cup second
             three == two \cup third
  <2>1. IsFiniteSet(two) /\ Cardinality(two) = 7 + 5 - Cardinality(first \cap second)
    BY <1>1, FS_Union
  <2>2. Cardinality(first \cap second) = 0 /\ Cardinality(two \cap third) = 0
    BY <1>1, FS_EmptySet
  <2>3. two \cap third = {} /\ three \in SUBSET S BY <1>1
  <2> HIDE DEF two
  <2>4. IsFiniteSet(three)
          /\ Cardinality(three) = Cardinality(two) + 3 - Cardinality(two \cap third)
    BY <1>1, <2>1, FS_Union
  <2>5. Cardinality(three) <= Cardinality(S) /\ Cardinality(S) \in Nat
    BY <1>1, <2>3, FS_Subset, FS_CardinalityType
  <2> QED BY <2>1, <2>2, <2>4, <2>5
<1>2. m \in 1..7 OBVIOUS
<1>3. IsFiniteSet(Below(7)) BY BelowSize
<1>4. CASE terms = encode_channel(7, m)
  <2> DEFINE first == (0..6) \X {0}
             second == (0..4) \X {1}
             third == (0..2) \X {2}
  <2>1. Channel(7, m) \subseteq Below(7) BY <1>2, ChannelBelow
  <2>2. IsFiniteSet(Channel(7, m)) BY <1>3, <2>1, FS_Subset
  <2>3. first \subseteq Channel(7, m) BY DEF Channel
  <2>4. second \subseteq Channel(7, m) BY DEF Channel
  <2>11. third \subseteq Channel(7, m) BY DEF Channel
  <2>5. first \cap second = {} /\ (first \cup second) \cap third = {} OBVIOUS
  <2>6. IsFiniteSet(first) /\ Cardinality(first) = 6 + 1 BY LineSize
  <2>7. IsFiniteSet(second) /\ Cardinality(second) = 4 + 1 BY LineSize
  <2>12. IsFiniteSet(third) /\ Cardinality(third) = 2 + 1 BY LineSize
  <2> HIDE DEF first, second, third
  <2>8. 15 <= Cardinality(Channel(7, m))
    BY <1>1, <2>2, <2>3, <2>4, <2>5, <2>6, <2>7, <2>11, <2>12
  <2>9. terms = Cardinality(Channel(7, m)) - 1 BY <1>4 DEF encode_channel, Channel
  <2>10. Cardinality(Channel(7, m)) \in Nat BY <2>2, FS_CardinalityType
  <2> QED BY <2>8, <2>9, <2>10
<1>5. CASE terms = encode_channel(m, 7)
  <2> DEFINE first == {0} \X (0..6)
             second == {1} \X (0..4)
             third == {2} \X (0..2)
  <2>1. Channel(m, 7) \subseteq Below(7) BY <1>2, ChannelBelow
  <2>2. IsFiniteSet(Channel(m, 7)) BY <1>3, <2>1, FS_Subset
  <2>3. first \subseteq Channel(m, 7)
    <3>1. ASSUME NEW c \in first PROVE c \in Channel(m, 7)
      <4>1. c = <<0, c[2]>> /\ c[2] \in 0..6 OBVIOUS
      <4>2. \A k \in 1..7 : 0 * 7 < m * k OBVIOUS
      <4>3. 7 - c[2] \in 1..7 BY <4>1
      <4> QED BY <4>1, <4>2, <4>3 DEF Channel
    <3> QED BY <3>1
  <2>4. second \subseteq Channel(m, 7)
    <3>1. ASSUME NEW c \in second PROVE c \in Channel(m, 7)
      <4>1. c = <<1, c[2]>> /\ c[2] \in 0..4 OBVIOUS
      <4>2. \A k \in 3..7 : 1 * 7 < m * k
        <5>1. m = 3 \/ m = 4 \/ m = 5 \/ m = 6 \/ m = 7 OBVIOUS
        <5> QED BY <5>1
      <4>3. 7 - c[2] \in 3..7 BY <4>1
      <4> QED BY <4>1, <4>2, <4>3 DEF Channel
    <3> QED BY <3>1
  <2>11. third \subseteq Channel(m, 7)
    <3>1. ASSUME NEW c \in third PROVE c \in Channel(m, 7)
      <4>1. c = <<2, c[2]>> /\ c[2] \in 0..2 OBVIOUS
      <4>2. \A k \in 5..7 : 2 * 7 < m * k
        <5>1. m = 3 \/ m = 4 \/ m = 5 \/ m = 6 \/ m = 7 OBVIOUS
        <5> QED BY <5>1
      <4>3. 7 - c[2] \in 5..7 BY <4>1
      <4> QED BY <4>1, <4>2, <4>3 DEF Channel
    <3> QED BY <3>1
  <2>5. first \cap second = {} /\ (first \cup second) \cap third = {} OBVIOUS
  <2>6. IsFiniteSet(first) /\ Cardinality(first) = 6 + 1 BY LineSize
  <2>7. IsFiniteSet(second) /\ Cardinality(second) = 4 + 1 BY LineSize
  <2>12. IsFiniteSet(third) /\ Cardinality(third) = 2 + 1 BY LineSize
  <2> HIDE DEF first, second, third
  <2>8. 15 <= Cardinality(Channel(m, 7))
    BY <1>1, <2>2, <2>3, <2>4, <2>5, <2>6, <2>7, <2>11, <2>12
  <2>9. terms = Cardinality(Channel(m, 7)) - 1 BY <1>5 DEF encode_channel, Channel
  <2>10. Cardinality(Channel(m, 7)) \in Nat BY <2>2, FS_CardinalityType
  <2> QED BY <2>8, <2>9, <2>10
<1> QED BY <1>4, <1>5

-----------------------------------------------------------------------------
\* The longest side of a raster has as many terms as there may be, the other one
\* has one at least.
LEMMA TermsBounded ==
  ASSUME NEW side \in Nat \ {0}, NEW longest \in Nat \ {0}, side <= longest,
         NEW has_alpha \in BOOLEAN
  PROVE  LET limit == IF has_alpha THEN 5 ELSE 7
         IN /\ Terms(side, longest, has_alpha) \in 1..limit
            /\ side = longest => Terms(side, longest, has_alpha) = limit
<1> DEFINE limit == IF has_alpha THEN 5 ELSE 7
           n == round_to_u32(limit * side, longest)
<1>1. limit \in {5, 7} OBVIOUS
<1> DEFINE d == 2 * longest
           top == 2 * (limit * side) + longest
<1>2. d \in Nat \ {0} /\ top \in Int /\ top < d * limit + d BY <1>1
<1>3. n = top \div d BY DEF round_to_u32
<1>4. side = longest => (d * limit <= top) BY <1>1
<1>5. n \in Int /\ d * n <= top
  <2> HIDE DEF n, top, d
  <2> QED BY <1>2, <1>3, Quotient
<1>6. n <= limit
  <2> HIDE DEF n, top, d, limit
  <2> SUFFICES ASSUME limit < n PROVE FALSE BY <1>1, <1>5
  <2>1. d * limit + d <= d * n BY <1>1, <1>2, <1>5, LessProduct
  <2>2. d * limit \in Int /\ d * n \in Int BY <1>1, <1>2, <1>5
  <2> QED BY <1>2, <1>5, <2>1, <2>2
<1>7. side = longest => n = limit
  <2> HIDE DEF n, top, d, limit
  <2> QED BY <1>1, <1>2, <1>3, <1>4, QuotientIs
<1>8. Terms(side, longest, has_alpha) = IF n < 1 THEN 1 ELSE n BY DEF Terms
<1> HIDE DEF n, limit
<1> QED BY <1>1, <1>5, <1>6, <1>7, <1>8 DEF limit

\* INV-18: a hash has 17 to 25 bytes (thumbhash.rs:28).
LEMMA BytesBounded ==
  ASSUME NEW has_alpha \in BOOLEAN, NEW lx \in Nat \ {0}, NEW ly \in Nat \ {0},
         LET limit == IF has_alpha THEN 5 ELSE 7
         IN \/ lx = limit /\ ly \in 1..limit
            \/ ly = limit /\ lx \in 1..limit
  PROVE  Bytes(lx, ly, has_alpha) \in 17..25
<1> DEFINE terms == encode_channel(AtLeast3(lx), AtLeast3(ly))
<1>1. encode_channel(3, 3) = 5 /\ encode_channel(5, 5) = 14 BY FixedChannels
<1>2. CASE has_alpha
  <2>1. \E m \in 3..5 : terms \in {encode_channel(5, m), encode_channel(m, 5)}
    BY <1>2 DEF AtLeast3
  <2>2. PICK m \in 3..5 : terms \in {encode_channel(5, m), encode_channel(m, 5)} BY <2>1
  <2> HIDE DEF terms
  <2>3. m \in 1..5 OBVIOUS
  <2>4. terms \in Int /\ -1 <= terms /\ 2 * (terms + 1) <= 5 * (5 + 1) BY <2>2, <2>3, ChannelSize
  <2>5. Bytes(lx, ly, has_alpha) = 5 + 1 + (terms + 2 * 5 + 14 + 1) \div 2
    BY <1>1, <1>2 DEF Bytes, terms
  <2> QED BY <2>4, <2>5
<1>3. CASE ~has_alpha
  <2>1. \E m \in 3..7 : terms \in {encode_channel(7, m), encode_channel(m, 7)}
    BY <1>3 DEF AtLeast3
  <2>2. PICK m \in 3..7 : terms \in {encode_channel(7, m), encode_channel(m, 7)} BY <2>1
  <2> HIDE DEF terms
  <2>3. m \in 1..7 OBVIOUS
  <2>4. terms \in Int /\ 2 * (terms + 1) <= 7 * (7 + 1) BY <2>2, <2>3, ChannelSize
  <2>5. 14 <= terms BY <2>2, SevenTerms
  <2>6. Bytes(lx, ly, has_alpha) = 5 + 0 + (terms + 2 * 5 + 0 + 1) \div 2
    BY <1>1, <1>3 DEF Bytes, terms
  <2> QED BY <2>4, <2>5, <2>6
<1> QED BY <1>2, <1>3

\* A hash in base64.
LEMMA HashLength ==
  ASSUME NEW width, NEW height, NEW length, NEW has_alpha \in BOOLEAN,
         encode(width, height, length, has_alpha).error = "none"
  PROVE  to_base64(encode(width, height, length, has_alpha).length) \in {24, 28, 32, 36}
<1> DEFINE longest == IF width > height THEN width ELSE height
           lx == Terms(width, longest, has_alpha)
           ly == Terms(height, longest, has_alpha)
           limit == IF has_alpha THEN 5 ELSE 7
<1>1. width \in 1..MAX_SIDE /\ height \in 1..MAX_SIDE BY DEF encode, Err
<1>2. encode(width, height, length, has_alpha).length = Bytes(lx, ly, has_alpha)
  BY <1>1 DEF encode, Err, Ok
<1>3. /\ width \in Nat \ {0} /\ height \in Nat \ {0} /\ longest \in Nat \ {0}
      /\ width <= longest /\ height <= longest /\ longest \in {width, height}
  BY <1>1 DEF MAX_SIDE
<1> HIDE DEF longest
<1>4. /\ lx \in 1..limit /\ (width = longest => lx = limit)
      /\ ly \in 1..limit /\ (height = longest => ly = limit)
  BY <1>3, TermsBounded
<1> HIDE DEF lx, ly
<1>5. lx \in Nat \ {0} /\ ly \in Nat \ {0} BY <1>4
<1>6. Bytes(lx, ly, has_alpha) \in 17..25 BY <1>3, <1>4, <1>5, BytesBounded
<1> QED BY <1>2, <1>6 DEF to_base64

-----------------------------------------------------------------------------
\* Ordered numbers have ordered products, and the other way round.
LEMMA ProductsOrdered ==
  ASSUME NEW a \in Int, NEW b \in Int, NEW c \in Nat, a <= b
  PROVE  a * c <= b * c
<1>1. CASE a = b BY <1>1
<1>2. CASE a < b
  <2>1. c * a + c <= c * b BY <1>2, LessProduct
  <2> QED BY <2>1
<1> QED BY <1>1, <1>2

\* The other way round.
LEMMA FactorsOrdered ==
  ASSUME NEW a \in Int, NEW b \in Int, NEW c \in Nat \ {0}, a * c <= b * c
  PROVE  a <= b
<1> SUFFICES ASSUME b < a PROVE FALSE OBVIOUS
<1>1. c * b + c <= c * a BY LessProduct
<1> QED BY <1>1

\* A fraction that is rounded stays on its side of a whole number.
LEMMA RintAtLeast ==
  ASSUME NEW n \in Nat, NEW d \in Nat \ {0}, NEW t \in Int, t * d <= n
  PROVE  t <= Rint(n, d)
<1> DEFINE q == (2 * n + d) \div (2 * d)
<1>1. q \in Int /\ 2 * n + d < (2 * d) * q + 2 * d
  <2>1. 2 * d \in Nat \ {0} /\ 2 * n + d \in Int OBVIOUS
  <2> QED BY <2>1, Quotient
<1> HIDE DEF q
<1>2. ~(q < t)
  <2> SUFFICES ASSUME q < t PROVE FALSE OBVIOUS
  <2>1. d * q + d <= d * t BY <1>1, LessProduct
  <2> QED BY <1>1, <2>1
<1> QED BY <1>1, <1>2 DEF q, Rint

\* Rounding does not pass a whole number from below either.
LEMMA RintAtMost ==
  ASSUME NEW n \in Nat, NEW d \in Nat \ {0}, NEW t \in Int, n <= t * d
  PROVE  Rint(n, d) <= t
<1> DEFINE q == (2 * n + d) \div (2 * d)
<1>1. q \in Int /\ (2 * d) * q <= 2 * n + d
  <2>1. 2 * d \in Nat \ {0} /\ 2 * n + d \in Int OBVIOUS
  <2> QED BY <2>1, Quotient
<1> HIDE DEF q
<1>2. ~(t < q)
  <2> SUFFICES ASSUME t < q PROVE FALSE OBVIOUS
  <2>1. d * t + d <= d * q BY <1>1, LessProduct
  <2> QED BY <1>1, <2>1
<1> QED BY <1>1, <1>2 DEF q, Rint

\* A side that is shrunk by no more than to a target is not below it.
LEMMA ShrunkCovers ==
  ASSUME NEW side \in Nat \ {0}, NEW shrink \in Fraction, NEW target \in Nat \ {0},
         shrink[1] * target <= side * shrink[2]
  PROVE  target <= Shrunk(side, shrink)
<1> DEFINE n == shrink[1]
           d == shrink[2]
<1>1. n \in Nat \ {0} /\ d \in Nat \ {0} BY FractionParts
<1>2. CASE Less(shrink, <<side, 1>>)
  <2>1. Shrunk(side, shrink) = Rint(side * d, n) BY <1>2 DEF Shrunk, SmallerOf
  <2>2. side * d \in Nat /\ target * n <= side * d BY <1>1
  <2> HIDE DEF n, d
  <2> QED BY <1>1, <2>1, <2>2, RintAtLeast
<1>3. CASE ~Less(shrink, <<side, 1>>)
  <2>1. SmallerOf(shrink, <<side, 1>>) = <<side, 1>> BY <1>3 DEF SmallerOf
  <2>2. Shrunk(side, shrink) = Rint(side * 1, side) BY <2>1 DEF Shrunk
  <2>3. 1 <= Rint(side * 1, side) BY RintAtLeast
  <2>4. n * target <= side * d /\ side * d <= n BY <1>1, <1>3 DEF Less
  <2>5. target <= 1
    <3> HIDE DEF n, d
    <3>1. n * target \in Int /\ side * d \in Int /\ target * n = n * target BY <1>1
    <3>2. target * n <= 1 * n BY <1>1, <2>4, <3>1
    <3> QED BY <1>1, <3>2, FactorsOrdered
  <2>6. Rint(side * 1, side) \in Int BY RintPositive
  <2> QED BY <2>2, <2>3, <2>5, <2>6
<1> QED BY <1>2, <1>3

\* A side that is shrunk by at least what a limit asks is not above it.
LEMMA ShrunkWithin ==
  ASSUME NEW side \in Nat \ {0}, NEW shrink \in Fraction, NEW limit \in Nat \ {0},
         side * shrink[2] <= shrink[1] * limit
  PROVE  Shrunk(side, shrink) <= limit
<1> DEFINE n == shrink[1]
           d == shrink[2]
<1>1. n \in Nat \ {0} /\ d \in Nat \ {0} BY FractionParts
<1>2. CASE Less(shrink, <<side, 1>>)
  <2>1. Shrunk(side, shrink) = Rint(side * d, n) BY <1>2 DEF Shrunk, SmallerOf
  <2>2. side * d \in Nat /\ side * d <= limit * n BY <1>1
  <2> HIDE DEF n, d
  <2> QED BY <1>1, <2>1, <2>2, RintAtMost
<1>3. CASE ~Less(shrink, <<side, 1>>)
  <2>1. SmallerOf(shrink, <<side, 1>>) = <<side, 1>> BY <1>3 DEF SmallerOf
  <2>2. Shrunk(side, shrink) = Rint(side * 1, side) BY <2>1 DEF Shrunk
  <2>3. Rint(side * 1, side) <= 1 BY RintAtMost
  <2>4. Rint(side * 1, side) \in Int BY RintPositive
  <2> QED BY <2>2, <2>3, <2>4
<1> QED BY <1>2, <1>3

-----------------------------------------------------------------------------
\* An image of m pages of one height.
InPages(image, page, m) ==
  /\ IsPicture(image) /\ page \in Nat \ {0} /\ m \in Nat \ {0}
  /\ image.height = page * m /\ image.page_height = page

\* libvips sees those pages.
LEMMA PagesSeen ==
  ASSUME NEW image, NEW page, NEW m, InPages(image, page, m)
  PROVE  PageHeight(image) = page /\ image.height \div page = m /\ image.height \div m = page
<1>1. /\ page \in Nat \ {0} /\ m \in Nat \ {0}
      /\ image.height = page * m /\ image.page_height = page /\ image.height \in Nat \ {0}
  BY DEF InPages, IsPicture
<1>2. image.height \div page = m
  <2>1. page * m <= image.height /\ image.height < page * m + page BY <1>1
  <2> QED BY <1>1, <2>1, QuotientIs
<1>3. image.height \div m = page
  <2>1. m * page <= image.height /\ image.height < m * page + m BY <1>1
  <2> QED BY <1>1, <2>1, QuotientIs
<1>4. image.height % page = 0 BY <1>1, <1>2
<1>5. PageHeight(image) = page
  <2>1. CASE m = 1 BY <1>1, <2>1 DEF PageHeight
  <2>2. CASE m # 1
    <3>1. page * 2 <= page * m
      <4>1. 2 * page <= m * page BY <1>1, <2>2, ProductsOrdered
      <4> QED BY <1>1, <4>1
    <3>2. page \in 1..(image.height - 1) BY <1>1, <3>1
    <3> QED BY <1>1, <1>4, <3>2 DEF PageHeight
  <2> QED BY <2>1, <2>2
<1> QED BY <1>2, <1>3, <1>5

\* Shrunk one by one, they stay as many.
LEMMA ScaledPages ==
  ASSUME NEW image, NEW page, NEW m, InPages(image, page, m), NEW shrinks,
         shrinks[1] \in Fraction, shrinks[2] \in Fraction
  PROVE  LET small == Scaled(image, page, shrinks)
             new == Shrunk(page, shrinks[2])
         IN /\ IsPicture(small) /\ new \in Nat \ {0}
            /\ small.width = Shrunk(image.width, shrinks[1]) /\ small.height = new * m
            /\ small.frames = image.frames
<1> DEFINE small == Scaled(image, page, shrinks)
           new == Shrunk(page, shrinks[2])
           loaded == image.height \div page
           width == Shrunk(image.width, shrinks[1])
<1>1. /\ IsPicture(image) /\ page \in Nat \ {0} /\ m \in Nat \ {0}
      /\ image.height = page * m /\ image.page_height = page
      /\ image.width \in Nat \ {0} /\ image.height \in Nat \ {0}
  BY DEF InPages, IsPicture
<1>2. loaded = m BY PagesSeen
<1>3. new \in Nat \ {0} BY <1>1, ShrunkPositive
<1>4. page \in 1..image.height
  <2>1. 1 * page <= m * page BY <1>1, ProductsOrdered
  <2> QED BY <1>1, <2>1
<1>5. IsPicture(small) BY <1>1, <1>4, ScaledKeeps DEF Kept
<1> HIDE DEF loaded, new, width
<1>6. small.width = width /\ small.height = new * loaded /\ small.frames = image.frames
  BY <1>1, FieldsTold DEF Scaled, IsPicture, Fields, loaded, new, width
<1> HIDE DEF small
<1> QED BY <1>2, <1>3, <1>5, <1>6 DEF small, new, width

\* Turned upright, a column that lies on no side is the same column.
LEMMA UprightPages ==
  ASSUME NEW image, NEW page, NEW m, InPages(image, page, m), ~Turns(image)
  PROVE  LET upright == autorot(image)
         IN /\ InPages(upright, page, m) /\ upright.width = image.width
            /\ ~Overturned(image) => upright.frames = image.frames
<1>1. IsPicture(image) BY DEF InPages
<1> DEFINE turned == IF Overturned(image) THEN rot(image, "180") ELSE image
           upright == [turned EXCEPT !.orientation = Absent]
<1>2. autorot(image) = upright BY DEF autorot
<1>3. /\ DOMAIN turned = Fields /\ turned.width = image.width /\ turned.height = image.height
      /\ turned.page_height = image.page_height
      /\ ~Overturned(image) => turned.frames = image.frames
  BY <1>1, FieldsTold DEF rot, IsPicture, Fields
<1> HIDE DEF turned
<1>4. /\ DOMAIN upright = Fields /\ upright.width = turned.width /\ upright.height = turned.height
      /\ upright.page_height = turned.page_height /\ upright.frames = turned.frames
  BY <1>3 DEF Fields
<1> HIDE DEF upright
<1> QED BY <1>1, <1>2, <1>3, <1>4, FieldsTold DEF InPages, IsPicture

\* The box of a thumbnail.
BoxOf(width, opts) == <<width, IF opts.height = Absent THEN width ELSE opts.height>>

\* A thumbnail of the column, uncropped: its pages are shrunk one by one.
LEMMA ThumbnailPages ==
  ASSUME NEW image, NEW page, NEW m, InPages(image, page, m), ~Turns(image),
         NEW width \in Nat \ {0}, NEW opts, opts.height \in Nat, opts.crop = "none"
  PROVE  LET small == thumbnail(image, width, opts)
             shrinks == Shrinks(image.width, page, BoxOf(width, opts), opts)
         IN /\ IsPicture(small) /\ shrinks[1] \in Fraction /\ shrinks[2] \in Fraction
            /\ Shrunk(page, shrinks[2]) \in Nat \ {0}
            /\ small.width = Shrunk(image.width, shrinks[1])
            /\ small.height = Shrunk(page, shrinks[2]) * m
            /\ ~Overturned(image) => small.frames = image.frames
<1> DEFINE upright == IF opts.no_rotate THEN image ELSE autorot(image)
           box == BoxOf(width, opts)
           shrinks == Shrinks(image.width, page, box, opts)
<1>1. /\ InPages(upright, page, m) /\ upright.width = image.width
      /\ ~Overturned(image) => upright.frames = image.frames
  BY UprightPages
<1> HIDE DEF upright
<1>2. PageHeight(upright) = page BY <1>1, PagesSeen
<1>3. box[1] \in Nat \ {0} /\ box[2] \in Nat \ {0} BY DEF BoxOf, Absent
<1>4. page \in Nat \ {0} /\ image.width \in Nat \ {0} BY DEF InPages, IsPicture
<1>5. shrinks[1] \in Fraction /\ shrinks[2] \in Fraction BY <1>3, <1>4, ShrinksAreFractions
<1>6. thumbnail(image, width, opts) = Scaled(upright, page, shrinks)
  BY <1>1, <1>2 DEF thumbnail, FittedPages, Fitted, upright, BoxOf
<1> HIDE DEF shrinks
<1> DEFINE small == Scaled(upright, page, shrinks)
<1>7. /\ IsPicture(small) /\ Shrunk(page, shrinks[2]) \in Nat \ {0}
      /\ small.width = Shrunk(upright.width, shrinks[1])
      /\ small.height = Shrunk(page, shrinks[2]) * m /\ small.frames = upright.frames
  BY <1>1, <1>5, ScaledPages
<1> HIDE DEF small
<1> QED BY <1>1, <1>5, <1>6, <1>7 DEF small, shrinks

\* The width and the height of the box are those of one, or there is no height.
LEMMA BoxWidths ==
  ASSUME NEW w \in BoxSide \cup {None}, NEW h \in BoxSide \cup {None}, w # None \/ h # None,
         NEW oriented, oriented[1] \in Nat \ {0}, oriented[2] \in Nat \ {0},
         NEW width \in thumb_width(w, h, oriented)
  PROVE  width \in BoxSide
<1>1. CASE w # None BY <1>1 DEF thumb_width
<1>2. CASE w = None
  <2>1. h \in BoxSide BY <1>2
  <2>2. h * oriented[1] \in Int BY <2>1 DEF BoxSide
  <2>3. Truncated(h * oriented[1], oriented[2]) \subseteq Int BY <2>2, QuotientsWhole
  <2>4. \A n \in Int : AtLeast1(Least(n, 8192)) \in BoxSide BY SideBounded
  <2> QED BY <1>2, <2>3, <2>4 DEF thumb_width
<1> QED BY <1>1, <1>2

\* Its height, unless it is left to the thumbnail.
LEMMA BoxHeights ==
  ASSUME NEW fit, NEW h \in BoxSide \cup {None}, NEW width \in BoxSide,
         NEW oriented, oriented[1] \in Nat \ {0}, oriented[2] \in Nat \ {0},
         NEW height \in derived_height(fit, h, width, oriented)
  PROVE  height \in BoxSide \cup {None}
<1>1. width * oriented[2] \in Int BY DEF BoxSide
<1>2. Nearest(width * oriented[2], oriented[1]) \subseteq Int BY <1>1, QuotientsWhole
<1>3. \A n \in Int : AtLeast1(Least(n, 8192)) \in BoxSide BY SideBounded
<1> QED BY <1>2, <1>3 DEF derived_height

\* Fitted to a box without a crop, an animation keeps its frames, and a page height that
\* tells where they end.
LEMMA PlainWhole ==
  ASSUME NEW image, NEW page, NEW m, InPages(image, page, m), ~Turns(image), ~Overturned(image),
         NEW params, effective_width(params) \in BoxSide \cup {None},
         effective_height(params) \in BoxSide \cup {None},
         effective_width(params) # None \/ effective_height(params) # None,
         params.fit \notin {"cover", "crop", "aspect-crop"},
         NEW o \in PlainResize(image, None, params, TRUE, m)
  PROVE  /\ o.image.frames = image.frames
         /\ o.image.height = o.image.page_height * m
<1> DEFINE fit == effective_fit(params)
           oriented == oriented_size(image)
           w == effective_width(params)
           h == effective_height(params)
           Into(width) ==
             UNION {resize(image, None, oriented, width,
                           build_thumbnail_options(fit, params.gravity, height)) :
                      height \in derived_height(fit, h, width, oriented)}
           outcomes == UNION {Into(width) : width \in thumb_width(w, h, oriented)}
<1>0. fit \notin {"cover", "crop", "aspect-crop"} BY DEF effective_fit
<1>1. IsPicture(image) /\ m \in Nat \ {0} BY DEF InPages
<1>2. oriented[1] \in Nat \ {0} /\ oriented[2] \in Nat \ {0} BY <1>1, OrientedSize
<1> HIDE DEF oriented, fit
<1>3. PICK p \in outcomes : o = [p EXCEPT !.image = WithPages(p.image, m)]
  BY DEF PlainResize, fit, oriented
<1>4. PICK width \in thumb_width(w, h, oriented) : p \in Into(width) OBVIOUS
<1>5. PICK height \in derived_height(fit, h, width, oriented) :
        p \in resize(image, None, oriented, width,
                     build_thumbnail_options(fit, params.gravity, height))
  BY <1>4
<1> HIDE DEF outcomes, Into
<1>6. width \in BoxSide BY <1>2, BoxWidths
<1>7. height \in BoxSide \cup {None} BY <1>2, <1>6, BoxHeights
<1> DEFINE opts == build_thumbnail_options(fit, params.gravity, height)
           small == thumbnail(image, width, opts)
<1>8. opts.height \in Nat BY <1>7, OptionsBuilt
<1>9. opts.crop = "none" BY <1>0 DEF build_thumbnail_options, ThumbnailOptions
<1> HIDE DEF opts
<1>10. p = Outcome(small, FALSE) BY <1>5 DEF resize, opts
<1> DEFINE new == Shrunk(page, Shrinks(image.width, page, BoxOf(width, opts), opts)[2])
<1>11. /\ IsPicture(small) /\ new \in Nat \ {0} /\ small.height = new * m
       /\ small.frames = image.frames
  BY <1>6, <1>8, <1>9, ThumbnailPages DEF BoxSide
<1> HIDE DEF small, new
<1>12. o.image = WithPages(small, m) BY <1>3, <1>10 DEF Outcome
<1>13. small.height \div m = new
  <2>1. m * new <= small.height /\ small.height < m * new + m /\ small.height \in Int
    BY <1>1, <1>11
  <2> QED BY <1>1, <1>11, <2>1, QuotientIs
<1>14. o.image = [small EXCEPT !.page_height = new] BY <1>11, <1>12, <1>13 DEF WithPages
<1> QED BY <1>11, <1>14, FieldsTold DEF IsPicture, Fields

-----------------------------------------------------------------------------
\* A quotient that is rounded up is not below it.
LEMMA CeilingCovers ==
  ASSUME NEW n \in Nat, NEW d \in Nat \ {0}, NEW q \in Ceiling(n, d)
  PROVE  q \in Int /\ n <= q * d
<1>1. n \div d \in Int /\ n < d * (n \div d) + d BY Quotient
<1>2. CASE q = n \div d + 1
  <2>1. q * d = d * (n \div d) + d BY <1>1, <1>2
  <2> QED BY <1>1, <1>2, <2>1
<1>3. CASE q = n \div d /\ n % d = 0
  <2>1. q * d = n BY <1>3
  <2> QED BY <1>1, <1>3, <2>1
<1> QED BY <1>2, <1>3 DEF Ceiling

\* The larger of two fractions is not below any of them.
LEMMA LargerIs ==
  ASSUME NEW p \in Fraction, NEW q \in Fraction
  PROVE  LET r == LargerOf(p, q)
         IN /\ r \in {p, q}
            /\ p[1] * r[2] <= r[1] * p[2] /\ q[1] * r[2] <= r[1] * q[2]
<1>1. /\ p[1] \in Nat \ {0} /\ p[2] \in Nat \ {0} /\ q[1] \in Nat \ {0} /\ q[2] \in Nat \ {0}
  BY FractionParts
<1>2. /\ p[1] * q[2] \in Int /\ q[1] * p[2] \in Int
      /\ p[1] * p[2] \in Int /\ q[1] * q[2] \in Int
  BY <1>1
<1>3. CASE Less(p, q)
  <2>1. LargerOf(p, q) = q /\ p[1] * q[2] < q[1] * p[2] BY <1>3 DEF LargerOf, Less
  <2> QED BY <1>2, <2>1
<1>4. CASE ~Less(p, q)
  <2>1. LargerOf(p, q) = p /\ ~(p[1] * q[2] < q[1] * p[2]) BY <1>4 DEF LargerOf, Less
  <2> QED BY <1>2, <2>1
<1> QED BY <1>3, <1>4

\* Frames that are sized to cover a box do so, each of them.
LEMMA ScaleCovers ==
  ASSUME NEW W \in Nat \ {0}, NEW H \in Nat \ {0}, NEW tw \in Nat \ {0}, NEW th \in Nat \ {0},
         NEW scale, scale = LargerOf(<<tw, W>>, <<th, H>>),
         NEW w \in Ceiling(W * scale[1], scale[2]), NEW h \in Ceiling(H * scale[1], scale[2])
  PROVE  /\ w \in Nat \ {0} /\ h \in Nat \ {0} /\ tw <= w /\ th <= h
         /\ W * th <= H * w /\ H * tw <= W * h
<1> DEFINE s1 == scale[1]
           s2 == scale[2]
<1>1. <<tw, W>> \in Fraction /\ <<th, H>> \in Fraction BY DEF Fraction
<1>2. s1 \in Nat \ {0} /\ s2 \in Nat \ {0} BY <1>1, FractionsChosen, FractionParts
<1>3. tw * s2 <= s1 * W /\ th * s2 <= s1 * H
  <2>1. <<tw, W>>[1] * s2 <= s1 * <<tw, W>>[2] /\ <<th, H>>[1] * s2 <= s1 * <<th, H>>[2]
    BY <1>1, LargerIs
  <2> QED BY <2>1
<1>4. w \in Ceiling(W * s1, s2) /\ h \in Ceiling(H * s1, s2) OBVIOUS
<1> HIDE DEF s1, s2
<1>5. W * s1 \in Nat /\ H * s1 \in Nat BY <1>2
<1>6. w \in Int /\ h \in Int /\ W * s1 <= w * s2 /\ H * s1 <= h * s2
  BY <1>2, <1>4, <1>5, CeilingCovers
<1>7. tw <= w
  <2>1. tw * s2 <= w * s2
    <3>1. tw * s2 \in Int /\ s1 * W \in Int /\ s1 * W = W * s1 /\ w * s2 \in Int BY <1>2, <1>6
    <3> QED BY <1>3, <1>6, <3>1
  <2> QED BY <1>2, <1>6, <2>1, FactorsOrdered
<1>8. th <= h
  <2>1. th * s2 <= h * s2
    <3>1. th * s2 \in Int /\ s1 * H \in Int /\ s1 * H = H * s1 /\ h * s2 \in Int BY <1>2, <1>6
    <3> QED BY <1>3, <1>6, <3>1
  <2> QED BY <1>2, <1>6, <2>1, FactorsOrdered
<1>9. W * th <= H * w
  <2>1. (th * s2) * W <= (s1 * H) * W
    <3>1. th * s2 \in Int /\ s1 * H \in Int BY <1>2
    <3> QED BY <1>3, <3>1, ProductsOrdered
  <2>2. (W * s1) * H <= (w * s2) * H
    <3>1. W * s1 \in Int /\ w * s2 \in Int BY <1>2, <1>6
    <3> QED BY <1>6, <3>1, ProductsOrdered
  <2>3. (th * s2) * W = (W * th) * s2 /\ (w * s2) * H = (H * w) * s2 /\ (s1 * H) * W = (W * s1) * H
    BY <1>2, <1>6
  <2>4. (W * th) * s2 \in Int /\ (H * w) * s2 \in Int /\ (W * s1) * H \in Int
          /\ W * th \in Int /\ H * w \in Int
    BY <1>2, <1>6
  <2>5. (W * th) * s2 <= (H * w) * s2 BY <2>1, <2>2, <2>3, <2>4
  <2> QED BY <1>2, <2>4, <2>5, FactorsOrdered
<1>10. H * tw <= W * h
  <2>1. (tw * s2) * H <= (s1 * W) * H
    <3>1. tw * s2 \in Int /\ s1 * W \in Int BY <1>2
    <3> QED BY <1>3, <3>1, ProductsOrdered
  <2>2. (H * s1) * W <= (h * s2) * W
    <3>1. H * s1 \in Int /\ h * s2 \in Int BY <1>2, <1>6
    <3> QED BY <1>6, <3>1, ProductsOrdered
  <2>3. (tw * s2) * H = (H * tw) * s2 /\ (h * s2) * W = (W * h) * s2 /\ (s1 * W) * H = (H * s1) * W
    BY <1>2, <1>6
  <2>4. (H * tw) * s2 \in Int /\ (W * h) * s2 \in Int /\ (H * s1) * W \in Int
          /\ H * tw \in Int /\ W * h \in Int
    BY <1>2, <1>6
  <2>5. (H * tw) * s2 <= (W * h) * s2 BY <2>1, <2>2, <2>3, <2>4
  <2> QED BY <1>2, <2>4, <2>5, FactorsOrdered
<1> QED BY <1>6, <1>7, <1>8, <1>9, <1>10

-----------------------------------------------------------------------------
\* The sequence of the first numbers.
FirstNumbers(n) == [i \in 1..n |-> i]

\* There are n of them.
LEMMA FirstNumbersIs ==
  ASSUME NEW n \in Nat
  PROVE  FirstNumbers(n) \in Seq(Nat) /\ Len(FirstNumbers(n)) = n
<1>1. FirstNumbers(n) = [i \in 1..n |-> FirstNumbers(n)[i]] BY DEF FirstNumbers
<1>2. Len(FirstNumbers(n)) = n
  <2>1. DOMAIN FirstNumbers(n) = 1..n BY DEF FirstNumbers
  <2> QED BY <1>1, <2>1, LengthOf
<1>3. FirstNumbers(n) \in [1..n -> Nat] BY DEF FirstNumbers
<1> QED BY <1>2, <1>3, SeqDef

\* The next number at its end.
LEMMA NextNumber ==
  ASSUME NEW n \in Nat
  PROVE  FirstNumbers(n) \o <<n + 1>> = FirstNumbers(n + 1)
<1> DEFINE a == FirstNumbers(n)
           b == <<n + 1>>
           c == FirstNumbers(n + 1)
<1>1. a \in Seq(Nat) /\ Len(a) = n /\ b \in Seq(Nat) /\ Len(b) = 1 /\ b[1] = n + 1
  BY FirstNumbersIs
<1>2. c \in Seq(Nat) /\ Len(c) = n + 1 BY FirstNumbersIs
<1>3. \A i \in 1..n : a[i] = i BY DEF FirstNumbers
<1>4. \A i \in 1..(n + 1) : c[i] = i BY DEF FirstNumbers
<1> HIDE DEF a, b, c
<1>5. /\ a \o b \in Seq(Nat) /\ Len(a \o b) = n + 1
      /\ \A i \in 1..(n + 1) : (a \o b)[i] = IF i <= n THEN a[i] ELSE b[i - n]
  <2>1. /\ a \o b \in Seq(Nat) /\ Len(a \o b) = Len(a) + Len(b)
        /\ \A i \in 1 .. Len(a) + Len(b) : (a \o b)[i] =
             IF i <= Len(a) THEN a[i] ELSE b[i - Len(a)]
    BY <1>1, ConcatProperties
  <2> QED BY <1>1, <2>1
<1>6. \A i \in 1..(n + 1) : (a \o b)[i] = c[i] BY <1>1, <1>3, <1>4, <1>5
<1>7. a \o b = c BY <1>2, <1>5, <1>6, SeqEqual
<1> QED BY <1>7 DEF a, b, c

\* What is flat up to each element.
FlatSteps(f, s, k) == f = [i \in 1..k |-> IF i = 1 THEN s[i] ELSE f[i - 1] \o s[i]]

\* One number of each is the numbers.
LEMMA SinglesFlat ==
  ASSUME NEW n \in Nat \ {0}
  PROVE  FlattenSeq([i \in 1..n |-> <<i>>]) = FirstNumbers(n)
<1> DEFINE s == [i \in 1..n |-> <<i>>]
           f == CHOOSE g : FlatSteps(g, s, Len(s))
           G == {i \in Nat : i + 1 <= n => f[i + 1] = FirstNumbers(i + 1)}
<1>1. Len(s) = n
  <2>1. DOMAIN s = 1..n /\ s = [i \in 1..n |-> s[i]] OBVIOUS
  <2> HIDE DEF s
  <2> QED BY <2>1, LengthOf
<1>2. FlattenSeq(s) = f[Len(s)] BY <1>1 DEF FlattenSeq, FlatSteps
<1>3. FirstNumbers(1) = <<1>>  BY DEF FirstNumbers
<1>4. \E g : FlatSteps(g, s, Len(s))
  <2> DEFINE g == [i \in 1..n |-> FirstNumbers(i)]
  <2>1. ASSUME NEW i \in 1..n
        PROVE  FirstNumbers(i) = IF i = 1 THEN s[i] ELSE g[i - 1] \o s[i]
    <3>1. CASE i = 1 BY <1>3, <3>1
    <3>2. CASE i # 1
      <4>1. i - 1 \in 1..n /\ (i - 1) + 1 = i /\ i - 1 \in Nat BY <3>2
      <4>2. FirstNumbers(i - 1) \o <<(i - 1) + 1>> = FirstNumbers((i - 1) + 1)
        BY <4>1, NextNumber
      <4> QED BY <3>2, <4>1, <4>2
    <3> QED BY <3>1, <3>2
  <2>2. g = [i \in 1..n |-> IF i = 1 THEN s[i] ELSE g[i - 1] \o s[i]] BY <2>1
  <2> QED BY <1>1, <2>2 DEF FlatSteps
<1>5. FlatSteps(f, s, Len(s)) BY <1>4
<1> HIDE DEF f
<1>6. \A i \in 1..n : f[i] = IF i = 1 THEN <<1>> ELSE f[i - 1] \o <<i>>
  BY <1>1, <1>5 DEF FlatSteps
<1> HIDE DEF s
<1>7. 0 \in G BY <1>3, <1>6
<1>8. ASSUME NEW i \in Nat, i \in G PROVE i + 1 \in G
  <2> SUFFICES ASSUME (i + 1) + 1 <= n PROVE f[(i + 1) + 1] = FirstNumbers((i + 1) + 1) OBVIOUS
  <2>1. (i + 1) + 1 \in 1..n /\ (i + 1) + 1 # 1 /\ ((i + 1) + 1) - 1 = i + 1 /\ i + 1 <= n
    OBVIOUS
  <2>2. f[(i + 1) + 1] = f[i + 1] \o <<(i + 1) + 1>> BY <1>6, <2>1
  <2>3. f[i + 1] = FirstNumbers(i + 1) BY <1>8, <2>1
  <2> QED BY <2>2, <2>3, NextNumber
<1> HIDE DEF G
<1>9. Nat \subseteq G BY <1>7, <1>8, Induction
<1>10. n - 1 \in G BY <1>9
<1>11. f[n] = FirstNumbers(n) BY <1>10 DEF G
<1> QED BY <1>1, <1>2, <1>11 DEF s

-----------------------------------------------------------------------------
\* A margin is split in two, and a row may be left over.
LEMMA HalfIs ==
  ASSUME NEW n \in Nat
  PROVE  /\ Half(n) \in Nat /\ 2 * Half(n) <= n
         /\ Half(n) = 0 => n \in {0, 1}
<1>1. n \div 2 \in Int /\ 2 * (n \div 2) <= n /\ n < 2 * (n \div 2) + 2 /\ n \div 2 >= 0
  BY Quotient
<1> QED BY <1>1 DEF Half

\* A column of m pages of one height, and the rows of the i-th from its own row `top` on.
Stacks(image, page, m) ==
  /\ IsPicture(image) /\ page \in Nat \ {0} /\ m \in Nat \ {0}
  /\ image.height = page * m
\* The row of the stack where the cut of page i begins.
RowOf(i, page, top) == (i - 1) * page + top

\* A part of one page of a column shows that page.
LEMMA PageCut ==
  ASSUME NEW image, NEW page, NEW m, Stacks(image, page, m), NEW i \in 1..m,
         NEW left \in Nat, NEW width \in Nat \ {0}, left + width <= image.width,
         NEW top \in Nat, NEW height \in Nat \ {0}, top + height <= page, height < page
  PROVE  LET cut == crop(image, left, RowOf(i, page, top), width, height)
         IN /\ Kept(image, cut) /\ cut.height = height
            /\ image.frames = FirstNumbers(m) => cut.frames = <<i>>
<1> DEFINE start == RowOf(i, page, top)
           cut == crop(image, left, start, width, height)
<1>1. /\ image.width \in Nat \ {0} /\ image.height \in Nat \ {0} /\ IsPicture(image)
      /\ page \in Nat \ {0} /\ m \in Nat \ {0} /\ image.height = page * m
  BY DEF IsPicture, Stacks
<1>2. i \in Int /\ i - 1 \in Nat /\ i <= m /\ m - i \in Nat /\ (i - 1) * page \in Nat
        /\ page * (i - 1) = (i - 1) * page
  BY <1>1
<1>3. /\ start = (i - 1) * page + top /\ start \in Nat
      /\ start + height <= (i - 1) * page + page
  BY <1>1, <1>2 DEF RowOf
<1> HIDE DEF start
<1>4. (i - 1) * page + page <= image.height
  <2>1. i * page <= m * page BY <1>1, <1>2, ProductsOrdered
  <2>2. (i - 1) * page + page = i * page BY <1>1, <1>2
  <2>3. i * page \in Int /\ m * page \in Int /\ image.height = m * page BY <1>1, <1>2
  <2> QED BY <2>1, <2>2, <2>3
<1>5. Inside(image, left, start, width, height)
  <2> QED BY <1>1, <1>2, <1>3, <1>4 DEF Inside
<1>6. Kept(image, cut) /\ cut.height = height
  <2>1. start \in Int BY <1>3
  <2> QED BY <1>1, <1>5, <2>1, CropKeeps
<1>7. ASSUME image.frames = FirstNumbers(m) PROVE cut.frames = <<i>>
  <2>1. Len(image.frames) = m BY <1>1, <1>7, FirstNumbersIs
  <2>2. FrameHeight(image) = page
    <3>1. m * page <= image.height /\ image.height < m * page + m /\ m * page \in Int
      BY <1>1
    <3>2. image.height \div m = page BY <1>1, <3>1, QuotientIs
    <3> QED BY <2>1, <3>2 DEF FrameHeight
  <2>3. start \div page = i - 1 /\ (start + height - 1) \div page = i - 1
    <3>1. /\ page * (i - 1) <= start /\ start < page * (i - 1) + page
          /\ page * (i - 1) <= start + height - 1 /\ start + height - 1 < page * (i - 1) + page
      BY <1>1, <1>2, <1>3
    <3>2. start \in Int /\ start + height - 1 \in Int /\ i - 1 \in Int BY <1>2, <1>3
    <3>3. start \div page = i - 1 BY <1>1, <3>1, <3>2, QuotientIs
    <3>4. (start + height - 1) \div page = i - 1
      <4> DEFINE end == start + height - 1
      <4>1. end \in Int /\ page * (i - 1) <= end /\ end < page * (i - 1) + page BY <3>1, <3>2
      <4> HIDE DEF end
      <4>2. end \div page = i - 1 BY <1>1, <3>2, <4>1, QuotientIs
      <4> QED BY <4>2 DEF end
    <3> QED BY <3>3, <3>4
  <2>4. height # image.height
    <3>1. 1 * page <= m * page BY <1>1, ProductsOrdered
    <3> QED BY <1>1, <3>1
  <2>5. image.frames # <<>> BY <2>1
  <2>6. image.frames[i] = i BY <1>7 DEF FirstNumbers
  <2>7. FramesIn(image, start, height) = <<i>>
    BY <1>2, <2>2, <2>3, <2>4, <2>5, <2>6 DEF FramesIn
  <2>8. cut.frames = FramesIn(image, start, height)
    BY <1>5, FieldsTold DEF crop, Inside, IsPicture, Fields
  <2> QED BY <2>7, <2>8
<1> QED BY <1>6, <1>7 DEF start
\* A column of frames, cut to a box that each of them covers, is the same column of
\* frames, unless they are more than can be joined; a row may be left over.
LEMMA CropsWhole ==
  ASSUME NEW image, IsPicture(image), NEW page \in Nat \ {0}, NEW m \in Nat \ {0},
         image.height = page * m, NEW tw \in BoxSide, NEW th \in BoxSide,
         tw <= image.width, th <= page
  PROVE  LET cut == CroppedFrames(image, m, page, tw, th)
         IN /\ IsPicture(cut)
            /\ (image.frames = FirstNumbers(m) /\ m <= MAX_JOINED) =>
                 cut.frames = FirstNumbers(m) /\ cut.height \in {m * th, m * (th + 1)}
<1> DEFINE left == Half(image.width - tw)
           top == Half(page - th)
           n == Min({m, MAX_JOINED})
           frames == [i \in 1..n |-> crop(image, left, (i - 1) * page + top, tw, th)]
           strip == crop(image, left, 0, tw, image.height)
           joined == arrayjoin_vertical(frames)
           cut == CroppedFrames(image, m, page, tw, th)
<1>1. image.width \in Nat \ {0} /\ image.height \in Nat \ {0} /\ tw \in Nat \ {0}
        /\ th \in Nat \ {0}
  BY DEF IsPicture, BoxSide
<1>2. left \in Nat /\ left + tw <= image.width
  <2>1. image.width - tw \in Nat BY <1>1
  <2> QED BY <1>1, <2>1, HalfIs
<1>3. top \in Nat /\ top + th <= page /\ (top = 0 => page \in {th, th + 1})
        /\ (top # 0 => th < page)
  <2>1. page - th \in Nat BY <1>1
  <2> QED BY <1>1, <2>1, HalfIs
<1>4. n \in Nat \ {0} /\ n <= m /\ n <= MAX_JOINED /\ (m <= MAX_JOINED => n = m)
  <2>1. MAX_JOINED \in Nat \ {0} /\ MAX_JOINED \in Int /\ m \in Int BY DEF MAX_JOINED
  <2>2. n \in {m, MAX_JOINED} /\ n <= m /\ n <= MAX_JOINED BY <2>1, MinOfTwo, Zenon
  <2> HIDE DEF n
  <2> QED BY <2>1, <2>2
<1>5. cut = IF image.width <= tw /\ page <= th THEN image
            ELSE IF top = 0 THEN strip
            ELSE IF \E i \in DOMAIN frames : frames[i] = NoImage THEN NoImage
            ELSE joined
  BY DEF CroppedFrames
<1>6. Len(frames) = n /\ DOMAIN frames = 1..n
  <2>1. DOMAIN frames = 1..n /\ frames = [i \in 1..n |-> frames[i]] OBVIOUS
  <2> HIDE DEF frames, n
  <2> QED BY <1>4, <2>1, LengthOf
<1> HIDE DEF left, top, n
<1>7. CASE image.width <= tw /\ page <= th
  <2>1. page = th BY <1>1, <1>7
  <2> QED BY <1>1, <1>5, <1>7, <2>1
<1>8. CASE ~(image.width <= tw /\ page <= th) /\ top = 0
  <2>1. Inside(image, left, 0, tw, image.height) BY <1>1, <1>2 DEF Inside
  <2>2. Kept(image, strip) /\ strip.height = image.height BY <1>1, <1>2, <2>1, CropKeeps
  <2>3. strip.frames = image.frames
    BY <2>1, FieldsTold DEF crop, Inside, FramesIn, IsPicture, Fields
  <2>4. strip.height \in {m * th, m * (th + 1)} BY <1>1, <1>3, <1>8, <2>2
  <2> QED BY <1>5, <1>8, <2>2, <2>3, <2>4 DEF Kept
<1>9. CASE ~(image.width <= tw /\ page <= th) /\ top # 0
  <2>1. \A i \in 1..n : /\ Kept(image, frames[i]) /\ frames[i].height = th
                        /\ image.frames = FirstNumbers(m) => frames[i].frames = <<i>>
    <3> TAKE i \in 1..n
    <3>1. i \in 1..m BY <1>4
    <3>2. frames[i] = crop(image, left, (i - 1) * page + top, tw, th) OBVIOUS
    <3> HIDE DEF frames
    <3>3. th \in Nat \ {0} /\ th < page /\ top + th <= page /\ top \in Nat
      BY <1>1, <1>3, <1>9
    <3>4. frames[i] = crop(image, left, RowOf(i, page, top), tw, th) BY <3>2 DEF RowOf
    <3>5. Stacks(image, page, m) BY DEF Stacks
    <3>6. tw \in Nat \ {0} /\ left \in Nat /\ left + tw <= image.width BY <1>1, <1>2
    <3> DEFINE part == crop(image, left, RowOf(i, page, top), tw, th)
    <3>7. /\ Kept(image, part) /\ part.height = th
          /\ image.frames = FirstNumbers(m) => part.frames = <<i>>
      BY ONLY <3>1, <3>3, <3>5, <3>6, PageCut
    <3> QED BY <3>4, <3>7
  <2>2. \A i \in 1..n : frames[i] # NoImage BY <2>1, NotNoImage DEF Kept
  <2>3. cut = joined BY <1>5, <1>6, <1>9, <2>2
  <2> HIDE DEF frames, cut
  <2> DEFINE a == frames[1]
  <2>4. IsPicture(a) /\ a.height = th BY <1>4, <2>1 DEF Kept
  <2>5. Min({Len(frames), MAX_JOINED}) = n
    <3>1. n \in Int /\ MAX_JOINED \in Int BY <1>4 DEF MAX_JOINED
    <3>2. Min({n, MAX_JOINED}) \in {n, MAX_JOINED} /\ Min({n, MAX_JOINED}) <= n
      BY <3>1, MinOfTwo
    <3>3. Min({n, MAX_JOINED}) = n BY <1>4, <3>1, <3>2
    <3> QED BY <1>6, <3>3
  <2> DEFINE taken == SubSeq(frames, 1, n)
             flat == IF \E i \in 1..n : taken[i].frames = <<>> THEN <<>>
                     ELSE FlattenSeq([i \in 1..n |-> taken[i].frames])
  <2>6. joined = [a EXCEPT !.height = n * @, !.frames = flat]
    BY <2>5 DEF arrayjoin_vertical
  <2> HIDE DEF flat, a, joined
  <2>7. /\ DOMAIN joined = Fields /\ joined.width = a.width /\ joined.height = n * a.height
        /\ joined.page_height = a.page_height /\ joined.frames = flat
    BY <2>4, <2>6, FieldsTold DEF IsPicture, Fields
  <2>8. IsPicture(joined)
    <3>1. n * a.height \in Nat \ {0} BY <1>1, <1>4, <2>4
    <3> QED BY <2>4, <2>7, <3>1, FieldsTold DEF IsPicture
  <2>9. ASSUME image.frames = FirstNumbers(m), m <= MAX_JOINED
        PROVE  joined.frames = FirstNumbers(m) /\ joined.height = m * th
    <3>1. n = m BY <1>4, <2>9
    <3>2. \A i \in 1..m : taken[i].frames = <<i>>
      <4> TAKE i \in 1..m
      <4>1. taken[i] = frames[i]
        <5>1. SubSeq(frames, 1, n) = [k \in 1..(1 + n - 1) |-> frames[1 + k - 1]]
          BY <1>4
        <5> QED BY <1>4, <3>1, <5>1
      <4> QED BY <2>1, <2>9, <3>1, <4>1
    <3> HIDE DEF taken
    <3>3. [i \in 1..m |-> taken[i].frames] = [i \in 1..m |-> <<i>>] BY <3>2
    <3>4. \A i \in 1..m : taken[i].frames # <<>>
      <4>1. \A i : <<i>> # <<>> OBVIOUS
      <4> QED BY <3>2, <4>1
    <3>5. flat = FlattenSeq([i \in 1..m |-> <<i>>]) BY <3>1, <3>3, <3>4 DEF flat
    <3>6. flat = FirstNumbers(m) BY <3>5, SinglesFlat
    <3> QED BY <2>4, <2>7, <3>1, <3>6
  <2> QED BY <1>1, <2>3, <2>8, <2>9 DEF cut
<1> QED BY <1>7, <1>8, <1>9

-----------------------------------------------------------------------------
\* What a cover's frames are resized by leaves neither side of a frame below its box,
\* although the box of the thumbnail is as high as the whole column.
LEMMA CoverShrink ==
  ASSUME NEW W \in Nat \ {0}, NEW H \in Nat \ {0}, NEW tw \in Nat \ {0}, NEW th \in Nat \ {0},
         NEW m \in Nat \ {0}, NEW w \in Nat \ {0}, NEW h \in Nat \ {0}, tw <= w, th <= h,
         W * th <= H * w, H * tw <= W * h,
         NEW r, r = LargerOf(<<W, w>>, <<H, h * m>>)
  PROVE  tw <= Shrunk(W, r) /\ th <= Shrunk(H, r)
<1>1. h * m \in Nat \ {0} OBVIOUS
<1>2. <<W, w>> \in Fraction /\ <<H, h * m>> \in Fraction BY <1>1 DEF Fraction
<1>3. r \in {<<W, w>>, <<H, h * m>>} /\ r \in Fraction BY <1>2, LargerIs, FractionsChosen
<1>4. CASE r = <<W, w>>
  <2>1. W * tw <= W * w
    <3>1. tw * W <= w * W BY ProductsOrdered
    <3> QED BY <3>1
  <2>2. r[1] * tw <= W * r[2] /\ r[1] * th <= H * r[2] BY <1>4, <2>1
  <2> QED BY <1>3, <2>2, ShrunkCovers
<1>5. CASE r = <<H, h * m>>
  <2>1. W * h <= W * (h * m)
    <3>1. 1 * (W * h) <= m * (W * h) BY ProductsOrdered
    <3> QED BY <3>1
  <2>2. H * th <= H * (h * m)
    <3>1. th * H <= h * H BY ProductsOrdered
    <3>2. 1 * (h * H) <= m * (h * H) BY ProductsOrdered
    <3>3. m * (h * H) = H * (h * m) /\ H * th = th * H OBVIOUS
    <3> QED BY <3>1, <3>2, <3>3
  <2>3. r[1] * tw <= W * r[2] /\ r[1] * th <= H * r[2]
    <3>1. H * tw \in Int /\ W * h \in Int /\ W * (h * m) \in Int BY <1>1
    <3> QED BY <1>5, <2>1, <2>2, <3>1
  <2> QED BY <1>3, <2>3, ShrunkCovers
<1> QED BY <1>3, <1>4, <1>5

\* A column that libvips takes is one of an i32.
LEMMA HeightInRange ==
  ASSUME NEW h \in Nat, NEW m \in Nat \ {0}, h <= MAX_COORD \div m
  PROVE  h * m <= MAX_COORD /\ h <= MAX_I32 \div m
<1> DEFINE c == MAX_COORD \div m
           q == MAX_I32 \div m
<1>1. MAX_COORD \in Nat /\ MAX_I32 \in Nat /\ MAX_COORD <= MAX_I32 BY DEF MAX_COORD, MAX_I32
<1>2. c \in Nat /\ q \in Nat /\ m * c <= MAX_COORD /\ MAX_I32 < m * q + m BY <1>1, Quotient
<1> HIDE DEF c, q
<1>3. h * m <= MAX_COORD
  <2>1. h <= c BY DEF c
  <2>2. h * m <= c * m BY <1>2, <2>1, ProductsOrdered
  <2>3. c * m = m * c /\ h * m \in Int /\ m * c \in Int BY <1>2
  <2> QED BY <1>1, <1>2, <2>2, <2>3
<1>4. h <= q
  <2>1. SUFFICES ASSUME q + 1 <= h PROVE FALSE BY <1>2
  <2>2. (q + 1) * m <= h * m BY <1>2, <2>1, ProductsOrdered
  <2>3. (q + 1) * m = m * q + m /\ h * m \in Int /\ m * q \in Int BY <1>2
  <2> QED BY <1>1, <1>2, <1>3, <2>2, <2>3
<1> QED BY <1>3, <1>4 DEF q

\* Frames that lie on no side are covered and cut whole, as many as can be joined, where
\* the column is not too long.
LEMMA CoverWhole ==
  ASSUME NEW image, NEW page, NEW m, InPages(image, page, m), ~Turns(image),
         NEW tw \in BoxSide, NEW th \in BoxSide, NEW o \in AnimatedCover(image, m, tw, th),
         \A size \in CoverSizes(image.width, page, tw, th) :
           size[1] <= MAX_COORD /\ size[2] <= MAX_COORD \div m
  PROVE  /\ IsPicture(o.image)
         /\ (image.frames = FirstNumbers(m) /\ ~Overturned(image) /\ m <= MAX_JOINED) =>
              /\ o.image.frames = FirstNumbers(m) /\ o.image.page_height = th
              /\ o.image.height \in {m * th, m * (th + 1)}
<1> DEFINE W == image.width
           scale == LargerOf(<<tw, W>>, <<th, page>>)
           Told(height) == [ThumbnailOptions EXCEPT !.height = height]
           InRange(w, height) == thumbnail_in_range(image, w, Told(height))
           Options(h) == [ThumbnailOptions EXCEPT !.height = h * m]
           Sized(w, h) == thumbnail(image, w, Options(h))
           Uncut(sized) == CroppedFrames(sized, m, sized.height \div m, tw, th)
           Cut(sized) == CutToBox(sized, m, tw, th)
<1>1. /\ W \in Nat \ {0} /\ page \in Nat \ {0} /\ m \in Nat \ {0}
      /\ tw \in Nat \ {0} /\ th \in Nat \ {0} /\ image.page_height = page
  BY DEF InPages, IsPicture, BoxSide
<1>2. page_height_of(image) = page /\ page_height_of(image) # None
  BY <1>1, NumberAssumption DEF page_height_of, Absent
<1>3. PICK size \in CoverSizes(W, page, tw, th) :
        \E height \in StackHeights(AtLeast1(size[2]), m) :
          o = Outcome(Cut(InRange(AtLeast1(size[1]), height)), FALSE)
  BY <1>1, <1>2 DEF AnimatedCover
<1> DEFINE w == size[1]
           h == size[2]
<1>4. w \in Ceiling(W * scale[1], scale[2]) /\ h \in Ceiling(page * scale[1], scale[2])
  BY <1>3 DEF CoverSizes
<1>5. PICK height \in StackHeights(AtLeast1(h), m) :
        o = Outcome(Cut(InRange(AtLeast1(w), height)), FALSE)
  BY <1>3
<1>19. w <= MAX_COORD /\ h <= MAX_COORD \div m BY <1>3
<1> HIDE DEF w, h
<1>6. /\ w \in Nat \ {0} /\ h \in Nat \ {0} /\ tw <= w /\ th <= h
      /\ W * th <= page * w /\ page * tw <= W * h
  <2>1. scale = LargerOf(<<tw, W>>, <<th, page>>) OBVIOUS
  <2> HIDE DEF W, scale
  <2> QED BY <1>1, <1>4, <2>1, ScaleCovers
<1> HIDE DEF scale
<1> DEFINE sized == Sized(w, h)
           opts == Options(h)
           r == LargerOf(<<W, w>>, <<page, h * m>>)
           new == Shrunk(page, r)
<1>7. o = Outcome(Cut(sized), FALSE)
  <2>1. AtLeast1(w) = w /\ AtLeast1(h) = h BY <1>6 DEF AtLeast1
  <2>2. h * m <= MAX_COORD /\ h <= MAX_I32 \div m BY <1>1, <1>6, <1>19, HeightInRange
  <2>3. h * m \in Nat /\ MAX_I32 \div m \in Int /\ MAX_COORD \in Int
    BY <1>1, <1>6, Quotient DEF MAX_I32, MAX_COORD
  <2>4. height = h * m BY <1>5, <1>6, <2>1, <2>2, <2>3 DEF StackHeights
  <2>5. Told(height) = Options(h) BY <2>4
  <2>6. Options(h).height = h * m /\ [Options(h) EXCEPT !.height = h * m] = Options(h)
    BY DEF ThumbnailOptions
  <2> HIDE DEF Options
  <2>7. [Options(h) EXCEPT !.height = IF @ > MAX_COORD THEN Absent ELSE @] = Options(h)
    BY <2>2, <2>3, <2>6
  <2>8. thumbnail_in_range(image, w, Options(h)) = thumbnail(image, w, Options(h))
    BY <1>6, <1>19, <2>3, <2>7 DEF thumbnail_in_range
  <2> HIDE DEF Cut
  <2> QED BY <1>5, <2>1, <2>5, <2>8
<1>8. /\ opts.height = h * m /\ opts.height \in Nat \ {0} /\ opts.crop = "none"
      /\ opts.size = "both"
  BY <1>1, <1>6 DEF ThumbnailOptions
<1>9. sized = thumbnail(image, w, opts) OBVIOUS
<1> HIDE DEF opts, sized
<1>10. BoxOf(w, opts) = <<w, h * m>> BY <1>8 DEF BoxOf, Absent
<1>11. Shrinks(W, page, BoxOf(w, opts), opts) = <<r, r>> BY <1>8, <1>10 DEF Shrinks
<1>12. /\ IsPicture(sized) /\ new \in Nat \ {0} /\ sized.width = Shrunk(W, r)
       /\ sized.height = new * m
       /\ ~Overturned(image) => sized.frames = image.frames
  BY <1>6, <1>8, <1>9, <1>11, ThumbnailPages
<1>13. tw <= sized.width /\ th <= new
  <2>1. r = LargerOf(<<W, w>>, <<page, h * m>>) /\ new = Shrunk(page, r) OBVIOUS
  <2> HIDE DEF W, r, new
  <2>2. tw <= Shrunk(W, r) /\ th <= Shrunk(page, r)
    BY <1>1, <1>6, <2>1, CoverShrink
  <2>3. sized.width = Shrunk(W, r) BY <1>12
  <2> QED BY <2>1, <2>2, <2>3
<1> HIDE DEF r, new
<1>14. sized.height \div m = new
  <2>1. m * new <= sized.height /\ sized.height < m * new + m /\ sized.height \in Int
    BY <1>1, <1>12
  <2> QED BY <1>1, <1>12, <2>1, QuotientIs
<1> DEFINE uncut == Uncut(sized)
<1>15. /\ IsPicture(uncut)
       /\ (sized.frames = FirstNumbers(m) /\ m <= MAX_JOINED) =>
            uncut.frames = FirstNumbers(m) /\ uncut.height \in {m * th, m * (th + 1)}
  BY <1>1, <1>12, <1>13, <1>14, CropsWhole
<1>16. Cut(sized) = [uncut EXCEPT !.page_height = th] BY <1>12, <1>15, NotNoImage DEF CutToBox
<1> HIDE DEF uncut, Cut
<1>17. o.image = [uncut EXCEPT !.page_height = th] BY <1>7, <1>16, OutcomeParts
<1>18. /\ DOMAIN o.image = Fields /\ o.image.width = uncut.width
       /\ o.image.height = uncut.height /\ o.image.frames = uncut.frames
       /\ o.image.page_height = th
  BY <1>15, <1>17, FieldsTold DEF IsPicture, Fields
<1> QED BY <1>1, <1>12, <1>15, <1>18, FieldsTold DEF IsPicture
\* Fractions in their order: a/b <= c/d <= e/f.
LEMMA FractionsChain ==
  ASSUME NEW a \in Nat, NEW b \in Nat \ {0}, NEW c \in Nat, NEW d \in Nat \ {0},
         NEW e \in Nat, NEW f \in Nat \ {0}, a * d <= c * b, c * f <= e * d
  PROVE  a * f <= e * b
<1>1. (a * d) * f <= (c * b) * f /\ (c * f) * b <= (e * d) * b
  <2>1. a * d \in Int /\ c * b \in Int /\ c * f \in Int /\ e * d \in Int OBVIOUS
  <2> QED BY <2>1, ProductsOrdered
<1>2. (a * d) * f = (a * f) * d /\ (c * b) * f = (c * f) * b /\ (e * d) * b = (e * b) * d
  OBVIOUS
<1>3. /\ (a * d) * f \in Int /\ (c * b) * f \in Int /\ (e * d) * b \in Int
      /\ a * f \in Int /\ e * b \in Int
  OBVIOUS
<1>4. (a * f) * d <= (e * b) * d BY <1>1, <1>2, <1>3
<1> QED BY <1>3, <1>4, FactorsOrdered

\* A page that is shrunk until it fits a box, and never enlarged, fits it.
LEMMA DownWithin ==
  ASSUME NEW W \in Nat \ {0}, NEW H \in Nat \ {0}, NEW limit \in Nat \ {0},
         NEW b, b = LargerOf(LargerOf(<<W, limit>>, <<H, limit>>), <<1, 1>>)
  PROVE  /\ b \in Fraction
         /\ Shrunk(W, b) \in Nat \ {0} /\ Shrunk(W, b) <= limit
         /\ Shrunk(H, b) \in Nat \ {0} /\ Shrunk(H, b) <= limit
<1> DEFINE c == LargerOf(<<W, limit>>, <<H, limit>>)
<1>1. <<W, limit>> \in Fraction /\ <<H, limit>> \in Fraction /\ <<1, 1>> \in Fraction
  BY DEF Fraction
<1>2. c \in Fraction /\ b \in Fraction BY <1>1, FractionsChosen
<1>3. W * c[2] <= c[1] * limit /\ H * c[2] <= c[1] * limit
  <2>1. <<W, limit>>[1] * c[2] <= c[1] * <<W, limit>>[2]
          /\ <<H, limit>>[1] * c[2] <= c[1] * <<H, limit>>[2]
    BY <1>1, LargerIs
  <2> QED BY <2>1
<1>4. c[1] * b[2] <= b[1] * c[2] BY <1>1, <1>2, LargerIs
<1>5. /\ c[1] \in Nat \ {0} /\ c[2] \in Nat \ {0} /\ b[1] \in Nat \ {0} /\ b[2] \in Nat \ {0}
  BY <1>2, FractionParts
<1> HIDE DEF c
<1>6. W * b[2] <= b[1] * limit /\ H * b[2] <= b[1] * limit BY <1>3, <1>4, <1>5, FractionsChain
<1> QED BY <1>2, <1>6, ShrunkWithin, ShrunkPositive

\* Of an image that does not look paged, the raster of a hash is no larger than one may be.
LEMMA RasterFits ==
  ASSUME NEW image, IsPicture(image), PageHeight(image) = image.height, NEW opts,
         opts.height = MAX_SIDE, opts.crop = "none", opts.size = "down", opts.no_rotate
  PROVE  LET small == thumbnail(image, MAX_SIDE, opts)
         IN /\ IsPicture(small) /\ small.width <= MAX_SIDE /\ small.height <= MAX_SIDE
            /\ small.alpha = image.alpha /\ small.grey = image.grey /\ small.broken = image.broken
<1> DEFINE W == image.width
           H == image.height
           b == LargerOf(LargerOf(<<W, MAX_SIDE>>, <<H, MAX_SIDE>>), <<1, 1>>)
           small == thumbnail(image, MAX_SIDE, opts)
<1>1. W \in Nat \ {0} /\ H \in Nat \ {0} /\ MAX_SIDE \in Nat \ {0} /\ MAX_SIDE # Absent
  BY DEF IsPicture, MAX_SIDE, Absent
<1>2. Shrinks(W, H, <<MAX_SIDE, MAX_SIDE>>, opts) = <<b, b>> BY DEF Shrinks
<1>3. small = Scaled(image, H, <<b, b>>)
  BY <1>1, <1>2 DEF thumbnail, FittedPages, Fitted
<1>4. H \div H = 1
  <2>1. H * 1 <= H /\ H < H * 1 + H /\ H \in Int BY <1>1
  <2> QED BY <1>1, <2>1, QuotientIs
<1>5. /\ Shrunk(W, b) <= MAX_SIDE /\ Shrunk(H, b) <= MAX_SIDE
      /\ Shrunk(W, b) \in Nat \ {0} /\ Shrunk(H, b) \in Nat \ {0}
  BY <1>1, DownWithin
<1> HIDE DEF b
<1>6. /\ DOMAIN small = Fields /\ small.width = Shrunk(W, b)
      /\ small.height = Shrunk(H, b) * (H \div H) /\ small.page_height \in Nat
      /\ small.alpha = image.alpha /\ small.grey = image.grey /\ small.broken = image.broken
  BY <1>3, <1>5, FieldsTold DEF Scaled, IsPicture, Fields
<1> HIDE DEF small
<1> QED BY <1>4, <1>5, <1>6, FieldsTold DEF IsPicture, small

-----------------------------------------------------------------------------
\* One page, upright too: the page height is gone, or that of the image and stays it.
Level(image) ==
  image.page_height = 0 \/ (image.page_height = image.height /\ ~Turns(image))

\* An image that is turned upright has the sides of the oriented size.
LEMMA UprightSize ==
  ASSUME NEW image, IsPicture(image)
  PROVE  LET upright == autorot(image)
         IN /\ IsPicture(upright)
            /\ oriented_size(image) = <<upright.width, upright.height>>
            /\ upright.width * upright.height = image.width * image.height
            /\ upright.page_height = image.page_height
            /\ ~Turns(image) => upright.height = image.height
<1> DEFINE turned == IF Turns(image) THEN rot(image, "90")
                     ELSE IF Overturned(image) THEN rot(image, "180") ELSE image
           upright == [turned EXCEPT !.orientation = Absent]
<1>1. /\ DOMAIN turned = Fields /\ turned.page_height = image.page_height
      /\ Turns(image) => turned.width = image.height /\ turned.height = image.width
      /\ ~Turns(image) => turned.width = image.width /\ turned.height = image.height
  BY FieldsTold DEF IsPicture, Fields, rot
<1> HIDE DEF turned
<1>2. /\ upright.width = turned.width /\ upright.height = turned.height
      /\ upright.page_height = turned.page_height
  BY <1>1 DEF Fields
<1>3. upright = autorot(image) BY DEF autorot, turned
<1>4. IsPicture(upright) BY <1>3, AutorotKeeps DEF Kept
<1> HIDE DEF upright
<1>5. image.width \in Nat \ {0} /\ image.height \in Nat \ {0} BY DEF IsPicture
<1>6. image.width * image.height = image.height * image.width BY <1>5
<1>7. upright.width * upright.height = image.width * image.height
  BY <1>1, <1>2, <1>6
<1>8. oriented_size(image) = <<upright.width, upright.height>>
  BY <1>1, <1>2 DEF oriented_size
<1> QED BY <1>1, <1>2, <1>3, <1>4, <1>7, <1>8

\* A page that is level is the whole of the upright image.
LEMMA UprightPage ==
  ASSUME NEW image, IsPicture(image), Level(image)
  PROVE  PageHeight(autorot(image)) = autorot(image).height
<1> DEFINE upright == autorot(image)
<1>1. /\ upright.page_height = image.page_height /\ upright.height \in Nat \ {0}
      /\ ~Turns(image) => upright.height = image.height
  BY UprightSize DEF IsPicture
<1> HIDE DEF upright
<1>2. upright.page_height \notin 1..(upright.height - 1) BY <1>1 DEF Level
<1> QED BY <1>2 DEF PageHeight, upright

\* A box in an image: the less of both sides.
LEMMA SideCut ==
  ASSUME NEW a \in Nat \ {0}, NEW b \in Nat \ {0}
  PROVE  Min({a, b}) \in Nat \ {0} /\ Min({a, b}) <= a /\ Min({a, b}) <= b
         /\ (a <= b => Min({a, b}) = a)
<1>1. a \in Int /\ b \in Int OBVIOUS
<1>2. Min({a, b}) \in {a, b} /\ Min({a, b}) <= a /\ Min({a, b}) <= b BY <1>1, MinOfTwo
<1> QED BY <1>2

\* The sides of what is fitted to a box: its pages shrunk, and cut to the box with a crop.
LEMMA FittedSize ==
  ASSUME NEW image, IsPicture(image), NEW box, box[1] \in Nat \ {0}, box[2] \in Nat \ {0},
         NEW opts
  PROVE  LET page == PageHeight(image)
             shrinks == Shrinks(image.width, page, box, opts)
             w == Shrunk(image.width, shrinks[1])
             h == Shrunk(page, shrinks[2]) * (image.height \div page)
             small == FittedPages(image, box, opts)
         IN /\ w \in Nat \ {0} /\ h \in Nat \ {0}
            /\ small.width = IF opts.crop = "none" THEN w ELSE Min({box[1], w})
            /\ small.height = IF opts.crop = "none" THEN h ELSE Min({box[2], h})
<1> DEFINE page == PageHeight(image)
           shrinks == Shrinks(image.width, page, box, opts)
           w == Shrunk(image.width, shrinks[1])
           new == Shrunk(page, shrinks[2])
           loaded == image.height \div page
           small == Scaled(image, page, shrinks)
           cut == crop(small, 0, 0, Min({box[1], small.width}), Min({box[2], small.height}))
<1>1. page \in Nat \ {0} /\ loaded \in Nat \ {0} /\ image.width \in Nat \ {0}
        /\ image.height \in Nat \ {0} /\ page \in 1..image.height
  BY PagesDivide DEF IsPicture
<1>2. image.page_height = 0 => page = image.height BY <1>1 DEF PageHeight
<1> HIDE DEF page
<1>3. shrinks[1] \in Fraction /\ shrinks[2] \in Fraction BY <1>1, ShrinksAreFractions
<1> HIDE DEF shrinks
<1>4. w \in Nat \ {0} /\ new \in Nat \ {0} BY <1>1, <1>3, ShrunkPositive
<1>5. new * loaded \in Nat \ {0} BY <1>1, <1>4
<1>6. IsPicture(small) BY <1>1, <1>2, <1>3, ScaledKeeps DEF Kept
<1>7. small.width = w /\ small.height = new * loaded
  BY FieldsTold DEF IsPicture, Fields, Scaled, w, new, loaded
<1> HIDE DEF w, new, loaded, small
<1> DEFINE cw == Min({box[1], w})
           ch == Min({box[2], new * loaded})
<1>8. cw \in Nat \ {0} /\ ch \in Nat \ {0} /\ cw <= w /\ ch <= new * loaded
  BY <1>4, <1>5, SideCut
<1>9. cut = crop(small, 0, 0, cw, ch) BY <1>7
<1> HIDE DEF cw, ch, cut
<1>10. Inside(small, 0, 0, cw, ch) BY <1>4, <1>5, <1>7, <1>8 DEF Inside
<1>11. cut.width = cw /\ cut.height = ch BY <1>6, <1>8, <1>9, <1>10, CropKeeps
<1>12. FittedPages(image, box, opts) = IF opts.crop = "none" THEN small ELSE cut
  BY DEF FittedPages, Fitted, small, cut, shrinks, page
<1> QED BY <1>4, <1>5, <1>7, <1>11, <1>12 DEF cw, ch, w, new, loaded, shrinks, page

-----------------------------------------------------------------------------
\* The sides of a box that a thumbnail is fitted to.
LEMMA BoxSides ==
  ASSUME NEW width \in Nat \ {0}, NEW opts, opts.height \in Nat
  PROVE  /\ BoxOf(width, opts)[1] = width
         /\ BoxOf(width, opts)[2] = (IF opts.height = Absent THEN width ELSE opts.height)
         /\ BoxOf(width, opts)[2] \in Nat \ {0}
BY DEF BoxOf, Absent

\* A thumbnail is fitted as the upright image.
LEMMA UprightThumbnail ==
  ASSUME NEW image, NEW width, NEW opts, ~opts.no_rotate
  PROVE  thumbnail(image, width, opts)
           = FittedPages(autorot(image), BoxOf(width, opts), opts)
BY DEF thumbnail, BoxOf

\* The sides of the thumbnail of a level image: both shrunk, and cut with a crop.
LEMMA LevelThumbnail ==
  ASSUME NEW image, IsPicture(image), Level(image), NEW width \in Nat \ {0},
         NEW opts, opts.height \in Nat, ~opts.no_rotate
  PROVE  LET W == oriented_size(image)[1]
             H == oriented_size(image)[2]
             box == BoxOf(width, opts)
             shrinks == Shrinks(W, H, box, opts)
             w == Shrunk(W, shrinks[1])
             h == Shrunk(H, shrinks[2])
             small == thumbnail(image, width, opts)
         IN /\ W \in Nat \ {0} /\ H \in Nat \ {0} /\ w \in Nat \ {0} /\ h \in Nat \ {0}
            /\ small.width = IF opts.crop = "none" THEN w ELSE Min({box[1], w})
            /\ small.height = IF opts.crop = "none" THEN h ELSE Min({box[2], h})
<1> DEFINE u == autorot(image)
           W == u.width
           H == u.height
           box == BoxOf(width, opts)
           shrinks == Shrinks(W, H, box, opts)
           small == FittedPages(u, box, opts)
<1>1. IsPicture(u) /\ oriented_size(image) = <<u.width, u.height>> BY UprightSize
<1>2. PageHeight(u) = H BY UprightPage
<1>3. thumbnail(image, width, opts) = small BY UprightThumbnail
<1> HIDE DEF u
<1>4. W \in Nat \ {0} /\ H \in Nat \ {0} BY <1>1 DEF IsPicture
<1>5. H \div H = 1
  <2>1. H * 1 <= H /\ H < H * 1 + H /\ H \in Int BY <1>4
  <2> QED BY <1>4, <2>1, QuotientIs
<1>6. box[1] \in Nat \ {0} /\ box[2] \in Nat \ {0} BY BoxSides
<1> HIDE DEF box
<1>7. /\ shrinks[1] \in Fraction /\ shrinks[2] \in Fraction
  BY <1>4, <1>6, ShrinksAreFractions
<1>8. Shrunk(W, shrinks[1]) \in Nat \ {0} /\ Shrunk(H, shrinks[2]) \in Nat \ {0}
  BY <1>4, <1>7, ShrunkPositive
<1> DEFINE page == PageHeight(u)
           seen == Shrinks(u.width, page, box, opts)
<1>9. /\ small.width = IF opts.crop = "none" THEN Shrunk(u.width, seen[1])
                       ELSE Min({box[1], Shrunk(u.width, seen[1])})
      /\ small.height = IF opts.crop = "none" THEN Shrunk(page, seen[2]) * (u.height \div page)
                        ELSE Min({box[2], Shrunk(page, seen[2]) * (u.height \div page)})
  BY <1>1, <1>6, FittedSize
<1> HIDE DEF small
<1>10. /\ small.width = IF opts.crop = "none" THEN Shrunk(W, shrinks[1])
                        ELSE Min({box[1], Shrunk(W, shrinks[1])})
       /\ small.height = IF opts.crop = "none" THEN Shrunk(H, shrinks[2]) * (H \div H)
                         ELSE Min({box[2], Shrunk(H, shrinks[2]) * (H \div H)})
  BY <1>2, <1>9
<1> HIDE DEF shrinks
<1>11. Shrunk(H, shrinks[2]) * (H \div H) = Shrunk(H, shrinks[2]) BY <1>5, <1>8
<1>12. oriented_size(image)[1] = W /\ oriented_size(image)[2] = H BY <1>1
<1> QED BY <1>3, <1>4, <1>8, <1>10, <1>11, <1>12 DEF box, shrinks

\* A side that is shrunk to one of a box has its length.
LEMMA ShrunkTo ==
  ASSUME NEW side \in Nat \ {0}, NEW target \in Nat \ {0}
  PROVE  Shrunk(side, <<side, target>>) = target
<1>1. <<side, target>> \in Fraction BY DEF Fraction
<1>2. <<side, target>>[1] = side /\ <<side, target>>[2] = target OBVIOUS
<1>3. target <= Shrunk(side, <<side, target>>)
  BY <1>1, <1>2, ShrunkCovers
<1>4. Shrunk(side, <<side, target>>) <= target
  <2>1. side * target <= side * target BY DEF Fraction
  <2> QED BY <1>1, <1>2, <2>1, ShrunkWithin
<1>5. Shrunk(side, <<side, target>>) \in Nat BY <1>1, ShrunkPositive
<1> QED BY <1>3, <1>4, <1>5

\* Forced to the box, it has the size of the box.
LEMMA ForcedSize ==
  ASSUME NEW image, IsPicture(image), Level(image), NEW width \in Nat \ {0},
         NEW opts, opts.height \in Nat, ~opts.no_rotate,
         opts.crop = "none", opts.size = "force"
  PROVE  LET small == thumbnail(image, width, opts)
         IN <<small.width, small.height>> = BoxOf(width, opts)
<1> DEFINE W == oriented_size(image)[1]
           H == oriented_size(image)[2]
           box == BoxOf(width, opts)
<1>1. W \in Nat \ {0} /\ H \in Nat \ {0} BY OrientedSize
<1>2. box[1] = width /\ box[2] \in Nat \ {0} BY BoxSides
<1>3. Shrinks(W, H, box, opts) = <<<<W, box[1]>>, <<H, box[2]>>>> BY DEF Shrinks
<1>4. /\ thumbnail(image, width, opts).width = Shrunk(W, Shrinks(W, H, box, opts)[1])
      /\ thumbnail(image, width, opts).height = Shrunk(H, Shrinks(W, H, box, opts)[2])
  BY LevelThumbnail
<1> HIDE DEF W, H, box
<1>5. Shrunk(W, <<W, box[1]>>) = box[1] /\ Shrunk(H, <<H, box[2]>>) = box[2]
  BY <1>1, <1>2, ShrunkTo
<1>6. box = <<box[1], box[2]>> BY DEF box, BoxOf
<1> QED BY <1>3, <1>4, <1>5, <1>6 DEF box

\* Shrunk until it fits the box, and never enlarged, it has the size that contain_size tells.
LEMMA ContainedSize ==
  ASSUME NEW image, IsPicture(image), Level(image), NEW width \in Nat \ {0},
         NEW opts, opts.height \in Nat, ~opts.no_rotate,
         opts.crop = "none", opts.size = "down"
  PROVE  LET small == thumbnail(image, width, opts)
         IN <<small.width, small.height>>
              = contain_size(oriented_size(image), BoxOf(width, opts))
<1> DEFINE W == oriented_size(image)[1]
           H == oriented_size(image)[2]
           box == BoxOf(width, opts)
           b == LargerOf(LargerOf(<<W, box[1]>>, <<H, box[2]>>), <<1, 1>>)
<1>1. Shrinks(W, H, box, opts) = <<b, b>> BY DEF Shrinks
<1>2. /\ thumbnail(image, width, opts).width = Shrunk(W, Shrinks(W, H, box, opts)[1])
      /\ thumbnail(image, width, opts).height = Shrunk(H, Shrinks(W, H, box, opts)[2])
  BY LevelThumbnail
<1>3. contain_size(oriented_size(image), box) = <<Shrunk(W, b), Shrunk(H, b)>>
  BY DEF contain_size, reduced_side
<1> HIDE DEF W, H, box, b
<1> QED BY <1>1, <1>2, <1>3 DEF box

\* A page that is shrunk until it fits a box of any shape, and never enlarged, fits it.
LEMMA DownWithinBox ==
  ASSUME NEW W \in Nat \ {0}, NEW H \in Nat \ {0}, NEW p \in Nat \ {0}, NEW q \in Nat \ {0},
         NEW b, b = LargerOf(LargerOf(<<W, p>>, <<H, q>>), <<1, 1>>)
  PROVE  Shrunk(W, b) <= p /\ Shrunk(H, b) <= q
<1> DEFINE c == LargerOf(<<W, p>>, <<H, q>>)
<1>1. <<W, p>> \in Fraction /\ <<H, q>> \in Fraction /\ <<1, 1>> \in Fraction BY DEF Fraction
<1>2. c \in Fraction /\ b \in Fraction BY <1>1, FractionsChosen
<1>3. W * c[2] <= c[1] * p /\ H * c[2] <= c[1] * q
  <2>1. <<W, p>>[1] * c[2] <= c[1] * <<W, p>>[2] /\ <<H, q>>[1] * c[2] <= c[1] * <<H, q>>[2]
    BY <1>1, LargerIs
  <2> QED BY <2>1
<1>4. c[1] * b[2] <= b[1] * c[2] BY <1>1, <1>2, LargerIs
<1>5. /\ c[1] \in Nat \ {0} /\ c[2] \in Nat \ {0} /\ b[1] \in Nat \ {0} /\ b[2] \in Nat \ {0}
  BY <1>2, FractionParts
<1> HIDE DEF c
<1>6. W * b[2] <= b[1] * p /\ H * b[2] <= b[1] * q BY <1>3, <1>4, <1>5, FractionsChain
<1> QED BY <1>2, <1>6, ShrunkWithin

\* It fits the box.
LEMMA ContainWithin ==
  ASSUME NEW image, IsPicture(image), Level(image), NEW width \in Nat \ {0},
         NEW opts, opts.height \in Nat, ~opts.no_rotate,
         opts.crop = "none", opts.size = "down"
  PROVE  LET small == thumbnail(image, width, opts)
         IN small.width <= width /\ small.height <= BoxOf(width, opts)[2]
<1> DEFINE W == oriented_size(image)[1]
           H == oriented_size(image)[2]
           box == BoxOf(width, opts)
           b == LargerOf(LargerOf(<<W, box[1]>>, <<H, box[2]>>), <<1, 1>>)
           size == contain_size(oriented_size(image), box)
           small == thumbnail(image, width, opts)
<1>1. W \in Nat \ {0} /\ H \in Nat \ {0} BY OrientedSize
<1>2. box[1] = width /\ box[2] \in Nat \ {0} BY BoxSides
<1>3. size = <<Shrunk(W, b), Shrunk(H, b)>> BY DEF contain_size, reduced_side
<1>4. <<small.width, small.height>> = size BY ContainedSize
<1> HIDE DEF W, H, box, size, small
<1>5. Shrunk(W, b) <= box[1] /\ Shrunk(H, b) <= box[2] BY <1>1, <1>2, DownWithinBox
<1> QED BY <1>2, <1>3, <1>4, <1>5 DEF box, small

\* With a crop, what comes out is within the box, level or not.
LEMMA CropWithin ==
  ASSUME NEW image, IsPicture(image), NEW width \in Nat \ {0},
         NEW opts, opts.height \in Nat, ~opts.no_rotate, opts.crop # "none"
  PROVE  LET small == thumbnail(image, width, opts)
         IN small.width <= width /\ small.height <= BoxOf(width, opts)[2]
<1> DEFINE u == autorot(image)
           box == BoxOf(width, opts)
           page == PageHeight(u)
           shrinks == Shrinks(u.width, page, box, opts)
           w == Shrunk(u.width, shrinks[1])
           h == Shrunk(page, shrinks[2]) * (u.height \div page)
           small == FittedPages(u, box, opts)
<1>1. box[1] = width /\ box[2] \in Nat \ {0} BY BoxSides
<1>2. IsPicture(u) BY UprightSize
<1>3. thumbnail(image, width, opts) = small BY UprightThumbnail
<1> HIDE DEF u, box
<1>4. /\ w \in Nat \ {0} /\ h \in Nat \ {0}
      /\ small.width = Min({box[1], w}) /\ small.height = Min({box[2], h})
  BY <1>1, <1>2, FittedSize
<1> HIDE DEF w, h, small
<1>5. small.width <= box[1] /\ small.height <= box[2] BY <1>1, <1>4, SideCut
<1> QED BY <1>1, <1>3, <1>5 DEF box

\* The smaller of two fractions is not above any of them.
LEMMA SmallerIs ==
  ASSUME NEW p \in Fraction, NEW q \in Fraction
  PROVE  LET r == SmallerOf(p, q)
         IN r[1] * p[2] <= p[1] * r[2] /\ r[1] * q[2] <= q[1] * r[2]
<1>1. p[1] \in Nat \ {0} /\ p[2] \in Nat \ {0} /\ q[1] \in Nat \ {0} /\ q[2] \in Nat \ {0}
  BY FractionParts
<1>2. /\ p[1] * q[2] \in Int /\ q[1] * p[2] \in Int
      /\ p[1] * p[2] \in Int /\ q[1] * q[2] \in Int
  BY <1>1
<1>3. CASE Less(p, q)
  <2>1. SmallerOf(p, q) = p BY <1>3 DEF SmallerOf
  <2>2. p[1] * q[2] < q[1] * p[2] BY <1>3 DEF Less
  <2> QED BY <1>2, <2>1, <2>2
<1>4. CASE ~Less(p, q)
  <2>1. SmallerOf(p, q) = q BY <1>4 DEF SmallerOf
  <2>2. q[1] * p[2] <= p[1] * q[2] BY <1>2, <1>4 DEF Less
  <2> QED BY <1>2, <2>1, <2>2
<1> QED BY <1>3, <1>4

\* Enlarged or shrunk until it covers the box, and cut to it, it has the size of the box.
LEMMA CoverExact ==
  ASSUME NEW image, IsPicture(image), Level(image), NEW width \in Nat \ {0},
         NEW opts, opts.height \in Nat, ~opts.no_rotate,
         opts.crop # "none", opts.size = "both"
  PROVE  LET small == thumbnail(image, width, opts)
         IN <<small.width, small.height>> = BoxOf(width, opts)
<1> DEFINE W == oriented_size(image)[1]
           H == oriented_size(image)[2]
           box == BoxOf(width, opts)
           c == SmallerOf(<<W, box[1]>>, <<H, box[2]>>)
           small == thumbnail(image, width, opts)
<1>1. W \in Nat \ {0} /\ H \in Nat \ {0} BY OrientedSize
<1>2. box[1] = width /\ box[2] \in Nat \ {0} BY BoxSides
<1>3. Shrinks(W, H, box, opts) = <<c, c>> BY DEF Shrinks
<1>4. /\ small.width = Min({box[1], Shrunk(W, Shrinks(W, H, box, opts)[1])})
      /\ small.height = Min({box[2], Shrunk(H, Shrinks(W, H, box, opts)[2])})
  BY LevelThumbnail
<1> HIDE DEF W, H, box, small
<1>5. <<W, box[1]>> \in Fraction /\ <<H, box[2]>> \in Fraction BY <1>1, <1>2 DEF Fraction
<1>6. c \in Fraction BY <1>5, FractionsChosen
<1>7. c[1] * box[1] <= W * c[2] /\ c[1] * box[2] <= H * c[2]
  <2>1. /\ c[1] * <<W, box[1]>>[2] <= <<W, box[1]>>[1] * c[2]
        /\ c[1] * <<H, box[2]>>[2] <= <<H, box[2]>>[1] * c[2]
    BY <1>5, SmallerIs
  <2> QED BY <2>1
<1>8. small.width = Min({box[1], Shrunk(W, c)}) /\ small.height = Min({box[2], Shrunk(H, c)})
  BY <1>3, <1>4
<1> HIDE DEF c
<1>9. /\ Shrunk(W, c) \in Nat \ {0} /\ Shrunk(H, c) \in Nat \ {0}
      /\ box[1] <= Shrunk(W, c) /\ box[2] <= Shrunk(H, c)
  BY <1>1, <1>2, <1>6, <1>7, ShrunkPositive, ShrunkCovers
<1>10. Min({box[1], Shrunk(W, c)}) = box[1] /\ Min({box[2], Shrunk(H, c)}) = box[2]
  BY <1>2, <1>9, SideCut
<1>11. box = <<box[1], box[2]>> BY DEF box, BoxOf
<1> QED BY <1>8, <1>10, <1>11 DEF box, small

\* An area with sides no longer than those of another one is no larger.
LEMMA AreasOrdered ==
  ASSUME NEW a \in Nat, NEW b \in Nat, NEW c \in Nat, NEW d \in Nat, a <= c, b <= d
  PROVE  a * b <= c * d
<1>1. a * b <= c * b BY ProductsOrdered
<1>2. b * c <= d * c BY ProductsOrdered
<1>3. /\ a * b \in Int /\ c * b \in Int /\ c * d \in Int /\ b * c = c * b /\ d * c = c * d
  OBVIOUS
<1> QED BY <1>1, <1>2, <1>3

\* A thumbnail that is never enlarged has no more pixels than the image, whatever its pages.
LEMMA DownSmaller ==
  ASSUME NEW image, IsPicture(image), NEW width \in Nat \ {0},
         NEW opts, opts.height \in Nat, ~opts.no_rotate, opts.size = "down"
  PROVE  LET small == thumbnail(image, width, opts)
         IN small.width * small.height <= image.width * image.height
<1> DEFINE u == autorot(image)
           box == BoxOf(width, opts)
           page == PageHeight(u)
           both == IF opts.crop = "none" THEN LargerOf(<<u.width, box[1]>>, <<page, box[2]>>)
                   ELSE SmallerOf(<<u.width, box[1]>>, <<page, box[2]>>)
           b == LargerOf(both, <<1, 1>>)
           shrinks == Shrinks(u.width, page, box, opts)
           loaded == u.height \div page
           w == Shrunk(u.width, shrinks[1])
           h == Shrunk(page, shrinks[2]) * loaded
           small == FittedPages(u, box, opts)
<1>1. box[1] \in Nat \ {0} /\ box[2] \in Nat \ {0} BY BoxSides
<1>2. IsPicture(u) /\ u.width * u.height = image.width * image.height BY UprightSize
<1>3. thumbnail(image, width, opts) = small BY UprightThumbnail
<1> HIDE DEF u, box
<1>4. /\ w \in Nat \ {0} /\ h \in Nat \ {0}
      /\ small.width = IF opts.crop = "none" THEN w ELSE Min({box[1], w})
      /\ small.height = IF opts.crop = "none" THEN h ELSE Min({box[2], h})
  BY <1>1, <1>2, FittedSize
<1>5. shrinks = <<b, b>> BY DEF Shrinks
<1>6. /\ u.width \in Nat \ {0} /\ u.height \in Nat \ {0}
      /\ page \in Nat \ {0} /\ loaded \in Nat \ {0}
  BY <1>2, PagesDivide DEF IsPicture
<1>7. page * loaded <= u.height
  <2> HIDE DEF page
  <2> QED BY <1>6, Quotient
<1> HIDE DEF page, loaded
<1>8. both \in Fraction /\ <<1, 1>> \in Fraction /\ b \in Fraction
  <2>1. <<u.width, box[1]>> \in Fraction /\ <<page, box[2]>> \in Fraction /\ <<1, 1>> \in Fraction
    BY <1>1, <1>6 DEF Fraction
  <2> QED BY <2>1, FractionsChosen
<1> HIDE DEF both
<1>9. b[1] \in Nat \ {0} /\ b[2] \in Nat \ {0} /\ b[2] <= b[1]
  <2>1. <<1, 1>>[1] * b[2] <= b[1] * <<1, 1>>[2] BY <1>8, LargerIs
  <2>2. b[1] \in Nat \ {0} /\ b[2] \in Nat \ {0} BY <1>8, FractionParts
  <2> HIDE DEF b
  <2> QED BY <2>1, <2>2
<1> HIDE DEF b
<1>10. u.width * b[2] <= b[1] * u.width /\ page * b[2] <= b[1] * page
  <2>1. b[2] * u.width <= b[1] * u.width /\ b[2] * page <= b[1] * page
    BY <1>6, <1>9, ProductsOrdered
  <2>2. b[2] * u.width = u.width * b[2] /\ b[2] * page = page * b[2] BY <1>6, <1>9
  <2> QED BY <2>1, <2>2
<1>11. /\ Shrunk(u.width, b) <= u.width /\ Shrunk(page, b) <= page
       /\ Shrunk(page, b) \in Nat \ {0}
  BY <1>6, <1>8, <1>10, ShrunkWithin, ShrunkPositive
<1>12. w <= u.width /\ Shrunk(page, shrinks[2]) = Shrunk(page, b) BY <1>5, <1>11
<1>13. h <= u.height
  <2>1. Shrunk(page, b) * loaded <= page * loaded BY <1>6, <1>11, ProductsOrdered
  <2>2. Shrunk(page, b) * loaded \in Int /\ page * loaded \in Int BY <1>6, <1>11
  <2> QED BY <1>6, <1>7, <1>12, <2>1, <2>2
<1> HIDE DEF w, h, shrinks, small
<1>14. /\ small.width \in Nat /\ small.width <= u.width
       /\ small.height \in Nat /\ small.height <= u.height
  <2>1. Min({box[1], w}) \in Nat /\ Min({box[1], w}) <= w
        /\ Min({box[2], h}) \in Nat /\ Min({box[2], h}) <= h
    BY <1>1, <1>4, SideCut
  <2> QED BY <1>4, <1>6, <1>12, <1>13, <2>1
<1>15. small.width * small.height <= u.width * u.height BY <1>6, <1>14, AreasOrdered
<1> QED BY <1>2, <1>3, <1>15

-----------------------------------------------------------------------------
\* The image of a source that was not turned upright: with no page height, it is level.
LEMMA SourceLevel ==
  ASSUME NEW source \in Readable
  PROVE  IsPicture(from_buffer(source, FALSE)) /\ Level(from_buffer(source, FALSE))
BY Decoded DEF Level

\* A resize has the size of the thumbnail of the image at hand, whether it shrinks that
\* image or decodes its source once more: where the reduced decode may be a pixel off,
\* the size of the full one is told, and forced if need be.
LEMMA ResizedAs ==
  ASSUME NEW image, IsPicture(image), NEW source,
         source # None => source \in Readable /\ image = from_buffer(source, FALSE),
         NEW oriented \in {None, oriented_size(image)},
         NEW width \in Nat \ {0}, NEW opts, opts.height \in Nat, ~opts.no_rotate,
         DOMAIN opts = DOMAIN ThumbnailOptions,
         (opts.size = "down" /\ opts.crop = "none") => oriented # None /\ opts.height # Absent,
         NEW o \in resize(image, source, oriented, width, opts)
  PROVE  SameSize(o.image, thumbnail(image, width, opts))
<1> DEFINE full == thumbnail(image, width, opts)
           exact == IF oriented = None THEN None ELSE full_decode_size(oriented, width, opts)
           forced == [opts EXCEPT !.height = exact[2], !.size = "force"]
           Corrected(small) ==
             IF exact = None \/ <<small.width, small.height>> = exact THEN {small}
             ELSE thumbnail_buffer(source, exact[1], forced)
<1>1. CASE source = None
  <2>1. o = Outcome(full, FALSE) BY <1>1 DEF resize
  <2> HIDE DEF full
  <2>2. o.image = full BY <2>1, OutcomeParts
  <2> QED BY <2>2 DEF SameSize, full
<1>2. CASE source # None
  <2>1. source \in Readable /\ image = from_buffer(source, FALSE) BY <1>2
  <2>2. Level(image) BY <2>1, SourceLevel
  <2>3. PICK small \in thumbnail_buffer(source, width, opts) :
          \E corrected \in Corrected(small) : o = Outcome(corrected, TRUE)
    BY <1>2 DEF resize
  <2>4. PICK corrected \in Corrected(small) : o = Outcome(corrected, TRUE) BY <2>3
  <2>5. o.image = corrected BY <2>4, OutcomeParts
  <2>6. CASE opts.size = "down" /\ opts.crop = "none"
    <3>1. oriented = oriented_size(image) /\ oriented # None /\ opts.height \in Nat \ {0}
      BY <2>6 DEF Absent
    <3>2. exact = contain_size(oriented, <<width, opts.height>>)
      BY <2>6, <3>1 DEF full_decode_size, Absent
    <3>3. BoxOf(width, opts) = <<width, opts.height>> BY <3>1 DEF BoxOf, Absent
    <3>4. <<full.width, full.height>> = exact
      BY <2>2, <2>6, <3>1, <3>2, <3>3, ContainedSize
    <3>5. exact[1] \in Nat \ {0} /\ exact[2] \in Nat \ {0}
      <4>1. oriented[1] \in Nat \ {0} /\ oriented[2] \in Nat \ {0} BY <3>1, OrientedSize
      <4> QED BY <3>1, <3>2, <4>1, ContainPositive
    <3>6. \/ corrected = small /\ (exact = None \/ <<small.width, small.height>> = exact)
          \/ corrected \in thumbnail_buffer(source, exact[1], forced)
      BY <2>4
    <3>7. exact # None
      <4>1. exact = <<exact[1], exact[2]>> BY <3>2 DEF contain_size
      <4> HIDE DEF exact
      <4> QED BY <3>5, <4>1, SizeAssumption
    <3>8. CASE corrected = small /\ <<small.width, small.height>> = exact
      <4> HIDE DEF exact, full
      <4>1. full.width = small.width /\ full.height = small.height BY <3>4, <3>8
      <4> QED BY <2>5, <3>8, <4>1 DEF SameSize, full
    <3>9. CASE corrected \in thumbnail_buffer(source, exact[1], forced)
      <4>1. /\ forced.height = exact[2] /\ forced.crop = "none" /\ forced.size = "force"
            /\ ~forced.no_rotate
        BY <2>6 DEF ThumbnailOptions
      <4> HIDE DEF exact, forced
      <4>2. corrected = thumbnail(image, exact[1], forced)
        BY <2>1, <3>9, <4>1 DEF Readable, thumbnail_buffer
      <4> HIDE DEF full
      <4>3. BoxOf(exact[1], forced) = <<exact[1], exact[2]>>
        BY <3>5, <4>1 DEF BoxOf, Absent
      <4>4. forced.height \in Nat BY <3>5, <4>1
      <4>5. <<corrected.width, corrected.height>> = <<exact[1], exact[2]>>
        BY <2>2, <3>5, <4>1, <4>2, <4>3, <4>4, ForcedSize
      <4>6. full.width = exact[1] /\ full.height = exact[2] BY <3>4
      <4> QED BY <2>5, <4>5, <4>6 DEF SameSize, full
    <3> HIDE DEF exact, forced
    <3> QED BY <3>6, <3>7, <3>8, <3>9
  <2>7. CASE ~(opts.size = "down" /\ opts.crop = "none")
    <3>1. thumbnail_buffer(source, width, opts) = {full}
      BY <2>1, <2>7 DEF Readable, thumbnail_buffer
    <3>2. exact = None BY <2>7 DEF full_decode_size
    <3>3. corrected = small BY <2>4, <3>2
    <3> HIDE DEF full, exact
    <3> QED BY <2>3, <2>5, <3>1, <3>3 DEF SameSize, full
  <2> QED BY <2>6, <2>7
<1> QED BY <1>1, <1>2

-----------------------------------------------------------------------------
\* The fits that an option may ask for.
FitModes == {"contain", "cover", "fill", "inside", "outside", "pad", "crop", "aspect-crop"}

\* Those that never enlarge.
Shrinking == {"contain", "inside", "crop", "aspect-crop"}

\* What a resize keeps to: the sides that are given, and both of them where the fit
\* fills the box.
Bounded(params, out) ==
  LET w == effective_width(params)
      h == effective_height(params)
  IN /\ (params.fit # "outside" /\ w # None) => out.width <= w
     /\ (params.fit # "outside" /\ h # None) => out.height <= h
     /\ (w # None /\ h # None /\ params.fit \in {"cover", "fill"}) =>
          out.width = w /\ out.height = h

\* The area of the image, where the fit never enlarges.
NoLarger(params, image, out) ==
  params.fit \in Shrinking => out.width * out.height <= image.width * image.height

\* The options that a fit stands for.
LEMMA OptionsOf ==
  ASSUME NEW fit \in FitModes \ {"pad"}, NEW gravity, NEW height \in BoxSide \cup {None}
  PROVE  LET opts == build_thumbnail_options(fit, gravity, height)
         IN /\ ~opts.no_rotate /\ opts.height = (IF height = None THEN Absent ELSE height)
            /\ opts.crop = "none" <=> fit \notin {"cover", "crop", "aspect-crop"}
            /\ opts.size = (IF fit \in Shrinking THEN "down" ELSE IF fit = "fill" THEN "force"
                            ELSE IF fit = "outside" THEN "up" ELSE "both")
<1>1. map_gravity_to_crop(gravity) # "none" BY DEF map_gravity_to_crop
<1> QED BY <1>1 DEF build_thumbnail_options, ThumbnailOptions, FitModes, Shrinking

\* The sides of the box that a thumbnail is fitted to: those given, and one that follows.
BoxOfSides(params, width, height) ==
  /\ width \in BoxSide /\ height \in BoxSide \cup {None}
  /\ effective_width(params) # None => width = effective_width(params)
  /\ effective_height(params) # None => height = effective_height(params)
  /\ params.fit \notin {"cover", "fill", "crop", "aspect-crop"} => height # None

\* The thumbnail that a fit makes of an image in such a box.
Thumbnail(params, image, width, height) ==
  thumbnail(image, width, build_thumbnail_options(effective_fit(params), params.gravity, height))

\* It is bounded by the box if the image is level.
LEMMA ThumbnailBounded ==
  ASSUME NEW image, IsPicture(image), Level(image), NEW params, params.fit \in FitModes,
         NEW width, NEW height, BoxOfSides(params, width, height)
  PROVE  Bounded(params, Thumbnail(params, image, width, height))
<1> DEFINE fit == effective_fit(params)
           opts == build_thumbnail_options(fit, params.gravity, height)
           small == thumbnail(image, width, opts)
           box == BoxOf(width, opts)
           w == effective_width(params)
           h == effective_height(params)
<1>1. fit \in FitModes \ {"pad"} /\ (fit # params.fit => params.fit = "pad" /\ fit = "contain")
  BY DEF effective_fit, FitModes
<1>2. /\ width \in Nat \ {0} /\ height \in BoxSide \cup {None}
      /\ w # None => width = w
      /\ h # None => height = h
  BY DEF BoxOfSides, BoxSide
<1>3. fit \notin {"cover", "fill", "crop", "aspect-crop"} => height # None
  BY <1>1 DEF BoxOfSides
<1> HIDE DEF fit, w, h
<1>4. /\ ~opts.no_rotate /\ opts.height = (IF height = None THEN Absent ELSE height)
      /\ opts.crop = "none" <=> fit \notin {"cover", "crop", "aspect-crop"}
      /\ opts.size = (IF fit \in Shrinking THEN "down" ELSE IF fit = "fill" THEN "force"
                      ELSE IF fit = "outside" THEN "up" ELSE "both")
  BY <1>1, <1>2, OptionsOf
<1> HIDE DEF opts
<1>5. opts.height \in Nat BY <1>2, <1>4 DEF Absent, BoxSide
<1>6. box = <<width, IF height = None THEN width ELSE height>>
  <2>1. height # None => height # 0 BY <1>2 DEF BoxSide
  <2> QED BY <1>4, <2>1 DEF BoxOf, Absent
<1>7. box[1] = width /\ (height # None => box[2] = height) BY <1>6
<1> HIDE DEF small, box
<1>8. (fit \in {"contain", "inside"} \/ fit \in {"cover", "crop", "aspect-crop"})
        => small.width <= width /\ small.height <= box[2]
  <2>1. CASE fit \in {"contain", "inside"}
    <3>1. opts.crop = "none" /\ opts.size = "down" BY <1>4, <2>1 DEF Shrinking
    <3> QED BY <1>2, <1>4, <1>5, <3>1, ContainWithin DEF small, box
  <2>2. CASE fit \in {"cover", "crop", "aspect-crop"}
    <3>1. opts.crop # "none" BY <1>4, <2>2
    <3> QED BY <1>2, <1>4, <1>5, <3>1, CropWithin DEF small, box
  <2> QED BY <2>1, <2>2
<1>9. fit \in {"cover", "fill"} => <<small.width, small.height>> = box
  <2>1. CASE fit = "cover"
    <3>1. opts.crop # "none" /\ opts.size = "both" BY <1>4, <2>1 DEF Shrinking
    <3> QED BY <1>2, <1>4, <1>5, <3>1, CoverExact DEF small, box
  <2>2. CASE fit = "fill"
    <3>1. opts.crop = "none" /\ opts.size = "force" BY <1>4, <2>2 DEF Shrinking
    <3> QED BY <1>2, <1>4, <1>5, <3>1, ForcedSize DEF small, box
  <2> QED BY <2>1, <2>2
<1>10. fit \in {"cover", "fill"} =>
         small.width = width /\ (height # None => small.height = height)
  <2> SUFFICES ASSUME fit \in {"cover", "fill"}
               PROVE  small.width = width /\ (height # None => small.height = height)
    OBVIOUS
  <2>1. small.width = box[1] /\ small.height = box[2] BY <1>6, <1>9
  <2> QED BY <1>7, <2>1
<1>11. fit # "outside" =>
         small.width <= width /\ (height # None => small.height <= height)
  <2>1. CASE fit = "fill"
    <3>1. width <= width /\ (height # None => height <= height) BY <1>2 DEF BoxSide
    <3> QED BY <1>10, <2>1, <3>1
  <2>2. CASE fit \in {"contain", "inside", "cover", "crop", "aspect-crop"}
    BY <1>7, <1>8, <2>2
  <2> QED BY <1>1, <2>1, <2>2 DEF FitModes
<1>12. /\ (params.fit # "outside" /\ w # None) => small.width <= w
       /\ (params.fit # "outside" /\ h # None) => small.height <= h
       /\ (w # None /\ h # None /\ params.fit \in {"cover", "fill"}) =>
            small.width = w /\ small.height = h
  BY <1>1, <1>2, <1>10, <1>11
<1> QED BY <1>12 DEF Bounded, Thumbnail, small, opts, fit, w, h

\* It is no larger than the image where the fit never enlarges.
LEMMA ThumbnailNoLarger ==
  ASSUME NEW image, IsPicture(image), NEW params, params.fit \in FitModes,
         NEW width, NEW height, BoxOfSides(params, width, height)
  PROVE  NoLarger(params, image, Thumbnail(params, image, width, height))
<1> SUFFICES ASSUME params.fit \in Shrinking
             PROVE  LET small == Thumbnail(params, image, width, height)
                    IN small.width * small.height <= image.width * image.height
  BY DEF NoLarger
<1> DEFINE opts == build_thumbnail_options(params.fit, params.gravity, height)
<1>1. effective_fit(params) = params.fit /\ params.fit \in FitModes \ {"pad"}
  BY DEF effective_fit, Shrinking, FitModes
<1>2. width \in Nat \ {0} /\ height \in BoxSide \cup {None} BY DEF BoxOfSides, BoxSide
<1>3. /\ ~opts.no_rotate /\ opts.size = "down"
      /\ opts.height = (IF height = None THEN Absent ELSE height)
  BY <1>1, <1>2, OptionsOf
<1>4. Thumbnail(params, image, width, height) = thumbnail(image, width, opts)
  BY <1>1 DEF Thumbnail
<1> HIDE DEF opts
<1>5. opts.height \in Nat BY <1>2, <1>3 DEF Absent, BoxSide
<1>6. LET small == thumbnail(image, width, opts)
      IN small.width * small.height <= image.width * image.height
  BY <1>2, <1>3, <1>5, DownSmaller
<1> QED BY <1>4, <1>6

-----------------------------------------------------------------------------
\* What a still is resized to: like the thumbnail of the image at hand in some box of the
\* sides that are given, and the full decode would make that thumbnail.
LEMMA PlainAs ==
  ASSUME NEW image, IsPicture(image), NEW source,
         source # None => source \in Readable /\ image = from_buffer(source, FALSE),
         NEW params, params.fit \in FitModes,
         effective_width(params) \in BoxSide \cup {None},
         effective_height(params) \in BoxSide \cup {None},
         effective_width(params) # None \/ effective_height(params) # None,
         NEW pages, NEW o \in PlainResize(image, source, params, FALSE, pages)
  PROVE  \E width, height :
           /\ BoxOfSides(params, width, height)
           /\ SameSize(o.image, Thumbnail(params, image, width, height))
           /\ Outcome(Thumbnail(params, image, width, height), FALSE)
                \in PlainResize(image, None, params, FALSE, pages)
<1> DEFINE fit == effective_fit(params)
           oriented == oriented_size(image)
           w == effective_width(params)
           h == effective_height(params)
           Options(height) == build_thumbnail_options(fit, params.gravity, height)
           Into(from, width) ==
             UNION {resize(image, from, oriented, width, Options(height)) :
                      height \in derived_height(fit, h, width, oriented)}
           Outcomes(from) == UNION {Into(from, width) : width \in thumb_width(w, h, oriented)}
<1>1. \A from : PlainResize(image, from, params, FALSE, pages) = Outcomes(from)
  BY DEF PlainResize
<1>2. fit \in FitModes \ {"pad"}
        /\ (fit \notin {"cover", "fill", "crop", "aspect-crop"}
              <=> params.fit \notin {"cover", "fill", "crop", "aspect-crop"})
  BY DEF effective_fit, FitModes
<1>3. oriented[1] \in Nat \ {0} /\ oriented[2] \in Nat \ {0} BY OrientedSize
<1>4. oriented # None
  <2>1. oriented = <<oriented[1], oriented[2]>> BY DEF oriented_size
  <2> HIDE DEF oriented
  <2> QED BY <1>3, <2>1, SizeAssumption
<1>5. oriented \in {None, oriented_size(image)} OBVIOUS
<1> HIDE DEF oriented, fit
<1>6. PICK width \in thumb_width(w, h, oriented) : o \in Into(source, width)
  <2>1. o \in Outcomes(source) BY <1>1
  <2> HIDE DEF Into, w, h
  <2> QED BY <2>1
<1>7. PICK height \in derived_height(fit, h, width, oriented) :
        o \in resize(image, source, oriented, width, Options(height))
  BY <1>6
<1>8. width \in BoxSide /\ width \in Nat \ {0} BY <1>3, BoxWidths DEF BoxSide
<1>9. height \in BoxSide \cup {None} BY <1>3, <1>8, BoxHeights
<1>10. w # None => width = w BY DEF thumb_width
<1>11. /\ h # None => height = h
       /\ fit \notin {"cover", "fill", "crop", "aspect-crop"} => height # None
  <2>1. \A n : AtLeast1(Least(n, 8192)) \in Int => AtLeast1(Least(n, 8192)) # None
    BY NumberAssumption
  <2>2. width * oriented[2] \in Int BY <1>3, <1>8
  <2>3. Nearest(width * oriented[2], oriented[1]) \subseteq Int BY <1>3, <2>2, QuotientsWhole
  <2>4. \A n \in Int : AtLeast1(Least(n, 8192)) \in BoxSide BY SideBounded
  <2>5. \A n \in Nearest(width * oriented[2], oriented[1]) : AtLeast1(Least(n, 8192)) # None
    BY <2>1, <2>3, <2>4 DEF BoxSide
  <2> QED BY <2>5 DEF derived_height
<1>12. BoxOfSides(params, width, height) BY <1>2, <1>8, <1>9, <1>10, <1>11 DEF BoxOfSides
<1> DEFINE opts == Options(height)
           full == thumbnail(image, width, opts)
<1>13. DOMAIN opts = DOMAIN ThumbnailOptions /\ opts.height \in Nat BY <1>9, OptionsBuilt
<1>14. /\ ~opts.no_rotate /\ opts.height = (IF height = None THEN Absent ELSE height)
       /\ opts.crop = "none" <=> fit \notin {"cover", "crop", "aspect-crop"}
       /\ opts.size = (IF fit \in Shrinking THEN "down" ELSE IF fit = "fill" THEN "force"
                       ELSE IF fit = "outside" THEN "up" ELSE "both")
  BY <1>2, <1>9, OptionsOf
<1>15. o \in resize(image, source, oriented, width, opts) BY <1>7
<1>16. Outcome(full, FALSE) \in resize(image, None, oriented, width, opts) BY DEF resize
<1> HIDE DEF opts
<1>17. (opts.size = "down" /\ opts.crop = "none") => oriented # None /\ opts.height # Absent
  <2> SUFFICES ASSUME opts.size = "down", opts.crop = "none" PROVE opts.height # Absent
    BY <1>4
  <2>1. fit \in Shrinking BY <1>14
  <2>2. fit \in {"contain", "inside"} BY <1>14, <2>1 DEF Shrinking
  <2>3. height \in BoxSide BY <1>9, <1>11, <2>2
  <2>4. height \in Nat \ {0} /\ height # None BY <2>3, NumberAssumption DEF BoxSide
  <2> QED BY <1>14, <2>4 DEF Absent
<1>18. SameSize(o.image, full)
  <2>1. oriented \in {None, oriented_size(image)} BY <1>5 DEF oriented
  <2> HIDE DEF full
  <2> QED BY <1>8, <1>13, <1>14, <1>15, <1>17, <2>1, ResizedAs DEF full
<1>19. full = Thumbnail(params, image, width, height) BY DEF Thumbnail, opts, fit
<1>20. Outcome(full, FALSE) \in PlainResize(image, None, params, FALSE, pages)
  <2> HIDE DEF full
  <2>1. Outcome(full, FALSE) \in Into(None, width) BY <1>16 DEF opts
  <2>2. Outcome(full, FALSE) \in Outcomes(None)
    <3>1. width \in thumb_width(w, h, oriented) BY <1>6
    <3> HIDE DEF Into, w, h
    <3> QED BY <2>1, <3>1
  <2> QED BY <1>1, <2>2
<1> HIDE DEF full
<1> QED BY <1>12, <1>18, <1>19, <1>20

\* Rounded either way, a quotient is not above a whole number that the fraction is not above.
LEMMA NearestAtMost ==
  ASSUME NEW n \in Nat, NEW d \in Nat \ {0}, NEW t \in Int, n <= t * d, NEW q \in Nearest(n, d)
  PROVE  q \in Int /\ q <= t
<1>1. Rint(n, d) <= t BY RintAtMost
<1>2. q \in Int BY QuotientsWhole
<1>3. Rint(n, d) \in Int
  <2>1. 2 * d \in Nat \ {0} /\ 2 * n + d \in Int OBVIOUS
  <2> QED BY <2>1, Quotient DEF Rint
<1> QED BY <1>1, <1>2, <1>3 DEF Nearest

\* The part of an image with the ratio of a box that it does not cover: within the image
\* and within the box.
LEMMA DirectCropSize ==
  ASSUME NEW image, IsPicture(image), NEW tw \in BoxSide, NEW th \in BoxSide,
         tw > oriented_size(image)[1] \/ th > oriented_size(image)[2],
         NEW cut \in DirectCrop(image, tw, th)
  PROVE  /\ cut.width <= tw /\ cut.height <= th
         /\ cut.width * cut.height <= image.width * image.height
<1> DEFINE upright == autorot(image)
           w == upright.width
           h == upright.height
           Cut(cw, ch) == crop(upright, (w - cw) \div 2, (h - ch) \div 2, cw, ch)
<1>1. /\ IsPicture(upright) /\ oriented_size(image) = <<upright.width, upright.height>>
      /\ upright.width * upright.height = image.width * image.height
  BY UprightSize
<1>2. tw > w \/ th > h BY <1>1
<1>3. \/ /\ w * th > tw * h
         /\ \E n \in Nearest(h * tw, th) : cut = Cut(AtLeast1(Least(n, w)), h)
      \/ /\ ~(w * th > tw * h)
         /\ \E n \in Nearest(w * th, tw) : cut = Cut(w, AtLeast1(Least(n, h)))
  BY DEF DirectCrop
<1> HIDE DEF upright
<1>4. /\ w \in Nat \ {0} /\ h \in Nat \ {0} /\ tw \in Nat \ {0} /\ th \in Nat \ {0}
  BY <1>1 DEF IsPicture, BoxSide
<1> HIDE DEF w, h
<1>5. /\ h * tw \in Nat /\ w * th \in Nat /\ tw * h = h * tw
      /\ h * tw \in Int /\ w * th \in Int /\ w * h \in Int /\ tw * th \in Int
      /\ h * w = w * h /\ th * tw = tw * th /\ th * w = w * th
  BY <1>4
<1>6. ASSUME w * th > tw * h PROVE h <= th
  <2> SUFFICES ASSUME h > th PROVE FALSE BY <1>4
  <2>1. tw > w BY <1>2, <1>4
  <2>2. w * h <= tw * h /\ th * w <= h * w BY <1>4, <2>1, ProductsOrdered
  <2> QED BY <1>5, <1>6, <2>2
<1>7. ASSUME ~(w * th > tw * h) PROVE w <= tw
  <2> SUFFICES ASSUME w > tw PROVE FALSE BY <1>4
  <2>1. th > h BY <1>2, <1>4
  <2>2. tw * h + h <= w * h
    <3>1. h * tw + h <= h * w BY <1>4, LessProduct
    <3> QED BY <1>5, <3>1
  <2>3. h * w <= th * w BY <1>4, <2>1, ProductsOrdered
  <2> QED BY <1>4, <1>5, <1>7, <2>2, <2>3
<1>8. \E cw \in 1..w, ch \in 1..h : cut = Cut(cw, ch) /\ cw <= tw /\ ch <= th
  <2>1. CASE w * th > tw * h
    <3>1. PICK n \in Nearest(h * tw, th) : cut = Cut(AtLeast1(Least(n, w)), h)
      BY <1>3, <2>1
    <3>2. h * tw <= tw * th
      <4>1. h <= th BY <1>6, <2>1
      <4>2. h * tw <= th * tw BY <1>4, <4>1, ProductsOrdered
      <4> QED BY <1>5, <4>2
    <3>3. n \in Int /\ n <= tw BY <1>4, <1>5, <3>2, NearestAtMost
    <3>4. AtLeast1(Least(n, w)) \in 1..w /\ AtLeast1(Least(n, w)) <= tw
      BY <1>4, <3>3 DEF AtLeast1, Least
    <3>5. h \in 1..h /\ h <= th BY <1>4, <1>6, <2>1
    <3> HIDE DEF Cut
    <3> QED BY <3>1, <3>4, <3>5
  <2>2. CASE ~(w * th > tw * h)
    <3>1. PICK n \in Nearest(w * th, tw) : cut = Cut(w, AtLeast1(Least(n, h)))
      BY <1>3, <2>2
    <3>2. w * th <= th * tw
      <4>1. w <= tw BY <1>7, <2>2
      <4>2. w * th <= tw * th BY <1>4, <4>1, ProductsOrdered
      <4> QED BY <1>5, <4>2
    <3>3. n \in Int /\ n <= th BY <1>4, <1>5, <3>2, NearestAtMost
    <3>4. AtLeast1(Least(n, h)) \in 1..h /\ AtLeast1(Least(n, h)) <= th
      BY <1>4, <3>3 DEF AtLeast1, Least
    <3>5. w \in 1..w /\ w <= tw BY <1>4, <1>7, <2>2
    <3> HIDE DEF Cut
    <3> QED BY <3>1, <3>4, <3>5
  <2> QED BY <2>1, <2>2
<1>9. PICK cw \in 1..w, ch \in 1..h : cut = Cut(cw, ch) /\ cw <= tw /\ ch <= th BY <1>8
<1> DEFINE left == (w - cw) \div 2
           top == (h - ch) \div 2
<1>10. left \in Int /\ 0 <= left /\ left + cw <= w /\ top \in Int /\ 0 <= top /\ top + ch <= h
  BY <1>4, <1>9
<1>11. cut = crop(upright, left, top, cw, ch) BY <1>9
<1> HIDE DEF left, top
<1>12. cw \in Int /\ ch \in Int /\ Inside(upright, left, top, cw, ch)
  BY <1>4, <1>9, <1>10 DEF Inside, w, h
<1>13. cut.width = cw /\ cut.height = ch BY <1>1, <1>10, <1>11, <1>12, CropKeeps
<1>14. cw * ch <= w * h
  <2>1. cw \in Nat /\ cw <= w /\ ch \in Nat /\ ch <= h BY <1>4
  <2> QED BY <1>4, <2>1, AreasOrdered
<1> QED BY <1>1, <1>9, <1>13, <1>14 DEF w, h


\* aspect-crop into a box of which both sides are given.
LEMMA AspectSize ==
  ASSUME NEW image, IsPicture(image), NEW source,
         source # None => source \in Readable /\ image = from_buffer(source, FALSE),
         NEW params, NEW tw \in BoxSide, NEW th \in BoxSide,
         NEW o \in AspectCrop(image, source, params, tw, th)
  PROVE  /\ o.image.width <= tw /\ o.image.height <= th
         /\ o.image.width * o.image.height <= image.width * image.height
         /\ \E full \in AspectCrop(image, None, params, tw, th) : SameSize(o.image, full.image)
<1> DEFINE oriented == oriented_size(image)
           opts == build_thumbnail_options("aspect-crop", params.gravity, th)
<1>1. CASE tw > oriented[1] \/ th > oriented[2]
  <2>1. \A from : AspectCrop(image, from, params, tw, th)
                    = {Outcome(cut, FALSE) : cut \in DirectCrop(image, tw, th)}
    BY <1>1 DEF AspectCrop
  <2>2. PICK cut \in DirectCrop(image, tw, th) : o = Outcome(cut, FALSE) BY <2>1
  <2>3. o.image = cut BY <2>2, OutcomeParts
  <2>4. o \in AspectCrop(image, None, params, tw, th) BY <2>1
  <2>5. SameSize(o.image, o.image) BY DEF SameSize
  <2> QED BY <1>1, <2>3, <2>4, <2>5, DirectCropSize
<1>2. CASE ~(tw > oriented[1] \/ th > oriented[2])
  <2>1. \A from : AspectCrop(image, from, params, tw, th) = resize(image, from, None, tw, opts)
    BY <1>2 DEF AspectCrop
  <2>2. "aspect-crop" \in FitModes \ {"pad"} BY DEF FitModes
  <2>3. tw \in Nat \ {0} /\ th \in Nat \ {0} /\ th # None
    BY NumberAssumption DEF BoxSide
  <2>4. /\ ~opts.no_rotate /\ opts.height = th /\ opts.crop # "none" /\ opts.size = "down"
    BY <2>2, <2>3, OptionsOf DEF Shrinking
  <2>5. DOMAIN opts = DOMAIN ThumbnailOptions /\ opts.height \in Nat BY OptionsBuilt
  <2> HIDE DEF opts
  <2> DEFINE small == thumbnail(image, tw, opts)
  <2>6. o \in resize(image, source, None, tw, opts) BY <2>1
  <2>7. SameSize(o.image, small)
    <3> HIDE DEF small
    <3> QED BY <2>3, <2>4, <2>5, <2>6, ResizedAs DEF small
  <2>8. small.width <= tw /\ small.height <= th
    <3>1. BoxOf(tw, opts)[2] = th BY <2>3, <2>4, <2>5, BoxSides DEF Absent
    <3>2. small.width <= tw /\ small.height <= BoxOf(tw, opts)[2]
      BY <2>3, <2>4, <2>5, CropWithin
    <3> QED BY <3>1, <3>2
  <2>9. small.width * small.height <= image.width * image.height
    BY <2>3, <2>4, <2>5, DownSmaller
  <2>10. Outcome(small, FALSE) \in AspectCrop(image, None, params, tw, th)
    BY <2>1 DEF resize
  <2> HIDE DEF small
  <2>11. Outcome(small, FALSE).image = small BY OutcomeParts
  <2> QED BY <2>7, <2>8, <2>9, <2>10, <2>11 DEF SameSize
<1> QED BY <1>1, <1>2

\* All ways of the resize of a still.
LEMMA StillResized ==
  ASSUME NEW image, IsPicture(image), NEW source,
         source # None => source \in Readable /\ image = from_buffer(source, FALSE),
         NEW params, params.fit \in FitModes,
         effective_width(params) \in BoxSide \cup {None},
         effective_height(params) \in BoxSide \cup {None},
         effective_width(params) # None \/ effective_height(params) # None,
         NEW pages, NEW o \in Resized(image, source, params, FALSE, pages)
  PROVE  /\ Level(image) => Bounded(params, o.image)
         /\ NoLarger(params, image, o.image)
         /\ \E full \in Resized(image, None, params, FALSE, pages) : SameSize(o.image, full.image)
<1> DEFINE w == effective_width(params)
           h == effective_height(params)
<1>1. CASE w # None /\ h # None /\ params.fit = "aspect-crop"
  <2>1. \A from : Resized(image, from, params, FALSE, pages)
                    = AspectCrop(image, from, params, w, h)
    BY <1>1 DEF Resized
  <2>2. w \in BoxSide /\ h \in BoxSide BY <1>1
  <2>3. o \in AspectCrop(image, source, params, w, h) BY <2>1
  <2> HIDE DEF w, h
  <2>4. /\ o.image.width <= w /\ o.image.height <= h
        /\ o.image.width * o.image.height <= image.width * image.height
        /\ \E full \in AspectCrop(image, None, params, w, h) : SameSize(o.image, full.image)
    BY <2>2, <2>3, AspectSize
  <2>5. Bounded(params, o.image) BY <1>1, <2>4 DEF Bounded, w, h
  <2>6. NoLarger(params, image, o.image) BY <2>4 DEF NoLarger
  <2> QED BY <2>1, <2>4, <2>5, <2>6
<1>2. CASE ~(w # None /\ h # None /\ params.fit = "aspect-crop")
  <2>1. \A from : Resized(image, from, params, FALSE, pages)
                    = PlainResize(image, from, params, FALSE, pages)
    BY <1>2 DEF Resized
  <2>2. o \in PlainResize(image, source, params, FALSE, pages) BY <2>1
  <2>3. PICK width, height :
           /\ BoxOfSides(params, width, height)
           /\ SameSize(o.image, Thumbnail(params, image, width, height))
           /\ Outcome(Thumbnail(params, image, width, height), FALSE)
                \in PlainResize(image, None, params, FALSE, pages)
    BY <2>2, PlainAs
  <2> DEFINE small == Thumbnail(params, image, width, height)
  <2>4. Level(image) => Bounded(params, small) BY <2>3, ThumbnailBounded
  <2>5. NoLarger(params, image, small) BY <2>3, ThumbnailNoLarger
  <2>6. /\ SameSize(o.image, small)
        /\ Outcome(small, FALSE) \in Resized(image, None, params, FALSE, pages)
    BY <2>1, <2>3
  <2> HIDE DEF small
  <2>7. Level(image) => Bounded(params, o.image) BY <2>4, <2>6 DEF Bounded, SameSize
  <2>8. NoLarger(params, image, o.image) BY <2>5, <2>6 DEF NoLarger, SameSize
  <2>9. Outcome(small, FALSE).image = small BY OutcomeParts
  <2> QED BY <2>6, <2>7, <2>8, <2>9
<1> QED BY <1>1, <1>2
=============================================================================
