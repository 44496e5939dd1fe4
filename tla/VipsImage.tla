------------------------------- MODULE VipsImage ------------------------------
(***************************************************************************)
(* The operations of crates/imgx-vips/src/image.rs on an image, as far as  *)
(* sizes and metadata go.  Pixels are left out, but for one thing: which   *)
(* frames of the source an image shows, and what was done to them.         *)
(***************************************************************************)
EXTENDS Integers, Sequences, SequencesExt

\* A metadata field or an optional argument that is not there.
Absent == 0

\* What an operation that fails returns.
NoImage ==
  [width |-> 0, height |-> 0, n_pages |-> Absent, page_height |-> Absent,
   orientation |-> Absent, loader |-> "none",
   alpha |-> FALSE,     \* has an alpha band
   grey |-> FALSE,      \* has a band of lightness in place of three of colour
   frames |-> <<>>,     \* of the source, from top to bottom and of one height;
                        \* empty when a frame was cut or frames were mixed
   edits |-> {},        \* what was done to the pixels
   broken |-> FALSE]    \* reading its pixels fails

\* A source: encoded bytes. `pages` is Absent for a format without pages.
Source == [width : Nat \ {0}, height : Nat \ {0}, pages : Nat, orientation : Nat,
           alpha : BOOLEAN, grey : BOOLEAN, loader : STRING,
           readable : BOOLEAN,     \* a loader knows the format, and its header is whole
           stackable : BOOLEAN,    \* so are the pages asked for, and they are of one size
           damaged : BOOLEAN]      \* some pixels cannot be decoded

-----------------------------------------------------------------------------
\* Loading. Without `strict`, pixels that cannot be decoded come back blank.
from_buffer_with_option(source, strict, stacked) ==
  [NoImage EXCEPT !.width = source.width, !.height = source.height * stacked,
                  !.n_pages = source.pages, !.orientation = source.orientation,
                  !.alpha = source.alpha, !.grey = source.grey, !.loader = source.loader,
                  !.frames = [i \in 1..stacked |-> i],
                  !.broken = strict /\ source.damaged]

\* The first page; n-pages is there, page-height is not.
from_buffer(source, strict) ==
  IF source.readable THEN from_buffer_with_option(source, strict, 1) ELSE NoImage

\* n pages in one column, -1 for all.
from_buffer_animated(source, n, strict) ==
  LET stacked == IF n = -1 THEN source.pages ELSE n
  IN IF ~source.stackable THEN NoImage
     ELSE [from_buffer_with_option(source, strict, stacked) EXCEPT !.page_height = source.height]

shrinks_on_load(image) == image.loader \in {"jpeg", "webp"}

\* vips_image_get_page_height: page-height when it divides the height.
PageHeight(image) ==
  LET ph == image.page_height
  IN IF ph \in 1..(image.height - 1) /\ image.height % ph = 0 THEN ph ELSE image.height

\* The height of each of the frames that an image shows.
FrameHeight(image) == image.height \div Len(image.frames)

-----------------------------------------------------------------------------
\* Sub-regions keep the metadata. A region of whole height keeps the frames, a
\* region inside one frame shows that one.
FramesIn(image, top, height) ==
  LET k == FrameHeight(image)
  IN IF image.frames = <<>> \/ height = image.height THEN image.frames
     ELSE IF top \div k = (top + height - 1) \div k
     THEN <<image.frames[top \div k + 1]>>
     ELSE <<>>

crop(image, left, top, width, height) ==
  IF /\ left >= 0 /\ top >= 0 /\ width > 0 /\ height > 0
     /\ left + width <= image.width /\ top + height <= image.height
  THEN [image EXCEPT !.width = width, !.height = height,
                     !.frames = FramesIn(image, top, height)]
  ELSE NoImage

\* The frames when an image is padded or turned by a right angle.
OneOrNone(frames) == IF Len(frames) = 1 THEN frames ELSE <<>>

rot(image, angle) ==
  IF angle = "180" THEN [image EXCEPT !.frames = Reverse(@)]
  ELSE [image EXCEPT !.width = image.height, !.height = image.width,
                     !.frames = OneOrNone(@)]

Turns(image) == image.orientation \in 5..8

\* Upside down, mirrored or not.
Overturned(image) == image.orientation \in {3, 4}

autorot(image) ==
  LET upright == IF Turns(image) THEN rot(image, "90")
                 ELSE IF Overturned(image) THEN rot(image, "180") ELSE image
  IN [upright EXCEPT !.orientation = Absent]

flip(image, direction) ==
  IF direction = "horizontal" THEN image ELSE [image EXCEPT !.frames = Reverse(@)]

\* Bounding boxes that find_trim may report: none, everything, a pixel less on
\* every side.
find_trim(image) ==
  {<<0, 0, 0, 0>>, <<0, 0, image.width, image.height>>,
   <<1, 1, image.width - 2, image.height - 2>>}

bands(image) == (IF image.grey THEN 1 ELSE 3) + (IF image.alpha THEN 1 ELSE 0)

\* On a canvas of another size.
Placed(image, width, height) ==
  [image EXCEPT !.width = width, !.height = height, !.frames = OneOrNone(@)]

\* The ground has four samples, or three for less than four bands. libvips takes
\* one sample to a band, or any number of them for a single band.
embed(image, width, height) ==
  IF bands(image) = 2 THEN NoImage ELSE Placed(image, width, height)

\* No ground shows.
tile_to_size(image, width, height) == Placed(image, width, height)

flatten(image) == [image EXCEPT !.alpha = FALSE]

\* Filters leave sizes and metadata alone.
sharpen(image) == [image EXCEPT !.edits = @ \cup {"sharpen"}]
gaussblur(image) == [image EXCEPT !.edits = @ \cup {"blur"}]
linear1(image) == [image EXCEPT !.edits = @ \cup {"linear"}]
gamma(image) == [image EXCEPT !.edits = @ \cup {"gamma"}]

\* To LCH, and back to sRGB: three bands of colour.
colourspace(image) == [image EXCEPT !.grey = FALSE]

\* Bands put together again: an alpha band is not among them.
extract_band(image) == flatten(image)
bandjoin2(image, last_is_alpha) == [image EXCEPT !.alpha = last_is_alpha]

\* The result has the size of the base, and an alpha band; it is grey when both are.
composite_over(base, overlay) ==
  [base EXCEPT !.alpha = TRUE, !.grey = @ /\ overlay.grey, !.edits = @ \cup overlay.edits]

\* At most this many images are joined.
MAX_JOINED == 256

\* Images of one size in a column, with the metadata of the first.
arrayjoin_vertical(images) ==
  LET n == Min({Len(images), MAX_JOINED})
      taken == SubSeq(images, 1, n)
  IN [images[1] EXCEPT !.height = n * @,
        !.frames = IF \E i \in 1..n : taken[i].frames = <<>> THEN <<>>
                   ELSE FlattenSeq([i \in 1..n |-> taken[i].frames])]

-----------------------------------------------------------------------------
\* vips_thumbnail_*. A shrink factor is a fraction <<n, d>>.
Less(p, q) == p[1] * q[2] < q[1] * p[2]
LargerOf(p, q) == IF Less(p, q) THEN q ELSE p
SmallerOf(p, q) == IF Less(p, q) THEN p ELSE q
Rint(n, d) == (2 * n + d) \div (2 * d)
Shrunk(side, shrink) ==
  LET s == SmallerOf(shrink, <<side, 1>>) IN Rint(side * s[2], s[1])

\* The factors of both sides: of their own with `force`, else the smaller one
\* when the rest is cropped and the larger one when it is not.
Shrinks(width, page, box, opts) ==
  LET h == <<width, box[1]>>
      v == <<page, box[2]>>
      both == IF opts.crop = "none" THEN LargerOf(h, v) ELSE SmallerOf(h, v)
      bounded == CASE opts.size = "up" -> SmallerOf(both, <<1, 1>>)
                   [] opts.size = "down" -> LargerOf(both, <<1, 1>>)
                   [] OTHER -> both
  IN IF opts.size = "force" THEN <<h, v>> ELSE <<bounded, bounded>>

\* Both sides of the pages shrunk, each by its factor.
Scaled(image, page, shrinks) ==
  LET loaded == image.height \div page
      new_page == Shrunk(page, shrinks[2])
  IN [image EXCEPT !.width = Shrunk(@, shrinks[1]),
                   !.height = new_page * loaded,
                   !.page_height = IF loaded > 1 THEN new_page ELSE @]

\* A crop is one of the whole column.
Fitted(image, page, box, opts) ==
  LET small == Scaled(image, page, Shrinks(image.width, page, box, opts))
  IN IF opts.crop = "none" THEN small
     ELSE crop(small, 0, 0, Min({box[1], small.width}), Min({box[2], small.height}))

FittedPages(image, box, opts) == Fitted(image, PageHeight(image), box, opts)

\* The box fits the page after the orientation; without a height it is a square.
thumbnail(image, width, opts) ==
  FittedPages(IF opts.no_rotate THEN image ELSE autorot(image),
              <<width, IF opts.height = Absent THEN width ELSE opts.height>>, opts)

\* A side of more than this is out of range.
MAX_COORD == 10000000

\* Where a box may be too large: without a width in range there is no thumbnail, a
\* height out of range is not set.
thumbnail_in_range(image, width, opts) ==
  IF width > MAX_COORD THEN NoImage
  ELSE thumbnail(image, width,
                 [opts EXCEPT !.height = IF @ > MAX_COORD THEN Absent ELSE @])

\* Sizes that are off by a pixel at the most.
AboutAs(exact) ==
  LET Off(side) == {s \in {side - 1, side, side + 1} : s > 0}
  IN {[exact EXCEPT !.width = size[1], !.height = size[2]] :
        size \in Off(exact.width) \X Off(exact.height)}

\* The reduced decode reads the source: what was done to an image of it is lost.
\* Its shrink is measured on the smaller image that the decoder returns, so a
\* side that the box does not dictate may be a pixel off.
thumbnail_buffer(source, width, opts) ==
  LET exact == thumbnail(from_buffer(source, FALSE), width, opts)
  IN IF ~source.readable THEN {NoImage}
     ELSE IF opts.size = "down" /\ opts.crop = "none" THEN AboutAs(exact) ELSE {exact}

-----------------------------------------------------------------------------
\* Encoders. Webp and gif files are cut at the page height; a side can be too long
\* for a format.
LongestSide(format) ==
  CASE format = "webp" -> 16383
    [] format = "avif" -> 16384
    [] format \in {"jpeg", "gif"} -> 65535
    [] OTHER -> 10000000

\* The file: n-pages and page-height are those of its pages. A webp, avif or gif
\* file has three bands of colour.
Encoded(image, format, do_strip) ==
  LET paged == format \in {"webp", "gif"}
      page == IF paged THEN PageHeight(image) ELSE image.height
      pages == image.height \div page
  IN IF image.width > LongestSide(format) \/ page > LongestSide(format) THEN NoImage
     ELSE [image EXCEPT !.loader = format, !.grey = @ /\ format \in {"jpeg", "png"},
                        !.n_pages = IF paged THEN pages ELSE Absent,
                        !.page_height = IF paged THEN page ELSE Absent,
                        !.orientation = IF do_strip THEN Absent ELSE @,
                        !.frames = IF pages = Len(@) THEN @ ELSE <<>>]

save_jpeg(image, do_strip) == Encoded(flatten(image), "jpeg", do_strip)
save_png(image, do_strip) == Encoded(image, "png", do_strip)
save_webp_with_effort(image, do_strip) == Encoded(image, "webp", do_strip)
save_avif(image, do_strip) == Encoded(image, "avif", do_strip)

\* A page height that does not divide the height makes gifsave read beyond the
\* image.
save_gif(image) ==
  LET ph == image.page_height
  IN [Encoded(image, "gif", FALSE) EXCEPT
        !.broken = ph # Absent /\ (ph > image.height \/ image.height % ph # 0)]

\* A packed raster, one byte to a sample: its length, or Absent when a pixel
\* cannot be decoded.
write_to_memory(image) ==
  IF image.broken THEN Absent ELSE image.width * image.height * bands(image)
=============================================================================
