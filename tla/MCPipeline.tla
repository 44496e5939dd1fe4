------------------------------ MODULE MCPipeline ------------------------------
(***************************************************************************)
(* Pipeline for every kind of source with every fit into boxes around its  *)
(* size, and with the options that act before and after the resize.        *)
(***************************************************************************)
EXTENDS Pipeline

Image(width, height, loader) ==
  [width |-> width, height |-> height, pages |-> Absent, orientation |-> Absent,
   alpha |-> FALSE, grey |-> FALSE, loader |-> loader,
   readable |-> TRUE, stackable |-> TRUE, damaged |-> FALSE]

Animation(width, height, loader, pages) ==
  [Image(width, height, loader) EXCEPT !.pages = pages]

Turned(image) == [image EXCEPT !.orientation = 6]
Clear(image) == [image EXCEPT !.alpha = TRUE]
Grey(image) == [image EXCEPT !.grey = TRUE]
Damaged(image) == [image EXCEPT !.damaged = TRUE]

Stills == {Image(40, 30, "jpeg"), Turned(Image(40, 30, "jpeg")), Clear(Image(41, 27, "webp")),
           Clear(Image(16, 9, "png")), Image(1, 60, "jpeg")}
Animations == {Animation(20, 10, "gif", 2), Animation(21, 13, "webp", 5),
               Clear(Animation(20, 10, "gif", 1)), Animation(60, 50, "webp", 5)}
TooLargeSources == {Image(101, 100, "jpeg"), Image(101, 100, "png"), Animation(101, 100, "webp", 2)}

Webp == {[media |-> "webp", disabled |-> FALSE]}
Avif == {[media |-> "avif", disabled |-> FALSE]}
JpegOrPng == [media : {"jpeg", "png"}, disabled : {FALSE}]

Call(options, accept, source) ==
  [tp |-> options, accept |-> accept, source |-> source, overlay |-> Clear(Image(8, 6, "png"))]

Boxed(options, w, h) == [options EXCEPT !.width = w, !.height = h]
Box(options) == {Boxed(options, b[1], b[2]) :
                   b \in {<<20, 20>>, <<25, None>>, <<None, 7>>, <<50, 37>>, <<13, 40>>}}

\* Every fit and box, for every source.
ResizeJobs ==
  {Call(t, Webp, s) :
     t \in UNION {Box([Default EXCEPT !.fit = fit, !.gravity = g, !.format = f]) :
                    fit \in Meanings(FitWords), g \in {"center", "smart"}, f \in {None, "gif"}},
     s \in Stills \cup Animations}

Edited ==
  {[Default EXCEPT !.rotate = r, !.flip = f] :
     r \in {None, "0", "90", "180"}, f \in {None, "h", "v", "hv"}}
  \cup {[Default EXCEPT !.frame = n, !.rotate = r] : n \in {0, 2, 5}, r \in {None, "90"}}
  \cup {[Default EXCEPT !.trim = 10000, !.trim_top = v] : v \in {None, 0}}
  \cup {[Default EXCEPT !.trim_left = l, !.trim_bottom = b] :
          l \in {0, 250, 1000, 50000}, b \in {None, 500, 3000}}

\* Edits before a resize, or without one.
EditJobs ==
  {Call(t, Webp, s) :
     t \in UNION {{[o EXCEPT !.format = f], Boxed([o EXCEPT !.format = f], 15, None),
                   Boxed([o EXCEPT !.format = f, !.fit = "cover"], 12, 9)} :
                    o \in Edited, f \in {None, "gif", "thumbhash"}},
     s \in Stills \cup Animations}

Effected ==
  {[Default EXCEPT !.sharpen = 1000, !.blur = 1000, !.contrast = 1000],
   [Default EXCEPT !.saturation = 500], [Default EXCEPT !.gamma = 1000, !.brightness = 500],
   [Default EXCEPT !.background = "red"], [Default EXCEPT !.background = "red", !.fit = "pad"],
   [Default EXCEPT !.border_width = 1, !.dpr = 1500],
   [Default EXCEPT !.border_left = 2000, !.border_right = 2000, !.dpr = 5000],
   [Default EXCEPT !.draw = <<[NoOverlay EXCEPT !.url = "u"]>>],
   [Default EXCEPT !.draw = <<[NoOverlay EXCEPT !.url = "u", !.width = 500, !.rotate = "90",
                               !.repeat = "both", !.background = "red", !.opacity = 500],
                              [NoOverlay EXCEPT !.url = "u", !.height = 3000, !.repeat = "x",
                               !.opacity = 500]>>]}

\* What comes after a resize, into every format.
AnswerJobs ==
  {Call([t EXCEPT !.format = f, !.compression = c, !.metadata = m], a, s) :
     t \in UNION {{o, Boxed(o, 30, 30)} : o \in Effected}, f \in {None, "json", "gif", "png"},
     c \in {None, "fast"}, m \in {"strip", "keep"}, a \in {Webp, Avif, JpegOrPng},
     s \in {Image(40, 30, "jpeg"), Clear(Image(41, 27, "webp")), Animation(20, 10, "gif", 2)}}

\* Hashes of whole and damaged sources of every shape, and budgets.
SourceJobs ==
  {Call([Default EXCEPT !.format = f, !.width = w, !.rotate = r], Webp, s) :
     f \in {None, "thumbhash", "json"}, w \in {None, 20}, r \in {None, "90"},
     s \in TooLargeSources
       \cup {Damaged(x) : x \in {Image(40, 30, "jpeg"), Image(101, 100, "jpeg"),
                                 Animation(20, 10, "gif", 2)}}
       \cup {Clear(Image(w2, 4, "png")) : w2 \in {1, 4, 5, 9, 100}}
       \cup {Image(w2, 4, "webp") : w2 \in {1, 4, 5, 9, 400}}}

\* Frames whose page height still divides them after a turn: three pages of 50 rows.
LongFrameJobs ==
  {Call([Default EXCEPT !.format = "thumbhash", !.frame = 1, !.rotate = r], Webp,
        Animation(150, 50, "gif", 3)) : r \in {None, "90"}}
  \cup {Call(Boxed([Default EXCEPT !.format = "thumbhash", !.frame = 1, !.fit = fit], w, h), Webp,
             Animation(20, 10, "gif", 2)) :
          fit \in {"fill", "contain", "pad"}, w \in {None, 20}, h \in {100, 300}}

\* Animations with a tag that says how they are to be turned, and frames of them.
TaggedJobs ==
  {Call([t EXCEPT !.frame = n], Webp, [Animation(20, 10, "webp", 2) EXCEPT !.orientation = o]) :
     t \in {Default} \cup UNION {Box([Default EXCEPT !.fit = fit]) :
                                   fit \in {"contain", "cover", "fill"}},
     n \in {None, 0}, o \in {1, 3, 6}}

\* Sources without colour, in grounds of colour and out of them.
GreyJobs ==
  {Call([t EXCEPT !.format = f], Webp, s) :
     t \in {[Default EXCEPT !.saturation = 500], Boxed([Default EXCEPT !.fit = "pad"], 50, 50)}
       \cup {[o EXCEPT !.background = b] : o \in {Default, [Default EXCEPT !.border_width = 1000]},
                                         b \in {None, "red"}}
       \cup {[Default EXCEPT !.draw = <<[NoOverlay EXCEPT !.url = "u"]>>]},
     f \in {None, "png", "baseline-jpeg"},
     s \in {Grey(Image(40, 30, "png")), Clear(Grey(Image(40, 30, "png")))}}

\* What cannot be read: a source, its pages, some pixels of it, an overlay; and an
\* overlay that is too wide.
UnreadJobs ==
  {Call([Default EXCEPT !.frame = n, !.format = f], Webp, s) :
     n \in {None, 1}, f \in {None, "gif", "thumbhash"},
     s \in {[Animation(20, 10, "gif", 2) EXCEPT !.readable = r, !.stackable = r2] :
              r \in BOOLEAN, r2 \in BOOLEAN}}
  \cup {Call([Default EXCEPT !.format = "thumbhash", !.trim = 10000], Webp,
             Damaged(Image(40, 30, "jpeg")))}
  \cup {[Call([Default EXCEPT !.draw = <<[NoOverlay EXCEPT !.url = "u", !.width = v]>>], Webp,
              Image(400, 4, "png"))
         EXCEPT !.overlay.readable = r] : v \in {None, 500, 10001 * 1000}, r \in BOOLEAN}

\* Frames so narrow that what covers the box is too long in one column, and is not.
NarrowJobs ==
  {Call(Boxed([Default EXCEPT !.fit = "cover"], w, 20), Webp, Animation(1, 500, "gif", 3)) :
     w \in {2, 8192}}

MCJob ==
  {j \in ResizeJobs \cup EditJobs \cup AnswerJobs \cup SourceJobs \cup LongFrameJobs
          \cup TaggedJobs \cup GreyJobs \cup UnreadJobs \cup NarrowJobs :
     validate(j.tp)}

\* Frames of 100 by 150 that are to cover 10 by 20 become 14 by 21.
CoverJobs ==
  {Call(Boxed([Default EXCEPT !.fit = "cover"], 10, 20), Webp, Animation(100, 150, "webp", n)) :
     n \in {2, 3}}
=============================================================================
