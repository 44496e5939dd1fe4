------------------------------ MODULE Negotiate -----------------------------
(***************************************************************************)
(* Which format a variant gets: crates/imgx/src/transform/negotiate.rs and *)
(* the decisions of transform/pipeline.rs that call it.  The pixels are    *)
(* left out: a render is its format, its size and the options that its     *)
(* pixels depend on and, for format=json, the format its text reports.     *)
(***************************************************************************)
EXTENDS Params

ASSUME FormatAssumption ==
  None \notin {"avif", "webp", "jpeg", "png", "gif", "baseline-jpeg", "json",
               "thumbhash", "auto"}

NEGOTIABLE_FORMATS == {"avif", "webp", "jpeg", "png", "gif"}
OutputFormat == NEGOTIABLE_FORMATS \cup {"baseline-jpeg", "json", "thumbhash", "auto"}

\* An Accept header is the set of its entries that name an image type or a
\* wildcard; `disabled` is q=0. An absent header is the empty one.
AcceptHeader ==
  SUBSET [media : NEGOTIABLE_FORMATS \cup {"wildcard"}, disabled : BOOLEAN]

parse_accept_header(accept) == {e.media : e \in {d \in accept : ~d.disabled}}

\* Mutant of supports: a wildcard counts for AVIF, too.
WildcardIncludesAvif(accept, format) ==
  {format, "wildcard"} \cap parse_accept_header(accept) # {}

\* A wildcard counts for every format but AVIF.
supports(accept, format) ==
  \/ format \in parse_accept_header(accept)
  \/ format # "avif" /\ "wildcard" \in parse_accept_header(accept)

Explicit(format) == format \notin {None, "auto"}

\* The first format of `order` that is supported, or `otherwise`.
FirstSupported(accept, order, otherwise) ==
  LET hits == {i \in 1..Len(order) : supports(accept, order[i])}
  IN IF hits = {} THEN otherwise
     ELSE order[CHOOSE i \in hits : \A j \in hits : i <= j]

negotiate_format(accept, has_alpha, requested) ==
  IF Explicit(requested) THEN requested
  ELSE IF has_alpha THEN FirstSupported(accept, <<"avif", "webp", "png">>, "jpeg")
  ELSE FirstSupported(accept, <<"avif", "webp", "jpeg", "png">>, "jpeg")

supports_animation(format) == format \in {"gif", "webp"}
produces_text_body(format) == format \in {"json", "thumbhash"}

\* Mutant of negotiate_animated_format: every format that is asked for will do.
AnyFormatMoves(accept, requested) ==
  IF Explicit(requested) THEN requested
  ELSE FirstSupported(accept, <<"webp", "gif">>, None)

negotiate_animated_format(accept, requested) ==
  IF Explicit(requested)
  THEN IF supports_animation(requested) THEN requested ELSE None
  ELSE FirstSupported(accept, <<"webp", "gif">>, None)

\* Mutant of cache_format_segment: `auto` for every Accept header (issue #49).
BareAuto(accept, requested) ==
  [name |-> IF Explicit(requested) THEN requested ELSE "auto", supported |-> {}]

\* The format segment of a cache key: the format's name, or "auto:" and the
\* supported formats.
cache_format_segment(accept, requested) ==
  IF Explicit(requested)
  THEN [name |-> requested, supported |-> {}]
  ELSE [name |-> "auto",
        supported |-> {f \in NEGOTIABLE_FORMATS : supports(accept, f)}]

apply_compression_fast(format, fast) ==
  IF fast /\ format \in {"avif", "webp"} THEN "jpeg" ELSE format

-----------------------------------------------------------------------------
\* Sources with more than one page, within the animation budget, are `animated`;
\* anim=static and a frame ask for a static image.
AsksStill(options) == options.anim = "static" \/ options.frame # None

CompressesFast(options) == options.compression = "fast"

animated_format(accept, options, source) ==
  IF source.animated /\ ~AsksStill(options)
  THEN negotiate_animated_format(accept, options.format)
  ELSE None

\* An alpha band does not outlive a change of the saturation or a background.
keeps_alpha(options, source) ==
  source.alpha /\ options.saturation = None /\ (options.background = None \/ options.fit = "pad")

\* The format of a static output.
static_format(accept, requested, options, source) ==
  apply_compression_fast(
    negotiate_format(accept, keeps_alpha(options, source), requested),
    CompressesFast(options))

\* Mutant of output_format: compression=fast applies to animations, too.
FastDropsAnimation(accept, options, source) ==
  LET animated == animated_format(accept, options, source) IN
  IF animated # None THEN apply_compression_fast(animated, CompressesFast(options))
  ELSE static_format(accept, options.format, options, source)

\* Mutant of output_format: an animated source is never flattened to a format
\* that cannot hold it.
NeverFlattens(accept, options, source) ==
  IF source.animated /\ ~AsksStill(options)
  THEN animated_format(accept, options, source)
  ELSE static_format(accept, options.format, options, source)

\* The ENCODE step of transform().
output_format(accept, options, source) ==
  LET animated == animated_format(accept, options, source) IN
  IF animated # None THEN animated
  ELSE static_format(accept, options.format, options, source)

\* The format that the text of a format=json response reports. (A json request
\* never has an animated output.)
reported_format(accept, options, source) ==
  IF options.format = "json" THEN static_format(accept, None, options, source) ELSE None

\* The options that transform() reads, the format aside.
PixelField == Field \ {"format", "onerror", "scq"}

transform(accept, options, source) ==
  [format |-> output_format(accept, options, source),
   reported |-> reported_format(accept, options, source),
   width |-> effective_width(options),
   height |-> effective_height(options),
   pixels |-> [f \in PixelField |-> options[f]]]
=============================================================================
