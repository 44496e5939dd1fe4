---------------------------- MODULE VariantCache ----------------------------
(***************************************************************************)
(* Clients that share the variants of a cache: what crates/imgx/src/       *)
(* server.rs computes of a request before it looks into the cache, and the *)
(* cache key it looks under (cache/mod.rs).  The cache is the ideal one,   *)
(* and renders do not fail: the question is whether the key tells apart    *)
(* what the renders tell apart, and whether what passes the checks is safe *)
(* to hand on.                                                             *)
(***************************************************************************)
EXTENDS Negotiate, Router, FiniteSets

CONSTANTS
  Audience,              \* sets of requests, one for each circle of clients
  Origin,                \* the source behind each image path
  max_width, max_height, \* IMGX_TRANSFORM_MAX_WIDTH and _HEIGHT
  allow_draw_overlays,
  allow_remote_sources,
  MaxVariants            \* bound: variants kept at a time

Request == UNION Audience

SourceType == [animated : BOOLEAN, alpha : BOOLEAN]

route(q) == resolve(q.path)
parsed(q) == parse(route(q).pairs)
options(q) == apply_scq_override(parsed(q).params, is_slow_connection(q.hints))

\* A path of segments whose pairs the parsers have read.
IsPath(path) ==
  /\ IsSequence(path) /\ Len(path) > 0
  /\ \A i \in DOMAIN path :
       IsSequence(path[i].pairs) /\ \A k \in DOMAIN path[i].pairs : IsPair(path[i].pairs[k])

ASSUME RequestAssumption ==
  /\ \A q \in Request :
       /\ q.accept \subseteq [media : NEGOTIABLE_FORMATS \cup {"wildcard"},
                              disabled : BOOLEAN]
       /\ route(q).kind = "image" => Origin[route(q).image_path] \in SourceType
       /\ IsPath(q.path)
  /\ None \notin Request
  /\ max_width \in Nat /\ max_height \in Nat /\ MaxVariants \in Nat
  /\ allow_draw_overlays \in BOOLEAN /\ allow_remote_sources \in BOOLEAN

VARIABLES
  clients,    \* the requests of the clients at work
  variants,   \* the cached variants: [key, render] pairs
  asked,      \* the last request, or None
  answer      \* what it was answered: its status, and the render or None

vars == <<clients, variants, asked, answer>>

-----------------------------------------------------------------------------
Within(side, limit) == side = None \/ side <= limit

\* The status that a request is answered with before the cache is asked, or None.
refusal(q) ==
  CASE route(q).kind = "not_found" -> 404
    [] route(q).kind # "image" -> 200    \* health, readiness, metrics
    [] parsed(q).error # None -> 400
    [] ~validate(parsed(q).params) -> 422
    [] parsed(q).params.draw # <<>> /\ ~allow_draw_overlays -> 403
    [] is_absolute_url_source(route(q).image_path) /\ ~allow_remote_sources -> 403
    [] ~Within(options(q).width, max_width) \/ ~Within(options(q).height, max_height) -> 422
    [] OTHER -> None

cache_key(q) ==
  [path |-> route(q).image_path,
   transform |-> to_cache_key(options(q)),
   format |-> cache_format_segment(q.accept, options(q).format)]

render(q) == transform(q.accept, options(q), Origin[route(q).image_path])

Refused(status) == [status |-> status, render |-> None]
Rendered(r) == [status |-> 200, render |-> r]

Init ==
  /\ clients \in Audience
  /\ variants = {}
  /\ asked = None
  /\ answer = Refused(None)

Refuse(q) ==
  /\ refusal(q) # None
  /\ answer' = Refused(refusal(q))
  /\ UNCHANGED variants

\* A variant under the key is the answer.
Hit(q, v) ==
  /\ refusal(q) = None
  /\ v.key = cache_key(q)
  /\ answer' = Rendered(v.render)
  /\ UNCHANGED variants

\* No variant is: the render is made, cached and answered.
Miss(q) ==
  /\ refusal(q) = None
  /\ \A v \in variants : v.key # cache_key(q)
  /\ Cardinality(variants) < MaxVariants
  /\ variants' = variants \cup {[key |-> cache_key(q), render |-> render(q)]}
  /\ answer' = Rendered(render(q))

\* handle_image_request.
Handle(q) ==
  /\ asked' = q
  /\ UNCHANGED clients
  /\ Refuse(q) \/ Miss(q) \/ \E v \in variants : Hit(q, v)

\* The cache forgets a variant.
Evict(v) ==
  /\ variants' = variants \ {v}
  /\ UNCHANGED <<clients, asked, answer>>

Next ==
  \/ \E q \in clients : Handle(q)
  \/ \E v \in variants : Evict(v)

Spec == Init /\ [][Next]_vars

-----------------------------------------------------------------------------
IsRender(r) ==
  /\ DOMAIN r = {"format", "reported", "width", "height", "pixels"}
  /\ r.format \in OutputFormat \ {"auto"}
  /\ r.reported \in OutputFormat \cup {None}
  /\ DOMAIN r.pixels = PixelField

TypeOK ==
  /\ clients \in Audience
  /\ \A v \in variants : IsRender(v.render)
  /\ asked \in Request \cup {None}
  /\ answer.status \in {None, 200, 400, 403, 404, 422}
  /\ answer.render # None => IsRender(answer.render)

Respond(q) == IF refusal(q) # None THEN Refused(refusal(q)) ELSE Rendered(render(q))

\* INV-27, and the reason scq may stay out of the key: whoever asked first, a
\* client is answered what it would have been without a cache
\* (server.rs:344-391, negotiate.rs:171-196, params.rs:749-902).
AnswersAsIfUncached == asked # None => answer = Respond(asked)

\* An entry of the header admits the format.
Admits(accept, format) ==
  \E e \in accept :
    /\ ~e.disabled
    /\ e.media = format \/ (e.media = "wildcard" /\ format # "avif")

\* INV-7: what a client that asked for no format gets is named by its Accept
\* header or covered by a wildcard, AVIF only when it is named; JPEG is the last
\* resort (negotiate.rs:90-132, 198-213).
AnswersAcceptable ==
  (answer.render # None /\ ~Explicit(options(asked).format)) =>
    Admits(asked.accept, answer.render.format) \/ answer.render.format = "jpeg"

\* An animated source stays animated for every client that takes an animated
\* format and did not ask for a still, compression=fast or not
\* (negotiate.rs:198-206, pipeline.rs:178-188, 621-633).
AnimationKept ==
  (/\ answer.render # None
   /\ Origin[route(asked).image_path].animated
   /\ ~AsksStill(options(asked)) /\ ~Explicit(options(asked).format)
   /\ \E f \in {"webp", "gif"} : Admits(asked.accept, f))
    => supports_animation(answer.render.format)

InRange(o, f, low, high) == o[f] = None \/ (o[f] # NonFinite /\ o[f] \in low..high)

SideTrims == {"trim_top", "trim_right", "trim_bottom", "trim_left"}

SafeSide(side) == side = None \/ side \in 1..8192

\* Numbers that libvips may be called with.
SafeNumbers(o) ==
  /\ InRange(o, "quality", 1, 100) /\ InRange(o, "dpr", 1000, 5000)
  /\ InRange(o, "blur", 100, 250000) /\ InRange(o, "gamma", 100, 10000)
  /\ InRange(o, "sharpen", 0, 10000) /\ InRange(o, "trim", 1000, 100000)
  /\ InRange(o, "frame", 0, 999)
  /\ \A f \in {"brightness", "contrast", "saturation"} : InRange(o, f, 0, 2000)
  /\ \A f \in SideTrims : o[f] # NonFinite /\ ~Negative(o[f])

\* INV-6: whatever was asked, with whatever hints, libvips gets finite numbers in
\* its ranges only, and no side over 8192, the pixel ratio included
\* (params.rs:596-607, 612-741, 1033-1040).
OnlySafeValues ==
  answer.render # None =>
    /\ \A side \in {answer.render.width, answer.render.height} : SafeSide(side)
    /\ SafeNumbers(answer.render.pixels)

\* INV-1: the order of the pairs of an options segment, and of its overlays, does
\* not matter as long as no two of them set the same field: not to whether the
\* segment is accepted, not to the key (params.rs:904-1003, 1045-1080).
OrderIrrelevant ==
  asked # None =>
    LET pairs == route(asked).pairs
        here == parse(pairs)
    IN \A i \in 1..(Len(pairs) - 1) :
         Target(pairs[i]) # Target(pairs[i + 1]) =>
           LET there == parse(Swapped(pairs, i)) IN
           /\ (there.error = None) = (here.error = None)
           /\ here.error = None => to_cache_key(there.params) = to_cache_key(here.params)

\* A segment that goes up, or may once it is decoded.
Climbs(segment) == segment.name = ".." \/ segment.encoded

\* INV-4: whatever a route cuts off in front of it, the path that a variant was
\* rendered from has no segment that climbs, plain or encoded, not even one that the
\* segments before it make up for; so no part of it leads above the root of the origin
\* or of the bucket (router.rs:121-141, 158-186).
VariantsUnderTheRoot ==
  \A v \in variants : \A i \in DOMAIN v.key.path : ~Climbs(v.key.path[i])

-----------------------------------------------------------------------------
\* What the documents say and the code does not do.

\* transforms.mdx:46, "Multiplies `w` and `h`", and the test of params.rs:1272,
\* cache_key_differs_when_params_differ: a client gets the width that it asked
\* for, not that of another client's dpr.
AnswersTheWidthAsked ==
  answer.render # None => answer.render.width = effective_width(options(asked))
=============================================================================
