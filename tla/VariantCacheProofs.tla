-------------------------- MODULE VariantCacheProofs ------------------------
(***************************************************************************)
(* What a client gets of a shared cache, for every set of requests: an     *)
(* answer that its Accept header admits, of safe numbers, and whatever it  *)
(* would get alone, if requests keep clear of the two places where the key *)
(* of transform/params.rs says less than the render uses.                  *)
(***************************************************************************)
EXTENDS VariantCache, ParamsProofs, TLAPS

\* The decimals of a number that the key keeps are all it has, and only the text
\* of a format=json answer depends on more than the key.
Exact(params) ==
  /\ params.format # "json"
  /\ \A f \in OneDecimal : params[f] # None => params[f] % 100 = 0
  /\ \A f \in TwoDecimals : params[f] # None => params[f] % 10 = 0
  /\ \A i \in DOMAIN params.draw, f \in OverlayDecimals :
       params.draw[i][f] # None => params.draw[i][f] % 10 = 0

\* A number of the options.
IsNumber(v) == v \in Int \cup {None}

KeyIsExact == \A q \in Request : refusal(q) = None => Exact(options(q))

-----------------------------------------------------------------------------
\* What is left of a path behind its first segment.
LEMMA TailIs ==
  ASSUME NEW path, IsPath(path), Len(path) > 1
  PROVE  /\ IsPath(Tail(path))
         /\ \A i \in DOMAIN Tail(path) : i + 1 \in DOMAIN path /\ Tail(path)[i] = path[i + 1]
<1> DEFINE S == {path[i] : i \in 1..Len(path)}
           rest == Tail(path)
           n == Len(path)
<1>1. path \in Seq(S) /\ path # <<>> BY SequenceOf DEF IsPath
<1>2. DOMAIN path = 1..n /\ n \in Nat /\ n > 1 BY SequenceDomain DEF IsPath
<1> HIDE DEF S
<1>3. /\ rest \in Seq(S) /\ Len(rest) = n - 1
      /\ \A i \in 1..Len(rest) : rest[i] = path[i + 1]
  BY <1>1, HeadTailProperties
<1>4. DOMAIN rest = 1..Len(rest) /\ IsSequence(rest) BY <1>3, LenProperties DEF IsSequence
<1> HIDE DEF rest, n
<1>5. \A i \in DOMAIN rest : i + 1 \in DOMAIN path /\ rest[i] = path[i + 1]
  BY <1>2, <1>3, <1>4
<1>6. IsPath(rest) BY <1>2, <1>3, <1>4, <1>5 DEF IsPath
<1> QED BY <1>5, <1>6 DEF rest

\* What a path is resolved to: pairs that the parsers have read, and behind image/ a
\* path of segments of the request, none of which climbs (router.rs:121-186).
LEMMA Resolved ==
  ASSUME NEW path, IsPath(path)
  PROVE  LET r == resolve(path)
         IN  /\ IsSequence(r.pairs) /\ \A k \in DOMAIN r.pairs : IsPair(r.pairs[k])
             /\ r.kind = "image" =>
                  /\ IsPath(r.image_path)
                  /\ \A i \in DOMAIN r.image_path : ~Climbs(r.image_path[i])
<1> DEFINE r == resolve(path)
           Pairs(ps) == IsSequence(ps) /\ \A k \in DOMAIN ps : IsPair(ps[k])
           Low(ip) == IsPath(ip) /\ \A i \in DOMAIN ip : ~Climbs(ip[i])
<1>1. Pairs(<<>>)
  <2>1. Len(<<>>) = 0 /\ <<>> = [i \in 1..0 |-> <<>>[i]] OBVIOUS
  <2> QED BY <2>1 DEF IsSequence
<1>2. \A k, ps, ip : /\ Route(k, ps, ip).kind = k /\ Route(k, ps, ip).pairs = ps
                     /\ Route(k, ps, ip).image_path = ip
  BY DEF Route
<1>3. \A ip : IsPath(ip) => Pairs(ip[1].pairs) /\ Len(ip) \in Nat /\ Len(ip) > 0
  <2> TAKE ip
  <2> HAVE IsPath(ip)
  <2>1. DOMAIN ip = 1..Len(ip) /\ Len(ip) \in Nat /\ Len(ip) > 0 BY SequenceDomain DEF IsPath
  <2>2. 1 \in DOMAIN ip BY <2>1
  <2> QED BY <2>1, <2>2 DEF IsPath
<1> HIDE DEF Pairs, Low
<1> DEFINE Right(x) == Pairs(x.pairs) /\ (x.kind = "image" => Low(x.image_path))
<1> SUFFICES Right(r) BY DEF Right, Pairs, Low
<1>4. Right(NotFound) BY <1>1, <1>2 DEF NotFound
<1>5. CASE ~sanitize_path(path) BY <1>4, <1>5 DEF resolve
<1>6. CASE sanitize_path(path) /\ Len(path) = 1 /\ path[1].name \in ServicePaths
  <2>1. r = Route(path[1].name, <<>>, <<>>) BY <1>6 DEF resolve
  <2>2. path[1].name # "image" BY <1>6 DEF ServicePaths
  <2> QED BY <1>1, <1>2, <2>1, <2>2
<1>7. CASE sanitize_path(path) /\ Len(path) > 1 /\ path[1].name = "image"
  <2> DEFINE rest == Tail(path)
  <2>1. \A i \in DOMAIN path : ~Climbs(path[i])
    BY <1>7 DEF sanitize_path, contains_traversal, contains_encoded_traversal, Climbs
  <2>2. IsPath(rest) /\ \A i \in DOMAIN rest : ~Climbs(rest[i]) BY <1>7, <2>1, TailIs
  <2>3. r = ResolveImage(rest)
    BY <1>7 DEF resolve, ServicePaths
  <2> HIDE DEF rest, r
  <2>4. CASE r = NotFound BY <1>4, <2>4
  <2>5. CASE r = Route("image", <<>>, rest) BY <1>1, <1>2, <2>2, <2>5 DEF Low
  <2>6. CASE r = Route("image", rest[1].pairs, Tail(rest)) /\ Len(rest) # 1
    <3>0. Len(rest) \in Nat /\ Len(rest) > 0 BY <2>2, SequenceDomain DEF IsPath
    <3> DEFINE n == Len(rest)
    <3>9. n \in Nat /\ n > 0 /\ n # 1 BY <3>0, <2>6
    <3> HIDE DEF n
    <3>8. n > 1 BY <3>9
    <3>1. Len(rest) > 1 BY <3>8 DEF n
    <3>2. Low(Tail(rest)) BY <2>2, <3>1, TailIs DEF Low
    <3> QED BY <1>2, <1>3, <2>2, <2>6, <3>2
  <2> QED BY <2>3, <2>4, <2>5, <2>6 DEF ResolveImage
<1>8. CASE r = NotFound BY <1>4, <1>8
<1> QED BY <1>5, <1>6, <1>7, <1>8 DEF resolve

\* The pairs of a request, and its options as parsed and as served, have their types.
LEMMA OptionsTyped ==
  ASSUME NEW q \in Request
  PROVE  /\ IsSequence(route(q).pairs) /\ \A k \in DOMAIN route(q).pairs : IsPair(route(q).pairs[k])
         /\ WellTyped(parsed(q).params) /\ WellTyped(options(q))
<1>1. IsPath(q.path) BY RequestAssumption
<1>2. IsSequence(route(q).pairs) /\ \A k \in DOMAIN route(q).pairs : IsPair(route(q).pairs[k])
  BY <1>1, Resolved DEF route
<1>3. WellTyped(parsed(q).params) BY <1>2, ParseTyped DEF parsed
<1>4. WellTyped(options(q)) BY <1>3, SlowTyped DEF options
<1> QED BY <1>2, <1>3, <1>4

-----------------------------------------------------------------------------
\* What the key says of an Accept header: the formats that it supports.
Supported(accept) == {f \in NEGOTIABLE_FORMATS : supports(accept, f)}

-----------------------------------------------------------------------------
\* The first supported format of a list depends on the supported formats only
\* (negotiate.rs:104-132).
LEMMA FirstSupportedAgrees ==
  ASSUME NEW a, NEW b, NEW order, NEW otherwise,
         Supported(a) = Supported(b),
         \A i \in 1..Len(order) : order[i] \in NEGOTIABLE_FORMATS
  PROVE  FirstSupported(a, order, otherwise) = FirstSupported(b, order, otherwise)
<1>1. \A i \in 1..Len(order) : supports(a, order[i]) <=> supports(b, order[i])
  <2> TAKE i \in 1..Len(order)
  <2>1. order[i] \in NEGOTIABLE_FORMATS
    OBVIOUS
  <2>2. order[i] \in Supported(a) <=> order[i] \in Supported(b)
    OBVIOUS
  <2> QED
    BY <2>1, <2>2 DEF Supported
<1> DEFINE Hits(accept) == {i \in 1..Len(order) : supports(accept, order[i])}
           First(hits) == IF hits = {} THEN otherwise
                          ELSE order[CHOOSE i \in hits : \A j \in hits : i <= j]
<1>2. Hits(a) = Hits(b)
  BY <1>1
<1>3. /\ FirstSupported(a, order, otherwise) = First(Hits(a))
      /\ FirstSupported(b, order, otherwise) = First(Hits(b))
  BY DEF FirstSupported
<1> HIDE DEF First, Hits
<1> QED
  BY <1>2, <1>3

\* Headers that support the same formats negotiate the same static format
\* (negotiate.rs:90-132).
LEMMA NegotiationAgrees ==
  ASSUME NEW a, NEW b, NEW alpha, NEW requested,
         ~Explicit(requested) => Supported(a) = Supported(b)
  PROVE  negotiate_format(a, alpha, requested) = negotiate_format(b, alpha, requested)
<1>1. CASE Explicit(requested)
  BY <1>1 DEF negotiate_format
<1>2. CASE ~Explicit(requested)
  <2> DEFINE clear == <<"avif", "webp", "png">>
             opaque == <<"avif", "webp", "jpeg", "png">>
  <2>1. \A i \in 1..Len(clear) : clear[i] \in NEGOTIABLE_FORMATS
    BY DEF NEGOTIABLE_FORMATS
  <2>2. \A i \in 1..Len(opaque) : opaque[i] \in NEGOTIABLE_FORMATS
    BY DEF NEGOTIABLE_FORMATS
  <2> HIDE DEF clear, opaque
  <2>3. FirstSupported(a, clear, "jpeg") = FirstSupported(b, clear, "jpeg")
    BY <1>2, <2>1, FirstSupportedAgrees
  <2>4. FirstSupported(a, opaque, "jpeg") = FirstSupported(b, opaque, "jpeg")
    BY <1>2, <2>2, FirstSupportedAgrees
  <2> QED
    BY <1>2, <2>3, <2>4 DEF negotiate_format, clear, opaque
<1> QED
  BY <1>1, <1>2

\* The same for the format of an animation (negotiate.rs:134-159).
LEMMA AnimatedNegotiationAgrees ==
  ASSUME NEW a, NEW b, NEW requested,
         ~Explicit(requested) => Supported(a) = Supported(b)
  PROVE  negotiate_animated_format(a, requested) = negotiate_animated_format(b, requested)
<1>1. CASE Explicit(requested)
  BY <1>1 DEF negotiate_animated_format
<1>2. CASE ~Explicit(requested)
  <2> DEFINE moving == <<"webp", "gif">>
  <2>1. \A i \in 1..Len(moving) : moving[i] \in NEGOTIABLE_FORMATS
    BY DEF NEGOTIABLE_FORMATS
  <2> HIDE DEF moving
  <2>2. FirstSupported(a, moving, None) = FirstSupported(b, moving, None)
    BY <1>2, <2>1, FirstSupportedAgrees
  <2> QED
    BY <1>2, <2>2 DEF negotiate_animated_format, moving
<1> QED
  BY <1>1, <1>2

\* A number without further decimals is told apart by its rounding
\* (params.rs:776-826, 859-879).
LEMMA RoundedExact ==
  ASSUME NEW unit \in {10, 100}, NEW v, NEW w, IsNumber(v), IsNumber(w),
         v # None => v % unit = 0, w # None => w % unit = 0,
         Rounded(v, unit) = Rounded(w, unit)
  PROVE  v = w
<1>1. \A x \in Int : Rounded(x, unit) \in Int /\ Rounded(x, unit) = (x + unit \div 2) \div unit
  BY NumberAssumption DEF Rounded
<1>2. \A x \in {None, NonFinite} : Rounded(x, unit) = x
  BY DEF Rounded
<1>3. CASE v \in {None, NonFinite} \/ w \in {None, NonFinite}
  BY <1>1, <1>2, <1>3, NumberAssumption DEF IsNumber
<1>4. CASE v \in Int /\ w \in Int
  <2>1. v % unit = 0 /\ w % unit = 0
    BY <1>4, NumberAssumption
  <2>2. CASE unit = 10
    BY <1>1, <1>4, <2>1, <2>2
  <2>3. CASE unit = 100
    BY <1>1, <1>4, <2>1, <2>3
  <2> QED
    BY <2>2, <2>3
<1> QED
  BY <1>3, <1>4 DEF IsNumber

\* Overlays with one key are one overlay (params.rs:855-898).
LEMMA OverlayKeyExact ==
  ASSUME NEW d, NEW e,
         IsRecord(d, DOMAIN NoOverlay), IsRecord(e, DOMAIN NoOverlay),
         \A f \in OverlayDecimals :
           /\ IsNumber(d[f]) /\ (d[f] # None => d[f] % 10 = 0)
           /\ IsNumber(e[f]) /\ (e[f] # None => e[f] % 10 = 0),
         OverlayKey(d) = OverlayKey(e)
  PROVE  d = e
<1>1. \A f \in DOMAIN NoOverlay : d[f] = e[f]
  <2> TAKE f \in DOMAIN NoOverlay
  <2>1. OverlayKey(d)[f] = OverlayKey(e)[f]
    OBVIOUS
  <2>2. CASE f \in OverlayDecimals
    <3>1. Rounded(d[f], 10) = Rounded(e[f], 10)
      BY <2>1, <2>2 DEF OverlayKey
    <3> QED
      BY <2>2, <3>1, RoundedExact
  <2>3. CASE f \notin OverlayDecimals
    BY <2>1, <2>3 DEF OverlayKey
  <2> QED
    BY <2>2, <2>3
<1> QED
  BY <1>1 DEF IsRecord

\* Options with one key agree in every field of the key (params.rs:755-902).
LEMMA KeyExact ==
  ASSUME NEW o, NEW u, WellTyped(o), WellTyped(u), Exact(o), Exact(u),
         to_cache_key(o) = to_cache_key(u), NEW f \in KeyField
  PROVE  o[f] = u[f]
<1>1. KeyPart(o, f) = KeyPart(u, f)
  <2>1. to_cache_key(o)[f] = to_cache_key(u)[f]
    OBVIOUS
  <2> QED
    BY <2>1 DEF to_cache_key
<1>2. CASE f \in OneDecimal
  <2>1. Rounded(o[f], 100) = Rounded(u[f], 100)
    BY <1>1, <1>2 DEF KeyPart
  <2> QED
    BY <1>2, <2>1, RoundedExact DEF WellTyped, Exact, IsNumber
<1>3. CASE f \in TwoDecimals
  <2>1. f \notin OneDecimal
    BY <1>3 DEF OneDecimal, TwoDecimals
  <2>2. Rounded(o[f], 10) = Rounded(u[f], 10)
    BY <1>1, <1>3, <2>1 DEF KeyPart
  <2> QED
    BY <1>3, <2>2, RoundedExact DEF WellTyped, Exact, IsNumber
<1>4. CASE f = "draw"
  <2>1. [i \in DOMAIN o.draw |-> OverlayKey(o.draw[i])]
          = [i \in DOMAIN u.draw |-> OverlayKey(u.draw[i])]
    BY <1>1, <1>4 DEF KeyPart, OneDecimal, TwoDecimals
  <2>2. DOMAIN o.draw = DOMAIN u.draw
    BY <2>1
  <2>3. \A i \in DOMAIN o.draw : o.draw[i] = u.draw[i]
    <3> TAKE i \in DOMAIN o.draw
    <3>1. OverlayKey(o.draw[i]) = OverlayKey(u.draw[i])
      BY <2>1, <2>2
    <3>2. /\ IsRecord(o.draw[i], DOMAIN NoOverlay)
          /\ IsRecord(u.draw[i], DOMAIN NoOverlay)
          /\ \A g \in OverlayDecimals : IsNumber(o.draw[i][g]) /\ IsNumber(u.draw[i][g])
      BY <2>2 DEF WellTyped, IsOverlay, IsNumber
    <3>3. \A g \in OverlayDecimals :
            /\ o.draw[i][g] # None => o.draw[i][g] % 10 = 0
            /\ u.draw[i][g] # None => u.draw[i][g] % 10 = 0
      BY <2>2 DEF Exact
    <3> QED
      BY <3>1, <3>2, <3>3, OverlayKeyExact
  <2>4. /\ o.draw = [i \in DOMAIN o.draw |-> o.draw[i]]
        /\ u.draw = [i \in DOMAIN u.draw |-> u.draw[i]]
    BY DEF WellTyped, IsSequence
  <2> QED
    BY <1>4, <2>2, <2>3, <2>4
<1>5. CASE f \notin OneDecimal \cup TwoDecimals /\ f # "draw"
  BY <1>1, <1>5 DEF KeyPart
<1> QED
  BY <1>2, <1>3, <1>4, <1>5

-----------------------------------------------------------------------------
\* Segments that agree name the same explicit format, or the same supported
\* formats.
LEMMA SegmentAgrees ==
  ASSUME NEW a, NEW b, NEW requested,
         cache_format_segment(a, requested) = cache_format_segment(b, requested),
         ~Explicit(requested)
  PROVE  Supported(a) = Supported(b)
<1>1. cache_format_segment(a, requested).supported
        = cache_format_segment(b, requested).supported
  OBVIOUS
<1> QED
  BY <1>1 DEF cache_format_segment, Supported

\* The fields that the decisions about the format read are in the key
\* (pipeline.rs:152-188, 621-650).
LEMMA DecidingFields ==
  /\ {"format", "width", "height", "dpr", "anim", "frame", "compression",
      "saturation", "background", "fit"} \subseteq KeyField
  /\ PixelField \subseteq KeyField
<1>1. {"format", "width", "height", "dpr", "anim", "frame", "compression",
         "saturation", "background", "fit"} \subseteq Field
  BY DEF Field, Default
<1> QED
  BY <1>1 DEF KeyField, PixelField, OmittedField

\* Two requests with one key have one render (INV-27).
LEMMA KeyDeterminesRender ==
  ASSUME KeyIsExact, NEW p \in Request, NEW q \in Request,
         refusal(p) = None, refusal(q) = None, cache_key(p) = cache_key(q)
  PROVE  render(p) = render(q)
<1> DEFINE o == options(p)
           u == options(q)
           s == Origin[route(p).image_path]
<1>1. /\ cache_key(p).path = cache_key(q).path
      /\ cache_key(p).transform = cache_key(q).transform
      /\ cache_key(p).format = cache_key(q).format
  OBVIOUS
<1>2. /\ Origin[route(q).image_path] = s
      /\ to_cache_key(o) = to_cache_key(u)
      /\ cache_format_segment(p.accept, o.format) = cache_format_segment(q.accept, u.format)
  BY <1>1 DEF cache_key
<1>3. WellTyped(o) /\ WellTyped(u) /\ Exact(o) /\ Exact(u)
  BY OptionsTyped DEF KeyIsExact
<1> HIDE DEF o, u, s
<1>4. \A f \in KeyField : o[f] = u[f]
  BY <1>2, <1>3, KeyExact
<1>5. /\ o.format = u.format /\ o.width = u.width /\ o.height = u.height
      /\ o.dpr = u.dpr /\ o.anim = u.anim /\ o.frame = u.frame
      /\ o.compression = u.compression /\ o.saturation = u.saturation
      /\ o.background = u.background /\ o.fit = u.fit
  BY <1>4, DecidingFields
<1>6. ~Explicit(o.format) => Supported(p.accept) = Supported(q.accept)
  BY <1>2, <1>5, SegmentAgrees
<1>7. \A alpha : negotiate_format(p.accept, alpha, o.format)
                   = negotiate_format(q.accept, alpha, u.format)
  BY <1>5, <1>6, NegotiationAgrees
<1>8. negotiate_animated_format(p.accept, o.format)
        = negotiate_animated_format(q.accept, u.format)
  BY <1>5, <1>6, AnimatedNegotiationAgrees
<1>9. animated_format(p.accept, o, s) = animated_format(q.accept, u, s)
  BY <1>5, <1>8 DEF animated_format, AsksStill
<1>10. static_format(p.accept, o.format, o, s) = static_format(q.accept, u.format, u, s)
  BY <1>5, <1>7 DEF static_format, CompressesFast, keeps_alpha
<1>11. output_format(p.accept, o, s) = output_format(q.accept, u, s)
  BY <1>9, <1>10 DEF output_format
<1>12. reported_format(p.accept, o, s) = reported_format(q.accept, u, s)
  BY <1>3 DEF reported_format, Exact
<1>13. /\ effective_width(o) = effective_width(u)
       /\ effective_height(o) = effective_height(u)
  BY <1>5 DEF effective_width, effective_height
<1>14. [f \in PixelField |-> o[f]] = [f \in PixelField |-> u[f]]
  BY <1>4, DecidingFields
<1>15. transform(p.accept, o, s) = transform(q.accept, u, s)
  BY <1>11, <1>12, <1>13, <1>14 DEF transform
<1> QED
  BY <1>2, <1>15 DEF render, o, u, s

-----------------------------------------------------------------------------
\* What a request is answered: a refusal, or the render of one with its key.
AnswersKey(q) ==
  IF refusal(q) # None THEN answer = Refused(refusal(q))
  ELSE \E p \in Request :
         refusal(p) = None /\ cache_key(p) = cache_key(q) /\ answer = Rendered(render(p))

\* The inductive invariant: every variant is the render of a request that was
\* served under its key, and so is the last answer.
IInv ==
  /\ clients \in Audience
  /\ \A v \in variants : \E p \in Request :
       refusal(p) = None /\ v.key = cache_key(p) /\ v.render = render(p)
  /\ IF asked = None THEN answer = Refused(None) ELSE asked \in Request /\ AnswersKey(asked)

\* The cache starts empty and unasked.
LEMMA InitIInv == Init => IInv
BY DEF Init, IInv

\* Every step keeps the variants right.
LEMMA IInvInductive == IInv /\ [Next]_vars => IInv'
<1> SUFFICES ASSUME IInv, [Next]_vars PROVE IInv'
  OBVIOUS
<1>1. ASSUME NEW q \in clients, Handle(q) PROVE IInv'
  <2>1. q \in Request /\ q # None
    BY RequestAssumption DEF IInv, Request
  <2>2. asked' = q /\ clients' = clients
    BY <1>1 DEF Handle
  <2>3. SUFFICES /\ IF refusal(q) # None THEN answer' = Refused(refusal(q))
                    ELSE \E p \in Request :
                           /\ refusal(p) = None /\ cache_key(p) = cache_key(q)
                           /\ answer' = Rendered(render(p))
                 /\ \A v \in variants' : \E p \in Request :
                      refusal(p) = None /\ v.key = cache_key(p) /\ v.render = render(p)
    BY <2>1, <2>2 DEF IInv, AnswersKey
  <2>4. CASE Refuse(q)
    BY <2>4 DEF Refuse, IInv
  <2>5. CASE Miss(q)
    <3> DEFINE new == [key |-> cache_key(q), render |-> render(q)]
    <3>1. new.key = cache_key(q) /\ new.render = render(q)
      OBVIOUS
    <3>2. /\ refusal(q) = None
          /\ variants' = variants \cup {new}
          /\ answer' = Rendered(render(q))
      BY <2>5 DEF Miss
    <3> HIDE DEF new
    <3> QED
      BY <2>1, <3>1, <3>2 DEF IInv
  <2>6. ASSUME NEW v \in variants, Hit(q, v)
        PROVE  /\ variants' = variants /\ refusal(q) = None
               /\ \E p \in Request :
                    /\ refusal(p) = None /\ cache_key(p) = cache_key(q)
                    /\ answer' = Rendered(render(p))
    <3>1. PICK p \in Request :
            refusal(p) = None /\ v.key = cache_key(p) /\ v.render = render(p)
      BY DEF IInv
    <3>2. refusal(q) = None /\ v.key = cache_key(q) /\ answer' = Rendered(v.render)
      BY <2>6 DEF Hit
    <3> QED
      BY <2>6, <3>1, <3>2 DEF Hit
  <2> QED
    BY <1>1, <2>4, <2>5, <2>6 DEF Handle, IInv
<1>2. ASSUME NEW v \in variants, Evict(v) PROVE IInv'
  BY <1>2 DEF Evict, IInv, AnswersKey
<1>3. CASE UNCHANGED vars
  BY <1>3 DEF vars, IInv, AnswersKey
<1> QED
  BY <1>1, <1>2, <1>3 DEF Next

\* The invariant holds throughout.
LEMMA IInvInvariant == Spec => []IInv
BY InitIInv, IInvInductive, PTL DEF Spec

\* Whoever asked first, a client is answered what it would have been without a
\* cache (server.rs:344-391, negotiate.rs:171-196, params.rs:749-902).
THEOREM CacheIsTransparent ==
  ASSUME KeyIsExact PROVE Spec => []AnswersAsIfUncached
<1>1. IInv => AnswersAsIfUncached
  BY KeyDeterminesRender DEF IInv, AnswersKey, AnswersAsIfUncached, Respond
<1> QED
  BY <1>1, IInvInvariant, PTL

-----------------------------------------------------------------------------
\* What holds of every answer holds of every render that shares a key with it.
LEMMA OfEveryRender ==
  ASSUME IInv, answer.render # None
  PROVE  /\ asked \in Request /\ refusal(asked) = None
         /\ \E p \in Request :
              /\ refusal(p) = None /\ cache_key(p) = cache_key(asked)
              /\ answer = [status |-> 200, render |-> render(p)]
<1>1. asked # None /\ refusal(asked) = None BY DEF IInv, AnswersKey, Refused
<1> QED BY <1>1 DEF IInv, AnswersKey, Rendered

\* Requests with one key have one path, format and choice of frames, and headers
\* that say the same where no format was asked for.
LEMMA OneKey ==
  ASSUME NEW p \in Request, NEW q \in Request, cache_key(p) = cache_key(q)
  PROVE  /\ route(p).image_path = route(q).image_path
         /\ \A f \in {"format", "anim", "frame"} : options(p)[f] = options(q)[f]
         /\ ~Explicit(options(q).format) => Supported(p.accept) = Supported(q.accept)
<1>1. /\ route(p).image_path = route(q).image_path
      /\ to_cache_key(options(p)) = to_cache_key(options(q))
      /\ cache_format_segment(p.accept, options(p).format)
           = cache_format_segment(q.accept, options(q).format)
  BY DEF cache_key
<1>2. \A f \in {"format", "anim", "frame"} : options(p)[f] = options(q)[f]
  <2> TAKE f \in {"format", "anim", "frame"}
  <2>1. f \in KeyField BY DecidingFields
  <2>2. KeyPart(options(p), f) = KeyPart(options(q), f)
    <3>1. to_cache_key(options(p))[f] = to_cache_key(options(q))[f] BY <1>1
    <3> QED BY <2>1, <3>1 DEF to_cache_key
  <2> QED BY <2>2 DEF KeyPart, OneDecimal, TwoDecimals
<1>3. options(p).format = options(q).format BY <1>2
<1> QED BY <1>1, <1>2, <1>3, SegmentAgrees

\* supports() is what it means for a header to admit a format.
LEMMA Supports ==
  ASSUME NEW accept, NEW f
  PROVE  supports(accept, f) <=> Admits(accept, f)
BY DEF supports, Admits, parse_accept_header

\* What a list of formats is searched for is one of them that is supported, if
\* there is one.
LEMMA FirstIsSupported ==
  ASSUME NEW accept, NEW order, NEW otherwise, Len(order) \in 0..4
  PROVE  LET f == FirstSupported(accept, order, otherwise)
         IN \/ \E i \in 1..Len(order) : f = order[i] /\ supports(accept, f)
            \/ f = otherwise /\ \A i \in 1..Len(order) : ~supports(accept, order[i])
<1> DEFINE hits == {i \in 1..Len(order) : supports(accept, order[i])}
<1>1. CASE hits = {}
  BY <1>1 DEF FirstSupported
<1>2. CASE hits # {}
  <2>1. hits \subseteq {1, 2, 3, 4}
    OBVIOUS
  <2>2. \E m \in hits : \A j \in hits : m <= j
    <3> HIDE DEF hits
    <3>1. CASE 1 \in hits BY <2>1, <3>1
    <3>2. CASE 1 \notin hits /\ 2 \in hits BY <2>1, <3>2
    <3>3. CASE 1 \notin hits /\ 2 \notin hits /\ 3 \in hits BY <2>1, <3>3
    <3>4. CASE hits = {4} BY <3>4
    <3> QED BY <1>2, <2>1, <3>1, <3>2, <3>3, <3>4
  <2> DEFINE first == CHOOSE m \in hits : \A j \in hits : m <= j
  <2>3. first \in hits
    <3> HIDE DEF hits
    <3> QED BY <2>2
  <2>4. FirstSupported(accept, order, otherwise) = order[first]
    BY <1>2 DEF FirstSupported
  <2> HIDE DEF first
  <2> QED BY <2>3, <2>4
<1> QED BY <1>1, <1>2

\* What is negotiated is supported, or JPEG.
LEMMA NegotiatedFormat ==
  ASSUME NEW accept, NEW alpha, NEW requested, ~Explicit(requested)
  PROVE  LET f == negotiate_format(accept, alpha, requested)
         IN f \in NEGOTIABLE_FORMATS /\ (supports(accept, f) \/ f = "jpeg")
<1> DEFINE clear == <<"avif", "webp", "png">>
           opaque == <<"avif", "webp", "jpeg", "png">>
<1>1. /\ Len(clear) \in 0..4 /\ \A i \in 1..Len(clear) : clear[i] \in NEGOTIABLE_FORMATS
      /\ Len(opaque) \in 0..4 /\ \A i \in 1..Len(opaque) : opaque[i] \in NEGOTIABLE_FORMATS
  BY DEF NEGOTIABLE_FORMATS
<1> HIDE DEF clear, opaque
<1>2. LET f == FirstSupported(accept, clear, "jpeg")
      IN f \in NEGOTIABLE_FORMATS /\ (supports(accept, f) \/ f = "jpeg")
  BY <1>1, FirstIsSupported DEF NEGOTIABLE_FORMATS
<1>3. LET f == FirstSupported(accept, opaque, "jpeg")
      IN f \in NEGOTIABLE_FORMATS /\ (supports(accept, f) \/ f = "jpeg")
  BY <1>1, FirstIsSupported DEF NEGOTIABLE_FORMATS
<1> QED BY <1>2, <1>3 DEF negotiate_format, clear, opaque

\* An animation is negotiated if the header supports a format for it.
LEMMA NegotiatedAnimation ==
  ASSUME NEW accept, NEW requested, ~Explicit(requested)
  PROVE  LET f == negotiate_animated_format(accept, requested)
         IN \/ f \in {"webp", "gif"} /\ supports(accept, f)
            \/ f = None /\ ~supports(accept, "webp") /\ ~supports(accept, "gif")
<1> DEFINE moving == <<"webp", "gif">>
<1>1. Len(moving) \in 0..4 /\ Len(moving) = 2 /\ moving[1] = "webp" /\ moving[2] = "gif"
  OBVIOUS
<1> HIDE DEF moving
<1>2. LET f == FirstSupported(accept, moving, None)
      IN \/ \E i \in 1..Len(moving) : f = moving[i] /\ supports(accept, f)
         \/ f = None /\ \A i \in 1..Len(moving) : ~supports(accept, moving[i])
  BY <1>1, FirstIsSupported
<1>3. 1 \in 1..Len(moving) /\ 2 \in 1..Len(moving)
        /\ \A i \in 1..Len(moving) : i = 1 \/ i = 2
  BY <1>1
<1>4. negotiate_animated_format(accept, requested) = FirstSupported(accept, moving, None)
  BY DEF negotiate_animated_format, moving
<1> QED BY <1>1, <1>2, <1>3, <1>4

\* The format of a render that was asked for none (pipeline.rs:178-188, 621-633).
LEMMA FormatOfRender ==
  ASSUME NEW accept, NEW o, NEW source, ~Explicit(o.format)
  PROVE  LET f == transform(accept, o, source).format
         IN /\ f \in NEGOTIABLE_FORMATS /\ (supports(accept, f) \/ f = "jpeg")
            /\ (source.animated /\ ~AsksStill(o)
                 /\ (supports(accept, "webp") \/ supports(accept, "gif")))
                => supports_animation(f)
<1> DEFINE animated == animated_format(accept, o, source)
           still == static_format(accept, o.format, o, source)
<1>1. still \in NEGOTIABLE_FORMATS /\ (supports(accept, still) \/ still = "jpeg")
  BY NegotiatedFormat DEF static_format, apply_compression_fast, NEGOTIABLE_FORMATS
<1>2. \/ animated \in {"webp", "gif"} /\ supports(accept, animated)
      \/ /\ animated = None
         /\ (source.animated /\ ~AsksStill(o))
              => ~supports(accept, "webp") /\ ~supports(accept, "gif")
  BY NegotiatedAnimation DEF animated_format
<1>3. transform(accept, o, source).format = IF animated # None THEN animated ELSE still
  BY DEF transform, output_format
<1>4. None \notin {"webp", "gif"} BY FormatAssumption
<1> HIDE DEF animated, still
<1> QED BY <1>1, <1>2, <1>3, <1>4 DEF NEGOTIABLE_FORMATS, supports_animation

\* INV-7: what a client that asked for no format gets is named by its Accept header
\* or covered by a wildcard, whoever asked first; JPEG is the last resort
\* (negotiate.rs:90-132, 198-213).
THEOREM AnswersNamed == Spec => []AnswersAcceptable
<1>1. ASSUME IInv, answer.render # None, ~Explicit(options(asked).format)
      PROVE  Admits(asked.accept, answer.render.format) \/ answer.render.format = "jpeg"
  <2>1. asked \in Request BY <1>1, OfEveryRender
  <2>2. PICK p \in Request :
          cache_key(p) = cache_key(asked) /\ answer.render = render(p)
    BY <1>1, OfEveryRender
  <2>3. /\ options(p).format = options(asked).format
        /\ Supported(p.accept) = Supported(asked.accept)
    BY <1>1, <2>1, <2>2, OneKey
  <2> DEFINE f == answer.render.format
  <2>4. f \in NEGOTIABLE_FORMATS /\ (supports(p.accept, f) \/ f = "jpeg")
    BY <1>1, <2>2, <2>3, FormatOfRender DEF render
  <2> HIDE DEF f
  <2>5. f = "jpeg" \/ f \in Supported(asked.accept) BY <2>3, <2>4 DEF Supported
  <2>6. f = "jpeg" \/ Admits(asked.accept, f) BY <2>5, Supports DEF Supported
  <2> QED BY <2>6 DEF f
<1>2. IInv => AnswersAcceptable BY <1>1 DEF AnswersAcceptable
<1> QED BY <1>2, IInvInvariant, PTL

\* An animation stays one for every client that takes an animated format and asked
\* for no still, whoever asked first (negotiate.rs:198-206, pipeline.rs:178-188).
THEOREM AnimationsStay == Spec => []AnimationKept
<1>1. ASSUME IInv, answer.render # None, Origin[route(asked).image_path].animated,
             ~AsksStill(options(asked)), ~Explicit(options(asked).format),
             \E f \in {"webp", "gif"} : Admits(asked.accept, f)
      PROVE  supports_animation(answer.render.format)
  <2>1. asked \in Request BY <1>1, OfEveryRender
  <2>2. PICK p \in Request :
          cache_key(p) = cache_key(asked) /\ answer.render = render(p)
    BY <1>1, OfEveryRender
  <2>3. /\ options(p).format = options(asked).format
        /\ options(p).anim = options(asked).anim /\ options(p).frame = options(asked).frame
        /\ route(p).image_path = route(asked).image_path
        /\ Supported(p.accept) = Supported(asked.accept)
    BY <1>1, <2>1, <2>2, OneKey
  <2>4. ~AsksStill(options(p)) BY <1>1, <2>3 DEF AsksStill
  <2>5. PICK f \in {"webp", "gif"} : supports(asked.accept, f) BY <1>1, Supports
  <2>6. supports(p.accept, f)
    <3>1. f \in Supported(asked.accept) BY <2>5 DEF Supported, NEGOTIABLE_FORMATS
    <3> QED BY <2>3, <3>1 DEF Supported
  <2> QED BY <1>1, <2>2, <2>3, <2>4, <2>5, <2>6, FormatOfRender DEF render
<1>2. IInv => AnimationKept BY <1>1 DEF AnimationKept
<1> QED BY <1>2, IInvInvariant, PTL

-----------------------------------------------------------------------------
\* A number within bounds is one of a range.
LEMMA Contained ==
  ASSUME NEW low \in Int, NEW high \in Int, NEW v, IsNumber(v), v # None,
         contains(low, high, v)
  PROVE  v # NonFinite /\ v \in low..high
BY DEF IsNumber, contains

\* A request that is not refused has parameters that pass validate(), and its options
\* differ from them in the quality only, which may be that for slow connections
\* (params.rs:596-607, server.rs:344-358).
LEMMA ServedOptions ==
  ASSUME NEW q \in Request, refusal(q) = None
  PROVE  /\ WellTyped(options(q)) /\ validate(parsed(q).params)
         /\ \A f \in Field \ {"quality"} : options(q)[f] = parsed(q).params[f]
         /\ \/ options(q).quality = parsed(q).params.quality
            \/ options(q).scq # None /\ options(q).quality = options(q).scq
<1> DEFINE p == parsed(q).params
           o == options(q)
<1>1. validate(p) BY NumberAssumption DEF refusal
<1>2. WellTyped(o) BY OptionsTyped
<1>3. o = p \/ (p.scq # None /\ o = [p EXCEPT !.quality = p.scq])
  BY DEF apply_scq_override, options
<1> HIDE DEF p, o
<1>4. o = [f \in Field |-> o[f]] BY <1>2 DEF WellTyped, IsRecord
<1>5. "quality" \in Field /\ "scq" \in Field BY DEF Field, Default
<1>6. CASE o = p
  BY <1>1, <1>2, <1>6 DEF p, o
<1>7. CASE p.scq # None /\ o = [p EXCEPT !.quality = p.scq]
  <2>1. o = [f \in DOMAIN p |-> IF f = "quality" THEN p.scq ELSE p[f]] BY <1>7
  <2>2. DOMAIN p = Field
    <3>1. DOMAIN o = DOMAIN p BY <2>1
    <3>2. DOMAIN o = Field BY <1>4
    <3> QED BY <3>1, <3>2
  <2>3. \A f \in Field \ {"quality"} : o[f] = p[f] BY <2>1, <2>2
  <2>4. o.quality = p.scq /\ o.scq = p.scq BY <1>5, <2>1, <2>2
  <2> QED BY <1>1, <1>2, <1>7, <2>3, <2>4 DEF p, o
<1> QED BY <1>3, <1>6, <1>7

\* The bounds that validate() tests hold of the options.
LEMMA Bounded ==
  ASSUME NEW q \in Request, refusal(q) = None, NEW f \in Field, NEW low \in Int, NEW high \in Int,
         <<f, low, high>> \in Bounds, IsNumber(options(q)[f]), f # "quality",
         options(q)[f] # None
  PROVE  options(q)[f] # NonFinite /\ options(q)[f] \in low..high
<1>1. options(q)[f] = parsed(q).params[f] /\ validate(parsed(q).params) BY ServedOptions
<1>2. contains(low, high, parsed(q).params[f])
  <2> DEFINE b == <<f, low, high>>
  <2>1. b \in Bounds /\ b[1] = f /\ b[2] = low /\ b[3] = high OBVIOUS
  <2> HIDE DEF b
  <2> QED BY <1>1, <2>1 DEF validate
<1> QED BY <1>1, <1>2, Contained

\* The sides that may be asked for, and the pixel ratios in thousandths.
Side == 1..8192
Ratio == 1000..5000

\* A side that is asked for, times the ratio, is a side of at least a pixel and at
\* most 8192 (params.rs:596-607).
LEMMA EffectiveSide ==
  ASSUME NEW side \in Side, NEW dpr \in Ratio
  PROVE  Effective(side, dpr) \in Side
<1> DEFINE m == side * dpr
<1>1. m \in Int /\ m >= 1000
  <2>1. \A a, b \in Nat : a * b \in Nat /\ (a + 1) * b = a * b + b
    OBVIOUS
  <2>2. PICK a \in Nat : side = a + 1
    BY DEF Side
  <2>3. dpr \in Nat /\ dpr >= 1000
    BY DEF Ratio
  <2>4. (a + 1) * dpr = a * dpr + dpr /\ a * dpr \in Nat
    BY <2>1, <2>3
  <2>5. m = a * dpr + dpr
    BY <2>2, <2>4
  <2> HIDE DEF m
  <2> DEFINE rest == a * dpr
  <2>6. rest \in Nat /\ m = rest + dpr
    BY <2>4, <2>5
  <2> HIDE DEF rest
  <2> QED
    BY <2>3, <2>6
<1> HIDE DEF m
<1>2. m \div 1000 \in Int /\ m \div 1000 >= 1
  BY <1>1
<1>3. side # None
  BY NumberAssumption DEF Side
<1>4. Effective(side, dpr) = Least(m \div 1000, 8192)
  BY <1>3 DEF Effective, m
<1> DEFINE k == m \div 1000
<1>5. k \in Int /\ k >= 1 /\ Effective(side, dpr) = Least(k, 8192)
  BY <1>2, <1>4
<1> HIDE DEF k
<1> DEFINE least == Least(k, 8192)
<1>6. least \in Int /\ 1 <= least /\ least <= 8192
  BY <1>5 DEF Least
<1>7. Effective(side, dpr) = least BY <1>5
<1> HIDE DEF least
<1>8. least \in Side BY <1>6 DEF Side
<1> QED BY <1>7, <1>8

\* What is safe to ask for: no side, or one in range.
LEMMA SideIsSafe == \A side : SafeSide(side) <=> (side = None \/ side \in Side)
BY DEF SafeSide, Side

\* The same where no side was asked for.
LEMMA EffectiveSafe ==
  ASSUME NEW side, SafeSide(side), NEW dpr \in Ratio
  PROVE  SafeSide(Effective(side, dpr))
<1>1. CASE side = None
  <2>1. Effective(side, dpr) = None BY <1>1 DEF Effective
  <2> QED BY <2>1, SideIsSafe
<1>2. CASE side \in Side
  <2>1. Effective(side, dpr) \in Side BY <1>2, EffectiveSide
  <2> QED BY <2>1, SideIsSafe
<1> QED BY <1>1, <1>2, SideIsSafe

\* A number in the range of sides is a safe one.
LEMMA InRangeIsSafe ==
  ASSUME NEW o, NEW f, NEW low, NEW high, low..high = Side, InRange(o, f, low, high)
  PROVE  SafeSide(o[f])
BY SideIsSafe, Zenon DEF InRange

\* The sides that libvips is asked for.
SafeSides(o) ==
  \A side \in {effective_width(o), effective_height(o)} : SafeSide(side)

\* The numbers of a request that is not refused are in range.
LEMMA SafeOptions ==
  ASSUME NEW q \in Request, refusal(q) = None
  PROVE  SafeSides(options(q)) /\ SafeNumbers(options(q))
<1> DEFINE o == options(q)
           p == parsed(q).params
<1>1. /\ WellTyped(o) /\ validate(p) /\ \A f \in Field \ {"quality"} : o[f] = p[f]
      /\ o.quality = p.quality \/ (o.scq # None /\ o.quality = o.scq)
  BY ServedOptions
<1>2. \A f \in OneDecimal \cup TwoDecimals \cup WholeNumber : IsNumber(o[f])
  BY <1>1 DEF WellTyped, IsNumber
<1>3. o.dpr # None BY <1>1 DEF WellTyped
<1> HIDE DEF o, p
<1>4. ASSUME NEW f \in Field, NEW low \in Int, NEW high \in Int, <<f, low, high>> \in Bounds,
             f \in OneDecimal \cup TwoDecimals \cup WholeNumber, f # "quality"
      PROVE  InRange(o, f, low, high)
  BY <1>2, <1>4, Bounded DEF o, InRange
<1>5. /\ InRange(o, "dpr", 1000, 5000)
      /\ InRange(o, "blur", 100, 250000)
      /\ InRange(o, "gamma", 100, 10000)
      /\ InRange(o, "sharpen", 0, 10000)
      /\ InRange(o, "trim", 1000, 100000)
      /\ InRange(o, "frame", 0, 999)
      /\ InRange(o, "scq", 1, 100)
      /\ InRange(o, "width", 1, 8192)
      /\ InRange(o, "height", 1, 8192)
      /\ InRange(o, "brightness", 0, 2000)
      /\ InRange(o, "contrast", 0, 2000)
      /\ InRange(o, "saturation", 0, 2000)
  <2>1. InRange(o, "dpr", 1000, 5000)
    <3>1. <<"dpr", 1000, 5000>> \in Bounds BY DEF Bounds
    <3>2. "dpr" \in Field BY DEF Field, Default
    <3>3. "dpr" \in OneDecimal \cup TwoDecimals \cup WholeNumber
      BY DEF OneDecimal, TwoDecimals, WholeNumber
    <3> QED BY <1>4, <3>1, <3>2, <3>3
  <2>2. InRange(o, "blur", 100, 250000)
    <3>1. <<"blur", 100, 250000>> \in Bounds BY DEF Bounds
    <3>2. "blur" \in Field BY DEF Field, Default
    <3>3. "blur" \in OneDecimal \cup TwoDecimals \cup WholeNumber
      BY DEF OneDecimal, TwoDecimals, WholeNumber
    <3> QED BY <1>4, <3>1, <3>2, <3>3
  <2>3. InRange(o, "gamma", 100, 10000)
    <3>1. <<"gamma", 100, 10000>> \in Bounds BY DEF Bounds
    <3>2. "gamma" \in Field BY DEF Field, Default
    <3>3. "gamma" \in OneDecimal \cup TwoDecimals \cup WholeNumber
      BY DEF OneDecimal, TwoDecimals, WholeNumber
    <3> QED BY <1>4, <3>1, <3>2, <3>3
  <2>4. InRange(o, "sharpen", 0, 10000)
    <3>1. <<"sharpen", 0, 10000>> \in Bounds BY DEF Bounds
    <3>2. "sharpen" \in Field BY DEF Field, Default
    <3>3. "sharpen" \in OneDecimal \cup TwoDecimals \cup WholeNumber
      BY DEF OneDecimal, TwoDecimals, WholeNumber
    <3> QED BY <1>4, <3>1, <3>2, <3>3
  <2>5. InRange(o, "trim", 1000, 100000)
    <3>1. <<"trim", 1000, 100000>> \in Bounds BY DEF Bounds
    <3>2. "trim" \in Field BY DEF Field, Default
    <3>3. "trim" \in OneDecimal \cup TwoDecimals \cup WholeNumber
      BY DEF OneDecimal, TwoDecimals, WholeNumber
    <3> QED BY <1>4, <3>1, <3>2, <3>3
  <2>6. InRange(o, "frame", 0, 999)
    <3>1. <<"frame", 0, 999>> \in Bounds BY DEF Bounds
    <3>2. "frame" \in Field BY DEF Field, Default
    <3>3. "frame" \in OneDecimal \cup TwoDecimals \cup WholeNumber
      BY DEF OneDecimal, TwoDecimals, WholeNumber
    <3> QED BY <1>4, <3>1, <3>2, <3>3
  <2>7. InRange(o, "scq", 1, 100)
    <3>1. <<"scq", 1, 100>> \in Bounds BY DEF Bounds
    <3>2. "scq" \in Field BY DEF Field, Default
    <3>3. "scq" \in OneDecimal \cup TwoDecimals \cup WholeNumber
      BY DEF OneDecimal, TwoDecimals, WholeNumber
    <3> QED BY <1>4, <3>1, <3>2, <3>3
  <2>8. InRange(o, "width", 1, 8192)
    <3>1. <<"width", 1, 8192>> \in Bounds BY DEF Bounds
    <3>2. "width" \in Field BY DEF Field, Default
    <3>3. "width" \in OneDecimal \cup TwoDecimals \cup WholeNumber
      BY DEF OneDecimal, TwoDecimals, WholeNumber
    <3> QED BY <1>4, <3>1, <3>2, <3>3
  <2>9. InRange(o, "height", 1, 8192)
    <3>1. <<"height", 1, 8192>> \in Bounds BY DEF Bounds
    <3>2. "height" \in Field BY DEF Field, Default
    <3>3. "height" \in OneDecimal \cup TwoDecimals \cup WholeNumber
      BY DEF OneDecimal, TwoDecimals, WholeNumber
    <3> QED BY <1>4, <3>1, <3>2, <3>3
  <2>10. InRange(o, "brightness", 0, 2000)
    <3>1. <<"brightness", 0, 2000>> \in Bounds BY DEF Bounds
    <3>2. "brightness" \in Field BY DEF Field, Default
    <3>3. "brightness" \in OneDecimal \cup TwoDecimals \cup WholeNumber
      BY DEF OneDecimal, TwoDecimals, WholeNumber
    <3> QED BY <1>4, <3>1, <3>2, <3>3
  <2>11. InRange(o, "contrast", 0, 2000)
    <3>1. <<"contrast", 0, 2000>> \in Bounds BY DEF Bounds
    <3>2. "contrast" \in Field BY DEF Field, Default
    <3>3. "contrast" \in OneDecimal \cup TwoDecimals \cup WholeNumber
      BY DEF OneDecimal, TwoDecimals, WholeNumber
    <3> QED BY <1>4, <3>1, <3>2, <3>3
  <2>12. InRange(o, "saturation", 0, 2000)
    <3>1. <<"saturation", 0, 2000>> \in Bounds BY DEF Bounds
    <3>2. "saturation" \in Field BY DEF Field, Default
    <3>3. "saturation" \in OneDecimal \cup TwoDecimals \cup WholeNumber
      BY DEF OneDecimal, TwoDecimals, WholeNumber
    <3> QED BY <1>4, <3>1, <3>2, <3>3
  <2> QED BY <2>1, <2>2, <2>3, <2>4, <2>5, <2>6, <2>7, <2>8, <2>9, <2>10, <2>11, <2>12
<1>6. InRange(o, "quality", 1, 100)
  <2>1. CASE o.quality = p.quality
    <3>1. <<"quality", 1, 100>> \in Bounds BY DEF Bounds
    <3>2. p.quality # None => contains(1, 100, p.quality) BY <1>1, <3>1 DEF validate
    <3>3. IsNumber(o.quality) BY <1>2 DEF WholeNumber
    <3> QED BY <2>1, <3>2, <3>3, Contained DEF InRange
  <2>2. CASE o.scq # None /\ o.quality = o.scq
    <3>1. InRange(o, "scq", 1, 100) BY <1>5
    <3> QED BY <2>2, <3>1 DEF InRange
  <2> QED BY <1>1, <2>1, <2>2
<1>7. SafeSides(o)
  <2>1. o.dpr \in Ratio
    <3>1. InRange(o, "dpr", 1000, 5000) BY <1>5
    <3> DEFINE low == 1000
               high == 5000
    <3>2. low..high = Ratio BY DEF Ratio
    <3>3. InRange(o, "dpr", low, high) BY <3>1
    <3> HIDE DEF low, high, o
    <3> QED BY <1>3, <3>2, <3>3 DEF InRange
  <2>2. InRange(o, "width", 1, 8192) /\ InRange(o, "height", 1, 8192) BY <1>5
  <2>3. SafeSide(o.width) /\ SafeSide(o.height)
    <3> DEFINE low == 1
               high == 8192
    <3>1. low..high = Side BY DEF Side
    <3>2. InRange(o, "width", low, high) /\ InRange(o, "height", low, high) BY <2>2
    <3> HIDE DEF low, high, o
    <3> QED BY <3>1, <3>2, InRangeIsSafe
  <2> QED BY <2>1, <2>3, EffectiveSafe, SMTT(60) DEF SafeSides, effective_width, effective_height
<1>8. \A f \in SideTrims : o[f] # NonFinite /\ ~Negative(o[f])
  <2> TAKE f \in SideTrims
  <2>1. f \in Field \ {"quality"} BY DEF SideTrims, Field, Default
  <2>2. ~Negative(p[f]) BY <1>1 DEF validate, SideTrims
  <2>3. o[f] # NonFinite
    <3>1. f \in OneDecimal BY DEF SideTrims, OneDecimal
    <3>2. o[f] \in Int \cup {None} BY <1>1, <3>1 DEF WellTyped
    <3> QED BY <3>2, NumberAssumption
  <2> QED BY <1>1, <2>1, <2>2, <2>3
<1>9. \A f \in {"brightness", "contrast", "saturation"} : InRange(o, f, 0, 2000)
  BY <1>5
<1>10. SafeNumbers(o) BY <1>5, <1>6, <1>8, <1>9 DEF SafeNumbers
<1> QED BY <1>7, <1>10 DEF o

\* Numbers are safe wherever they are.
LEMMA SafeCopies ==
  ASSUME NEW o, NEW x, SafeNumbers(o), \A f \in PixelField : x[f] = o[f]
  PROVE  SafeNumbers(x)
<1>1. ASSUME NEW f \in PixelField, NEW low, NEW high, InRange(o, f, low, high)
      PROVE  InRange(x, f, low, high)
  BY <1>1 DEF InRange
<1>2. {"quality", "dpr", "blur", "gamma", "sharpen", "trim", "frame", "brightness", "contrast",
       "saturation"} \cup SideTrims \subseteq PixelField
  BY DEF PixelField, Field, Default, SideTrims
<1>3. InRange(x, "quality", 1, 100) /\ InRange(x, "dpr", 1000, 5000)
  BY <1>1, <1>2 DEF SafeNumbers
<1>4. InRange(x, "blur", 100, 250000) /\ InRange(x, "gamma", 100, 10000)
  BY <1>1, <1>2 DEF SafeNumbers
<1>5. InRange(x, "sharpen", 0, 10000) /\ InRange(x, "trim", 1000, 100000)
  BY <1>1, <1>2 DEF SafeNumbers
<1>6. InRange(x, "frame", 0, 999)
  BY <1>1, <1>2 DEF SafeNumbers
<1>7. \A f \in {"brightness", "contrast", "saturation"} : InRange(x, f, 0, 2000)
  BY <1>1, <1>2 DEF SafeNumbers
<1>8. \A f \in SideTrims : x[f] # NonFinite /\ ~Negative(x[f])
  BY <1>2 DEF SafeNumbers
<1> QED BY <1>3, <1>4, <1>5, <1>6, <1>7, <1>8 DEF SafeNumbers

\* INV-6: whatever was asked, whoever asked first and with whatever hints, libvips gets
\* numbers in its ranges only, and no side over 8192, the pixel ratio included. That
\* no trimmed side is nan rests on the parser, since validate() lets nan pass there
\* (params.rs:596-607, 612-741, 1033-1040).
THEOREM ValuesSafe == Spec => []OnlySafeValues
<1>1. ASSUME IInv, answer.render # None PROVE OnlySafeValues
  <2>1. PICK p \in Request : refusal(p) = None /\ answer.render = render(p)
    BY <1>1, OfEveryRender
  <2> DEFINE o == options(p)
             r == answer.render
  <2>2. SafeSides(o) /\ SafeNumbers(o) BY <2>1, SafeOptions
  <2>3. r = transform(p.accept, o, Origin[route(p).image_path])
    BY <2>1 DEF render
  <2> HIDE DEF o, r
  <2>4. /\ r.width = effective_width(o) /\ r.height = effective_height(o)
        /\ r.pixels = [f \in PixelField |-> o[f]]
    BY <2>3 DEF transform
  <2>5. SafeNumbers(r.pixels) BY <2>2, <2>4, SafeCopies
  <2>6. \A side \in {r.width, r.height} : SafeSide(side)
    BY <2>2, <2>4 DEF SafeSides
  <2> QED BY <2>5, <2>6 DEF OnlySafeValues, r
<1>2. IInv => OnlySafeValues BY <1>1 DEF OnlySafeValues
<1> QED BY <1>2, IInvInvariant, PTL

-----------------------------------------------------------------------------
\* The format of every render is one that can be encoded (negotiate.rs:198-213).
LEMMA RenderTyped ==
  ASSUME NEW q \in Request
  PROVE  IsRender(render(q))
<1> DEFINE o == options(q)
           s == Origin[route(q).image_path]
           Encoded == OutputFormat \ {"auto"}
<1>1. o.format \in OutputFormat \cup {None}
  <2>1. <<"format", FormatWords>> \in WordTables BY DEF WordTables
  <2>2. o.format \in Meanings(FormatWords) \cup {None} BY <2>1, OptionsTyped DEF WellTyped
  <2>3. Meanings(FormatWords) \subseteq OutputFormat
    BY DEF Meanings, FormatWords, OutputFormat, NEGOTIABLE_FORMATS
  <2> QED BY <2>2, <2>3
<1> HIDE DEF o, s
<1>2. ASSUME NEW alpha, NEW requested \in OutputFormat \cup {None}
      PROVE  negotiate_format(q.accept, alpha, requested) \in Encoded
  <2>1. CASE Explicit(requested)
    BY <2>1 DEF negotiate_format, Explicit
  <2>2. CASE ~Explicit(requested)
    BY <2>2, NegotiatedFormat DEF NEGOTIABLE_FORMATS, OutputFormat
  <2> QED BY <2>1, <2>2
<1>3. \A requested \in OutputFormat \cup {None} :
        static_format(q.accept, requested, o, s) \in Encoded
  BY <1>2 DEF static_format, apply_compression_fast, OutputFormat, NEGOTIABLE_FORMATS
<1>4. animated_format(q.accept, o, s) \in Encoded \cup {None}
  <2>1. CASE Explicit(o.format)
    BY <1>1, <2>1 DEF animated_format, negotiate_animated_format, Explicit
  <2>2. CASE ~Explicit(o.format)
    BY <2>2, NegotiatedAnimation DEF animated_format, NEGOTIABLE_FORMATS, OutputFormat
  <2> QED BY <2>1, <2>2
<1>5. output_format(q.accept, o, s) \in Encoded
  BY <1>1, <1>3, <1>4 DEF output_format
<1>6. reported_format(q.accept, o, s) \in OutputFormat \cup {None}
  BY <1>3 DEF reported_format
<1> HIDE DEF Encoded
<1> DEFINE r == transform(q.accept, o, s)
<1>7. /\ r.format = output_format(q.accept, o, s)
      /\ r.reported = reported_format(q.accept, o, s)
      /\ r.pixels = [f \in PixelField |-> o[f]]
      /\ DOMAIN r = {"format", "reported", "width", "height", "pixels"}
  BY DEF transform
<1> HIDE DEF r
<1>8. DOMAIN r.pixels = PixelField BY <1>7
<1>9. IsRender(r) BY <1>5, <1>6, <1>7, <1>8 DEF IsRender, Encoded
<1> QED BY <1>9 DEF r, o, s, render

\* Every variant and every answer is a render of a format that can be encoded.
THEOREM TypeCorrect == Spec => []TypeOK
<1>1. ASSUME IInv PROVE TypeOK
  <2>1. clients \in Audience /\ asked \in Request \cup {None} BY <1>1 DEF IInv
  <2>2. \A v \in variants : IsRender(v.render) BY <1>1, RenderTyped DEF IInv
  <2>3. answer.render # None => IsRender(answer.render)
    BY <1>1, OfEveryRender, RenderTyped
  <2>4. answer.status \in {None, 200, 400, 403, 404, 422}
    <3>1. CASE asked = None BY <1>1, <3>1 DEF IInv, Refused
    <3>2. CASE asked # None /\ refusal(asked) = None
      <4>1. PICK p \in Request : answer = Rendered(render(p))
        BY <1>1, <3>2 DEF IInv, AnswersKey
      <4> QED BY <4>1 DEF Rendered
    <3>3. CASE asked # None /\ refusal(asked) # None
      <4>1. answer.status = refusal(asked) BY <1>1, <3>3 DEF IInv, AnswersKey, Refused
      <4>2. refusal(asked) \in {None, 200, 400, 403, 404, 422} BY DEF refusal
      <4> QED BY <4>1, <4>2
    <3> QED BY <3>1, <3>2, <3>3
  <2> QED BY <2>1, <2>2, <2>3, <2>4 DEF TypeOK
<1> QED BY <1>1, IInvInvariant, PTL

-----------------------------------------------------------------------------
\* INV-1: the order of the pairs of a segment does not matter where no two of them set
\* the same field, overlays that appear before those with a lower index included
\* (params.rs:904-1003, 1045-1080).
THEOREM AnyOrder == Spec => []OrderIrrelevant
<1>1. ASSUME IInv, asked # None PROVE OrderIrrelevant
  <2> DEFINE pairs == route(asked).pairs
  <2>1. asked \in Request BY <1>1 DEF IInv
  <2>2. IsSequence(pairs) /\ \A k \in DOMAIN pairs : IsPair(pairs[k]) BY <2>1, OptionsTyped
  <2> HIDE DEF pairs
  <2>3. ASSUME NEW i \in 1..(Len(pairs) - 1), Target(pairs[i]) # Target(pairs[i + 1])
        PROVE  LET here == parse(pairs)
                   there == parse(Swapped(pairs, i))
               IN  /\ (there.error = None) = (here.error = None)
                   /\ here.error = None => to_cache_key(there.params) = to_cache_key(here.params)
    BY <2>2, <2>3, SwapParses
  <2> QED BY <2>3 DEF OrderIrrelevant, pairs
<1>2. IInv => OrderIrrelevant BY <1>1 DEF OrderIrrelevant
<1> QED BY <1>2, IInvInvariant, PTL

\* INV-4: no variant was rendered from a path with a segment that climbs, plain or
\* encoded (router.rs:121-141, 158-186).
THEOREM UnderTheRoot == Spec => []VariantsUnderTheRoot
<1>1. ASSUME IInv, NEW v \in variants
      PROVE  \A i \in DOMAIN v.key.path : ~Climbs(v.key.path[i])
  <2> DEFINE path == v.key.path
  <2>1. PICK p \in Request : refusal(p) = None /\ v.key = cache_key(p) BY <1>1 DEF IInv
  <2>2. route(p).kind = "image" BY <2>1, NumberAssumption DEF refusal
  <2>3. path = route(p).image_path BY <2>1 DEF cache_key
  <2> HIDE DEF path
  <2>4. \A i \in DOMAIN path : ~Climbs(path[i])
    BY <2>2, <2>3, RequestAssumption, Resolved DEF route
  <2> QED BY <2>4 DEF path
<1>2. IInv => VariantsUnderTheRoot BY <1>1 DEF VariantsUnderTheRoot
<1> QED BY <1>2, IInvInvariant, PTL
=============================================================================
