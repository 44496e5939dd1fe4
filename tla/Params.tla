-------------------------------- MODULE Params -------------------------------
(***************************************************************************)
(* The options of a request: crates/imgx/src/transform/params.rs, from the *)
(* text of the options segment to the cache key.                           *)
(*                                                                         *)
(* An f32 is an integer in thousandths.  The text of a value is the record *)
(* of what each of the parsers of the module makes of it: a word, a u32, an*)
(* f32 (NonFinite for nan and inf), a colour; None where one fails.        *)
(***************************************************************************)
EXTENDS Integers, Sequences

CONSTANTS
  None,        \* an option that is not set, a parser that fails
  NonFinite    \* the f32 values nan, inf and -inf

ASSUME NumberAssumption == None \notin Int /\ NonFinite \notin Int /\ NonFinite # None

Least(a, b) == IF a <= b THEN a ELSE b

-----------------------------------------------------------------------------
\* The words of each option with a closed set of values, and their meanings.

FormatWords ==
  {<<f, f>> : f \in {"jpeg", "png", "webp", "avif", "gif", "baseline-jpeg",
                     "json", "thumbhash", "auto"}} \cup {<<"jpg", "jpeg">>}

RotationWords == {<<r, r>> : r \in {"0", "90", "180", "270"}}

FlipWords == {<<"h", "h">>, <<"v", "v">>, <<"hv", "hv">>, <<"vh", "hv">>}

MetadataWords == {<<"strip", "strip">>, <<"none", "strip">>, <<"keep", "keep">>,
                  <<"all", "keep">>, <<"copyright", "copyright">>}

OnErrorWords == {<<"redirect", "redirect">>}

CompressionWords == {<<"fast", "fast">>}

DrawRepeatWords == {<<"true", "both">>, <<"x", "x">>, <<"y", "y">>}

AnimWords == {<<"auto", "auto">>, <<"true", "auto">>, <<"static", "static">>,
              <<"false", "static">>, <<"animate", "animate">>}

\* Cloudflare's squeeze, scale-up and scale-down become fits of the same sizes.
FitWords ==
  {<<f, f>> : f \in {"contain", "cover", "fill", "inside", "outside", "pad",
                     "crop", "aspect-crop"}}
    \cup {<<"squeeze", "fill">>, <<"scale-up", "outside">>, <<"scale-down", "contain">>}

GravityWords ==
  LET Names(g, words) == {<<w, g>> : w \in words \cup {g}}
  IN UNION {Names("center", {"centre"}),
            Names("north", {"n", "top"}), Names("south", {"s", "bottom"}),
            Names("east", {"e", "right"}), Names("west", {"w", "left"}),
            Names("northeast", {"ne"}), Names("northwest", {"nw"}),
            Names("southeast", {"se"}), Names("southwest", {"sw"}),
            Names("smart", {"auto"}), Names("attention", {"att"})}

QualityWords == {<<"high", 90>>, <<"medium-high", 80>>, <<"medium-low", 60>>, <<"low", 40>>}

Meanings(table) == {entry[2] : entry \in table}

\* What a table says of a word, or None.
Meaning(table, word) ==
  IF \E entry \in table : entry[1] = word
  THEN (CHOOSE entry \in table : entry[1] = word)[2]
  ELSE None

-----------------------------------------------------------------------------
\* One parser per kind of value. A quality is one of four words or a u8.
parse_u32(text) == text.u32

\* Mutant of parse_f32: nan and inf are numbers, too.
AcceptsNonFinite(text) == text.f32

parse_f32(text) == IF text.f32 = NonFinite THEN None ELSE text.f32

parse_hex_color(text) == text.color

parse_quality(text) ==
  IF Meaning(QualityWords, text.word) # None THEN Meaning(QualityWords, text.word)
  ELSE IF text.u32 # None /\ text.u32 <= 255 THEN text.u32 ELSE None

\* What the parser of a field makes of a text.
ValueOf(field, text) ==
  CASE field \in {"width", "height", "frame", "border_width", "border_top",
                  "border_right", "border_bottom", "border_left"} -> parse_u32(text)
    [] field \in {"quality", "scq"} -> parse_quality(text)
    [] field \in {"sharpen", "blur", "dpr", "brightness", "contrast", "saturation",
                  "gamma", "trim", "trim_top", "trim_right", "trim_bottom",
                  "trim_left"} -> parse_f32(text)
    [] field \in {"background", "border_color"} -> parse_hex_color(text)
    [] field = "format" -> Meaning(FormatWords, text.word)
    [] field = "fit" -> Meaning(FitWords, text.word)
    [] field = "gravity" -> Meaning(GravityWords, text.word)
    [] field = "rotate" -> Meaning(RotationWords, text.word)
    [] field = "flip" -> Meaning(FlipWords, text.word)
    [] field = "metadata" -> Meaning(MetadataWords, text.word)
    [] field = "anim" -> Meaning(AnimWords, text.word)
    [] field = "onerror" -> Meaning(OnErrorWords, text.word)
    [] field = "compression" -> Meaning(CompressionWords, text.word)

\* The keys of an options segment and the fields that they set.
OptionKeys ==
  {<<"w", "width">>, <<"width", "width">>, <<"h", "height">>, <<"height", "height">>,
   <<"q", "quality">>, <<"quality", "quality">>,
   <<"format", "format">>, <<"fmt", "format">>, <<"f", "format">>,
   <<"fit", "fit">>, <<"gravity", "gravity">>, <<"g", "gravity">>,
   <<"bg", "background">>, <<"background", "background">>,
   <<"trim.top", "trim_top">>, <<"trim.right", "trim_right">>,
   <<"trim.bottom", "trim_bottom">>, <<"trim.left", "trim_left">>,
   <<"scq", "scq">>, <<"slow-connection-quality", "scq">>,
   <<"border", "border_width">>, <<"border.color", "border_color">>,
   <<"border.top", "border_top">>, <<"border.right", "border_right">>,
   <<"border.bottom", "border_bottom">>, <<"border.left", "border_left">>}
  \cup {<<f, f>> : f \in {"sharpen", "blur", "dpr", "rotate", "flip", "brightness",
                          "contrast", "saturation", "gamma", "metadata", "trim",
                          "anim", "frame", "onerror", "compression"}}

-----------------------------------------------------------------------------
NoOverlay ==
  [url |-> None, width |-> None, height |-> None, top |-> None, left |-> None,
   bottom |-> None, right |-> None, opacity |-> None, repeat |-> None,
   background |-> None, rotate |-> None, fit |-> None, gravity |-> None]

\* The options of an empty segment.
Default ==
  [width |-> None, height |-> None, quality |-> 80, format |-> None,
   fit |-> "contain", gravity |-> "center", sharpen |-> None, blur |-> None,
   dpr |-> 1000, rotate |-> None, flip |-> None, brightness |-> None,
   contrast |-> None, saturation |-> None, gamma |-> None, background |-> None,
   metadata |-> "strip", trim |-> None, anim |-> "auto", frame |-> None,
   trim_top |-> None, trim_right |-> None, trim_bottom |-> None,
   trim_left |-> None, onerror |-> None, compression |-> None, scq |-> None,
   border_width |-> None, border_color |-> None, border_top |-> None,
   border_right |-> None, border_bottom |-> None, border_left |-> None,
   draw |-> <<>>]

Field == DOMAIN Default

MAX_OVERLAYS == 64

\* What the parser of an overlay's field makes of a text.
OverlayValueOf(field, text) ==
  CASE field = "url" -> text.word
    [] field \in {"width", "height", "top", "left", "bottom", "right", "opacity"} ->
         parse_f32(text)
    [] field = "repeat" -> Meaning(DrawRepeatWords, text.word)
    [] field = "background" -> parse_hex_color(text)
    [] field = "rotate" -> Meaning(RotationWords, text.word)
    [] field = "fit" -> Meaning(FitWords, text.word)
    [] field = "gravity" -> Meaning(GravityWords, text.word)

\* Mutant of Grown: a new overlay goes to the end, whatever its index.
GrownByOne(draw, idx) == Append(draw, NoOverlay)

\* The overlays, with empty ones added until there is one at idx.
Grown(draw, idx) ==
  IF Len(draw) > idx THEN draw
  ELSE [i \in 1..(idx + 1) |-> IF i <= Len(draw) THEN draw[i] ELSE NoOverlay]

ParseError == {"InvalidParameter", "EmptyValue", "InvalidValue", "InvalidDraw"}

ASSUME ErrorAssumption == None \notin ParseError

Fine(params) == [error |-> None, params |-> params]
Bad(error) == [error |-> error, params |-> Default]

\* draw.<index>.<field>=<text>; overlays are numbered from 0.
parse_draw_field(params, pair) ==
  LET value == OverlayValueOf(pair.field, pair.text)
      draw == Grown(params.draw, pair.index)
      at == Least(pair.index + 1, Len(draw))
  IN IF pair.index = None THEN Bad("InvalidParameter")
     ELSE IF pair.index >= MAX_OVERLAYS THEN Bad("InvalidDraw")
     ELSE IF pair.field \notin DOMAIN NoOverlay THEN Bad("InvalidParameter")
     ELSE IF value = None THEN Bad("InvalidDraw")
     ELSE Fine([params EXCEPT !.draw = [draw EXCEPT ![at] = [@ EXCEPT ![pair.field] = value]]])

\* One pair of the segment; `form` says what is left of it: "empty", without
\* an equals sign, without a value, an option or an overlay's field.
ParsePair(params, pair) ==
  CASE pair.form = "empty" -> Fine(params)
    [] pair.form = "no_equals" -> Bad("InvalidParameter")
    [] pair.form = "no_value" -> Bad("EmptyValue")
    [] pair.form = "draw" -> parse_draw_field(params, pair)
    [] OTHER ->
         LET field == Meaning(OptionKeys, pair.field)
             value == ValueOf(field, pair.text)
         IN IF field = None THEN Bad("InvalidParameter")
            ELSE IF value = None THEN Bad("InvalidValue")
            ELSE Fine([params EXCEPT ![field] = value])

\* The pairs in order, up to the first bad one; a later one overrides. What is
\* parsed after each number of pairs, and in the end.
ParseStep(parsed, pair) ==
  IF parsed.error # None THEN parsed ELSE ParsePair(parsed.params, pair)

Parsed(pairs) ==
  LET after[n \in 0..Len(pairs)] ==
        IF n = 0 THEN Fine(Default) ELSE ParseStep(after[n - 1], pairs[n])
  IN after

parse(pairs) == Parsed(pairs)[Len(pairs)]

-----------------------------------------------------------------------------
\* The range of each numeric option, as validate() tests it. No comparison with
\* nan holds, so `contains` refuses it and `v < 0.0`, `v > 2000` let it pass.
Bounds ==
  {<<"width", 1, 8192>>, <<"height", 1, 8192>>, <<"quality", 1, 100>>,
   <<"dpr", 1000, 5000>>, <<"sharpen", 0, 10000>>, <<"blur", 100, 250000>>,
   <<"brightness", 0, 2000>>, <<"contrast", 0, 2000>>, <<"saturation", 0, 2000>>,
   <<"gamma", 100, 10000>>, <<"trim", 1000, 100000>>, <<"scq", 1, 100>>,
   <<"frame", 0, 999>>, <<"border_width", 0, 2000>>, <<"border_top", 0, 2000>>,
   <<"border_right", 0, 2000>>, <<"border_bottom", 0, 2000>>, <<"border_left", 0, 2000>>}

contains(low, high, v) == v # NonFinite /\ low <= v /\ v <= high

Negative(v) == v # None /\ v # NonFinite /\ v < 0

ValidOverlay(entry) ==
  /\ entry.url \notin {None, ""}
  /\ entry.top = None \/ entry.bottom = None
  /\ entry.left = None \/ entry.right = None
  /\ entry.opacity # None => contains(0, 1000, entry.opacity)
  /\ \A f \in {"width", "height", "top", "left", "bottom", "right"} : ~Negative(entry[f])

validate(params) ==
  /\ \A b \in Bounds : params[b[1]] # None => contains(b[2], b[3], params[b[1]])
  /\ \A f \in {"trim_top", "trim_right", "trim_bottom", "trim_left"} : ~Negative(params[f])
  /\ ~(params.format = "thumbhash" /\ params.draw # <<>>)
  /\ \A i \in DOMAIN params.draw : ValidOverlay(params.draw[i])

-----------------------------------------------------------------------------
\* min(side * dpr, 8192), truncated. (An f32 product whose exact value is a whole
\* number can be computed just below it; no instance has such a pair.)
Effective(side, dpr) == IF side = None THEN None ELSE Least((side * dpr) \div 1000, 8192)
effective_width(params) == Effective(params.width, params.dpr)
effective_height(params) == Effective(params.height, params.dpr)

\* Hints that say that the connection is slow. A hint that is no number counts
\* as none.
is_slow_connection(hints) ==
  \/ hints.rtt # None /\ hints.rtt > 150
  \/ hints.save_data
  \/ hints.ect \in {"slow-2g", "2g", "3g"}
  \/ hints.downlink # None /\ hints.downlink < 5000

apply_scq_override(params, is_slow) ==
  IF is_slow /\ params.scq # None THEN [params EXCEPT !.quality = params.scq] ELSE params

\* Fields that the key leaves out, and those it writes with one or two decimals.
\* (How a half is rounded depends on its binary value; no instance has one.)
OmittedField == {"onerror", "scq"}
OneDecimal == {"dpr", "trim", "trim_top", "trim_right", "trim_bottom", "trim_left"}
TwoDecimals == {"sharpen", "blur", "brightness", "contrast", "saturation", "gamma"}
OverlayDecimals == {"width", "height", "top", "left", "bottom", "right", "opacity"}

KeyField == Field \ OmittedField

\* v to the nearest multiple of unit.
Rounded(v, unit) == IF v \in {None, NonFinite} THEN v ELSE (v + unit \div 2) \div unit

OverlayKey(entry) ==
  [f \in DOMAIN NoOverlay |->
     IF f \in OverlayDecimals THEN Rounded(entry[f], 10) ELSE entry[f]]

KeyPart(params, f) ==
  IF f \in OneDecimal THEN Rounded(params[f], 100)
  ELSE IF f \in TwoDecimals THEN Rounded(params[f], 10)
  ELSE IF f = "draw" THEN [i \in DOMAIN params.draw |-> OverlayKey(params.draw[i])]
  ELSE params[f]

\* Fields in a fixed order, so the key is a function of the options; a field at
\* its default is left out or written, either way once for all.
to_cache_key(params) == [f \in KeyField |-> KeyPart(params, f)]

-----------------------------------------------------------------------------
\* What the parsers make of texts.
IsText(text) ==
  text.u32 \in Nat \cup {None} /\ text.f32 \in Int \cup {None, NonFinite}

IsPair(pair) == IsText(pair.text) /\ pair.index \in Nat \cup {None}

\* The options with numbers, and those with words.
WholeNumber == {"width", "height", "quality", "scq", "frame", "border_width", "border_top",
                "border_right", "border_bottom", "border_left"}
WordTables ==
  {<<"format", FormatWords>>, <<"rotate", RotationWords>>, <<"flip", FlipWords>>,
   <<"metadata", MetadataWords>>, <<"anim", AnimWords>>, <<"compression", CompressionWords>>}

\* An option that is not there is none of the words.
ASSUME WordAssumption == \A t \in WordTables : None \notin Meanings(t[2])

\* A record with these fields, and a sequence, whatever is in them.
IsRecord(r, fields) == r = [f \in fields |-> r[f]]
IsSequence(s) == Len(s) \in Nat /\ s = [i \in 1..Len(s) |-> s[i]]

IsOverlay(entry) ==
  /\ IsRecord(entry, DOMAIN NoOverlay)
  /\ \A f \in OverlayDecimals : entry[f] \in Int \cup {None}

\* The options that the parser gives on: whatever the text, no number is nan or inf.
WellTyped(params) ==
  /\ IsRecord(params, Field)
  /\ \A f \in WholeNumber : params[f] \in Nat \cup {None}
  /\ \A f \in OneDecimal \cup TwoDecimals : params[f] \in Int \cup {None}
  /\ \A t \in WordTables : params[t[1]] \in Meanings(t[2]) \cup {None}
  /\ params.fit \in Meanings(FitWords) /\ params.gravity \in Meanings(GravityWords)
  /\ params.dpr # None
  /\ IsSequence(params.draw) /\ \A i \in DOMAIN params.draw : IsOverlay(params.draw[i])

\* The field that a pair sets, and the pairs with the i-th and the next one swapped.
Target(pair) ==
  IF pair.form = "draw" THEN <<pair.index, pair.field>>
  ELSE <<Meaning(OptionKeys, pair.field)>>

Swapped(pairs, i) == [pairs EXCEPT ![i] = pairs[i + 1], ![i + 1] = pairs[i]]
=============================================================================
