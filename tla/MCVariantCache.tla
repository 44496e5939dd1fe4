--------------------------- MODULE MCVariantCache ---------------------------
(***************************************************************************)
(* VariantCache with every Accept header over the entries that matter to   *)
(* each other, and options segments that differ in one or two pairs.       *)
(***************************************************************************)
EXTENDS VariantCache

NoText == [word |-> None, u32 |-> None, f32 |-> None, color |-> None]
Word(w) == [NoText EXCEPT !.word = w]
Whole(n) == [NoText EXCEPT !.u32 = n, !.f32 = 1000 * n]
Decimal(d) == [NoText EXCEPT !.f32 = d]
Color(c) == [NoText EXCEPT !.color = c]

Pair(key, text) == [form |-> "option", field |-> key, text |-> text, index |-> None]
Draw(n, field, text) == [form |-> "draw", field |-> field, text |-> text, index |-> n]
Broken(form) == [form |-> form, field |-> "w", text |-> NoText, index |-> None]

Options(pairs) == [Named("options") EXCEPT !.equals = TRUE, !.pairs = pairs]

Stills == {<<"opaque">>, <<"clear">>}
Moving == {<<"moving">>, <<"moving clear">>}
Remote == <<"https:", "", "host", "opaque">>
Path(names) == [i \in DOMAIN names |-> Named(names[i])]

\* There may be something above the root, too.
MCOrigin ==
  [path \in {Path(n) : n \in Stills \cup Moving \cup {Remote, <<"..">>, <<"opaque", "..">>}}
            \cup {<<Named("opaque"), Named("a=1")>>} |->
     [animated |-> path \in {Path(n) : n \in Moving},
      alpha |-> path[1].name \in {"clear", "moving clear"}]]

NoHints == [rtt |-> None, save_data |-> FALSE, ect |-> None, downlink |-> None]

Get(names, pairs) == <<Named("image"), Options(pairs)>> \o Path(names)
Requests(paths, accepts, hints) == [path : paths, accept : accepts, hints : hints]

Accepts(media) == SUBSET [media : media, disabled : {FALSE}]
Webp == {[media |-> "webp", disabled |-> FALSE]}

\* Negotiation: for every kind of source, every set of named formats.
NegotiatingAudience ==
  {Requests({Get(names, pairs) :
               pairs \in {<<>>, <<Pair("compression", Word("fast"))>>,
                          <<Pair("anim", Word("static"))>>, <<Pair("frame", Whole(3))>>,
                          <<Pair("f", Word("png"))>>, <<Pair("f", Word("thumbhash"))>>,
                          <<Pair("format", Word("gif"))>>}},
            Accepts({"avif", "webp", "gif", "wildcard"}) \cup Accepts({"jpeg", "png"})
              \cup {{[media |-> "webp", disabled |-> d], [media |-> "wildcard", disabled |-> ~d]} :
                       d \in BOOLEAN}
              \cup {[media : {"webp"}, disabled : BOOLEAN]},
            {NoHints}) : names \in Stills \cup Moving}

\* Client hints, pixel ratios and qualities.
HintedAudience ==
  {Requests({Get(<<"opaque">>, <<Pair("w", Whole(3000))>> \o p \o s) :
               s \in {<<>>, <<Pair("scq", Whole(40))>>, <<Pair("scq", Whole(200))>>}},
            {{}, Webp},
            {NoHints, [NoHints EXCEPT !.rtt = 150], [NoHints EXCEPT !.rtt = 151],
             [NoHints EXCEPT !.save_data = TRUE], [NoHints EXCEPT !.ect = "3g"],
             [NoHints EXCEPT !.ect = "4g"], [NoHints EXCEPT !.downlink = 4999]}) :
     p \in {<<>>, <<Pair("dpr", Decimal(1500))>>, <<Pair("dpr", Whole(4))>>,
            <<Pair("q", Word("low"))>>}}

Plain(pairs) == [path |-> Get(<<"opaque">>, pairs), accept |-> Webp, hints |-> NoHints]

\* Each option with the values at and beyond the ends of its range, alone and
\* next to another option.
OptionAudience ==
  LET Together(pairs) == UNION {{Plain(<<p>>), Plain(<<Pair("f", Word("json")), p>>)} : p \in pairs}
  IN {Together({Pair(k, Whole(n)) : n \in {0, 1, 100, 2000, 2001, 8192, 9000}}) :
        k \in {"w", "height", "q", "scq", "border", "border.left", "frame"}}
     \cup {Together({Pair(k, Decimal(d)) :
                       d \in {-100, 0, 100, 200, 1000, 2100, 100100, 300000, NonFinite}}) :
             k \in {"dpr", "sharpen", "blur", "gamma", "trim", "contrast", "trim.top",
                    "trim.left"}}
     \cup {Together({Pair("rotate", Word("90")), Pair("rotate", Word("91")),
                     Pair("flip", Word("vh")), Pair("fit", Word("squeeze")),
                     Pair("g", Word("auto")), Pair("metadata", Word("all")),
                     Pair("bg", Color("red")), Pair("bg", Word("red")),
                     Pair("onerror", Word("redirect")), Pair("nonsense", Whole(1)),
                     Broken("empty"), Broken("no_equals"), Broken("no_value")})}

Overlay(n) == Draw(n, "url", Word("u"))

\* Overlays in any order, with gaps, or that contradict themselves.
OverlayAudience ==
  {{Plain(pairs) :
      pairs \in {<<Overlay(0), Draw(0, "top", Decimal(500)), Overlay(1)>>,
                 <<Overlay(1), Overlay(0), Draw(1, "opacity", Decimal(2000))>>,
                 <<Overlay(0), Draw(0, "top", Whole(1)), Draw(0, "bottom", Whole(1))>>,
                 <<Overlay(0), Draw(0, "left", Decimal(-1))>>,
                 <<Overlay(0), Draw(0, "repeat", Word("x"))>>,
                 <<Overlay(0), Draw(0, "fit", Word("cover")), Draw(0, "rotate", Word("90"))>>,
                 <<Overlay(0), Draw(0, "background", Color("red"))>>,
                 <<Overlay(0), Draw(0, "gravity", Word("n"))>>,
                 <<Overlay(1)>>, <<Overlay(64)>>, <<Overlay(None)>>,
                 <<Draw(0, "size", Whole(1))>>,
                 <<Overlay(0), Pair("f", Word("thumbhash"))>>}}}

\* Paths: with and without options, services, climbing ones.
PathAudience ==
  {Requests({Path(n) : n \in {<<"">>, <<"", "image">>, <<"health">>, <<"ready", "x">>,
                              <<"image">>, <<"image", "">>, <<"image", "opaque">>,
                              <<"image", "..">>, <<"image", "opaque", "..">>,
                              <<"..", "image", "opaque">>, <<"image">> \o Remote}}
            \cup {<<Named("image"), Options(<<>>)>>, <<Named("image"), Options(<<>>), Named("")>>,
                  <<Named("image"), Options(<<>>), Named("opaque"), Named("a=1")>>,
                  <<Named("image"), [Named("opaque") EXCEPT !.encoded = TRUE]>>,
                  <<Named("image"), [Named("opaque") EXCEPT !.nul = TRUE]>>},
            {Webp}, {NoHints})}

MCAudience ==
  NegotiatingAudience \cup HintedAudience \cup OptionAudience \cup OverlayAudience
    \cup PathAudience

DprAudience ==
  {Requests({Get(<<"opaque">>, <<Pair("w", Whole(1000)), Pair("dpr", Decimal(d))>>) :
               d \in {1000, 1040, 2000}},
            Accepts({"avif", "webp", "gif"}), {NoHints})}
=============================================================================
