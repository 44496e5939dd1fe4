---------------------------- MODULE ParamsProofs -----------------------------
(***************************************************************************)
(* parse() and validate(), proved for every text: what is given on is well *)
(* typed, whatever the order of the pairs.  Induction is over a set of     *)
(* numbers, by the least one that is not in it; the recursive function of  *)
(* the parser is unfolded by showing that there is one.                    *)
(***************************************************************************)
EXTENDS Params, SequenceTheorems, WellFoundedInduction, TLAPS

\* A set of numbers that is not empty has a least one.
LEMMA LeastNat ==
  ASSUME NEW T \in SUBSET Nat, T # {}
  PROVE  \E x \in T : \A y \in T : x <= y
<1> DEFINE R == {ss \in Nat \X Nat : ss[1] < ss[2]}
<1>1. R = OpToRel(<, Nat) BY DEF OpToRel
<1>2. IsWellFoundedOn(R, Nat) BY <1>1, NatLessThanWellFounded, Zenon
<1> HIDE DEF R
<1>3. PICK x \in T : \A y \in T : ~(<<y, x>> \in R)
  BY <1>2, WFMin
<1>4. \A y \in T : ~ (y < x) BY <1>3 DEF R
<1> QED BY <1>4

\* Induction over the numbers, as a statement about a set.
LEMMA Induction ==
  ASSUME NEW G, 0 \in G, \A n \in Nat : n \in G => n + 1 \in G
  PROVE  Nat \subseteq G
<1> SUFFICES ASSUME ~(Nat \subseteq G) PROVE FALSE OBVIOUS
<1> DEFINE T == Nat \ G
<1>1. T \in SUBSET Nat /\ T # {} OBVIOUS
<1> HIDE DEF T
<1>2. PICK x \in T : \A y \in T : x <= y BY <1>1, LeastNat
<1>3. x \in Nat /\ x \notin G BY <1>2 DEF T
<1>4. x # 0 BY <1>3
<1>5. x - 1 \in Nat BY <1>3, <1>4
<1>6. x - 1 \notin T BY <1>2, <1>3, <1>5
<1>7. x - 1 \in G BY <1>5, <1>6 DEF T
<1>8. (x - 1) + 1 \in G BY <1>5, <1>7
<1> QED BY <1>3, <1>8

\* parse() takes one pair after the other: the recursive function exists.
LEMMA ParsedSteps ==
  ASSUME NEW pairs, Len(pairs) \in Nat
  PROVE  Parsed(pairs) = [n \in 0..Len(pairs) |-> IF n = 0 THEN Fine(Default) ELSE ParseStep(Parsed(pairs)[n - 1], pairs[n])]
<1> DEFINE Is(f, k) == f = [n \in 0..k |-> IF n = 0 THEN Fine(Default) ELSE ParseStep(f[n - 1], pairs[n])]
           G == {k \in Nat : \E f : Is(f, k)}
<1>1. 0 \in G
  <2>1. Is([n \in 0..0 |-> Fine(Default)], 0) OBVIOUS
  <2> QED BY <2>1
<1>2. ASSUME NEW k \in Nat, k \in G PROVE k + 1 \in G
  <2>1. PICK f : Is(f, k) BY <1>2
  <2> DEFINE g == [n \in 0..(k + 1) |-> IF n = k + 1 THEN ParseStep(f[k], pairs[k + 1]) ELSE f[n]]
  <2>2. Is(g, k + 1)
    <3>1. ASSUME NEW n \in 0..(k + 1)
          PROVE  g[n] = IF n = 0 THEN Fine(Default) ELSE ParseStep(g[n - 1], pairs[n])
      <4>1. CASE n = k + 1 BY <4>1
      <4>2. CASE n # k + 1
        <5>1. n \in 0..k BY <4>2
        <5>2. f[n] = IF n = 0 THEN Fine(Default) ELSE ParseStep(f[n - 1], pairs[n])
          BY <2>1, <5>1
        <5>3. n # 0 => g[n - 1] = f[n - 1] BY <5>1
        <5> QED BY <5>1, <5>2, <5>3
      <4> QED BY <4>1, <4>2
    <3> QED BY <3>1
  <2> HIDE DEF g
  <2> QED BY <2>2
<1> HIDE DEF G
<1>3. Nat \subseteq G BY <1>1, <1>2, Induction
<1>4. \E f : Is(f, Len(pairs)) BY <1>3 DEF G
<1>5. Parsed(pairs) = CHOOSE f : Is(f, Len(pairs)) BY DEF Parsed
<1>6. Is(Parsed(pairs), Len(pairs)) BY <1>4, <1>5, Zenon
<1> QED BY <1>6

-----------------------------------------------------------------------------
\* What a table says of a word is one of its meanings.
LEMMA MeaningIn ==
  ASSUME NEW table, NEW word
  PROVE  Meaning(table, word) \in Meanings(table) \cup {None}
BY DEF Meaning, Meanings

\* The options of an empty segment have their types (params.rs:505-594).
LEMMA DefaultTyped == WellTyped(Default)
<1>1. IsRecord(Default, Field)
  BY DEF IsRecord, Field, Default
<1>2. \A f \in WholeNumber : Default[f] \in Nat \cup {None}
  BY DEF WholeNumber, Default
<1>3. \A f \in OneDecimal \cup TwoDecimals : Default[f] \in Int \cup {None}
  BY DEF OneDecimal, TwoDecimals, Default
<1>4. \A t \in WordTables : Default[t[1]] \in Meanings(t[2]) \cup {None}
  <2>3. "strip" \in Meanings(MetadataWords)
    <3>1. <<"strip", "strip">> \in MetadataWords BY DEF MetadataWords
    <3> QED BY <3>1 DEF Meanings
  <2>4. "auto" \in Meanings(AnimWords)
    <3>1. <<"auto", "auto">> \in AnimWords BY DEF AnimWords
    <3> QED BY <3>1 DEF Meanings
  <2> QED BY <2>3, <2>4 DEF WordTables, Default
<1>5. Len(<<>>) = 0 /\ <<>> = [i \in 1..0 |-> <<>>[i]]
  OBVIOUS
<1>6. IsSequence(Default.draw) /\ \A i \in DOMAIN Default.draw : IsOverlay(Default.draw[i])
  BY <1>5 DEF IsSequence, Default
<1>7. Default.dpr # None
  BY NumberAssumption DEF Default
<1>8. Default.fit \in Meanings(FitWords)
  <2>1. <<"contain", "contain">> \in FitWords BY DEF FitWords
  <2>2. "contain" \in Meanings(FitWords) BY <2>1 DEF Meanings
  <2> QED BY <2>2 DEF Default
<1>9. Default.gravity \in Meanings(GravityWords)
  <2>1. <<"center", "center">> \in GravityWords BY DEF GravityWords
  <2>2. "center" \in Meanings(GravityWords) BY <2>1 DEF Meanings
  <2> QED BY <2>2 DEF Default
<1> QED BY <1>1, <1>2, <1>3, <1>4, <1>6, <1>7, <1>8, <1>9 DEF WellTyped

\* What a parser that does not fail makes of a text has the type of the field; nan
\* and inf are refused (params.rs:1033-1080).
LEMMA ValueTyped ==
  ASSUME NEW field, NEW text, IsText(text), ValueOf(field, text) # None
  PROVE  /\ field \in WholeNumber => ValueOf(field, text) \in Nat
         /\ field \in OneDecimal \cup TwoDecimals => ValueOf(field, text) \in Int
         /\ \A t \in WordTables : field = t[1] => ValueOf(field, text) \in Meanings(t[2])
         /\ field = "fit" => ValueOf(field, text) \in Meanings(FitWords)
         /\ field = "gravity" => ValueOf(field, text) \in Meanings(GravityWords)
<1>1. ASSUME field \in WholeNumber PROVE ValueOf(field, text) \in Nat
  <2>1. CASE field \in {"quality", "scq"}
    <3>1. ValueOf(field, text) = parse_quality(text) BY <2>1 DEF ValueOf
    <3>2. Meanings(QualityWords) \subseteq Nat BY DEF Meanings, QualityWords
    <3>3. Meaning(QualityWords, text.word) \in Nat \cup {None} BY <3>2, MeaningIn
    <3> QED BY <3>1, <3>3 DEF parse_quality, IsText
  <2>2. CASE field \notin {"quality", "scq"}
    <3>1. ValueOf(field, text) = parse_u32(text) BY <1>1, <2>2 DEF ValueOf, WholeNumber
    <3> QED BY <3>1 DEF parse_u32, IsText
  <2> QED BY <2>1, <2>2
<1>2. ASSUME field \in OneDecimal \cup TwoDecimals PROVE ValueOf(field, text) \in Int
  <2>1. ValueOf(field, text) = parse_f32(text) BY <1>2 DEF ValueOf, OneDecimal, TwoDecimals
  <2> QED BY <2>1 DEF parse_f32, IsText
<1>3. ASSUME NEW t \in WordTables \cup {<<"fit", FitWords>>, <<"gravity", GravityWords>>},
             field = t[1]
      PROVE  ValueOf(field, text) \in Meanings(t[2])
  <2>1. ValueOf(field, text) = Meaning(t[2], text.word) BY <1>3 DEF ValueOf, WordTables
  <2> QED BY <2>1, MeaningIn
<1>4. /\ field = "fit" => ValueOf(field, text) \in Meanings(FitWords)
      /\ field = "gravity" => ValueOf(field, text) \in Meanings(GravityWords)
  <2>1. field = "fit" => ValueOf(field, text) = Meaning(FitWords, text.word) BY DEF ValueOf
  <2>2. field = "gravity" => ValueOf(field, text) = Meaning(GravityWords, text.word)
    BY DEF ValueOf
  <2> QED BY <2>1, <2>2, MeaningIn
<1> QED BY <1>1, <1>2, <1>3, <1>4

\* The keys of a segment set options, never the overlays.
LEMMA KeysAreFields ==
  ASSUME NEW word, Meaning(OptionKeys, word) # None
  PROVE  Meaning(OptionKeys, word) \in Field \ {"draw"}
<1>1. Meanings(OptionKeys) \subseteq Field \ {"draw"}
  BY DEF Meanings, OptionKeys, Field, Default
<1> QED BY <1>1, MeaningIn

\* Options with another value of its type in one field.
LEMMA SetTyped ==
  ASSUME NEW params, WellTyped(params), NEW field \in Field \ {"draw"},
         NEW text, IsText(text), ValueOf(field, text) # None
  PROVE  WellTyped([params EXCEPT ![field] = ValueOf(field, text)])
<1> DEFINE v == ValueOf(field, text)
           new == [params EXCEPT ![field] = v]
<1>1. DOMAIN params = Field
  <2>1. params = [f \in Field |-> params[f]] BY DEF WellTyped, IsRecord
  <2> QED BY <2>1
<1>2. \A f \in Field : new[f] = IF f = field THEN v ELSE params[f] BY <1>1
<1>3. IsRecord(new, Field) BY <1>1 DEF IsRecord
<1> HIDE DEF new
<1>4. /\ WholeNumber \subseteq Field /\ OneDecimal \subseteq Field /\ TwoDecimals \subseteq Field
      /\ {"fit", "gravity", "dpr", "draw"} \subseteq Field
  BY DEF WholeNumber, OneDecimal, TwoDecimals, Field, Default
<1>5. \A t \in WordTables : t[1] \in Field BY DEF WordTables, Field, Default
<1>6. /\ field \in WholeNumber => v \in Nat
      /\ field \in OneDecimal \cup TwoDecimals => v \in Int
      /\ \A t \in WordTables : field = t[1] => v \in Meanings(t[2])
      /\ field = "fit" => v \in Meanings(FitWords)
      /\ field = "gravity" => v \in Meanings(GravityWords)
      /\ v # None
  BY ValueTyped
<1> HIDE DEF v
<1>7. \A f \in WholeNumber : new[f] \in Nat \cup {None}
  BY <1>2, <1>4, <1>6 DEF WellTyped
<1>8. \A f \in OneDecimal \cup TwoDecimals : new[f] \in Int \cup {None}
  BY <1>2, <1>4, <1>6 DEF WellTyped
<1>9. \A t \in WordTables : new[t[1]] \in Meanings(t[2]) \cup {None}
  BY <1>2, <1>5, <1>6 DEF WellTyped
<1>10. new.fit \in Meanings(FitWords) /\ new.gravity \in Meanings(GravityWords) /\ new.dpr # None
  BY <1>2, <1>4, <1>6 DEF WellTyped
<1>11. new.draw = params.draw BY <1>2, <1>4
<1>12. IsSequence(new.draw) /\ \A i \in DOMAIN new.draw : IsOverlay(new.draw[i])
  BY <1>11 DEF WellTyped
<1>13. WellTyped(new) BY <1>3, <1>7, <1>8, <1>9, <1>10, <1>12 DEF WellTyped
<1> QED BY <1>13 DEF new, v

-----------------------------------------------------------------------------
\* The length of a function on 1..n.
LEMMA LengthOf ==
  ASSUME NEW n \in Nat, NEW s, DOMAIN s = 1..n, s = [i \in 1..n |-> s[i]]
  PROVE  Len(s) = n /\ IsSequence(s)
<1> DEFINE S == {s[i] : i \in 1..n}
<1>1. s \in [1..n -> S]
  <2>1. \A i \in 1..n : s[i] \in S OBVIOUS
  <2> HIDE DEF S
  <2>2. [i \in 1..n |-> s[i]] \in [1..n -> S] BY <2>1
  <2> QED BY <2>2
<1> HIDE DEF S
<1>2. s \in Seq(S) BY <1>1, SeqDef
<1>3. DOMAIN s = 1..Len(s) /\ Len(s) \in Nat BY <1>2, LenProperties
<1>4. Len(s) = n BY <1>3
<1> QED BY <1>4 DEF IsSequence

\* A sequence is one of its elements.
LEMMA SequenceOf ==
  ASSUME NEW s, IsSequence(s)
  PROVE  s \in Seq({s[i] : i \in 1..Len(s)})
<1> DEFINE S == {s[i] : i \in 1..Len(s)}
           n == Len(s)
<1>1. n \in Nat /\ s = [i \in 1..n |-> s[i]] BY DEF IsSequence
<1>2. \A i \in 1..n : s[i] \in S OBVIOUS
<1> HIDE DEF S, n
<1>3. [i \in 1..n |-> s[i]] \in [1..n -> S] BY <1>2
<1>4. s \in Seq(S) BY <1>1, <1>3, SeqDef
<1> QED BY <1>4 DEF S, n

\* The places of a sequence.
LEMMA SequenceDomain ==
  ASSUME NEW s, IsSequence(s)
  PROVE  DOMAIN s = 1..Len(s) /\ Len(s) \in Nat
<1>1. s = [i \in 1..Len(s) |-> s[i]] BY DEF IsSequence
<1>2. DOMAIN s = 1..Len(s) BY <1>1
<1> QED BY <1>2 DEF IsSequence

\* Overlays grow to the index that is asked for, and keep what they hold
\* (params.rs:946-956).
LEMMA GrownDraw ==
  ASSUME NEW draw, IsSequence(draw), NEW idx \in Nat
  PROVE  LET n == IF Len(draw) > idx THEN Len(draw) ELSE idx + 1
         IN  /\ IsSequence(Grown(draw, idx)) /\ Len(Grown(draw, idx)) = n
             /\ DOMAIN Grown(draw, idx) = 1..n
             /\ \A i \in 1..n : Grown(draw, idx)[i] = IF i <= Len(draw) THEN draw[i] ELSE NoOverlay
<1>1. CASE Len(draw) > idx
  <2>1. Grown(draw, idx) = draw BY <1>1 DEF Grown
  <2> QED BY <1>1, <2>1, SequenceDomain
<1>2. CASE ~(Len(draw) > idx)
  <2> DEFINE g == [i \in 1..(idx + 1) |-> IF i <= Len(draw) THEN draw[i] ELSE NoOverlay]
  <2>1. Grown(draw, idx) = g BY <1>2 DEF Grown
  <2>2. DOMAIN g = 1..(idx + 1) /\ g = [i \in 1..(idx + 1) |-> g[i]] OBVIOUS
  <2>3. \A i \in 1..(idx + 1) : g[i] = IF i <= Len(draw) THEN draw[i] ELSE NoOverlay OBVIOUS
  <2> HIDE DEF g
  <2>4. Len(g) = idx + 1 /\ IsSequence(g) BY <2>2, LengthOf
  <2> QED BY <1>2, <2>1, <2>2, <2>3, <2>4
<1> QED BY <1>1, <1>2

\* An overlay with another value in one field, at another place in the sequence.
DrawSet(draw, idx, field, value) ==
  [i \in 1..(IF Len(draw) > idx THEN Len(draw) ELSE idx + 1) |->
     LET old == IF i <= Len(draw) THEN draw[i] ELSE NoOverlay
     IN IF i = idx + 1 THEN [old EXCEPT ![field] = value] ELSE old]

\* What an overlay's field does to the overlays.
LEMMA DrawnField ==
  ASSUME NEW draw, IsSequence(draw), NEW idx \in Nat, NEW field, NEW value
  PROVE  [Grown(draw, idx) EXCEPT ![Least(idx + 1, Len(Grown(draw, idx)))] =
            [@ EXCEPT ![field] = value]] = DrawSet(draw, idx, field, value)
<1> DEFINE grown == Grown(draw, idx)
           n == IF Len(draw) > idx THEN Len(draw) ELSE idx + 1
<1>1. n \in Nat /\ idx + 1 \in 1..n BY DEF IsSequence
<1>2. /\ IsSequence(grown) /\ Len(grown) = n /\ DOMAIN grown = 1..n
      /\ \A i \in 1..n : grown[i] = IF i <= Len(draw) THEN draw[i] ELSE NoOverlay
  BY GrownDraw
<1>3. Least(idx + 1, Len(grown)) = idx + 1 BY <1>1, <1>2 DEF Least
<1> HIDE DEF grown
<1>4. grown = [i \in 1..n |-> grown[i]] BY <1>2 DEF IsSequence
<1> DEFINE new == [grown EXCEPT ![idx + 1] = [@ EXCEPT ![field] = value]]
<1>5. DOMAIN new = 1..n BY <1>2
<1>6. \A i \in 1..n : new[i] = LET old == IF i <= Len(draw) THEN draw[i] ELSE NoOverlay
                              IN IF i = idx + 1 THEN [old EXCEPT ![field] = value] ELSE old
  BY <1>1, <1>2
<1>7. new = [i \in 1..n |-> new[i]] BY <1>2
<1> HIDE DEF new
<1>8. new = DrawSet(draw, idx, field, value) BY <1>6, <1>7 DEF DrawSet
<1> QED BY <1>3, <1>8 DEF grown, new

-----------------------------------------------------------------------------
\* Whether a pair is refused has nothing to do with the pairs before it.
BadPair(pair) == ParsePair(Default, pair).error # None

\* What an accepted pair does to the options: it sets one field of them, or one of an
\* overlay, or nothing.
PairSets(params, pair) ==
  CASE pair.form = "empty" -> params
    [] pair.form = "draw" ->
         [params EXCEPT !.draw = DrawSet(@, pair.index, pair.field,
                                         OverlayValueOf(pair.field, pair.text))]
    [] OTHER -> [params EXCEPT ![Meaning(OptionKeys, pair.field)] =
                                  ValueOf(Meaning(OptionKeys, pair.field), pair.text)]

\* The pairs one by one (params.rs:904-1003).
LEMMA PairParsed ==
  ASSUME NEW params, WellTyped(params), NEW pair, IsPair(pair)
  PROVE  IF BadPair(pair) THEN ParsePair(params, pair) \in {Bad(e) : e \in ParseError}
         ELSE ParsePair(params, pair) = Fine(PairSets(params, pair))
<1>1. \A p : Fine(p).error = None BY DEF Fine
<1>2. \A e \in ParseError : Bad(e).error = e /\ e # None
  BY ErrorAssumption DEF Bad
<1> DEFINE Errors == {Bad(e) : e \in ParseError}
<1>8. \A e \in {"InvalidParameter", "EmptyValue", "InvalidValue", "InvalidDraw"} : Bad(e) \in Errors
  BY DEF ParseError
<1>9. \A bad \in Errors : bad.error # None BY <1>2
<1> HIDE DEF Errors
<1>3. IsSequence(params.draw) BY DEF WellTyped
<1>4. CASE pair.form = "empty"
  BY <1>1, <1>4 DEF BadPair, ParsePair, PairSets
<1>5. CASE pair.form \in {"no_equals", "no_value"}
  <2>1. \A p : ParsePair(p, pair) \in {Bad("InvalidParameter"), Bad("EmptyValue")}
    BY <1>5 DEF ParsePair
  <2>9. BadPair(pair) /\ ParsePair(params, pair) \in Errors
    BY <1>8, <1>9, <2>1 DEF BadPair
  <2> QED BY <2>9 DEF Errors
<1>6. CASE pair.form = "draw"
  <2> DEFINE value == OverlayValueOf(pair.field, pair.text)
             bad == \/ pair.index = None \/ pair.index >= MAX_OVERLAYS
                    \/ pair.field \notin DOMAIN NoOverlay \/ value = None
  <2>1. \A p : ParsePair(p, pair) = parse_draw_field(p, pair) BY <1>6 DEF ParsePair
  <2>2. CASE bad
    <3>1. \A p : parse_draw_field(p, pair) \in {Bad("InvalidParameter"), Bad("InvalidDraw")}
      BY <2>2 DEF parse_draw_field
    <3>9. BadPair(pair) /\ ParsePair(params, pair) \in Errors
      BY <1>8, <1>9, <2>1, <3>1 DEF BadPair
    <3> QED BY <3>9 DEF Errors
  <2>3. CASE ~bad
    <3>1. pair.index \in Nat BY <2>3 DEF IsPair
    <3>2. ~BadPair(pair)
      <4>1. parse_draw_field(Default, pair).error = None
        BY <2>3, <1>1 DEF parse_draw_field, Fine
      <4> QED BY <2>1, <4>1 DEF BadPair
    <3> DEFINE drawn == [Grown(params.draw, pair.index) EXCEPT
                           ![Least(pair.index + 1, Len(Grown(params.draw, pair.index)))] =
                             [@ EXCEPT ![pair.field] = value]]
    <3>3. parse_draw_field(params, pair) = Fine([params EXCEPT !.draw = drawn])
      BY <2>3 DEF parse_draw_field
    <3>4. drawn = DrawSet(params.draw, pair.index, pair.field, value)
      <4> HIDE DEF value
      <4>1. \A v : [Grown(params.draw, pair.index) EXCEPT
                      ![Least(pair.index + 1, Len(Grown(params.draw, pair.index)))] =
                        [@ EXCEPT ![pair.field] = v]]
                   = DrawSet(params.draw, pair.index, pair.field, v)
        BY <1>3, <3>1, DrawnField, Zenon
      <4> QED BY <4>1, Zenon
    <3> HIDE DEF drawn
    <3>5. PairSets(params, pair)
            = [params EXCEPT !.draw = DrawSet(params.draw, pair.index, pair.field, value)]
      BY <1>6 DEF PairSets
    <3> QED BY <2>1, <3>2, <3>3, <3>4, <3>5
  <2> QED BY <2>2, <2>3
<1>7. CASE pair.form \notin {"empty", "no_equals", "no_value", "draw"}
  <2> DEFINE field == Meaning(OptionKeys, pair.field)
             value == ValueOf(field, pair.text)
  <2>1. \A p : ParsePair(p, pair) = IF field = None THEN Bad("InvalidParameter")
                                    ELSE IF value = None THEN Bad("InvalidValue")
                                    ELSE Fine([p EXCEPT ![field] = value])
    BY <1>7 DEF ParsePair
  <2>2. PairSets(params, pair) = [params EXCEPT ![field] = value] BY <1>7 DEF PairSets
  <2> HIDE DEF field, value
  <2>3. CASE field = None \/ value = None
    <3>1. \A p : ParsePair(p, pair) \in {Bad("InvalidParameter"), Bad("InvalidValue")}
      BY <2>1, <2>3
    <3>9. BadPair(pair) /\ ParsePair(params, pair) \in Errors
      BY <1>8, <1>9, <3>1 DEF BadPair
    <3> QED BY <3>9 DEF Errors
  <2>4. CASE ~(field = None \/ value = None)
    <3>1. \A p : ParsePair(p, pair) = Fine([p EXCEPT ![field] = value]) BY <2>1, <2>4
    <3>2. ~BadPair(pair) BY <1>1, <3>1 DEF BadPair
    <3> QED BY <2>2, <3>1, <3>2
  <2> QED BY <2>3, <2>4
<1> QED BY <1>4, <1>5, <1>6, <1>7 DEF Errors

\* A pair that is refused leaves the options of an empty segment behind.
LEMMA PairFails ==
  ASSUME NEW params, WellTyped(params), NEW pair, IsPair(pair), BadPair(pair)
  PROVE  ParsePair(params, pair).error # None /\ ParsePair(params, pair).params = Default
<1>1. PICK e \in ParseError : ParsePair(params, pair) = Bad(e) BY PairParsed
<1>2. e # None BY ErrorAssumption
<1> QED BY <1>1, <1>2 DEF Bad

\* What is known of a pair that is not refused.
LEMMA Accepted ==
  ASSUME NEW pair, IsPair(pair), ~BadPair(pair)
  PROVE  /\ pair.form \notin {"no_equals", "no_value"}
         /\ pair.form = "draw" =>
              /\ pair.index \in Nat /\ pair.field \in DOMAIN NoOverlay
              /\ OverlayValueOf(pair.field, pair.text) # None
         /\ pair.form \notin {"empty", "draw"} =>
              /\ Meaning(OptionKeys, pair.field) \in Field \ {"draw"}
              /\ ValueOf(Meaning(OptionKeys, pair.field), pair.text) # None
<1>1. \A e \in ParseError : Bad(e).error # None
  BY ErrorAssumption DEF Bad
<1>2. pair.form \notin {"no_equals", "no_value"}
  <2> SUFFICES ASSUME pair.form \in {"no_equals", "no_value"} PROVE FALSE
    OBVIOUS
  <2>1. ParsePair(Default, pair) \in {Bad("InvalidParameter"), Bad("EmptyValue")}
    BY DEF ParsePair
  <2> QED BY <1>1, <2>1 DEF BadPair, ParseError
<1>3. ASSUME pair.form = "draw"
      PROVE  /\ pair.index \in Nat /\ pair.field \in DOMAIN NoOverlay
             /\ OverlayValueOf(pair.field, pair.text) # None
  <2>1. ParsePair(Default, pair) = parse_draw_field(Default, pair) BY <1>3 DEF ParsePair
  <2>2. ParsePair(Default, pair) \notin {Bad("InvalidParameter"), Bad("InvalidDraw")}
    BY <1>1 DEF BadPair, ParseError
  <2> QED BY <2>1, <2>2 DEF parse_draw_field, IsPair
<1>4. ASSUME pair.form \notin {"empty", "draw"}
      PROVE  /\ Meaning(OptionKeys, pair.field) # None
             /\ ValueOf(Meaning(OptionKeys, pair.field), pair.text) # None
  <2> DEFINE field == Meaning(OptionKeys, pair.field)
             value == ValueOf(field, pair.text)
  <2>1. ParsePair(Default, pair) = IF field = None THEN Bad("InvalidParameter")
                                   ELSE IF value = None THEN Bad("InvalidValue")
                                   ELSE Fine([Default EXCEPT ![field] = value])
    BY <1>2, <1>4 DEF ParsePair
  <2>2. ParsePair(Default, pair) \notin {Bad("InvalidParameter"), Bad("InvalidValue")}
    BY <1>1 DEF BadPair, ParseError
  <2> HIDE DEF field, value
  <2>3. field # None /\ value # None BY <2>1, <2>2
  <2> QED BY <2>3 DEF field, value
<1> QED BY <1>2, <1>3, <1>4, KeysAreFields

\* An overlay with another value in one field.
LEMMA OverlayTyped ==
  ASSUME NEW entry, IsOverlay(entry), NEW field \in DOMAIN NoOverlay, NEW text, IsText(text),
         OverlayValueOf(field, text) # None
  PROVE  IsOverlay([entry EXCEPT ![field] = OverlayValueOf(field, text)])
<1> DEFINE v == OverlayValueOf(field, text)
           new == [entry EXCEPT ![field] = v]
<1>1. DOMAIN entry = DOMAIN NoOverlay
  <2>1. entry = [f \in DOMAIN NoOverlay |-> entry[f]] BY DEF IsOverlay, IsRecord
  <2> QED BY <2>1
<1>2. field \in OverlayDecimals => v \in Int
  <2>1. field \in OverlayDecimals => v = parse_f32(text) BY DEF OverlayValueOf, OverlayDecimals
  <2> QED BY <2>1 DEF parse_f32, IsText
<1> HIDE DEF v
<1>3. IsRecord(new, DOMAIN NoOverlay) BY <1>1 DEF IsRecord
<1>4. OverlayDecimals \subseteq DOMAIN NoOverlay BY DEF OverlayDecimals, NoOverlay
<1>5. \A f \in OverlayDecimals : new[f] \in Int \cup {None}
  BY <1>1, <1>2, <1>4 DEF IsOverlay
<1> QED BY <1>3, <1>5 DEF IsOverlay, v

\* An overlay's option leaves the options well typed.
LEMMA DrawTyped ==
  ASSUME NEW draw, IsSequence(draw), \A i \in DOMAIN draw : IsOverlay(draw[i]),
         NEW idx \in Nat, NEW field \in DOMAIN NoOverlay, NEW text, IsText(text),
         OverlayValueOf(field, text) # None
  PROVE  LET new == DrawSet(draw, idx, field, OverlayValueOf(field, text))
         IN  IsSequence(new) /\ \A i \in DOMAIN new : IsOverlay(new[i])
<1> DEFINE value == OverlayValueOf(field, text)
           new == DrawSet(draw, idx, field, value)
           n == IF Len(draw) > idx THEN Len(draw) ELSE idx + 1
<1>1. n \in Nat /\ DOMAIN draw = 1..Len(draw) /\ Len(draw) \in Nat BY SequenceDomain
<1>2. /\ DOMAIN new = 1..n /\ new = [i \in 1..n |-> new[i]]
      /\ \A i \in 1..n : new[i] = LET old == IF i <= Len(draw) THEN draw[i] ELSE NoOverlay
                                  IN IF i = idx + 1 THEN [old EXCEPT ![field] = value] ELSE old
  BY DEF DrawSet
<1> HIDE DEF new
<1>3. IsSequence(new) BY <1>1, <1>2, LengthOf
<1>4. IsOverlay(NoOverlay) BY DEF IsOverlay, IsRecord, NoOverlay, OverlayDecimals
<1>5. ASSUME NEW i \in 1..n PROVE IsOverlay(new[i])
  <2> DEFINE old == IF i <= Len(draw) THEN draw[i] ELSE NoOverlay
  <2>1. IsOverlay(old) BY <1>1, <1>4
  <2> HIDE DEF old
  <2>2. IsOverlay([old EXCEPT ![field] = value]) BY <2>1, OverlayTyped
  <2>3. new[i] = IF i = idx + 1 THEN [old EXCEPT ![field] = value] ELSE old BY <1>2 DEF old
  <2> QED BY <2>1, <2>2, <2>3
<1> QED BY <1>2, <1>3, <1>5 DEF new

\* A pair keeps the types.
LEMMA PairTyped ==
  ASSUME NEW params, WellTyped(params), NEW pair, IsPair(pair), ~BadPair(pair)
  PROVE  WellTyped(PairSets(params, pair))
<1>1. CASE pair.form = "empty" BY <1>1 DEF PairSets
<1>2. CASE pair.form = "draw"
  <2> DEFINE d == DrawSet(params.draw, pair.index, pair.field,
                          OverlayValueOf(pair.field, pair.text))
             new == [params EXCEPT !.draw = d]
  <2>1. PairSets(params, pair) = new BY <1>2 DEF PairSets
  <2>2. IsSequence(d) /\ \A i \in DOMAIN d : IsOverlay(d[i])
    BY <1>2, Accepted, DrawTyped DEF WellTyped, IsPair
  <2> HIDE DEF d
  <2>3. DOMAIN params = Field
    <3>1. params = [f \in Field |-> params[f]] BY DEF WellTyped, IsRecord
    <3> QED BY <3>1
  <2>4. "draw" \in Field BY DEF Field, Default
  <2>5. \A f \in Field : new[f] = IF f = "draw" THEN d ELSE params[f] BY <2>3
  <2>6. IsRecord(new, Field) BY <2>3 DEF IsRecord
  <2> HIDE DEF new
  <2>7. new.draw = d BY <2>4, <2>5
  <2>8. \A f \in WholeNumber \cup OneDecimal \cup TwoDecimals \cup {"fit", "gravity", "dpr"} :
          new[f] = params[f]
    BY <2>5 DEF WholeNumber, OneDecimal, TwoDecimals, Field, Default
  <2>9. \A t \in WordTables : new[t[1]] = params[t[1]]
    BY <2>5 DEF WordTables, Field, Default
  <2> QED BY <2>1, <2>2, <2>6, <2>7, <2>8, <2>9 DEF WellTyped
<1>3. CASE pair.form \notin {"empty", "draw"}
  <2>1. PairSets(params, pair) = [params EXCEPT ![Meaning(OptionKeys, pair.field)] =
                                    ValueOf(Meaning(OptionKeys, pair.field), pair.text)]
    BY <1>3 DEF PairSets
  <2> DEFINE field == Meaning(OptionKeys, pair.field)
  <2>2. field \in Field \ {"draw"} /\ ValueOf(field, pair.text) # None
    BY <1>3, Accepted
  <2> HIDE DEF field
  <2>3. IsText(pair.text) BY DEF IsPair
  <2>4. WellTyped([params EXCEPT ![field] = ValueOf(field, pair.text)])
    BY <2>2, <2>3, SetTyped
  <2> QED BY <2>1, <2>4 DEF field
<1> QED BY <1>1, <1>2, <1>3

-----------------------------------------------------------------------------
\* The options after each number of pairs, up to the first bad one, are those that
\* the pairs before have set.
LEMMA PairsParsed ==
  ASSUME NEW pairs, IsSequence(pairs), \A i \in DOMAIN pairs : IsPair(pairs[i])
  PROVE  \A n \in 0..Len(pairs) :
           /\ Parsed(pairs)[n].error = None <=> \A i \in 1..n : ~BadPair(pairs[i])
           /\ WellTyped(Parsed(pairs)[n].params)
           /\ n > 0 /\ Parsed(pairs)[n].error = None =>
                Parsed(pairs)[n].params = PairSets(Parsed(pairs)[n - 1].params, pairs[n])
<1> DEFINE after == Parsed(pairs)
           Right(n) == /\ after[n].error = None <=> \A i \in 1..n : ~BadPair(pairs[i])
                       /\ WellTyped(after[n].params)
                       /\ n > 0 /\ after[n].error = None =>
                            after[n].params = PairSets(after[n - 1].params, pairs[n])
           G == {n \in Nat : n <= Len(pairs) => Right(n)}
<1>1. DOMAIN pairs = 1..Len(pairs) /\ Len(pairs) \in Nat BY SequenceDomain
<1>2. \A n \in 0..Len(pairs) :
        after[n] = IF n = 0 THEN Fine(Default) ELSE ParseStep(after[n - 1], pairs[n])
  BY <1>1, ParsedSteps
<1> HIDE DEF after
<1>3. 0 \in G
  <2>1. after[0] = Fine(Default) BY <1>1, <1>2
  <2>2. Right(0) BY <2>1, DefaultTyped DEF Fine
  <2> QED BY <2>2
<1>4. ASSUME NEW n \in Nat, n \in G PROVE n + 1 \in G
  <2> SUFFICES ASSUME n + 1 <= Len(pairs) PROVE Right(n + 1)
    OBVIOUS
  <2>1. Right(n) BY <1>4, <1>1
  <2> DEFINE pair == pairs[n + 1]
             old == after[n].params
  <2>2. after[n + 1] = ParseStep(after[n], pair) BY <1>1, <1>2
  <2>3. IsPair(pair) BY <1>1
  <2>4. WellTyped(old) BY <2>1
  <2>5. (\A i \in 1..(n + 1) : ~BadPair(pairs[i])) <=> (after[n].error = None /\ ~BadPair(pair))
    BY <2>1
  <2> HIDE DEF pair, old
  <2>6. CASE after[n].error # None
    <3>1. after[n + 1] = after[n] BY <2>2, <2>6 DEF ParseStep
    <3> QED BY <2>4, <2>5, <2>6, <3>1 DEF old
  <2>7. CASE after[n].error = None /\ BadPair(pair)
    <3>1. after[n + 1] = ParsePair(old, pair) BY <2>2, <2>7 DEF ParseStep, old
    <3>2. after[n + 1].error # None /\ after[n + 1].params = Default
      BY <3>1, <2>3, <2>4, <2>7, PairFails
    <3>3. WellTyped(after[n + 1].params) BY <3>2, DefaultTyped
    <3> QED BY <2>5, <2>7, <3>2, <3>3
  <2>8. CASE after[n].error = None /\ ~BadPair(pair)
    <3>1. after[n + 1] = ParsePair(old, pair) BY <2>2, <2>8 DEF ParseStep, old
    <3>2. after[n + 1] = Fine(PairSets(old, pair)) BY <3>1, <2>3, <2>4, <2>8, PairParsed
    <3>3. WellTyped(PairSets(old, pair)) BY <2>3, <2>4, <2>8, PairTyped
    <3>4. after[n + 1].error = None /\ after[n + 1].params = PairSets(old, pair)
      BY <3>2 DEF Fine
    <3> QED BY <2>5, <2>8, <3>3, <3>4 DEF old, pair
  <2> QED BY <2>6, <2>7, <2>8
<1> HIDE DEF G
<1>5. Nat \subseteq G BY <1>3, <1>4, Induction
<1>6. \A n \in 0..Len(pairs) : Right(n) BY <1>1, <1>5 DEF G
<1> QED BY <1>6 DEF after

\* Whatever the segment, what parse() gives on is well typed.
THEOREM ParseTyped ==
  ASSUME NEW pairs, IsSequence(pairs), \A i \in DOMAIN pairs : IsPair(pairs[i])
  PROVE  /\ WellTyped(parse(pairs).params)
         /\ parse(pairs).error = None <=> \A i \in DOMAIN pairs : ~BadPair(pairs[i])
<1>1. DOMAIN pairs = 1..Len(pairs) /\ Len(pairs) \in 0..Len(pairs) BY SequenceDomain
<1>2. /\ Parsed(pairs)[Len(pairs)].error = None <=> \A i \in 1..Len(pairs) : ~BadPair(pairs[i])
      /\ WellTyped(Parsed(pairs)[Len(pairs)].params)
  BY <1>1, PairsParsed
<1> QED BY <1>1, <1>2 DEF parse

-----------------------------------------------------------------------------
\* What DrawSet makes of each overlay, and of those that are not there yet.
Entry(draw, i) == IF i <= Len(draw) THEN draw[i] ELSE NoOverlay

\* The overlays after one of their options was set.
LEMMA DrawSetIs ==
  ASSUME NEW draw, IsSequence(draw), NEW idx \in Nat, NEW field, NEW value
  PROVE  LET new == DrawSet(draw, idx, field, value)
         IN  /\ IsSequence(new)
             /\ Len(new) = IF Len(draw) > idx THEN Len(draw) ELSE idx + 1
             /\ \A i \in Nat \ {0} :
                  Entry(new, i) = IF i = idx + 1 THEN [Entry(draw, i) EXCEPT ![field] = value]
                                  ELSE Entry(draw, i)
<1> DEFINE n == IF Len(draw) > idx THEN Len(draw) ELSE idx + 1
           new == DrawSet(draw, idx, field, value)
<1>1. n \in Nat /\ Len(draw) \in Nat /\ Len(draw) <= n /\ idx + 1 <= n BY DEF IsSequence
<1>2. /\ DOMAIN new = 1..n /\ new = [i \in 1..n |-> new[i]]
      /\ \A i \in 1..n : new[i] = IF i = idx + 1 THEN [Entry(draw, i) EXCEPT ![field] = value]
                                  ELSE Entry(draw, i)
  BY DEF DrawSet, Entry
<1> HIDE DEF new, n
<1>3. Len(new) = n /\ IsSequence(new) BY <1>1, <1>2, LengthOf
<1>4. \A i \in Nat \ {0} :
        Entry(new, i) = IF i = idx + 1 THEN [Entry(draw, i) EXCEPT ![field] = value]
                        ELSE Entry(draw, i)
  <2> TAKE i \in Nat \ {0}
  <2>1. CASE i <= n
    <3>1. i \in 1..n BY <1>1, <2>1
    <3>2. Entry(new, i) = new[i] BY <1>3, <2>1 DEF Entry
    <3> QED BY <1>2, <3>1, <3>2
  <2>2. CASE ~(i <= n)
    <3>1. Entry(new, i) = NoOverlay /\ Entry(draw, i) = NoOverlay /\ i # idx + 1
      BY <1>1, <1>3, <2>2 DEF Entry
    <3> QED BY <3>1
  <2> QED BY <2>1, <2>2
<1> QED BY <1>3, <1>4 DEF new, n

\* Sequences of overlays are equal when they are as long and agree in every entry.
LEMMA SameDraw ==
  ASSUME NEW d, NEW e, IsSequence(d), IsSequence(e), Len(d) = Len(e),
         \A i \in Nat \ {0} : Entry(d, i) = Entry(e, i)
  PROVE  d = e
<1>1. \A i \in 1..Len(d) : d[i] = e[i]
  <2> TAKE i \in 1..Len(d)
  <2>1. i \in Nat \ {0} /\ i <= Len(d) BY DEF IsSequence
  <2>2. Entry(d, i) = d[i] /\ Entry(e, i) = e[i] BY <2>1 DEF Entry
  <2> QED BY <2>1, <2>2
<1> QED BY <1>1 DEF IsSequence

\* Fields of overlays are set in any order: an overlay that grew the sequence is found
\* by the next pair, and two pairs of one overlay set two fields of it
\* (params.rs:946-956).
LEMMA DrawSetsCommute ==
  ASSUME NEW draw, IsSequence(draw),
         NEW i \in Nat, NEW f, NEW v, NEW j \in Nat, NEW g, NEW w,
         i # j \/ f # g
  PROVE  DrawSet(DrawSet(draw, i, f, v), j, g, w) = DrawSet(DrawSet(draw, j, g, w), i, f, v)
<1> DEFINE first == DrawSet(draw, i, f, v)
           second == DrawSet(draw, j, g, w)
           here == DrawSet(first, j, g, w)
           there == DrawSet(second, i, f, v)
<1>1. /\ IsSequence(first) /\ Len(first) = IF Len(draw) > i THEN Len(draw) ELSE i + 1
      /\ \A k \in Nat \ {0} :
           Entry(first, k) = IF k = i + 1 THEN [Entry(draw, k) EXCEPT ![f] = v] ELSE Entry(draw, k)
  BY DrawSetIs
<1>2. /\ IsSequence(second) /\ Len(second) = IF Len(draw) > j THEN Len(draw) ELSE j + 1
      /\ \A k \in Nat \ {0} :
           Entry(second, k) = IF k = j + 1 THEN [Entry(draw, k) EXCEPT ![g] = w] ELSE Entry(draw, k)
  BY DrawSetIs
<1> HIDE DEF first, second
<1>3. /\ IsSequence(here) /\ Len(here) = IF Len(first) > j THEN Len(first) ELSE j + 1
      /\ \A k \in Nat \ {0} :
           Entry(here, k) = IF k = j + 1 THEN [Entry(first, k) EXCEPT ![g] = w] ELSE Entry(first, k)
  BY <1>1, DrawSetIs
<1>4. /\ IsSequence(there) /\ Len(there) = IF Len(second) > i THEN Len(second) ELSE i + 1
      /\ \A k \in Nat \ {0} :
           Entry(there, k) = IF k = i + 1 THEN [Entry(second, k) EXCEPT ![f] = v]
                             ELSE Entry(second, k)
  BY <1>2, DrawSetIs
<1> HIDE DEF here, there
<1>5. Len(here) = Len(there) BY <1>1, <1>2, <1>3, <1>4 DEF IsSequence
<1>6. ASSUME NEW k \in Nat \ {0} PROVE Entry(here, k) = Entry(there, k)
  <2>1. CASE i = j
    <3>1. f # g BY <2>1
    <3>2. CASE k = i + 1
      <4> DEFINE e == Entry(draw, k)
      <4>1. /\ Entry(here, k) = [[e EXCEPT ![f] = v] EXCEPT ![g] = w]
            /\ Entry(there, k) = [[e EXCEPT ![g] = w] EXCEPT ![f] = v]
        BY <1>1, <1>2, <1>3, <1>4, <2>1, <3>2
      <4> HIDE DEF e
      <4>2. [[e EXCEPT ![f] = v] EXCEPT ![g] = w] = [[e EXCEPT ![g] = w] EXCEPT ![f] = v]
        BY <3>1
      <4> QED BY <4>1, <4>2
    <3>3. CASE k # i + 1 BY <1>1, <1>2, <1>3, <1>4, <2>1, <3>3
    <3> QED BY <3>2, <3>3
  <2>2. CASE i # j
    <3>1. i + 1 # j + 1 BY <2>2
    <3> QED BY <1>1, <1>2, <1>3, <1>4, <3>1
  <2> QED BY <2>1, <2>2
<1> QED BY <1>3, <1>4, <1>5, <1>6, SameDraw DEF here, there, first, second

\* Pairs that set different fields may change places (params.rs:904-1003).
LEMMA PairsCommute ==
  ASSUME NEW params, WellTyped(params), NEW a, NEW b, IsPair(a), IsPair(b),
         ~BadPair(a), ~BadPair(b), Target(a) # Target(b)
  PROVE  PairSets(PairSets(params, a), b) = PairSets(PairSets(params, b), a)
<1> DEFINE Drawn(p, pair) == [p EXCEPT !.draw = DrawSet(@, pair.index, pair.field,
                                                      OverlayValueOf(pair.field, pair.text))]
           field(pair) == Meaning(OptionKeys, pair.field)
           value(pair) == ValueOf(field(pair), pair.text)
           Option(p, pair) == [p EXCEPT ![field(pair)] = value(pair)]
<1>1. \A p, pair : PairSets(p, pair) = CASE pair.form = "empty" -> p
                                        [] pair.form = "draw" -> Drawn(p, pair)
                                        [] OTHER -> Option(p, pair)
  BY DEF PairSets
<1>2. IsSequence(params.draw) /\ DOMAIN params = Field
  <2>1. params = [f \in Field |-> params[f]] BY DEF WellTyped, IsRecord
  <2> QED BY <2>1 DEF WellTyped
<1>3. \A pair \in {a, b} :
        /\ pair.form = "draw" => pair.index \in Nat
        /\ pair.form \notin {"empty", "draw"} => field(pair) \in Field \ {"draw"}
  BY Accepted
<1>0. "draw" \in Field BY DEF Field, Default
<1>4. CASE a.form = "empty" \/ b.form = "empty" BY <1>1, <1>4
<1>5. CASE a.form = "draw" /\ b.form = "draw"
  <2>1. a.index # b.index \/ a.field # b.field BY <1>5 DEF Target
  <2> DEFINE One(draw) == DrawSet(draw, a.index, a.field, OverlayValueOf(a.field, a.text))
             Two(draw) == DrawSet(draw, b.index, b.field, OverlayValueOf(b.field, b.text))
  <2>2. Two(One(params.draw)) = One(Two(params.draw))
    <3> DEFINE v == OverlayValueOf(a.field, a.text)
               w == OverlayValueOf(b.field, b.text)
    <3> HIDE DEF v, w
    <3>1. DrawSet(DrawSet(params.draw, a.index, a.field, v), b.index, b.field, w)
            = DrawSet(DrawSet(params.draw, b.index, b.field, w), a.index, a.field, v)
      BY <1>2, <1>3, <1>5, <2>1, DrawSetsCommute
    <3> QED BY <3>1 DEF v, w
  <2>3. \A p : Drawn(p, a) = [p EXCEPT !.draw = One(@)] /\ Drawn(p, b) = [p EXCEPT !.draw = Two(@)]
    OBVIOUS
  <2> HIDE DEF One, Two, Drawn
  <2> DEFINE new(d) == [params EXCEPT !.draw = d]
  <2>4. \A d : new(d).draw = d /\ \A e : [new(d) EXCEPT !.draw = e] = new(e) BY <1>0, <1>2
  <2>5. Drawn(params, a) = new(One(params.draw)) /\ Drawn(params, b) = new(Two(params.draw))
    BY <2>3
  <2> HIDE DEF new
  <2>6. \A d : Drawn(new(d), a) = new(One(d)) /\ Drawn(new(d), b) = new(Two(d))
    <3> TAKE d
    <3>1. /\ Drawn(new(d), a) = [new(d) EXCEPT !.draw = One(new(d).draw)]
          /\ Drawn(new(d), b) = [new(d) EXCEPT !.draw = Two(new(d).draw)]
      BY <2>3
    <3> QED BY <2>4, <3>1
  <2>7. Drawn(Drawn(params, a), b) = Drawn(Drawn(params, b), a) BY <2>2, <2>5, <2>6
  <2> QED BY <1>1, <1>5, <2>7
<1>6. CASE a.form = "draw" /\ b.form \notin {"empty", "draw"}
  <2>1. field(b) \in Field \ {"draw"} BY <1>3, <1>6
  <2> HIDE DEF field, value
  <2>2. Option(Drawn(params, a), b) = Drawn(Option(params, b), a)
    BY <1>0, <1>2, <2>1
  <2> QED BY <1>1, <1>6, <2>2
<1>7. CASE b.form = "draw" /\ a.form \notin {"empty", "draw"}
  <2>1. field(a) \in Field \ {"draw"} BY <1>3, <1>7
  <2> HIDE DEF field, value
  <2>2. Drawn(Option(params, a), b) = Option(Drawn(params, b), a)
    BY <1>0, <1>2, <2>1
  <2> QED BY <1>1, <1>7, <2>2
<1>8. CASE a.form \notin {"empty", "draw"} /\ b.form \notin {"empty", "draw"}
  <2>1. field(a) # field(b) BY <1>8 DEF Target
  <2> HIDE DEF field, value
  <2>2. Option(Option(params, a), b) = Option(Option(params, b), a)
    BY <1>2, <2>1
  <2> QED BY <1>1, <1>8, <2>2
<1> QED BY <1>4, <1>5, <1>6, <1>7, <1>8

\* What a segment is parsed to does not depend on the order of two pairs next to each
\* other that set different fields; nor does whether it is accepted.
THEOREM SwapParses ==
  ASSUME NEW pairs, IsSequence(pairs), \A k \in DOMAIN pairs : IsPair(pairs[k]),
         NEW i \in 1..(Len(pairs) - 1), Target(pairs[i]) # Target(pairs[i + 1])
  PROVE  LET here == parse(pairs)
             there == parse(Swapped(pairs, i))
         IN  /\ (there.error = None) = (here.error = None)
             /\ here.error = None => there.params = here.params
<1> DEFINE other == Swapped(pairs, i)
           n == Len(pairs)
<1>1. DOMAIN pairs = 1..n /\ n \in Nat /\ i \in 1..(n - 1) BY SequenceDomain
<1>0. Len(pairs) = n OBVIOUS
<1> HIDE DEF n
<1>9. i \in 1..n /\ i + 1 \in 1..n /\ i # n BY <1>1
<1>2. /\ DOMAIN other = 1..n /\ other = [k \in 1..n |-> other[k]]
      /\ \A k \in 1..n : other[k] = IF k = i THEN pairs[i + 1]
                                     ELSE IF k = i + 1 THEN pairs[i] ELSE pairs[k]
  <2>1. pairs = [k \in 1..n |-> pairs[k]] BY <1>0 DEF IsSequence
  <2> QED BY <1>1, <2>1 DEF Swapped
<1> HIDE DEF other
<1>3. IsSequence(other) /\ Len(other) = n BY <1>1, <1>9, <1>2, LengthOf
<1>4. \A k \in 1..n : IsPair(pairs[k]) /\ IsPair(other[k]) BY <1>1, <1>9, <1>2
<1>5. (\A k \in 1..n : ~BadPair(pairs[k])) <=> \A k \in 1..n : ~BadPair(other[k])
  <2>1. \A k \in 1..n : \E l \in 1..n : other[k] = pairs[l] BY <1>1, <1>9, <1>2
  <2>2. \A k \in 1..n : \E l \in 1..n : pairs[k] = other[l]
    <3> TAKE k \in 1..n
    <3>1. CASE k = i
      <4>1. other[i + 1] = pairs[i] BY <1>1, <1>9, <1>2
      <4> QED BY <1>9, <3>1, <4>1
    <3>2. CASE k = i + 1
      <4>1. other[i] = pairs[i + 1] BY <1>1, <1>9, <1>2
      <4> QED BY <1>9, <3>2, <4>1
    <3>3. CASE k # i /\ k # i + 1 BY <1>2, <3>3
    <3> QED BY <3>1, <3>2, <3>3
  <2> QED BY <2>1, <2>2
<1>6. /\ parse(pairs).error = None <=> \A k \in 1..n : ~BadPair(pairs[k])
      /\ parse(other).error = None <=> \A k \in 1..n : ~BadPair(other[k])
  BY <1>1, <1>2, <1>3, <1>4, ParseTyped
<1>7. (parse(other).error = None) = (parse(pairs).error = None) BY <1>5, <1>6
<1>8. ASSUME parse(pairs).error = None PROVE parse(other).params = parse(pairs).params
  <2> DEFINE p == Parsed(pairs)
             q == Parsed(other)
             G == {m \in Nat : \A k \in 0..m : k <= n /\ k # i => q[k].params = p[k].params}
  <2>1. \A k \in 1..n : ~BadPair(pairs[k]) /\ ~BadPair(other[k]) BY <1>5, <1>6, <1>8
  <2>2. \A k \in 0..n :
          /\ WellTyped(p[k].params)
          /\ k > 0 => p[k].params = PairSets(p[k - 1].params, pairs[k])
    BY <1>0, <1>1, <1>4, <2>1, PairsParsed
  <2>3. \A k \in 0..n : k > 0 => q[k].params = PairSets(q[k - 1].params, other[k])
    <3>1. IsSequence(other) /\ \A k \in DOMAIN other : IsPair(other[k])
      BY <1>2, <1>3, <1>4
    <3>2. \A k \in 0..Len(other) :
            /\ q[k].error = None <=> \A l \in 1..k : ~BadPair(other[l])
            /\ k > 0 /\ q[k].error = None => q[k].params = PairSets(q[k - 1].params, other[k])
      BY <3>1, PairsParsed
    <3> QED BY <1>1, <1>3, <2>1, <3>2
  <2>4. p[0].params = q[0].params
    <3>1. p[0] = Fine(Default) BY <1>0, <1>1, ParsedSteps
    <3>2. q[0] = Fine(Default) BY <1>1, <1>3, ParsedSteps
    <3> QED BY <3>1, <3>2
  <2> HIDE DEF p, q
  <2>5. 0 \in G BY <2>4
  <2>6. ASSUME NEW m \in Nat, m \in G PROVE m + 1 \in G
    <3> SUFFICES ASSUME m + 1 <= n, m + 1 # i PROVE q[m + 1].params = p[m + 1].params
      BY <2>6
    <3>1. m + 1 \in 0..n /\ m + 1 > 0 /\ m \in 0..m /\ m <= n BY <1>1
    <3>2. /\ p[m + 1].params = PairSets(p[m].params, pairs[m + 1])
          /\ q[m + 1].params = PairSets(q[m].params, other[m + 1])
      BY <2>2, <2>3, <3>1
    <3>3. CASE m # i
      <4>1. q[m].params = p[m].params BY <2>6, <3>1, <3>3
      <4>2. other[m + 1] = pairs[m + 1] BY <1>1, <1>9, <1>2, <3>1, <3>3
      <4> QED BY <3>2, <4>1, <4>2
    <3>4. CASE m = i
      <4>1. i - 1 \in 0..m /\ i - 1 # i /\ i - 1 <= n /\ i - 1 \in 0..n /\ i \in 0..n /\ i > 0
        BY <1>1, <1>9, <3>4
      <4>2. q[i - 1].params = p[i - 1].params BY <2>6, <4>1
      <4>3. /\ p[i].params = PairSets(p[i - 1].params, pairs[i])
            /\ q[i].params = PairSets(p[i - 1].params, pairs[i + 1])
        BY <1>1, <1>9, <1>2, <2>2, <2>3, <4>1, <4>2
      <4>4. other[i + 1] = pairs[i] BY <1>1, <1>9, <1>2
      <4>5. WellTyped(p[i - 1].params) BY <2>2, <4>1
      <4>6. PairSets(PairSets(p[i - 1].params, pairs[i]), pairs[i + 1])
              = PairSets(PairSets(p[i - 1].params, pairs[i + 1]), pairs[i])
        BY <1>1, <1>4, <2>1, <4>5, PairsCommute
      <4> QED BY <3>2, <3>4, <4>3, <4>4, <4>6
    <3> QED BY <3>3, <3>4
  <2> HIDE DEF G
  <2>7. n \in G BY <1>1, <2>5, <2>6, Induction
  <2>8. q[n].params = p[n].params
    <3>1. n \in 0..n /\ n <= n /\ n # i BY <1>1, <1>9
    <3> QED BY <2>7, <3>1 DEF G
  <2> QED BY <1>0, <1>3, <2>8 DEF parse, p, q
<1> QED BY <1>7, <1>8 DEF other

-----------------------------------------------------------------------------
\* The quality of slow connections is one, too (params.rs:596-607).
LEMMA SlowTyped ==
  ASSUME NEW params, WellTyped(params), NEW is_slow
  PROVE  WellTyped(apply_scq_override(params, is_slow))
<1> DEFINE new == [params EXCEPT !.quality = params.scq]
<1>1. params = [f \in Field |-> params[f]] BY DEF WellTyped, IsRecord
<1>2. DOMAIN params = Field BY <1>1
<1>3. \A f \in Field : new[f] = IF f = "quality" THEN params.scq ELSE params[f] BY <1>2
<1>4. IsRecord(new, Field) BY <1>2 DEF IsRecord
<1> HIDE DEF new
<1>5. "quality" \in WholeNumber /\ "scq" \in WholeNumber BY DEF WholeNumber
<1>6. \A f \in WholeNumber : new[f] \in Nat \cup {None}
  <2>1. WholeNumber \subseteq Field BY DEF WholeNumber, Field, Default
  <2> QED BY <1>3, <1>5, <2>1 DEF WellTyped
<1>7. \A f \in OneDecimal \cup TwoDecimals \cup {"fit", "gravity", "dpr", "draw"} : new[f] = params[f]
  BY <1>3 DEF OneDecimal, TwoDecimals, Field, Default
<1>8. \A t \in WordTables : new[t[1]] = params[t[1]] BY <1>3 DEF WordTables, Field, Default
<1>9. WellTyped(new) BY <1>4, <1>6, <1>7, <1>8 DEF WellTyped
<1> QED BY <1>9 DEF apply_scq_override, new
=============================================================================
