------------------------------ MODULE MCPurecalc ------------------------------
(* The purecalc routes on their published samples and on small inputs. *)
EXTENDS Purecalc

Num(n) == [t |-> "int", v |-> 2 * n]
Halves(n) == [t |-> "float", v |-> n]
True == [t |-> "bool", v |-> TRUE]
Null == [t |-> "null"]
Obj(f) == [t |-> "obj", v |-> f]
Arr(s) == [t |-> "arr", v |-> s]
Code(slug, code) == [slug |-> slug, code |-> code]
FromValue(n) == [slug |-> "roman", value |-> <<n>>, roman |-> <<>>]
FromText(s) == [slug |-> "roman", value |-> <<>>, roman |-> <<s>>]
DecimalOf(deg, part) == <<[west |-> FALSE, degrees |-> deg, part |-> part, short |-> FALSE]>>
DmsCall(decimal, dms) == [slug |-> "dms", decimal |-> decimal, dms |-> dms]
Angle(deg, min, sec, dir) == <<[degrees |-> deg, minutes |-> min, seconds |-> sec, direction |-> dir]>>
Word(n) == [groups |-> n, endsInE |-> FALSE, endsInLe |-> FALSE]

\* sample_input and sample_output of the specs registered in
\* app/purecalc/routes, in this model's units.
Samples == {
    <<Code("iban", <<16, 11, 8, 2, 32, 14, 28, 29, 1, 2, 3, 4, 5, 6, 9, 8, 7, 6, 5, 4, 3, 2>>), TRUE>>,
    <<Code("vin", <<1, 17, 16, 12, 22, 8, 2, 6, 3, 3, 10, 0, 0, 4, 3, 5, 2>>), TRUE>>,
    <<Code("isbn", <<0, 3, 0, 6, 4, 0, 6, 1, 5, 2>>), TRUE>>,
    <<Code("luhn", <<4, 1, 1, 1, 1, 1, 1, 1, 1, 1, 1, 1, 1, 1, 1, 1>>), TRUE>>,
    <<Code("ean", <<4, 0, 0, 6, 3, 8, 1, 3, 3, 3, 9, 3, 1>>), TRUE>>,
    <<Code("imei", <<4, 9, 0, 1, 5, 4, 2, 0, 3, 2, 3, 7, 5, 1, 8>>), TRUE>>,
    <<Code("routing", <<0, 2, 1, 0, 0, 0, 0, 2, 1>>), TRUE>>,
    <<Code("isin", <<30, 28, 0, 3, 7, 8, 3, 3, 1, 0, 0, 5>>), TRUE>>,
    <<Code("siret", <<5, 5, 2, 3, 0, 1, 2, 3, 4, 5, 0, 0, 0, 6>>), TRUE>>,
    <<FromValue(1994), <<"M", "C", "M", "X", "C", "I", "V">>>>,
    <<[slug |-> "words", value |-> 123], <<1, 100, 20, 3>>>>,
    <<[slug |-> "radix", digits |-> <<2, 5, 5>>, negative |-> FALSE, from |-> 10, to |-> 16],
      [negative |-> FALSE, digits |-> <<15, 15>>]>>,
    <<[slug |-> "ordinal", value |-> 23], "rd">>,
    <<[slug |-> "fraction", num |-> 4, den |-> 8], <<1, 2>>>>,
    <<[slug |-> "allocate", amount |-> 5, ratios |-> <<1, 1, 1>>], <<2, 2, 1>>>>,
    <<[slug |-> "unit", v |-> 1, from |-> "mi", to |-> "km"], <<16093440, 10000000>>>>,
    <<[slug |-> "business", start |-> 3, end |-> 9], 5>>,
    <<[slug |-> "add", at |-> 0, days |-> 1, hours |-> 2, minutes |-> 0, seconds |-> 0], 93600>>,
    <<[slug |-> "between", start |-> 0, end |-> 91800],
      [total |-> 91800, days |-> 1, hours |-> 1, minutes |-> 30, seconds |-> 0]>>,
    <<[slug |-> "humanize", at |-> 36000, reference |-> 43200], <<"ago", 2, "hour">>>>,
    <<[slug |-> "polygon", at |-> <<4, 4>>, polygon |-> <<<<0, 0>>, <<16, 0>>, <<16, 16>>, <<0, 16>>>>,
       tiles |-> {}], TRUE>>,
    <<[slug |-> "geohash", lat |-> 1563, lon |-> 75, precision |-> 2],
      <<1, 1, 0, 1, 0, 0, 0, 0, 0, 0>>>>,
    <<[slug |-> "bbox", points |-> <<<<23522, 488566>>, <<-1278, 515074>>>>],
      <<488566, 515074, -1278, 23522>>>>,
    <<DmsCall(DecimalOf(2, 35220000), <<>>),
      [degrees |-> 2, minutes |-> 21, seconds |-> 79200, direction |-> "E"]>>,
    <<[slug |-> "summary", data |-> <<2, 4, 4, 4, 5, 5, 7, 9>>],
      [count |-> 8, mean |-> <<40, 8>>, min |-> 2, max |-> 9, median |-> 450, variance |-> <<256, 56>>]>>,
    <<[slug |-> "correlation", x |-> <<1, 2, 3, 4, 5>>, y |-> <<2, 4, 6, 8, 10>>], <<10000, 10000>>>>,
    <<[slug |-> "regression", x |-> <<1, 2, 3, 4, 5>>, y |-> <<2, 4, 6, 8, 10>>],
      [slope |-> <<100, 50>>, intercept |-> <<0, 250>>, r2 |-> <<2500000, 2500000>>]>>,
    <<[slug |-> "percentile", data |-> <<1, 2, 3, 4, 5, 6, 7, 8, 9, 10>>, p |-> 50], 550>>,
    <<[slug |-> "case", target |-> "snake", text |-> <<"H", "e", "l", "l", "o", " ", "W", "o", "r", "l",
       "d", " ", "E", "x", "a", "m", "p", "l", "e">>],
      <<"h", "e", "l", "l", "o", "_", "w", "o", "r", "l", "d", "_", "e", "x", "a", "m", "p", "l", "e">>>>,
    <<[slug |-> "slug", separator |-> "-", text |-> <<"C", "a", "f", "e", " ", "a", " ", "l", "a", " ",
       "M", "o", "d", "e", "!">>],
      <<"c", "a", "f", "e", "-", "a", "-", "l", "a", "-", "m", "o", "d", "e">>>>,
    <<[slug |-> "readability", sentences |-> 2,
       words |-> [i \in 1..11 |-> Word(IF i = 10 THEN 2 ELSE 1)]],
      [syllables |-> 12, ease |-> 10896, grade |-> -57]>>,
    <<[slug |-> "diff", a |-> Obj([age |-> Num(30), name |-> Null]),
       b |-> Obj([age |-> Num(31), name |-> Null])], {<<"$.age", "changed">>}>>,
    <<[slug |-> "flatten", doc |-> Obj([a |-> Obj([b |-> Num(1), c |-> Arr(<<Num(2), Num(3)>>)])])],
      {"a.b", "a.c.0", "a.c.1"}>>,
    <<[slug |-> "infer", doc |-> Obj([age |-> Num(30), active |-> True])],
      [type |-> "obj", of |-> [age |-> [type |-> "int"], active |-> [type |-> "bool"]]]>>}

\* The free sample a route publishes, and what its bare GET computes, is what
\* the paid call answers for that input (sample_input and sample_output of
\* every ComputeSpec, app/purecalc/engine.py:60-62 and 137-150).
SamplesAreTrue ==
    answer.status # "waiting" => \A s \in Samples :
        s[1].slug = call.slug => (s[1] = call => answer = Paid(s[2]))
-----------------------------------------------------------------------------
Docs == {Num(0), Num(1), Halves(2), Halves(3), True, Null, Arr(<<>>), Arr(<<Num(1), Num(0)>>),
         Arr(<<Num(1), Halves(2)>>), Arr(<<Num(1), Halves(3)>>), Arr(<<Halves(3), Num(1)>>), Arr(<<Num(1), Null>>),
         Arr(<<Obj([a |-> Num(1)])>>), Arr(<<Obj([a |-> Num(1)]), Obj([b |-> Null])>>),
         Obj([a |-> Num(1)]), Obj([a |-> Num(1), b |-> Null]), Obj([b |-> Arr(<<True>>)])}
Texts == {<<"a", "B">>, <<"A", " ", "1", "b">>, <<"-", "a", "_", "Z", "b">>, <<"_", " ">>, <<"b", "2", "A", "z">>,
          <<"!", "a", "!">>, <<"a", "!", " ", "b">>}
\* Maps cut in two, by a side that crosses parallels at thirds and by others
Scaled(polygon) == [i \in 1..Len(polygon) |-> <<4 * polygon[i][1], 4 * polygon[i][2]>>]
Whole == Scaled(<<<<0, 0>>, <<4, 0>>, <<4, 4>>, <<0, 4>>>>)
Halved == {Scaled(<<<<0, 0>>, <<2, 0>>, <<3, 4>>, <<0, 4>>>>), Scaled(<<<<2, 0>>, <<4, 0>>, <<4, 4>>, <<3, 4>>>>)}
InThirds == {Scaled(<<<<0, 0>>, <<3, 0>>, <<1, 3>>, <<1, 4>>, <<0, 4>>>>),
             Scaled(<<<<3, 0>>, <<4, 0>>, <<4, 4>>, <<1, 4>>, <<1, 3>>>>)}

Inputs1 ==
         {s[1] : s \in Samples}
    \cup {Code("isbn", s) : s \in {<<9, 7, 8, 0, 3, 0, 6, 4, 0, 6, 1, 5, 7>>, <<1, 2>>,
            <<0, 8, 0, 4, 4, 2, 9, 5, 7, 33>>, <<33, 8, 0, 4, 4, 2, 9, 5, 7, 33>>}}
    \cup {Code("ean", <<9, 6, 3, 8, 5, 0, 7, 4>>), Code("iban", <<16, 11, 8, 2>>)}
    \cup {Code("luhn", <<a, b, c>>) : a \in 0..9, b \in {0, 5, 9}, c \in 0..9}
    \cup {FromValue(n) : n \in 1..120 \cup {3999}} \cup {FromText(r) : r \in {<<"I", "C">>, <<"q">>, <<>>, <<"i", "V">>}}
    \cup {[slug |-> "roman", value |-> <<>>, roman |-> <<>>], [FromValue(5) EXCEPT !.roman = <<<<"V">>>>]}
    \cup {[slug |-> "words", value |-> n] : n \in (0..130) \cup
            {1000, 1001, 21000, 100000, 1000000, 1000019, 19000100, 2000100003}}
    \cup {[slug |-> "radix", digits |-> d, negative |-> m, from |-> f, to |-> t] : m \in BOOLEAN,
            d \in {<<>>, <<0>>, <<1, 0, 1>>, <<0, 2, 1>>, <<6, 6>>}, f \in {2, 3, 7}, t \in {2, 7, 36}}
    \cup {[slug |-> "ordinal", value |-> n] : n \in {-11, 1, 12, 102, 113}}
    \cup {[slug |-> "fraction", num |-> a, den |-> b] : a \in -6..6, b \in -4..4}
    \cup {[slug |-> "unit", v |-> 1, from |-> a, to |-> b] :
            a \in {"m", "kg", "gal", "C", "F"}, b \in {"km", "oz", "l", "K"}}
    \cup {[slug |-> "business", start |-> a, end |-> b] : a \in 0..6, b \in {0, 5, 13}}
    \cup {[slug |-> "between", start |-> a, end |-> b] : a \in {0, 59, 90000}, b \in {0, 3600, 176461}}
    \cup {[slug |-> "humanize", at |-> a, reference |-> 100000] :
            a \in {0, 99950, 100060, 103599, 103600, 200000}}
Inputs2 ==
         {[slug |-> "allocate", amount |-> n, ratios |-> r] : n \in (0..20) \cup {131},
            r \in {<<1, 1>>, <<1, 1, 1>>, <<1, 2>>, <<3, 0, 4>>, <<5, 3, 1, 1>>, <<0>>, <<2, -1>>}}
    \cup {[slug |-> "polygon", at |-> <<4 * x, 4 * y>>, polygon |-> Whole, tiles |-> t] :
            x \in 0..4, y \in -1..5, t \in {Halved, InThirds}}
    \cup {[slug |-> "polygon", at |-> <<x, 5>>, polygon |-> Whole, tiles |-> InThirds] : x \in 7..10}
    \cup {[slug |-> "geohash", lat |-> a, lon |-> b, precision |-> p] :
            a \in {-2880, -1, 0, 1439, 1440, 2880}, b \in {-5760, 0, 359, 360, 5760}, p \in {1, 2}}
    \cup {[slug |-> "bbox", points |-> <<<<1, 2>>>>]}
    \* 1/60 of a degree less a little, 4.35 whose float falls short, both ends
    \cup {DmsCall(d, <<>>) : d \in {DecimalOf(0, 1666665), DecimalOf(0, 1666666), DecimalOf(1, 99999999),
            <<[west |-> FALSE, degrees |-> 4, part |-> 35000000, short |-> TRUE]>>, DecimalOf(180, 0),
            <<[west |-> TRUE, degrees |-> 7, part |-> 12345678, short |-> FALSE]>>, DecimalOf(180, 1), <<>>}}
    \cup {DmsCall(<<>>, d) : d \in {Angle(2, 21, 79200, "S"), Angle(180, 59, 599999, "N"), Angle(0, 60, 0, "W"),
            Angle(0, 0, 600000, "E")}}
    \cup {DmsCall(DecimalOf(1, 0), Angle(1, 0, 0, "E"))}
    \cup {[slug |-> "percentile", data |-> d, p |-> p] :
            d \in {<<7>>, <<3, 1>>, <<1, 1, 5>>, <<9, 2, 4, 2>>}, p \in {0, 1, 25, 33, 34, 50, 67, 99, 100}}
    \cup {[slug |-> k, x |-> x, y |-> y] : k \in {"correlation", "regression"},
            x \in {<<1, 2, 4>>, <<0, 1, -1>>, <<2, 2, 2>>}, y \in {<<1, 0, 3>>, <<5, 5, 5>>, <<1, 2>>}}
    \cup {[slug |-> "case", target |-> g, text |-> t] : t \in Texts,
            g \in {"snake", "constant", "kebab", "camel", "pascal", "title"}}
    \cup {[slug |-> "slug", separator |-> x, text |-> t] : x \in {"-", "", "a"}, t \in Texts}
    \cup {[slug |-> "readability", sentences |-> n, words |-> <<[Word(2) EXCEPT !.endsInE = TRUE]>>] :
            n \in {0, 1}}
    \cup {[slug |-> "diff", a |-> a, b |-> b] : a \in Docs, b \in Docs}
    \cup {[slug |-> k, doc |-> d] : k \in {"flatten", "infer"}, d \in Docs}
MCInputs == Inputs1 \cup Inputs2
=============================================================================
