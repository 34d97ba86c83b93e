------------------------------- MODULE Purecalc -------------------------------
(***************************************************************************)
(* The routes of app/purecalc: a call is validated, computed without any   *)
(* upstream and either answered and logged 'paid' or refused for free.     *)
(* Digits are numbers, letters their base-36 value, text a sequence of     *)
(* one-character strings, a float a rational <<n, d>>, a field that may be *)
(* None a sequence of at most one value.  A call is one the input model    *)
(* accepts; only dms, whose answers are read back as calls, has the bounds *)
(* of its model here.  Routes that only hand their input to a library      *)
(* (hashes, JSONPath, regexes, zones, trig) have no definition.            *)
(***************************************************************************)
EXTENDS Checksums, SequencesExt, FiniteSetsExt, TLC

CONSTANT
    Mantissa        \* bits of a float's significand (53 in Python)

Given(field) == field # <<>>
Each(f(_), s) == [i \in 1..Len(s) |-> f(s[i])]
Abs(n) == IF n < 0 THEN -n ELSE n
HalfEven(n, d) ==
    LET q == n \div d IN
    IF 2 * (n % d) > d \/ (2 * (n % d) = d /\ q % 2 = 1) THEN q + 1 ELSE q
Upper == [a |-> "A", b |-> "B", c |-> "C", d |-> "D", e |-> "E", f |-> "F", h |-> "H", i |-> "I",
          l |-> "L", m |-> "M", o |-> "O", p |-> "P", q |-> "Q", r |-> "R", v |-> "V", w |-> "W",
          x |-> "X", z |-> "Z"]
Lower == AntiFunction(Upper)
IsUpper(ch) == ch \in DOMAIN Lower
IsLowerOrDigit(ch) == ch \in DOMAIN Upper \cup {"1", "2"}
ToUpper(ch) == IF ch \in DOMAIN Upper THEN Upper[ch] ELSE ch
ToLower(ch) == IF ch \in DOMAIN Lower THEN Lower[ch] ELSE ch
-----------------------------------------------------------------------------
(* Numbers and money *)

RomanTable == <<<<1000, "M">>, <<900, "CM">>, <<500, "D">>, <<400, "CD">>, <<100, "C">>,
                <<90, "XC">>, <<50, "L">>, <<40, "XL">>, <<10, "X">>, <<9, "IX">>,
                <<5, "V">>, <<4, "IV">>, <<1, "I">>>>
RomanValues == [I |-> 1, V |-> 5, X |-> 10, L |-> 50, C |-> 100, D |-> 500, M |-> 1000]
Symbols(pair) == CASE pair = "CM" -> <<"C", "M">> [] pair = "CD" -> <<"C", "D">>
                   [] pair = "XC" -> <<"X", "C">> [] pair = "XL" -> <<"X", "L">>
                   [] pair = "IX" -> <<"I", "X">> [] pair = "IV" -> <<"I", "V">>
                   [] OTHER -> <<pair>>

ToRoman(n) ==
    FoldLeft(LAMBDA acc, e :
               [left |-> acc.left % e[1],
                out |-> acc.out \o FlattenSeq([i \in 1..(acc.left \div e[1]) |-> Symbols(e[2])])],
             [left |-> n, out |-> <<>>], RomanTable).out
FromRomanStrict(s) ==       \* mutant: a repeated symbol is subtracted
    FoldRight(LAMBDA ch, acc :
                LET v == RomanValues[ch] IN
                [sum |-> acc.sum + (IF v > acc.prev THEN v ELSE -v), prev |-> v],
              s, [sum |-> 0, prev |-> 0]).sum
FromRoman(s) ==
    FoldRight(LAMBDA ch, acc :
                LET v == RomanValues[ch] IN
                [sum |-> acc.sum + (IF v >= acc.prev THEN v ELSE -v), prev |-> v],
              s, [sum |-> 0, prev |-> 0]).sum
Roman(c) ==
    IF Given(c.value) = Given(c.roman) THEN Refused("ambiguous_input")
    ELSE IF Given(c.value) THEN Paid(ToRoman(c.value[1]))
    ELSE LET roman == Each(ToUpper, c.roman[1])
         IN  IF ToSet(roman) \subseteq DOMAIN RomanValues THEN Paid(FromRoman(roman))
             ELSE Refused("invalid_roman")

ThreeDigits(n) ==
    LET rest == n % 100 IN
       (IF n >= 100 THEN <<n \div 100, 100>> ELSE <<>>)
    \o (IF rest >= 20 THEN <<10 * (rest \div 10)>> \o (IF rest % 10 = 0 THEN <<>> ELSE <<rest % 10>>)
        ELSE IF rest > 0 THEN <<rest>> ELSE <<>>)
Words(c) ==
    LET n == c.value
        Scale(unit, next) ==
            LET count == IF next = 0 THEN n \div unit ELSE (n % next) \div unit
            IN  IF count = 0 THEN <<>> ELSE Append(ThreeDigits(count), unit)
    IN  IF n = 0 THEN Paid(<<0>>)
        ELSE Paid(Scale(1000000000, 0) \o Scale(1000000, 1000000000) \o Scale(1000, 1000000)
                  \o ThreeDigits(n % 1000))

RECURSIVE InRadix(_, _)
InRadix(n, base) == IF n < base THEN <<n>> ELSE Append(InRadix(n \div base, base), n % base)
\* Of what int() accepts, blanks, underscores and prefixes are left out.
Radix(c) ==
    LET n == FoldLeft(LAMBDA acc, d : acc * c.from + d, 0, c.digits) IN
    IF c.digits = <<>> \/ \E i \in 1..Len(c.digits) : c.digits[i] >= c.from
    THEN Refused("invalid_digits")
    ELSE Paid([negative |-> c.negative /\ n # 0, digits |-> InRadix(n, c.to)])

Ordinal(c) ==
    LET n == Abs(c.value) IN
    Paid(IF n % 100 \in 11..13 \/ n % 10 \notin 1..3 THEN "th" ELSE <<"st", "nd", "rd">>[n % 10])

RECURSIVE Gcd(_, _)
Gcd(a, b) == IF b = 0 THEN a ELSE Gcd(b, a % b)
Lowest(n, d) ==
    LET g == Gcd(Abs(n), Abs(d)) IN
    <<(IF d < 0 THEN -n ELSE n) \div g, Abs(d) \div g>>
Fraction(c) ==
    IF c.den = 0 THEN Refused("zero_denominator")
    ELSE Paid(Lowest(c.num, c.den))

\* The float nearest to n / d, in 1024ths: at most Mantissa significant bits.
ToFloat(n, d) ==
    LET k == Max({e \in -6..10 : n * 2^(e + 6) < d * 2^(Mantissa + 6)})
    IN  HalfEven(n * 2^(k + 6), d * 64) * 2^(10 - k)
Rounded(n, d) == IF (n < 0) = (d < 0) THEN ToFloat(Abs(n), Abs(d)) ELSE -ToFloat(Abs(n), Abs(d))

SliceShort(s, n) == SubSeq(s, 1, IF n > 0 THEN Min({n - 1, Len(s)}) ELSE 0)  \* mutant: off by one
Slice(s, n) == SubSeq(s, 1, IF n >= 0 THEN Min({n, Len(s)}) ELSE Max({Len(s) + n, 0}))

MoneyAllocate(c) ==
    LET total == SumOf(c.ratios)
        I == 1..Len(c.ratios)
        share == [i \in I |-> ToFloat(c.amount * c.ratios[i], total)]
        whole == [i \in I |-> share[i] \div 1024]
        ByFraction(i, j) == \/ share[i] % 1024 > share[j] % 1024
                            \/ share[i] % 1024 = share[j] % 1024 /\ i < j
        lucky == ToSet(Slice(SetToSortSeq(I, ByFraction), c.amount - SumOf(whole)))
    IN  IF (\E i \in I : c.ratios[i] < 0) \/ total = 0 THEN Refused("invalid_ratios")
        ELSE Paid([i \in I |-> whole[i] + (IF i \in lucky THEN 1 ELSE 0)])

\* In the largest unit that makes every factor of a category an integer.
Factors == <<
    [m |-> 10000, km |-> 10000000, cm |-> 100, mm |-> 10, mi |-> 16093440, yd |-> 9144,
     ft |-> 3048, in |-> 254],
    [kg |-> 1600000000, g |-> 1600000, mg |-> 1600, lb |-> 725747792, oz |-> 45359237],
    [l |-> 500000000, ml |-> 500000, gal |-> 1892705892, qt |-> 473176473]>>
Temperatures == {"C", "F", "K"}
InCelsius(v, unit) ==       \* v and the result in 1/900 of a degree
    CASE unit = "C" -> v [] unit = "F" -> ((v - 28800) * 5) \div 9 [] unit = "K" -> v - 245835
FromCelsius(v, unit) ==
    CASE unit = "C" -> v [] unit = "F" -> (v * 9) \div 5 + 28800 [] unit = "K" -> v + 245835
UnitConvert(c) ==
    IF {c.from, c.to} \cap Temperatures # {}
    THEN IF {c.from, c.to} \subseteq Temperatures
         THEN Paid(FromCelsius(InCelsius(c.v, c.from), c.to)) ELSE Refused("unknown_unit")
    ELSE IF \E k \in 1..3 : {c.from, c.to} \subseteq DOMAIN Factors[k]
    THEN LET f == Factors[CHOOSE k \in 1..3 : c.from \in DOMAIN Factors[k]]
         IN  Paid(<<c.v * f[c.from], f[c.to]>>)
    ELSE Refused("incompatible_units")
-----------------------------------------------------------------------------
(* Dates: a date is a day number, 0 a Monday; a time a number of seconds *)

RECURSIVE Weekdays(_, _)
Weekdays(d, end) == IF d > end THEN 0 ELSE (IF d % 7 < 5 THEN 1 ELSE 0) + Weekdays(d + 1, end)
BusinessDays(c) ==
    IF c.end < c.start THEN Refused("invalid_range") ELSE Paid(Weekdays(c.start, c.end))

AddTime(c) == Paid(c.at + 86400 * c.days + 3600 * c.hours + 60 * c.minutes + c.seconds)

Between(c) ==
    LET span == Abs(c.end - c.start) IN
    Paid([total |-> c.end - c.start, days |-> span \div 86400, hours |-> (span % 86400) \div 3600,
          minutes |-> (span % 3600) \div 60, seconds |-> span % 60])

Humanize(c) ==
    LET size == Abs(c.at - c.reference)
        units == SelectSeq(<<<<"day", 86400>>, <<"hour", 3600>>, <<"minute", 60>>>>,
                           LAMBDA u : size >= u[2])
    IN  Paid(IF units = <<>> THEN <<"just now">>
             ELSE <<IF c.at >= c.reference THEN "in" ELSE "ago",
                    size \div units[1][2], units[1][1]>>)
-----------------------------------------------------------------------------
(* Places: coordinates are in quarters of a degree for a polygon, in 32nds  *)
(* for a geohash                                                            *)

\* Where side ab meets the parallel of a point: a float, in 1024ths.  Each
\* operation rounds.
Crossing(a, b, y) ==
    LET rise == Rounded((b[1] - a[1]) * (y - a[2]), 16)
        run == Rounded(rise, 256 * (b[2] - a[2]))
    IN  Rounded(run + 256 * a[1], 1024)
InsideBy(Crosses(_, _), polygon) ==
    LET n == Len(polygon) IN
    Cardinality({i \in 1..n : Crosses(polygon[IF i = 1 THEN n ELSE i - 1], polygon[i])}) % 2 = 1
PointUpwards(c) ==          \* mutant: only the sides that rise are counted
    LET Crosses(a, b) == a[2] <= c.at[2] /\ b[2] > c.at[2] /\ 256 * c.at[1] < Crossing(a, b, c.at[2])
    IN  Paid(InsideBy(Crosses, c.polygon))
PointInPolygon(c) ==
    LET Crosses(a, b) ==        \* the ray from the point to the right meets side ab
            (a[2] > c.at[2]) # (b[2] > c.at[2]) /\ 256 * c.at[1] < Crossing(a, b, c.at[2])
    IN  Paid(InsideBy(Crosses, c.polygon))

Geohash(c) ==
    LET Halve(acc, k) ==
            LET axis == IF k % 2 = 1 THEN "lon" ELSE "lat"
                mid == (acc[axis][1] + acc[axis][2]) \div 2
                up == c[axis] >= mid
            IN  [acc EXCEPT ![axis] = IF up THEN <<mid, @[2]>> ELSE <<@[1], mid>>,
                            !.bits = Append(@, IF up THEN 1 ELSE 0)]
        start == [lat |-> <<-90 * 32, 90 * 32>>, lon |-> <<-180 * 32, 180 * 32>>, bits |-> <<>>]
    IN  Paid(FoldLeft(Halve, start, [k \in 1..(5 * c.precision) |-> k]).bits)

Bbox(c) ==
    LET at(k) == {c.points[i][k] : i \in 1..Len(c.points)} IN
    Paid(<<Min(at(2)), Max(at(2)), Min(at(1)), Max(at(1))>>)

\* A decimal is degrees and a part in 10^-8 of a degree; seconds are rounded
\* to 10^-4.  It is "short" when 60 times its part, a float, falls just under
\* the decimal value, as for 4.35.
Degree == 100000000
DmsAccepts(c) ==
    /\ Given(c.decimal) => LET d == c.decimal[1] IN d.degrees < 180 \/ (d.degrees = 180 /\ d.part = 0)
    /\ Given(c.dms) => c.dms[1].degrees \in 0..180 /\ c.dms[1].minutes \in 0..59
                          /\ c.dms[1].seconds \in 0..599999
ToDms(d) ==
    LET minutes == (3 * (IF d.short /\ d.part > 0 THEN d.part - 1 ELSE d.part)) \div 5000000
    IN  [degrees |-> d.degrees, minutes |-> minutes,
         seconds |-> HalfEven(9 * d.part - minutes * 15000000, 25), direction |-> IF d.west THEN "W" ELSE "E"]
FromDms(p) ==
    LET part == HalfEven(25 * (p.minutes * 600000 + p.seconds), 9)
    IN  [west |-> p.direction \in {"S", "W"}, degrees |-> p.degrees + part \div Degree, part |-> part % Degree]
Dms(c) ==
    IF ~DmsAccepts(c) THEN Refused("invalid_input")
    ELSE IF Given(c.decimal) = Given(c.dms) THEN Refused("ambiguous_input")
    ELSE Paid(IF Given(c.decimal) THEN ToDms(c.decimal[1]) ELSE FromDms(c.dms[1]))
-----------------------------------------------------------------------------
(* Statistics of integers; means and slopes are rationals *)

Sorted(data) == SortSeq(data, LAMBDA a, b : a < b)
Percentile(c) ==            \* in hundredths
    LET s == Sorted(c.data)
        rank == c.p * (Len(s) - 1)
        lo == rank \div 100 + 1
        hi == Min({lo + 1, Len(s)})
    IN  Paid(100 * s[lo] + (s[hi] - s[lo]) * (rank % 100))

SumXY(x, y) == SumOf([i \in 1..Len(x) |-> x[i] * y[i]])
Spread(x, y) == Len(x) * SumXY(x, y) - SumOf(x) * SumOf(y)     \* n^2 covariances
Summary(c) ==
    LET s == Sorted(c.data)
        n == Len(s)
    IN  Paid([count |-> n, mean |-> <<SumOf(s), n>>, min |-> s[1], max |-> s[n],
              median |-> 50 * (s[(n + 1) \div 2] + s[n \div 2 + 1]),
              variance |-> IF n > 1 THEN <<Spread(s, s), n * (n - 1)>> ELSE <<>>])

Correlation(c) ==           \* the square of r
    IF Len(c.x) # Len(c.y) THEN Refused("length_mismatch")
    ELSE IF 0 \in {Spread(c.x, c.x), Spread(c.y, c.y)} THEN Refused("undefined_correlation")
    ELSE Paid(<<Spread(c.x, c.y)^2, Spread(c.x, c.x) * Spread(c.y, c.y)>>)

Regression(c) ==
    LET n == Len(c.x)
        den == Spread(c.x, c.x)
        num == Spread(c.x, c.y)
        rest == SumOf(c.y) * den - num * SumOf(c.x)
        residuals == [i \in 1..n |-> n * (den * c.y[i] - num * c.x[i]) - rest]
    IN  IF n # Len(c.y) THEN Refused("length_mismatch")
        ELSE IF den = 0 THEN Refused("degenerate_input")
        ELSE Paid([slope |-> <<num, den>>, intercept |-> <<rest, n * den>>,
                   r2 |-> IF Spread(c.y, c.y) = 0 THEN <<1, 1>>
                          ELSE <<n * den^2 * Spread(c.y, c.y) - SumXY(residuals, residuals),
                                 n * den^2 * Spread(c.y, c.y)>>])
-----------------------------------------------------------------------------
(* Text *)

Tokenize(s) ==
    LET Delimiter(i) == s[i] \in {" ", "_", "-"}
        Starts == {i \in 1..Len(s) : ~Delimiter(i)
                     /\ \/ i = 1
                        \/ Delimiter(i - 1)
                        \/ IsLowerOrDigit(s[i - 1]) /\ IsUpper(s[i])}
        End(i) == Min({j \in (i + 1)..(Len(s) + 1) : j = Len(s) + 1 \/ Delimiter(j) \/ j \in Starts}) - 1
    IN  Each(LAMBDA i : Each(ToLower, SubSeq(s, i, End(i))), SetToSortSeq(Starts, LAMBDA i, j : i < j))
Joined(words, sep) ==
    FlattenSeq([i \in 1..Len(words) |-> IF i = 1 \/ sep = "" THEN words[i] ELSE <<sep>> \o words[i]])
Capitalized(w) == <<ToUpper(w[1])>> \o Tail(w)
Case(c) ==
    LET words == Tokenize(c.text)
        caps == Each(Capitalized, words)
    IN  IF words = <<>> THEN Refused("empty_text")
        ELSE Paid(CASE c.target = "snake" -> Joined(words, "_")
                    [] c.target = "constant" -> Each(ToUpper, Joined(words, "_"))
                    [] c.target = "kebab" -> Joined(words, "-")
                    [] c.target = "camel" -> Joined(<<words[1]>> \o Tail(caps), "")
                    [] c.target = "pascal" -> Joined(caps, "")
                    [] c.target = "title" -> Joined(caps, " "))

Slug(c) ==
    LET lowered == Each(ToLower, c.text)
        Keep(i) == IsLowerOrDigit(lowered[i])
        runs == SelectSeq([i \in 1..Len(lowered) |-> i], LAMBDA i : Keep(i) \/ i = 1 \/ Keep(i - 1))
        cleaned == Each(LAMBDA i : IF Keep(i) THEN lowered[i] ELSE c.separator, runs)
        Outer(i) == \A j \in 1..Len(cleaned) : j <= i => cleaned[j] = c.separator
        OuterEnd(i) == \A j \in i..Len(cleaned) : cleaned[j] = c.separator
        stripped == SelectSeq([i \in 1..Len(cleaned) |-> i], LAMBDA i : ~Outer(i) /\ ~OuterEnd(i))
        single == SelectSeq(stripped, LAMBDA i : ~(cleaned[i] = c.separator /\ cleaned[i - 1] = c.separator))
    IN  IF c.separator = "" THEN Refused("compute_error")      \* re.sub of the pattern "+"
        ELSE IF single = <<>> THEN Refused("empty_result")
        ELSE Paid(Each(LAMBDA i : cleaned[i], single))

\* words, sentences and vowel groups are counted by the caller's regexes
Syllables(w) == Max({1, w.groups - (IF w.endsInE /\ ~w.endsInLe /\ w.groups > 1 THEN 1 ELSE 0)})
Readability(c) ==           \* in hundredths
    LET n == Len(c.words)
        syllables == SumOf(Each(Syllables, c.words))
        d == 10 * n * c.sentences
    IN  IF 0 \in {n, c.sentences} THEN Refused("insufficient_text")
        ELSE Paid([syllables |-> syllables,
                   ease |-> HalfEven(206835 * n * c.sentences - 1015 * n * n
                                       - 84600 * syllables * c.sentences, d),
                   grade |-> HalfEven(390 * n * n + 11800 * syllables * c.sentences
                                        - 15590 * n * c.sentences, d)])
-----------------------------------------------------------------------------
(* JSON: [t |-> "int", v |-> 2] is 1 and [t |-> "float", v |-> 2] is 1.0, as
   numbers are in halves; "bool", "null"; "arr" with a sequence, "obj" with a
   function of its keys *)

PyEqual(a, b) ==            \* Python's ==: true is 1 and 1.0
    LET Number(d) == IF d.t = "bool" THEN (IF d.v THEN 2 ELSE 0) ELSE d.v IN
    \/ {a.t, b.t} \subseteq {"int", "float", "bool"} /\ Number(a) = Number(b)
    \/ a.t = b.t /\ a.t = "null"

Index(i) == "[" \o ToString(i - 1) \o "]"
Elements(d) == IF d.t = "obj" THEN [k \in {"." \o key : key \in DOMAIN d.v} |->
                                      d.v[CHOOSE key \in DOMAIN d.v : k = "." \o key]]
               ELSE [k \in {Index(i) : i \in DOMAIN d.v} |-> d.v[CHOOSE i \in DOMAIN d.v : k = Index(i)]]
RECURSIVE Differences(_, _, _)
Differences(a, b, path) ==
    IF a.t = b.t /\ a.t \in {"obj", "arr"}
    THEN LET x == Elements(a)  y == Elements(b) IN
         UNION {IF k \notin DOMAIN x THEN {<<path \o k, "added">>}
                ELSE IF k \notin DOMAIN y THEN {<<path \o k, "removed">>}
                ELSE Differences(x[k], y[k], path \o k) : k \in DOMAIN x \cup DOMAIN y}
    ELSE IF PyEqual(a, b) THEN {} ELSE {<<path, "changed">>}
JsonDiff(c) == Paid(Differences(c.a, c.b, "$"))

RECURSIVE Leaves(_, _)
Leaves(d, prefix) ==
    LET At(k) == IF prefix = "" THEN k ELSE prefix \o "." \o k IN
    CASE d.t = "obj" -> UNION {Leaves(d.v[k], At(k)) : k \in DOMAIN d.v}
      [] d.t = "arr" -> UNION {Leaves(d.v[i], At(ToString(i - 1))) : i \in DOMAIN d.v}
      [] OTHER -> {<<prefix, d>>}
JsonFlatten(c) == Paid({leaf[1] : leaf \in Leaves(c.doc, "")})

RECURSIVE Schema(_)
Schema(d) ==
    CASE d.t = "obj" -> [type |-> "obj", of |-> [k \in DOMAIN d.v |-> Schema(d.v[k])]]
      [] d.t = "arr" -> [type |-> "arr", of |-> IF d.v = <<>> THEN <<>> ELSE <<Schema(d.v[1])>>]
      [] OTHER -> [type |-> d.t]
SchemaInfer(c) == Paid(Schema(c.doc))

\* json/validate, whose validator is a library: 1.0 is an integer, 1 a number.
RECURSIVE Fits(_, _)
Fits(d, s) ==
    /\ \/ d.t = s.type
       \/ d.t = "float" /\ s.type = "int" /\ d.v % 2 = 0
       \/ d.t = "int" /\ s.type = "float"
    /\ d.t = "obj" => DOMAIN s.of \subseteq DOMAIN d.v /\ \A k \in DOMAIN s.of : Fits(d.v[k], s.of[k])
    /\ d.t = "arr" /\ s.of # <<>> => \A i \in DOMAIN d.v : Fits(d.v[i], s.of[1])
JsonValidate(c) == Paid(Fits(c.doc, c.schema))
-----------------------------------------------------------------------------
(* A call: the engine computes, then logs and answers *)

Compute(c) ==
    CASE c.slug = "roman" -> Roman(c) [] c.slug = "words" -> Words(c) [] c.slug = "radix" -> Radix(c)
      [] c.slug = "ordinal" -> Ordinal(c) [] c.slug = "fraction" -> Fraction(c)
      [] c.slug = "allocate" -> MoneyAllocate(c) [] c.slug = "unit" -> UnitConvert(c)
      [] c.slug = "business" -> BusinessDays(c) [] c.slug = "add" -> AddTime(c)
      [] c.slug = "between" -> Between(c) [] c.slug = "humanize" -> Humanize(c)
      [] c.slug = "polygon" -> PointInPolygon(c) [] c.slug = "geohash" -> Geohash(c)
      [] c.slug = "bbox" -> Bbox(c) [] c.slug = "dms" -> Dms(c)
      [] c.slug = "percentile" -> Percentile(c) [] c.slug = "summary" -> Summary(c)
      [] c.slug = "correlation" -> Correlation(c) [] c.slug = "regression" -> Regression(c)
      [] c.slug = "case" -> Case(c) [] c.slug = "slug" -> Slug(c)
      [] c.slug = "readability" -> Readability(c) [] c.slug = "diff" -> JsonDiff(c)
      [] c.slug = "flatten" -> JsonFlatten(c) [] c.slug = "infer" -> SchemaInfer(c)
      [] c.slug = "validate" -> JsonValidate(c)

Handle == Elsewhere /\ answer' = Compute(call)

Next == CheckCode \/ Handle

Spec == Init /\ [][Next]_<<call, answer>>
-----------------------------------------------------------------------------
(* Properties *)

Is(slug) == answer.status # "waiting" /\ call.slug = slug
Gives(slug) == Is(slug) /\ answer.status = "paid"
Of(c) == Compute(c).value

\* Cents are split without loss, as the comment of compute_money_allocate
\* says, as long as amount times ratios fits in a float's significand; and a
\* larger ratio never gets less.
NothingIsLost ==
    Gives("allocate") /\ call.amount * SumOf(call.ratios) <= 2^Mantissa =>
        /\ SumOf(answer.value) = call.amount
        /\ \A i, j \in DOMAIN call.ratios :
              call.ratios[i] > call.ratios[j] => answer.value[i] >= answer.value[j]

SumsTo(words) ==            \* how a reader reads number words
    FoldLeft(LAMBDA acc, w :
               IF w = 100 THEN [acc EXCEPT !.part = @ * 100]
               ELSE IF w >= 1000 THEN [all |-> acc.all + acc.part * w, part |-> 0]
               ELSE [acc EXCEPT !.part = @ + w],
             [all |-> 0, part |-> 0], words)
NoKeyHasADot(d) == Cardinality({leaf[1] : leaf \in Leaves(d, "")}) = Cardinality(Leaves(d, ""))

\* The call that hands the answer of dms back to the route
HandedBack == [call EXCEPT !.decimal = <<>>, !.dms = <<answer.value>>]
ToDegrees == Gives("dms") /\ Given(call.decimal)
Apart(d, e) == (d.degrees - e.degrees) * Degree + d.part - e.part

\* Degrees, minutes and seconds are converted back to the decimal they came
\* from (geo/dms converts either way).
DmsReadsBack ==
    ToDegrees => /\ Compute(HandedBack).status = "paid"
                 /\ Apart(Of(HandedBack), call.decimal[1]) \in -1..1

\* What a route answers can be read back: converting the answer with the
\* inverse route, or reading it as its users do, gives the input again.  An
\* answer of dms with 60 seconds is left out, for the inverse refuses it; and
\* so are camel, pascal and constant case, which do not keep where the words
\* begin: "a b" in pascal case is AB, one word.
AnswersReadBack ==
    /\ Gives("roman") /\ Given(call.value) =>
         Of([call EXCEPT !.value = <<>>, !.roman = <<answer.value>>]) = call.value[1]
    /\ Gives("words") => LET r == SumsTo(answer.value) IN r.all + r.part = call.value
    /\ Gives("radix") =>
         LET back == Of([call EXCEPT !.digits = answer.value.digits, !.negative = answer.value.negative,
                                     !.from = call.to, !.to = call.from])
         IN  /\ \E k \in 0..(Len(call.digits) - 1) : [i \in 1..k |-> 0] \o back.digits = call.digits
             /\ back.negative = call.negative \/ back.digits = <<0>>
    /\ Gives("fraction") => call.num * answer.value[2] = call.den * answer.value[1]
    /\ Gives("case") /\ call.target \in {"snake", "kebab", "title"} =>
         Of([call EXCEPT !.text = answer.value]) = answer.value
    /\ Gives("slug") /\ ~IsLowerOrDigit(call.separator) =>
         Compute([call EXCEPT !.text = answer.value]) = answer
    /\ Gives("between") => call.start + answer.value.total = call.end
         /\ Of([slug |-> "add", at |-> 0, days |-> answer.value.days, hours |-> answer.value.hours,
                minutes |-> answer.value.minutes, seconds |-> answer.value.seconds])
              = Abs(answer.value.total)
    /\ ToDegrees /\ answer.value.seconds < 600000 => DmsReadsBack
    /\ Gives("diff") => (answer.value = {}) = (Of([call EXCEPT !.a = call.b, !.b = call.a]) = {})

\* A document fits the schema inferred from it.
DocumentFitsItsSchema ==
    Gives("infer") => Of([slug |-> "validate", doc |-> call.doc, schema |-> answer.value])

\* Every array of the document holds items of one schema.
RECURSIVE Uniform(_)
Uniform(d) ==
    /\ d.t = "arr" => \A i, j \in DOMAIN d.v : Schema(d.v[i]) = Schema(d.v[j])
    /\ d.t \in {"arr", "obj"} => \A i \in DOMAIN d.v : Uniform(d.v[i])
WholeDegrees(c) ==
    \A p \in {c.at} \cup UNION {ToSet(polygon) : polygon \in {c.polygon} \cup c.tiles} :
        p[1] % 4 = 0 /\ p[2] % 4 = 0

\* Routes that answer the same question agree: a percentile is monotone and
\* its 50th is the summary's median; r squared is the regression's where a
\* correlation is defined (for a constant y one refuses and the other answers
\* 1); weekdays add up; the tiles of a map hold every point of whole degrees
\* once, although a crossing is a rounded float (in parts of a degree, a point
\* within the rounding of a shared side may be in both or in neither); a longer
\* geohash extends a shorter; a document whose arrays are uniform fits the
\* schema inferred from it (that of an array is its first item's alone).
RoutesAgree ==
    /\ Gives("percentile") =>
         /\ call.p > 0 => answer.value >= Of([call EXCEPT !.p = call.p - 1])
         /\ call.p = 50 => answer.value = Of([slug |-> "summary", data |-> call.data]).median
    /\ Gives("correlation") =>
         LET r2 == Of([call EXCEPT !.slug = "regression"]).r2
         IN  Lowest(answer.value[1], answer.value[2]) = Lowest(r2[1], r2[2])
    /\ Gives("business") => \A d \in call.start..call.end :
         answer.value = Of([call EXCEPT !.end = d]) + (IF d = call.end THEN 0
                           ELSE Of([call EXCEPT !.start = d + 1]))
    /\ Gives("polygon") /\ call.tiles # {} /\ WholeDegrees(call) =>
         answer.value = (Cardinality({t \in call.tiles : Of([call EXCEPT !.polygon = t])}) = 1)
    /\ Gives("geohash") /\ call.precision > 1 =>
         IsPrefix(Of([call EXCEPT !.precision = @ - 1]), answer.value)
    /\ Gives("infer") /\ Uniform(call.doc) => DocumentFitsItsSchema
=============================================================================
