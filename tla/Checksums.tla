------------------------------- MODULE Checksums -------------------------------
(***************************************************************************)
(* The checksum routes of app/purecalc/routes/validations.py: a call       *)
(* carries an identifier its input model accepts, without blanks and in    *)
(* capitals, and is told whether it is valid or that it is no such         *)
(* identifier.  A character is its base-36 value.                          *)
(***************************************************************************)
EXTENDS Integers, Sequences

CONSTANT Inputs         \* the calls of a run

VARIABLES call, answer

Paid(v) == [status |-> "paid", value |-> v]
Refused(reason) == [status |-> "error", value |-> reason]
Waiting == [status |-> "waiting", value |-> ""]
-----------------------------------------------------------------------------
Sums(s) == LET upTo[k \in 0..Len(s)] == IF k = 0 THEN 0 ELSE upTo[k - 1] + s[k] IN upTo
SumOf(s) == Sums(s)[Len(s)]

LuhnUncarried(d) ==         \* mutant: a doubled digit above 9 keeps only its units
    SumOf([k \in 1..Len(d) |-> (d[k] * (1 + ((Len(d) - k) % 2))) % 10]) % 10 = 0
Weighed(d, k) ==            \* from the right, every second digit is doubled
    LET x == d[k] * (1 + ((Len(d) - k) % 2)) IN IF x > 9 THEN x - 9 ELSE x
LuhnValid(d) == SumOf([k \in 1..Len(d) |-> Weighed(d, k)]) % 10 = 0

Decimal(c) == IF c < 10 THEN <<c>> ELSE <<c \div 10, c % 10>>
Spellings(cs) ==
    LET upTo[k \in 0..Len(cs)] == IF k = 0 THEN <<>> ELSE upTo[k - 1] \o Decimal(cs[k]) IN upTo
InBase36(cs) == Spellings(cs)[Len(cs)]

Remainders(d) ==
    LET upTo[k \in 0..Len(d)] == IF k = 0 THEN 0 ELSE (10 * upTo[k - 1] + d[k]) % 97 IN upTo
Mod97(d) == Remainders(d)[Len(d)]

IbanUnmoved(c) == Paid(Mod97(InBase36(c.code)) = 1)     \* mutant: the check digits stay in front
Moved(s) == SubSeq(s, 5, Len(s)) \o SubSeq(s, 1, 4)
Iban(c) ==
    LET s == c.code IN
    IF ~(Len(s) \in 15..34 /\ s[1] > 9 /\ s[2] > 9 /\ s[3] < 10 /\ s[4] < 10)
    THEN Refused("invalid_format")
    ELSE Paid(Mod97(InBase36(Moved(s))) = 1)

VinTrans == [c \in 0..35 |->
    IF c < 10 THEN c
    ELSE IF c < 18 THEN c - 9
    ELSE IF c < 26 THEN c - 18
    ELSE IF c = 27 THEN 9 ELSE c - 26]
VinWeights == <<8, 7, 6, 5, 4, 3, 2, 10, 0, 9, 8, 7, 6, 5, 4, 3, 2>>
X == 33
Vin(c) ==
    LET r == SumOf([i \in 1..17 |-> VinTrans[c.code[i]] * VinWeights[i]]) % 11
    IN  Paid(c.code[9] = (IF r = 10 THEN X ELSE r))

Isbn10(s) ==
    IF \E i \in 1..10 : s[i] > 9 /\ ~(i = 10 /\ s[i] = X) THEN Refused("invalid_format")
    ELSE Paid(SumOf([i \in 1..10 |-> i * (IF s[i] = X THEN 10 ELSE s[i])]) % 11 = 0)
Isbn13(s) ==
    IF \E i \in 1..13 : s[i] > 9 THEN Refused("invalid_format")
    ELSE LET total == SumOf([i \in 1..12 |-> s[i] * (IF i % 2 = 1 THEN 1 ELSE 3)])
         IN  Paid((10 - (total % 10)) % 10 = s[13])
Isbn(c) ==
    CASE Len(c.code) = 10 -> Isbn10(c.code)
      [] Len(c.code) = 13 -> Isbn13(c.code)
      [] OTHER -> Refused("invalid_length")

Ean(c) ==
    LET n == Len(c.code) - 1        \* the digits before the check digit
        total == SumOf([i \in 1..n |-> c.code[i] * (IF (i - 1) % 2 = (n - 1) % 2 THEN 3 ELSE 1)])
    IN  Paid((10 - (total % 10)) % 10 = c.code[n + 1])

RoutingWeights == <<3, 7, 1, 3, 7, 1, 3, 7, 1>>
Routing(c) == Paid(SumOf([i \in 1..9 |-> c.code[i] * RoutingWeights[i]]) % 10 = 0)

Luhn(c) == Paid(LuhnValid(c.code))
Imei(c) == Paid(LuhnValid(c.code))
Siret(c) == Paid(LuhnValid(c.code))
Isin(c) == Paid(LuhnValid(Append(InBase36(SubSeq(c.code, 1, 11)), c.code[12])))
-----------------------------------------------------------------------------
Checksummed == {"iban", "vin", "isbn", "ean", "routing", "luhn", "imei", "siret", "isin"}

\* What the input model of a route accepts: I, O and Q are not in a VIN.
Codes(slug) ==
    CASE slug \in {"iban", "isbn"} -> Seq(0..35)
      [] slug = "vin" -> {s \in Seq((0..35) \ {18, 24, 26}) : Len(s) = 17}
      [] slug = "ean" -> {s \in Seq(0..9) : Len(s) \in {8, 13}}
      [] slug = "routing" -> {s \in Seq(0..9) : Len(s) = 9}
      [] slug = "luhn" -> {s \in Seq(0..9) : Len(s) > 1}
      [] slug = "imei" -> {s \in Seq(0..9) : Len(s) = 15}
      [] slug = "siret" -> {s \in Seq(0..9) : Len(s) = 14}
      [] slug = "isin" -> {s \in Seq(0..35) : Len(s) = 12 /\ s[1] > 9 /\ s[2] > 9 /\ s[12] < 10}

ASSUME CodesAreRead ==
    \A c \in Inputs : c.slug \in Checksummed =>
        c.code \in Codes(c.slug) /\ c = [slug |-> c.slug, code |-> c.code]

Check(c) ==
    CASE c.slug = "iban" -> Iban(c) [] c.slug = "vin" -> Vin(c) [] c.slug = "isbn" -> Isbn(c)
      [] c.slug = "ean" -> Ean(c) [] c.slug = "routing" -> Routing(c) [] c.slug = "luhn" -> Luhn(c)
      [] c.slug = "imei" -> Imei(c) [] c.slug = "siret" -> Siret(c) [] c.slug = "isin" -> Isin(c)

Init == call \in Inputs /\ answer = Waiting

\* A call is validated, computed without any upstream, and either answered and
\* logged 'paid' or refused for free.
CheckCode ==
    /\ answer.status = "waiting"
    /\ call.slug \in Checksummed
    /\ answer' = Check(call)
    /\ UNCHANGED call

Elsewhere ==            \* another route answers
    /\ answer.status = "waiting"
    /\ call.slug \notin Checksummed
    /\ UNCHANGED call

CheckSpec == Init /\ [][CheckCode \/ Elsewhere]_<<call, answer>>
-----------------------------------------------------------------------------
Accepts(r) == r.status = "paid" /\ r.value

Digits(s) == {i \in DOMAIN s : s[i] < 10}
Substitutions(s) == UNION {{[s EXCEPT ![i] = d] : d \in (0..9) \ {s[i]}} : i \in Digits(s)}
Swaps(s) == {[s EXCEPT ![i] = s[i + 1], ![i + 1] = s[i]] :
                i \in {j \in Digits(s) : j + 1 \in Digits(s) /\ s[j] # s[j + 1]}}

\* A number one digit away from a valid one is told apart from it, on every
\* checksum route (app/purecalc/routes/validations.py); an IBAN or an ISBN-10
\* also when two neighbouring digits are swapped.  (Letters do not have this:
\* 1B and B1 are spelled with the same digits.)
ErrorsAreCaught ==
    call.slug \in Checksummed /\ Accepts(answer) =>
        /\ \A s \in Substitutions(call.code) : ~Accepts(Check([call EXCEPT !.code = s]))
        /\ (call.slug = "iban" \/ (call.slug = "isbn" /\ Len(call.code) = 10)) =>
              \A s \in Swaps(call.code) : ~Accepts(Check([call EXCEPT !.code = s]))
=============================================================================
