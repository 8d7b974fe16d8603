---------------------------- MODULE ValueObjects ----------------------------
(***************************************************************************)
(* Value objects and pure functions: the money of the booking domain, the  *)
(* page limit, and those of the catalogue that calculate (dates, blood     *)
(* types, boxes, check digits ...).  A method that may throw is the set of *)
(* its results, empty when it throws.  One sample of arguments is chosen   *)
(* at the start, and the laws of its kind are checked.                     *)
(***************************************************************************)
EXTENDS Integers, FiniteSets, SequencesExt

CONSTANTS
    Amount,             \* cents, and every other number of things
    Instant,            \* points in time
    Side,               \* edges of a box
    Digit               \* digits that samples of numbers are made of

ASSUME ValuesAssumption ==
    Amount \subseteq Nat /\ Instant \subseteq Int /\ Side \subseteq Int /\ Digit \subseteq 0..9

VARIABLE sample

-----------------------------------------------------------------------------
(* Money, Quantity, WorkingHours: a number that must be in a range.        *)

Money(cents, currency) == {[amount |-> v, currency |-> currency] : v \in {c \in {cents} : c >= 0}}

SameCurrency(m, n) == m.currency = n.currency

Add(m, n) == IF SameCurrency(m, n) THEN Money(m.amount + n.amount, m.currency) ELSE {}

Subtract(m, n) == IF SameCurrency(m, n) THEN Money(m.amount - n.amount, m.currency) ELSE {}

(* Math.round takes a half up, but the product of cents and the factor     *)
(* num / den is a float, which may lie just below the half it should be.   *)
Multiply(cents, num, den) ==
    {(2 * cents * num + den) \div (2 * den), (2 * cents * num + den - 1) \div (2 * den)}

ApplyTo(percent, cents) == Multiply(cents, percent, 100)

QuantityOf(value) == {v \in {value} : v >= 1}

AddQuantity(a, b) == QuantityOf(a + b)

SubtractQuantity(a, b) == QuantityOf(a - b)

Hours(value) == {v \in {value} : 0 <= v /\ v <= 24}

AddHours(a, b) == Hours(a + b)

OvertimeHours(hours, standard) == IF hours > standard THEN hours - standard ELSE 0

-----------------------------------------------------------------------------
(* DateRange.                                                              *)

DateRange(start, end) == {r \in {[start |-> start, end |-> end]} : start < end}

ContainsDate(r, t) == r.start <= t /\ t <= r.end

Overlaps(r, s) == r.start < s.end /\ r.end > s.start

-----------------------------------------------------------------------------
(* Dimensions: three edges, compared in order of their length.             *)

Least(a, b) == IF a <= b THEN a ELSE b
Most(a, b) == IF a <= b THEN b ELSE a

(* Variant: the edges are compared as they were given. *)
AsGiven(d) == d

Sorted(d) ==
    <<Least(d[1], Least(d[2], d[3])),
      Most(Least(d[1], d[2]), Least(Most(d[1], d[2]), d[3])),
      Most(d[1], Most(d[2], d[3]))>>

FitsInside(d, box) == \A i \in 1..3 : Sorted(d)[i] <= Sorted(box)[i]

-----------------------------------------------------------------------------
(* BloodType.                                                              *)

BloodTypes == {"O-", "O+", "A-", "A+", "B-", "B+", "AB-", "AB+"}

Recipients(donor) ==
    CASE donor = "O-" -> BloodTypes
      [] donor = "O+" -> {"O+", "A+", "B+", "AB+"}
      [] donor = "A-" -> {"A-", "A+", "AB-", "AB+"}
      [] donor = "A+" -> {"A+", "AB+"}
      [] donor = "B-" -> {"B-", "B+", "AB-", "AB+"}
      [] donor = "B+" -> {"B+", "AB+"}
      [] donor = "AB-" -> {"AB-", "AB+"}
      [] donor = "AB+" -> {"AB+"}

CanDonateTo(donor, recipient) == recipient \in Recipients(donor)

(* What the red cells of a type carry.                                     *)
Antigens(type) ==
    {a \in {"A", "B", "Rh"} :
        \/ a = "A" /\ type \in {"A-", "A+", "AB-", "AB+"}
        \/ a = "B" /\ type \in {"B-", "B+", "AB-", "AB+"}
        \/ a = "Rh" /\ type \in {"O+", "A+", "B+", "AB+"}}

-----------------------------------------------------------------------------
(* Check digits.                                                           *)

(* The % of JavaScript, which has the sign of the dividend.                *)
Remainder(a, n) == IF a >= 0 THEN a % n ELSE -((-a) % n)

OddSum(d) == d[1] + d[3] + d[5] + d[7] + d[9]
EvenSum(d) == d[2] + d[4] + d[6] + d[8]

TCKimlikNo(d) ==
    /\ d[1] # 0
    /\ d[10] = Remainder(OddSum(d) * 7 - EvenSum(d), 10)
    /\ d[11] = (OddSum(d) + EvenSum(d) + d[10]) % 10

(* TR, two check digits and 22 digits; TR counts as 2927.                  *)
IBAN(d) ==
    LET numeric == SubSeq(d, 3, Len(d)) \o <<2, 9, 2, 7>> \o SubSeq(d, 1, 2)
    IN  FoldLeft(LAMBDA rest, digit : (10 * rest + digit) % 97, 0, numeric) = 1

(* What is read when one digit is misread.                                 *)
Misread(d) == {[d EXCEPT ![i] = x] : i \in DOMAIN d, x \in 0..9} \ {d}

-----------------------------------------------------------------------------
(* Grade: the letters from the lowest, with their limits; gpa counts in    *)
(* halves from 0.                                                          *)

LetterLimits == <<50, 60, 65, 70, 75, 80, 85, 90>>

Gpa2(grade) == Cardinality({i \in 1..8 : grade >= LetterLimits[i]})

IsPassing(grade) == grade >= 60
IsHonors(grade) == grade >= 85

-----------------------------------------------------------------------------
(* parsePaginationParams; what is not a number counts as 0.                *)

DefaultPageSize == 20
MaxPageSize == 100

ParsedLimit(limit) ==
    Least(Most(IF limit = 0 THEN DefaultPageSize ELSE limit, 1), MaxPageSize)

-----------------------------------------------------------------------------
(* The laws.                                                               *)

(* Nothing is lost by adding and taking away again, and taking away is     *)
(* refused exactly when there is too little or the currency is another.    *)
MoneyLaw(m, n) ==
    /\ SameCurrency(m, n) => \E total \in Add(m, n) : Subtract(total, n) = {m}
    /\ Subtract(m, n) = {} <=> ~SameCurrency(m, n) \/ n.amount > m.amount

(* Rounding the two parts of an amount creates or loses at most one cent.  *)
PercentLaw(percent, cents) ==
    \A part \in ApplyTo(percent, cents), rest \in ApplyTo(100 - percent, cents) :
        part + rest \in (cents - 1)..(cents + 1)

QuantityLaw(a, b) ==
    QuantityOf(a) # {} /\ QuantityOf(b) # {} =>
        \E c \in AddQuantity(a, b) : SubtractQuantity(c, b) = {a}

(* Two shifts of a day are not paid fewer extra hours when they are added. *)
HoursLaw(a, b) ==
    Hours(a) # {} /\ Hours(b) # {} =>
        \A c \in AddHours(a, b) : OvertimeHours(c, 8) >= OvertimeHours(a, 8) + OvertimeHours(b, 8)

(* Ranges overlap exactly when an instant before the end of both is in     *)
(* both; ranges that only touch do not, although each contains its end.    *)
RangeLaw(r, s) ==
    Overlaps(r, s) <=> \E t \in {r.start, s.start} :
                           ContainsDate(r, t) /\ ContainsDate(s, t) /\ t # r.end /\ t # s.end

(* A box fits inside another one when it does in some orientation.         *)
BoxLaw(d, box) ==
    FitsInside(d, box) <=>
        \E i, j, k \in 1..3 :
            /\ i # j /\ j # k /\ k # i
            /\ d[i] <= box[1] /\ d[j] <= box[2] /\ d[k] <= box[3]

(* Blood may be given when it carries nothing that the recipient lacks.    *)
BloodLaw(donor, recipient) ==
    CanDonateTo(donor, recipient) <=> Antigens(donor) \subseteq Antigens(recipient)

(* A number with one digit misread is refused.                             *)
TCKimlikNoLaw(d) == TCKimlikNo(d) => \A m \in Misread(d) : ~TCKimlikNo(m)

IBANLaw(d) == IBAN(d) => \A m \in Misread(d) : ~IBAN(m)

GradeLaw(a, b) ==
    /\ IsPassing(a) <=> Gpa2(a) >= 2
    /\ IsHonors(a) <=> Gpa2(a) >= 7
    /\ a <= b => Gpa2(a) <= Gpa2(b)

LimitLaw(limit) ==
    /\ ParsedLimit(limit) \in 1..MaxPageSize
    /\ limit \in 1..MaxPageSize => ParsedLimit(limit) = limit

-----------------------------------------------------------------------------
Sample(kind, first, second) == sample = [kind |-> kind, first |-> first, second |-> second]

NoSample == [kind |-> "none", first |-> 0, second |-> 0]

ValuesInit ==
    \/ \E a, b \in Amount, c, e \in {"TRY", "USD"} :
           Sample("money", [amount |-> a, currency |-> c], [amount |-> b, currency |-> e])
    \/ \E p \in 0..100, a \in Amount : Sample("percent", p, a)
    \/ \E a, b \in Amount : Sample("number", a, b)
    \/ \E a, b, c, e \in Instant :
           \E r \in DateRange(a, b), s \in DateRange(c, e) : Sample("range", r, s)
    \/ \E d, box \in [1..3 -> Side] : Sample("box", d, box)
    \/ \E donor, recipient \in BloodTypes : Sample("blood", donor, recipient)
    \/ \E d \in [1..5 -> Digit], c, e \in 0..9 :
           \/ Sample("tckn", [i \in 1..11 |-> IF i <= 5 THEN d[i] ELSE <<1, 0, 8, 5, c, e>>[i - 5]], 0)
           \/ Sample("iban", <<c, e, 0, 0, 0, 6, 2>> \o d \o [i \in 1..12 |-> i % 10], 0)

ValuesSpec == ValuesInit /\ [][UNCHANGED sample]_sample

-----------------------------------------------------------------------------
(* Properties.                                                             *)

(* What the value objects and parsePaginationParams calculate agrees with  *)
(* what the words of their callers mean: amounts add up, ranges overlap    *)
(* when they share time, a box fits in some orientation, a misread digit   *)
(* is found (money.value-object.ts, value-objects-catalog.ts).             *)
ValuesKeepLaws ==
    LET a == sample.first b == sample.second
    IN  CASE sample.kind = "money" -> MoneyLaw(a, b)
          [] sample.kind = "percent" -> PercentLaw(a, b)
          [] sample.kind = "number" ->
                 QuantityLaw(a, b) /\ HoursLaw(a, b) /\ GradeLaw(a, b) /\ LimitLaw(a - b)
          [] sample.kind = "range" -> RangeLaw(a, b)
          [] sample.kind = "box" -> BoxLaw(a, b)
          [] sample.kind = "blood" -> BloodLaw(a, b)
          [] sample.kind = "tckn" -> TCKimlikNoLaw(a)
          [] sample.kind = "iban" -> IBANLaw(a)
          [] OTHER -> TRUE
=============================================================================
