------------------------- MODULE ValueObjectsProofs -------------------------
(***************************************************************************)
(* The laws of the value objects, for every argument.                      *)
(***************************************************************************)
EXTENDS ValueObjects, FoldLemmas, SequenceTheorems

(* Money added can be taken away again, and no more than there is.         *)
THEOREM MoneyLawHolds ==
    ASSUME NEW a \in Nat, NEW b \in Nat, NEW c, NEW e
    PROVE  MoneyLaw([amount |-> a, currency |-> c], [amount |-> b, currency |-> e])
<1> DEFINE m == [amount |-> a, currency |-> c]
           n == [amount |-> b, currency |-> e]
<1>1. \A v, u : v \in Nat => Money(v, u) = {[amount |-> v, currency |-> u]}
    BY DEF Money
<1>2. a + b \in Nat /\ a + b - b = a
    OBVIOUS
<1>3. ASSUME c = e PROVE \E total \in Add(m, n) : Subtract(total, n) = {m}
    <2>1. Add(m, n) = {[amount |-> a + b, currency |-> c]}
        BY <1>1, <1>2, <1>3 DEF Add, SameCurrency
    <2>2. Subtract([amount |-> a + b, currency |-> c], n) = Money(a + b - b, c)
        BY <1>3 DEF Subtract, SameCurrency
    <2> QED BY <1>1, <1>2, <2>1, <2>2
<1>4. Subtract(m, n) = {} <=> c # e \/ b > a
    <2>1. Subtract(m, n) = IF c = e THEN Money(a - b, c) ELSE {}
        BY DEF Subtract, SameCurrency
    <2>2. Money(a - b, c) = {} <=> b > a
        <3>1. CASE b > a
            <4>1. ~(a - b >= 0)
                BY <3>1
            <4> QED BY <3>1, <4>1 DEF Money
        <3>2. CASE ~(b > a)
            <4>1. a - b \in Nat
                BY <3>2
            <4> QED BY <3>2, <4>1, <1>1
        <3> QED BY <3>1, <3>2
    <2> QED BY <2>1, <2>2
<1> QED BY <1>3, <1>4 DEF MoneyLaw, SameCurrency

(* Whichever way each of the two halves is rounded.                        *)
THEOREM PercentLawHolds ==
    ASSUME NEW percent \in 0..100, NEW cents \in Nat PROVE PercentLaw(percent, cents)
<1> DEFINE x == 2 * cents * percent
           y == 2 * cents * (100 - percent)
<1>1. x \in Int /\ y \in Int /\ x + y = 200 * cents
    OBVIOUS
<1>2. ASSUME NEW u \in Int, NEW v \in Int, u + v = 200 * cents,
             NEW p \in {(u + 100) \div (2 * 100), (u + 100 - 1) \div (2 * 100)},
             NEW r \in {(v + 100) \div (2 * 100), (v + 100 - 1) \div (2 * 100)}
      PROVE  p + r \in (cents - 1)..(cents + 1)
    BY <1>2
<1> QED BY <1>1, <1>2 DEF PercentLaw, ApplyTo, Multiply

(* A quantity that was added can be taken away again.                     *)
THEOREM QuantityLawHolds == ASSUME NEW a \in Int, NEW b \in Int PROVE QuantityLaw(a, b)
<1> SUFFICES ASSUME a >= 1, b >= 1
             PROVE  \E c \in AddQuantity(a, b) : SubtractQuantity(c, b) = {a}
    BY DEF QuantityLaw, QuantityOf
<1>1. a + b \in AddQuantity(a, b)
    BY DEF AddQuantity, QuantityOf
<1>2. SubtractQuantity(a + b, b) = {a}
    BY DEF SubtractQuantity, QuantityOf
<1> QED BY <1>1, <1>2

(* Shifts that are added count at least the overtime of each of them.      *)
THEOREM HoursLawHolds == ASSUME NEW a \in Int, NEW b \in Int PROVE HoursLaw(a, b)
<1> SUFFICES ASSUME 0 <= a, 0 <= b, NEW c \in {a + b}
             PROVE  OvertimeHours(c, 8) >= OvertimeHours(a, 8) + OvertimeHours(b, 8)
    BY DEF HoursLaw, Hours, AddHours
<1> QED BY DEF OvertimeHours

(* Ranges overlap when an instant before both ends is in both.             *)
THEOREM RangeLawHolds ==
    ASSUME NEW a \in Int, NEW b \in Int, NEW c \in Int, NEW e \in Int,
           NEW r \in DateRange(a, b), NEW s \in DateRange(c, e)
    PROVE  RangeLaw(r, s)
<1>1. r = [start |-> a, end |-> b] /\ s = [start |-> c, end |-> e] /\ a < b /\ c < e
    BY DEF DateRange
<1> QED BY <1>1 DEF RangeLaw, Overlaps, ContainsDate

(* The sorted edges fit exactly when the edges do in some order.           *)
THEOREM BoxLawHolds == ASSUME NEW d \in [1..3 -> Int], NEW box \in [1..3 -> Int] PROVE BoxLaw(d, box)
<1> DEFINE InOrder(i, j, k) == d[i] <= box[1] /\ d[j] <= box[2] /\ d[k] <= box[3]
<1>1. d[1] \in Int /\ d[2] \in Int /\ d[3] \in Int /\ box[1] \in Int /\ box[2] \in Int /\ box[3] \in Int
    OBVIOUS
<1>2. (\E i, j, k \in 1..3 : i # j /\ j # k /\ k # i /\ InOrder(i, j, k)) <=>
         \/ InOrder(1, 2, 3) \/ InOrder(1, 3, 2) \/ InOrder(2, 1, 3)
         \/ InOrder(2, 3, 1) \/ InOrder(3, 1, 2) \/ InOrder(3, 2, 1)
    <2> HIDE DEF InOrder
    <2>1. \A i \in 1..3 : i = 1 \/ i = 2 \/ i = 3
        OBVIOUS
    <2> QED BY <2>1
<1>3. FitsInside(d, box) <=>
         /\ Least(d[1], Least(d[2], d[3])) <= Least(box[1], Least(box[2], box[3]))
         /\ Most(Least(d[1], d[2]), Least(Most(d[1], d[2]), d[3]))
               <= Most(Least(box[1], box[2]), Least(Most(box[1], box[2]), box[3]))
         /\ Most(d[1], Most(d[2], d[3])) <= Most(box[1], Most(box[2], box[3]))
    <2>1. \A i \in 1..3 : i = 1 \/ i = 2 \/ i = 3
        OBVIOUS
    <2> QED BY <2>1 DEF FitsInside, Sorted
<1>4. FitsInside(d, box) <=>
         \/ InOrder(1, 2, 3) \/ InOrder(1, 3, 2) \/ InOrder(2, 1, 3)
         \/ InOrder(2, 3, 1) \/ InOrder(3, 1, 2) \/ InOrder(3, 2, 1)
    BY <1>1, <1>3 DEF Least, Most
<1> QED BY <1>2, <1>4 DEF BoxLaw

(* The table of donors is what the antigens of the types allow.            *)
THEOREM BloodLawHolds ==
    ASSUME NEW donor \in BloodTypes, NEW recipient \in BloodTypes PROVE BloodLaw(donor, recipient)
BY DEF BloodTypes, BloodLaw, CanDonateTo, Recipients, Antigens

(* The letters a grade has reached are the first so many.                  *)
LEMMA Letters ==
    ASSUME NEW a \in Int
    PROVE  /\ Gpa2(a) \in 0..8
           /\ \A i \in 1..8 : Gpa2(a) >= i <=> a >= LetterLimits[i]
<1> DEFINE Reached(k) == \A i \in 1..8 : a >= LetterLimits[i] <=> i <= k
<1>1. \E k \in 0..8 : Reached(k)
    <2>1. \A i \in 1..8 : i = 1 \/ i = 2 \/ i = 3 \/ i = 4 \/ i = 5 \/ i = 6 \/ i = 7 \/ i = 8
        OBVIOUS
    <2>2. /\ a < 50 => Reached(0)
          /\ 50 <= a /\ a < 60 => Reached(1)
          /\ 60 <= a /\ a < 65 => Reached(2)
          /\ 65 <= a /\ a < 70 => Reached(3)
          /\ 70 <= a /\ a < 75 => Reached(4)
          /\ 75 <= a /\ a < 80 => Reached(5)
          /\ 80 <= a /\ a < 85 => Reached(6)
          /\ 85 <= a /\ a < 90 => Reached(7)
          /\ 90 <= a => Reached(8)
        BY <2>1 DEF LetterLimits
    <2> HIDE DEF Reached
    <2> QED BY <2>2
<1>2. PICK k \in 0..8 : Reached(k)
    BY <1>1
<1>3. {i \in 1..8 : a >= LetterLimits[i]} = 1..k
    <2> HIDE DEF LetterLimits
    <2>1. \A i : i \in 1..k <=> i \in 1..8 /\ i <= k
        OBVIOUS
    <2> QED BY <1>2, <2>1
<1>4. Cardinality(1..k) = k
    <2>1. 1 \in Int /\ k \in Int /\ k >= 0
        OBVIOUS
    <2>2. Cardinality(1..k) = IF 1 > k THEN 0 ELSE k - 1 + 1
        BY <2>1, FS_Interval, Zenon
    <2> QED BY <2>1, <2>2
<1>5. Gpa2(a) = k
    BY <1>3, <1>4 DEF Gpa2
<1> QED BY <1>2, <1>5

(* Passing, honours and the points agree, and points grow with the grade.  *)
THEOREM GradeLawHolds == ASSUME NEW a \in Int, NEW b \in Int PROVE GradeLaw(a, b)
<1>1. LetterLimits[2] = 60 /\ LetterLimits[7] = 85 /\ \A i \in 1..8 : LetterLimits[i] \in Int
    BY DEF LetterLimits
<1>2. IsPassing(a) <=> Gpa2(a) >= 2
    BY <1>1, Letters DEF IsPassing
<1>3. IsHonors(a) <=> Gpa2(a) >= 7
    BY <1>1, Letters DEF IsHonors
<1>4. ASSUME a <= b PROVE Gpa2(a) <= Gpa2(b)
    <2>1. CASE Gpa2(a) = 0
        BY <2>1, Letters
    <2>2. CASE Gpa2(a) \in 1..8
        <3>1. a >= LetterLimits[Gpa2(a)] /\ LetterLimits[Gpa2(a)] \in Int
            BY <2>2, <1>1, Letters
        <3>2. b >= LetterLimits[Gpa2(a)]
            BY <3>1, <1>4
        <3> QED BY <2>2, <3>2, Letters
    <2> QED BY <2>1, <2>2, Letters
<1> QED BY <1>2, <1>3, <1>4 DEF GradeLaw

(* Every limit ends up in range, and one that is in range is kept.         *)
THEOREM LimitLawHolds == ASSUME NEW limit \in Int PROVE LimitLaw(limit)
BY DEF LimitLaw, ParsedLimit, Least, Most, DefaultPageSize, MaxPageSize

-----------------------------------------------------------------------------
(* The check digits of a Turkish identity number.                          *)

(* A remainder that is a digit is the last one of a sum, also of a         *)
(* negative one.                                                           *)
LEMMA RemainderIsDigit ==
    ASSUME NEW a \in Int, NEW r \in 0..9, r = Remainder(a, 10)
    PROVE  \E q \in Int : a = 10 * q + r
<1>1. CASE a >= 0
    <2>1. a = 10 * (a \div 10) + r /\ a \div 10 \in Int
        BY <1>1 DEF Remainder
    <2> QED BY <2>1
<1>2. CASE ~(a >= 0)
    <2>1. r = 0 /\ (-a) % 10 = 0
        BY <1>2 DEF Remainder
    <2>2. a = 10 * (-((-a) \div 10)) + r /\ -((-a) \div 10) \in Int
        BY <2>1
    <2> QED BY <2>2
<1> QED BY <1>1, <1>2

(* No two numbers that are accepted differ in one digit only.              *)
THEOREM MisreadDigitIsFound ==
    ASSUME NEW d \in [1..11 -> 0..9] PROVE TCKimlikNoLaw(d)
<1> SUFFICES ASSUME TCKimlikNo(d), NEW f \in Misread(d), TCKimlikNo(f) PROVE FALSE
    BY DEF TCKimlikNoLaw
<1>0. PICK i \in 1..11, x \in 0..9 : f = [d EXCEPT ![i] = x]
    <2>1. DOMAIN d = 1..11
        OBVIOUS
    <2> QED BY <2>1 DEF Misread
<1>a. x # d[i]
    <2>1. f # d
        BY DEF Misread
    <2> QED BY <1>0, <2>1
<1>1. f \in [1..11 -> 0..9] /\ f[i] = x /\ \A j \in 1..11 \ {i} : f[j] = d[j]
    BY <1>0
<1> DEFINE Sum(g) == OddSum(g) * 7 - EvenSum(g)
<1>2. ASSUME NEW g \in [1..11 -> 0..9]
      PROVE  OddSum(g) \in Int /\ EvenSum(g) \in Int /\ Sum(g) \in Int
    <2>1. \A j \in 1..11 : g[j] \in Int
        OBVIOUS
    <2>2. OddSum(g) \in Int /\ EvenSum(g) \in Int
        BY <2>1 DEF OddSum, EvenSum
    <2> QED BY <2>2
<1>3. /\ d[10] = Remainder(Sum(d), 10) /\ d[11] = (OddSum(d) + EvenSum(d) + d[10]) % 10
      /\ f[10] = Remainder(Sum(f), 10) /\ f[11] = (OddSum(f) + EvenSum(f) + f[10]) % 10
    BY DEF TCKimlikNo
<1>4. CASE i \in 1..9
    <2>1. d[10] = f[10] /\ d[10] \in 0..9
        BY <1>1, <1>4
    <2>2. PICK p \in Int : Sum(d) = 10 * p + d[10]
        BY <1>2, <1>3, <2>1, RemainderIsDigit
    <2>3. PICK q \in Int : Sum(f) = 10 * q + d[10]
        <3>1. Sum(f) \in Int /\ d[10] = Remainder(Sum(f), 10)
            BY <1>1, <1>2, <1>3, <2>1
        <3> HIDE DEF Sum
        <3> QED BY <2>1, <3>1, RemainderIsDigit
    <2>4. Sum(f) - Sum(d) = 10 * (q - p)
        BY <2>1, <2>2, <2>3
    <2>5. Sum(f) - Sum(d) = 7 * (x - d[i]) \/ Sum(f) - Sum(d) = d[i] - x
        <3>1. \A j \in 1..11 : d[j] \in Int /\ f[j] \in Int
            BY <1>1
        <3>2. CASE i \in {1, 3, 5, 7, 9}
            <4>1. EvenSum(f) = EvenSum(d)
                BY <1>1, <3>2 DEF EvenSum
            <4>2. OddSum(f) - OddSum(d) = x - d[i]
                <5> DEFINE change(j) == IF j = i THEN x - d[i] ELSE 0
                <5>1. /\ f[1] = d[1] + change(1) /\ f[3] = d[3] + change(3) /\ f[5] = d[5] + change(5)
                      /\ f[7] = d[7] + change(7) /\ f[9] = d[9] + change(9)
                    BY <1>1, <3>1
                <5>2. /\ change(1) + change(3) + change(5) + change(7) + change(9) = x - d[i]
                      /\ \A j \in 1..11 : change(j) \in Int
                    BY <3>1, <3>2
                <5> HIDE DEF change
                <5> QED BY <3>1, <5>1, <5>2 DEF OddSum
            <4>3. x \in Int /\ d[i] \in Int
                BY <3>1
            <4>4. OddSum(f) \in Int /\ OddSum(d) \in Int /\ EvenSum(f) \in Int /\ EvenSum(d) \in Int
                BY <1>1, <1>2
            <4> QED BY <4>1, <4>2, <4>3, <4>4
        <3>3. CASE i \in {2, 4, 6, 8}
            <4>1. OddSum(f) = OddSum(d)
                BY <1>1, <3>3 DEF OddSum
            <4>2. EvenSum(f) - EvenSum(d) = x - d[i]
                BY <1>1, <3>1, <3>3 DEF EvenSum
            <4>3. x \in Int /\ d[i] \in Int
                BY <3>1
            <4>4. OddSum(f) \in Int /\ OddSum(d) \in Int /\ EvenSum(f) \in Int /\ EvenSum(d) \in Int
                BY <1>1, <1>2
            <4> QED BY <4>1, <4>2, <4>3, <4>4
        <3> QED BY <1>4, <3>2, <3>3
    <2>6. x \in Int /\ d[i] \in 0..9 /\ x # d[i]
        BY <1>a
    <2> QED BY <2>4, <2>5, <2>6
<1>5. CASE i \in {10, 11}
    <2>1. OddSum(f) = OddSum(d) /\ EvenSum(f) = EvenSum(d)
        BY <1>1, <1>5 DEF OddSum, EvenSum
    <2>2. f[10] = d[10]
        BY <1>3, <2>1
    <2>3. f[11] = d[11]
        BY <1>3, <2>1, <2>2
    <2> QED BY <1>a, <1>1, <1>5, <2>2, <2>3
<1> QED BY <1>4, <1>5

-----------------------------------------------------------------------------
(* The check digits of an IBAN.                                            *)

Remainder97(digits) == FoldLeft(LAMBDA rest, digit : (10 * rest + digit) % 97, 0, digits)

LEMMA LargestIsThere ==
    ASSUME NEW n \in Nat, NEW S \in SUBSET (1..n), S # {}
    PROVE  Max(S) \in S /\ \A x \in S : Max(S) >= x
<1> DEFINE Below == {n - x : x \in S}
<1>1. PICK least \in Below : \A m \in Below : least <= m
    <2>1. \A x \in S : x \in 1..n /\ n - x \in Nat
        OBVIOUS
    <2>2. Below \subseteq Nat
        BY <2>1, Zenon
    <2>3. Below # {}
        OBVIOUS
    <2> HIDE DEF Below
    <2> QED BY <2>2, <2>3, LeastNatural
<1>2. PICK x \in S : least = n - x
    OBVIOUS
<1>3. \A y \in S : x >= y
    <2> SUFFICES ASSUME NEW y \in S PROVE x >= y
        OBVIOUS
    <2>1. n - x <= n - y
        BY <1>1, <1>2
    <2> QED BY <2>1
<1> QED BY <1>3 DEF Max

LEMMA DigitStep ==
    ASSUME NEW rest \in 0..96, NEW digit \in 0..9
    PROVE  (10 * rest + digit) % 97 \in 0..96
<1>1. 10 * rest + digit \in Int
    OBVIOUS
<1> QED BY <1>1

(* The remainder is taken digit by digit.                                  *)
LEMMA RemainderUnfolds ==
    ASSUME NEW n \in Nat, NEW digits \in [1..n -> 0..9]
    PROVE  \E rest \in [0..n -> 0..96] :
               /\ \A k \in 1..n : rest[k] = (10 * rest[k - 1] + digits[k]) % 97
               /\ rest[0] = 0 /\ Remainder97(digits) = rest[n]
<1> DEFINE step == [p \in (1..n) \X (0..96) |-> (10 * p[2] + digits[p[1]]) % 97]
           pick == [S \in SUBSET (1..n) |-> Max(S)]
           Body(f) == [S \in SUBSET (1..n) |-> IF S = {} THEN 0 ELSE (10 * f[S \ {Max(S)}] + digits[Max(S)]) % 97]
           fold == CHOOSE f : f = Body(f)
<1>1. \A S \in SUBSET (1..n) : S # {} => Max(S) \in S
    BY LargestIsThere
<1>2. step \in [(1..n) \X (0..96) -> 0..96] /\ Picks(pick, 1..n)
    <2>1. ASSUME NEW i \in 1..n, NEW r \in 0..96 PROVE (10 * r + digits[i]) % 97 \in 0..96
        <3>1. digits[i] \in 0..9
            OBVIOUS
        <3> QED BY <3>1, DigitStep
    <2> QED BY <1>1, <2>1 DEF Picks
<1>3. IsFiniteSet(1..n)
    BY FS_Interval
<1>4. PICK f : IsFold(f, 1..n, 0..96, 0, step, pick)
    <2>1. 0 \in 0..96
        OBVIOUS
    <2> HIDE DEF step, pick
    <2> QED BY <1>2, <1>3, <2>1, SubsetRecursion, Zenon
<1>5. /\ f \in [SUBSET (1..n) -> 0..96]
      /\ \A S \in SUBSET (1..n) : f[S] = IF S = {} THEN 0 ELSE (10 * f[S \ {Max(S)}] + digits[Max(S)]) % 97
    BY <1>1, <1>4 DEF IsFold
<1>6. f = Body(f)
    BY <1>5
<1>7. fold = Body(fold)
    BY <1>6
<1>8. Remainder97(digits) = fold[1..n]
    BY DEF Remainder97, FoldLeft, MapThenFoldSet
<1>9. /\ fold[{}] = 0
      /\ \A S \in SUBSET (1..n) : S # {} => fold[S] = (10 * fold[S \ {Max(S)}] + digits[Max(S)]) % 97
    <2> HIDE DEF fold
    <2> QED BY <1>7
<1> DEFINE rest == [k \in 0..n |-> fold[1..k]]
<1> HIDE DEF fold
<1>10. ASSUME NEW k \in 1..n PROVE fold[1..k] = (10 * fold[1..(k - 1)] + digits[k]) % 97
    <2>1. (1..k) \in SUBSET (1..n) /\ k \in 1..k
        OBVIOUS
    <2>2. Max(1..k) = k
        <3>1. PICK S \in SUBSET (1..n) : S = 1..k
            BY <2>1
        <3>2. Max(S) \in S /\ \A x \in S : Max(S) >= x
            BY <2>1, <3>1, LargestIsThere
        <3> QED BY <2>1, <3>1, <3>2
    <2>3. (1..k) \ {k} = 1..(k - 1)
        OBVIOUS
    <2>4. fold[1..k] = (10 * fold[(1..k) \ {Max(1..k)}] + digits[Max(1..k)]) % 97
        <3>1. 1..k # {}
            BY <2>1
        <3> QED BY <1>9, <2>1, <3>1
    <2> QED BY <2>2, <2>3, <2>4
<1>11. fold[1..0] = 0
    <2>1. 1..0 = {}
        OBVIOUS
    <2> QED BY <1>9, <2>1
<1>12. rest \in [0..n -> 0..96]
    <2> DEFINE K == {k \in Nat : k <= n => fold[1..k] \in 0..96}
    <2>1. 0 \in K
        BY <1>11
    <2>2. ASSUME NEW k \in Nat, k \in K PROVE k + 1 \in K
        <3> SUFFICES ASSUME k + 1 <= n PROVE fold[1..(k + 1)] \in 0..96
            OBVIOUS
        <3>1. k + 1 \in 1..n /\ k + 1 - 1 = k /\ fold[1..k] \in 0..96 /\ digits[k + 1] \in 0..9
            BY <2>2
        <3>2. fold[1..(k + 1)] = (10 * fold[1..k] + digits[k + 1]) % 97
            BY <1>10, <3>1
        <3>3. fold[1..(k + 1)] \in 0..96
            BY <3>1, <3>2, DigitStep
        <3> QED BY <3>3
    <2>3. Nat \subseteq K
        <3> HIDE DEF K
        <3> QED BY <2>1, <2>2, NumberInduction
    <2> QED BY <2>3
<1>13. \A k \in 1..n : rest[k] = (10 * rest[k - 1] + digits[k]) % 97
    BY <1>10
<1>14. rest[0] = 0 /\ rest[n] = fold[1..n]
    BY <1>11
<1> HIDE DEF rest
<1> QED BY <1>8, <1>12, <1>13, <1>14

(* Ten has an inverse modulo 97, and two digits are less than 97 apart.    *)
NextRest(rest, digit) == (10 * rest + digit) % 97
Rest == 0..96
Decimal == 0..9

LEMMA StepsDiffer ==
    ASSUME NEW a \in Rest, NEW b \in Rest, NEW u \in Decimal, NEW v \in Decimal,
           NextRest(a, u) = NextRest(b, v)
    PROVE  (a = b => u = v) /\ (u = v => a = b)
<1> USE DEF Rest, Decimal
<1>1. PICK p \in Int : 10 * a + u = 97 * p + ((10 * a + u) % 97)
    OBVIOUS
<1>2. PICK q \in Int : 10 * b + v = 97 * q + ((10 * b + v) % 97)
    OBVIOUS
<1>3. 10 * (a - b) + (u - v) = 97 * (p - q)
    BY <1>1, <1>2 DEF NextRest
<1>4. PICK t \in Int : t = p - q
    OBVIOUS
<1>5. PICK s \in -96..96 : s = a - b
    OBVIOUS
<1>6. PICK w \in -9..9 : w = u - v
    OBVIOUS
<1>7. 10 * s + w = 97 * t
    BY <1>3, <1>4, <1>5, <1>6
<1>8. s = 0 => w = 0
    BY <1>7
<1>9. w = 0 => s = 0
    <2> SUFFICES ASSUME w = 0 PROVE s = 0
        OBVIOUS
    <2>1. 10 * s = 97 * t /\ t \in -9..9
        BY <1>7
    <2>3. 7 * t = 10 * (s - 9 * t)
        BY <2>1
    <2>4. t = 10 * (3 * (s - 9 * t) - 2 * t)
        BY <2>3
    <2>5. t = 0
        BY <2>1, <2>4
    <2> QED BY <2>1, <2>5
<1> QED BY <1>5, <1>6, <1>8, <1>9

(* From the digit on that differs, the remainders differ.                  *)
LEMMA OneDigitTells ==
    ASSUME NEW n \in Nat, NEW d \in [1..n -> 0..9], NEW f \in [1..n -> 0..9], NEW i \in 1..n,
           d[i] # f[i], \A j \in 1..n \ {i} : d[j] = f[j]
    PROVE  Remainder97(d) # Remainder97(f)
<1>1. PICK D \in [0..n -> 0..96] :
          /\ \A k \in 1..n : D[k] = (10 * D[k - 1] + d[k]) % 97
          /\ D[0] = 0 /\ Remainder97(d) = D[n]
    BY RemainderUnfolds
<1>2. PICK F \in [0..n -> 0..96] :
          /\ \A k \in 1..n : F[k] = (10 * F[k - 1] + f[k]) % 97
          /\ F[0] = 0 /\ Remainder97(f) = F[n]
    BY RemainderUnfolds
<1> DEFINE K == {k \in Nat : k <= n => (D[k] = F[k] <=> k < i)}
<1>3. 0 \in K
    BY <1>1, <1>2
<1>4. ASSUME NEW k \in Nat, k \in K PROVE k + 1 \in K
    <2> SUFFICES ASSUME k + 1 <= n PROVE D[k + 1] = F[k + 1] <=> k + 1 < i
        OBVIOUS
    <2>1. /\ k + 1 \in 1..n /\ k + 1 - 1 = k
          /\ D[k] \in 0..96 /\ F[k] \in 0..96 /\ d[k + 1] \in 0..9 /\ f[k + 1] \in 0..9
          /\ (D[k] = F[k] <=> k < i)
        BY <1>4
    <2>2. D[k + 1] = (10 * D[k] + d[k + 1]) % 97 /\ F[k + 1] = (10 * F[k] + f[k + 1]) % 97
        BY <1>1, <1>2, <2>1
    <2>3. D[k + 1] = F[k + 1] => (D[k] = F[k] <=> d[k + 1] = f[k + 1])
        <3> SUFFICES ASSUME D[k + 1] = F[k + 1] PROVE D[k] = F[k] <=> d[k + 1] = f[k + 1]
            OBVIOUS
        <3>1. D[k] \in Rest /\ F[k] \in Rest /\ d[k + 1] \in Decimal /\ f[k + 1] \in Decimal
            BY <2>1 DEF Rest, Decimal
        <3>2. NextRest(D[k], d[k + 1]) = NextRest(F[k], f[k + 1])
            BY <2>2 DEF NextRest
        <3> QED BY <3>1, <3>2, StepsDiffer
    <2>4. CASE k + 1 = i
        BY <2>1, <2>3, <2>4
    <2>5. CASE k + 1 # i
        <3>1. d[k + 1] = f[k + 1]
            BY <2>1, <2>5
        <3>2. D[k + 1] = F[k + 1] <=> D[k] = F[k]
            BY <2>2, <2>3, <3>1
        <3> QED BY <2>1, <2>5, <3>2
    <2> QED BY <2>4, <2>5
<1>5. Nat \subseteq K
    <2> HIDE DEF K
    <2> QED BY <1>3, <1>4, NumberInduction
<1>6. D[n] # F[n]
    BY <1>5
<1> QED BY <1>1, <1>2, <1>6

(* The country and the check digits are read last.                         *)
Numeric(d) == SubSeq(d, 3, Len(d)) \o <<2, 9, 2, 7>> \o SubSeq(d, 1, 2)

LEMMA NumericReads ==
    ASSUME NEW d \in Seq(0..9), Len(d) >= 2
    PROVE  /\ Numeric(d) \in [1..(Len(d) + 4) -> 0..9]
           /\ \A j \in 1..(Len(d) + 4) :
                  Numeric(d)[j] = IF j <= Len(d) - 2 THEN d[j + 2]
                                  ELSE IF j <= Len(d) + 2 THEN <<2, 9, 2, 7>>[j - (Len(d) - 2)]
                                  ELSE d[j - (Len(d) + 2)]
<1> DEFINE account == SubSeq(d, 3, Len(d))
           country == <<2, 9, 2, 7>>
           check == SubSeq(d, 1, 2)
<1>1. Len(d) \in Nat
    OBVIOUS
<1>2. /\ account \in Seq(0..9) /\ Len(account) = Len(d) - 2
      /\ \A j \in 1..(Len(d) - 2) : account[j] = d[j + 2]
    <2>1. \A j \in 3..Len(d) : j \in 1..Len(d)
        OBVIOUS
    <2>2. /\ SubSeq(d, 3, Len(d)) \in Seq(0..9)
          /\ Len(SubSeq(d, 3, Len(d))) = IF 3 <= Len(d) THEN Len(d) - 3 + 1 ELSE 0
          /\ \A j \in 1..(Len(d) - 3 + 1) : SubSeq(d, 3, Len(d))[j] = d[3 + j - 1]
        BY <2>1, SubSeqProperties
    <2>3. Len(account) = Len(d) - 2
        <3>1. Len(account) = IF 3 <= Len(d) THEN Len(d) - 3 + 1 ELSE 0
            BY <2>2
        <3>2. PICK n \in Nat : n = Len(d)
            BY <1>1
        <3>3. Len(account) = n - 2
            BY <3>1, <3>2
        <3> QED BY <3>2, <3>3
    <2>4. ASSUME NEW j \in 1..(Len(d) - 2) PROVE account[j] = d[j + 2]
        <3>1. j \in 1..(Len(d) - 3 + 1) /\ 3 + j - 1 = j + 2
            BY <1>1
        <3> QED BY <2>2, <3>1
    <2> QED BY <2>2, <2>3, <2>4
<1>3. check \in Seq(0..9) /\ Len(check) = 2 /\ \A j \in 1..2 : check[j] = d[j]
    BY <1>1
<1>4. country \in Seq(0..9) /\ Len(country) = 4
    OBVIOUS
<1> HIDE DEF account, country, check
<1>5. Numeric(d) = account \o country \o check
    BY DEF Numeric, account, country, check
<1> DEFINE front == account \o country
<1>6. /\ front \in Seq(0..9) /\ Len(front) = Len(d) + 2
      /\ \A j \in 1..(Len(d) + 2) :
            front[j] = IF j <= Len(d) - 2 THEN d[j + 2] ELSE country[j - (Len(d) - 2)]
    <2>1. /\ front \in Seq(0..9) /\ Len(front) = Len(account) + Len(country)
          /\ \A j \in 1..(Len(account) + Len(country)) :
                front[j] = IF j <= Len(account) THEN account[j] ELSE country[j - Len(account)]
        BY <1>2, <1>4, ConcatProperties
    <2> HIDE DEF front
    <2> QED BY <1>1, <1>2, <1>4, <2>1
<1>7. Numeric(d) = front \o check
    BY <1>5
<1> HIDE DEF front
<1>8. /\ Numeric(d) \in Seq(0..9) /\ Len(Numeric(d)) = Len(front) + Len(check)
      /\ \A j \in 1..(Len(front) + Len(check)) :
            Numeric(d)[j] = IF j <= Len(front) THEN front[j] ELSE check[j - Len(front)]
    <2>1. front \in Seq(0..9) /\ check \in Seq(0..9)
        BY <1>3, <1>6
    <2> QED BY <1>7, <2>1, ConcatProperties
<1>9. Numeric(d) \in [1..(Len(d) + 4) -> 0..9]
    <2>1. Len(Numeric(d)) = Len(d) + 4
        BY <1>1, <1>3, <1>6, <1>8
    <2> QED BY <1>8, <2>1
<1>10. ASSUME NEW j \in 1..(Len(d) + 4)
      PROVE  Numeric(d)[j] = IF j <= Len(d) - 2 THEN d[j + 2]
                             ELSE IF j <= Len(d) + 2 THEN country[j - (Len(d) - 2)]
                             ELSE d[j - (Len(d) + 2)]
    <2>1. Numeric(d)[j] = IF j <= Len(d) + 2 THEN front[j] ELSE check[j - (Len(d) + 2)]
        BY <1>1, <1>3, <1>6, <1>8
    <2>2. CASE j <= Len(d) + 2
        BY <1>1, <1>6, <2>1, <2>2
    <2>3. CASE j > Len(d) + 2
        <3>1. j - (Len(d) + 2) \in 1..2 /\ ~(j <= Len(d) + 2) /\ ~(j <= Len(d) - 2)
            BY <1>1, <2>3
        <3> QED BY <1>3, <2>1, <3>1
    <2> QED BY <1>1, <2>2, <2>3
<1> QED BY <1>9, <1>10 DEF country

(* No two numbers that are accepted differ in one digit only, however long *)
(* they are (IBAN: modulo 97).                                             *)
THEOREM MisreadIBANIsFound ==
    ASSUME NEW d \in Seq(0..9), Len(d) >= 2 PROVE IBANLaw(d)
<1> SUFFICES ASSUME IBAN(d), NEW f \in Misread(d), IBAN(f) PROVE FALSE
    BY DEF IBANLaw
<1>1. PICK i \in 1..Len(d), x \in 0..9 : f = [d EXCEPT ![i] = x]
    <2>1. DOMAIN d = 1..Len(d)
        OBVIOUS
    <2> QED BY <2>1 DEF Misread
<1>2. /\ f \in Seq(0..9) /\ Len(f) = Len(d) /\ f[i] = x /\ x # d[i]
      /\ \A j \in 1..Len(d) : j # i => f[j] = d[j]
    <2>1. f # d
        BY DEF Misread
    <2> QED BY <1>1, <2>1
<1> DEFINE n == Len(d) + 4
<1>3. n \in Nat /\ Numeric(d) \in [1..n -> 0..9] /\ Numeric(f) \in [1..n -> 0..9]
    BY <1>2, NumericReads
<1> DEFINE at == IF i <= 2 THEN Len(d) + 2 + i ELSE i - 2
<1>4. at \in 1..n
    OBVIOUS
<1>5. Numeric(d)[at] = d[i] /\ Numeric(f)[at] = x
    <2>1. CASE i <= 2
        BY <1>2, <1>4, <2>1, NumericReads
    <2>2. CASE i > 2
        BY <1>2, <1>4, <2>2, NumericReads
    <2> QED BY <2>1, <2>2
<1>6. ASSUME NEW j \in 1..n \ {at} PROVE Numeric(d)[j] = Numeric(f)[j]
    <2> DEFINE Read(g) == IF j <= Len(d) - 2 THEN g[j + 2]
                          ELSE IF j <= Len(d) + 2 THEN <<2, 9, 2, 7>>[j - (Len(d) - 2)]
                          ELSE g[j - (Len(d) + 2)]
    <2>1. Len(f) = Len(d) /\ Len(d) \in Nat /\ j \in 1..(Len(d) + 4) /\ j \in 1..(Len(f) + 4)
        BY <1>2
    <2>2. Numeric(d)[j] = Read(d)
        BY <2>1, NumericReads
    <2>3. Numeric(f)[j] = Read(f)
        <3>1. Len(f) >= 2
            BY <2>1
        <3> QED BY <1>2, <2>1, <3>1, NumericReads
    <2>4. /\ j <= Len(d) - 2 => j + 2 \in 1..Len(d) /\ j + 2 # i
          /\ j > Len(d) + 2 => j - (Len(d) + 2) \in 1..Len(d) /\ j - (Len(d) + 2) # i
        BY <2>1
    <2>5. /\ j <= Len(d) - 2 => f[j + 2] = d[j + 2]
          /\ j > Len(d) + 2 => f[j - (Len(d) + 2)] = d[j - (Len(d) + 2)]
        BY <1>2, <2>4
    <2>6. ~(j <= Len(d) + 2) => j > Len(d) + 2
        BY <2>1
    <2>7. Read(d) = Read(f)
        BY <2>5, <2>6
    <2> QED BY <2>2, <2>3, <2>7
<1>7. Remainder97(Numeric(d)) = 1 /\ Remainder97(Numeric(f)) = 1
    BY DEF IBAN, Remainder97, Numeric
<1> HIDE DEF n, at
<1> QED BY <1>2, <1>3, <1>4, <1>5, <1>6, <1>7, OneDigitTells

-----------------------------------------------------------------------------
(* The samples.                                                            *)

(* Each kind of sample by its theorem.                                     *)
LEMMA SampleKeepsLaws == ValuesInit => ValuesKeepLaws
<1> SUFFICES ASSUME ValuesInit PROVE ValuesKeepLaws
    OBVIOUS
<1> USE DEF Sample, ValuesKeepLaws
<1>1. ASSUME NEW a \in Amount, NEW b \in Amount, NEW c \in {"TRY", "USD"}, NEW e \in {"TRY", "USD"},
             Sample("money", [amount |-> a, currency |-> c], [amount |-> b, currency |-> e])
      PROVE  ValuesKeepLaws
    BY <1>1, MoneyLawHolds, ValuesAssumption
<1>2. ASSUME NEW p \in 0..100, NEW a \in Amount, Sample("percent", p, a) PROVE ValuesKeepLaws
    BY <1>2, PercentLawHolds, ValuesAssumption
<1>3. ASSUME NEW a \in Amount, NEW b \in Amount, Sample("number", a, b) PROVE ValuesKeepLaws
    <2>1. a \in Int /\ b \in Int /\ a - b \in Int
        BY ValuesAssumption
    <2> QED BY <1>3, <2>1, QuantityLawHolds, HoursLawHolds, GradeLawHolds, LimitLawHolds
<1>4. ASSUME NEW a \in Instant, NEW b \in Instant, NEW c \in Instant, NEW e \in Instant,
             NEW r \in DateRange(a, b), NEW s \in DateRange(c, e), Sample("range", r, s)
      PROVE  ValuesKeepLaws
    BY <1>4, RangeLawHolds, ValuesAssumption
<1>5. ASSUME NEW d \in [1..3 -> Side], NEW box \in [1..3 -> Side], Sample("box", d, box)
      PROVE  ValuesKeepLaws
    <2>1. d \in [1..3 -> Int] /\ box \in [1..3 -> Int]
        BY ValuesAssumption
    <2> QED BY <1>5, <2>1, BoxLawHolds
<1>6. ASSUME NEW donor \in BloodTypes, NEW recipient \in BloodTypes, Sample("blood", donor, recipient)
      PROVE  ValuesKeepLaws
    BY <1>6, BloodLawHolds
<1>7. ASSUME NEW d \in [1..5 -> Digit], NEW c \in 0..9, NEW e \in 0..9,
             Sample("tckn", [i \in 1..11 |-> IF i <= 5 THEN d[i] ELSE <<1, 0, 8, 5, c, e>>[i - 5]], 0)
      PROVE  ValuesKeepLaws
    <2>1. \A j \in 1..6 : <<1, 0, 8, 5, c, e>>[j] \in 0..9
        OBVIOUS
    <2>2. \A i \in 1..11 : i <= 5 => d[i] \in 0..9
        <3>1. \A i \in 1..5 : d[i] \in Digit
            OBVIOUS
        <3>2. \A i \in 1..11 : i <= 5 => i \in 1..5
            OBVIOUS
        <3> QED BY <3>1, <3>2, ValuesAssumption, Zenon
    <2>3. \A i \in 1..11 : i > 5 => i - 5 \in 1..6
        OBVIOUS
    <2>4. [i \in 1..11 |-> IF i <= 5 THEN d[i] ELSE <<1, 0, 8, 5, c, e>>[i - 5]] \in [1..11 -> 0..9]
        BY <2>1, <2>2, <2>3
    <2>5. sample.kind = "tckn" /\ TCKimlikNoLaw(sample.first)
        BY <1>7, <2>4, MisreadDigitIsFound
    <2> QED BY <2>5
<1>8. ASSUME NEW d \in [1..5 -> Digit], NEW c \in 0..9, NEW e \in 0..9,
             Sample("iban", <<c, e, 0, 0, 0, 6, 2>> \o d \o [i \in 1..12 |-> i % 10], 0)
      PROVE  ValuesKeepLaws
    <2> DEFINE bank == <<c, e, 0, 0, 0, 6, 2>>
               rest == [i \in 1..12 |-> i % 10]
    <2>1. bank \in Seq(0..9) /\ Len(bank) = 7
        OBVIOUS
    <2>2. d \in Seq(0..9)
        <3>1. d \in [1..5 -> 0..9]
            BY ValuesAssumption
        <3>2. 5 \in Nat /\ Seq(0..9) = UNION {[1..m -> 0..9] : m \in Nat}
            BY SeqDef
        <3> QED BY <3>1, <3>2, Zenon
    <2>3. rest \in Seq(0..9)
        <3>1. \A i \in 1..12 : i % 10 \in 0..9
            OBVIOUS
        <3>2. rest \in [1..12 -> 0..9]
            BY <3>1
        <3> HIDE DEF rest
        <3>3. 12 \in Nat /\ Seq(0..9) = UNION {[1..m -> 0..9] : m \in Nat}
            BY SeqDef
        <3> QED BY <3>2, <3>3, Zenon
    <2> HIDE DEF bank, rest
    <2>4. bank \o d \in Seq(0..9) /\ Len(bank \o d) = Len(bank) + Len(d)
        BY <2>1, <2>2, ConcatProperties
    <2>5. bank \o d \o rest \in Seq(0..9) /\ Len(bank \o d \o rest) = Len(bank \o d) + Len(rest)
        BY <2>3, <2>4, ConcatProperties
    <2>6. Len(bank \o d \o rest) >= 2
        <3>1. Len(d) \in Nat /\ Len(rest) \in Nat
            BY <2>2, <2>3
        <3> QED BY <2>1, <2>4, <2>5, <3>1
    <2>7. IBANLaw(bank \o d \o rest)
        BY <2>5, <2>6, MisreadIBANIsFound
    <2>8. sample.kind = "iban" /\ sample.first = bank \o d \o rest
        BY <1>8 DEF bank, rest
    <2> QED BY <2>7, <2>8
<1> HIDE DEF Sample, ValuesKeepLaws
<1> QED BY <1>1, <1>2, <1>3, <1>4, <1>5, <1>6, <1>7, <1>8 DEF ValuesInit

(* Every law holds for every sample (money.value-object.ts, pagination.ts, *)
(* value-objects-catalog.ts).                                              *)
THEOREM LawsAreKept == ValuesSpec => []ValuesKeepLaws
<1>1. ValuesKeepLaws /\ [UNCHANGED sample]_sample => ValuesKeepLaws'
    BY DEF ValuesKeepLaws, MoneyLaw
<1> QED BY <1>1, SampleKeepsLaws, PTL DEF ValuesSpec
=============================================================================
