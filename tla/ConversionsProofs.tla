-------------------------- MODULE ConversionsProofs -------------------------
(***************************************************************************)
(* Proofs about Conversions, for every base and width of the digits, every *)
(* clock, any number of runs and any texts.  What a recursive function     *)
(* computes is proved from the least-element principle: a set of numbers   *)
(* that holds 0 and with a number the next is Nat (Numbers), and likewise  *)
(* a set of sequences (Sequences); the statement to be proved is put as    *)
(* the set of the numbers or sequences of which it is true.                *)
(***************************************************************************)
EXTENDS Conversions, WellFoundedInduction, FiniteSetTheorems, SequenceTheorems, TLAPS

-----------------------------------------------------------------------------
(* Numbers.                                                                  *)

\* The principle every induction here goes by: a set of numbers has a least one.
LEMMA Least ==
    ASSUME NEW T \in SUBSET Nat, T # {}
    PROVE  \E m \in T : \A k \in T : m <= k
<1> DEFINE R == OpToRel(<, Nat)
<1>1. PICK m \in T : \A k \in T : <<k, m>> \notin R
  <2>1. IsWellFoundedOn(R, Nat)
    BY NatLessThanWellFounded, Zenon
  <2> HIDE DEF R
  <2> QED BY <2>1, WFMin
<1>2. \A k \in T : k \in Nat /\ m \in Nat /\ ~ (k < m)
  BY <1>1, Zenon DEF OpToRel
<1> HIDE DEF R
<1> QED BY <1>2

\* Nat is the only set of numbers that holds 0 and, with a number, the next.
LEMMA Numbers ==
    ASSUME NEW T \in SUBSET Nat, 0 \in T, \A n \in T : n + 1 \in T
    PROVE  T = Nat
<1> DEFINE U == Nat \ T
<1>1. SUFFICES ASSUME U # {} PROVE FALSE
  OBVIOUS
<1>2. PICK m \in U : \A k \in U : m <= k
  <2> HIDE DEF U
  <2> U \in SUBSET Nat
    BY DEF U
  <2> QED BY <1>1, Least
<1>3. m - 1 \in Nat /\ m - 1 \notin U
  BY <1>2
<1> QED BY <1>2, <1>3

-----------------------------------------------------------------------------
\* The quotient and the remainder of a number: what \div and % mean.
LEMMA Quotient ==
    ASSUME NEW n \in Int, NEW b \in Nat, b > 0
    PROVE  /\ n \div b \in Int
           /\ (n \div b) * b <= n
           /\ n < (n \div b) * b + b
           /\ n % b = n - (n \div b) * b
           /\ n % b \in 0 .. b - 1
OBVIOUS

\* A product is no smaller when a factor grows.
LEMMA Product ==
    ASSUME NEW a \in Int, NEW b \in Int, NEW c \in Nat, a <= b
    PROVE  a * c <= b * c
OBVIOUS

\* When it is smaller, so is a factor.
LEMMA ProductStrict ==
    ASSUME NEW a \in Int, NEW b \in Int, NEW c \in Nat, a * c < b * c
    PROVE  a < b
BY Product

\* A number has one quotient and one remainder.
LEMMA QuotientUnique ==
    ASSUME NEW n \in Int, NEW b \in Nat, b > 0, NEW q \in Int, q * b <= n, n < q * b + b
    PROVE  n \div b = q
<1> DEFINE p == n \div b
<1>1. p \in Int /\ p * b <= n /\ n < p * b + b
  BY Quotient
<1> HIDE DEF p
<1>2. p * b + b = (p + 1) * b /\ q * b + b = (q + 1) * b
  BY <1>1
<1>3. p * b < (q + 1) * b /\ q * b < (p + 1) * b
  BY <1>1, <1>2
<1>4. p < q + 1 /\ q < p + 1
  BY <1>1, <1>3, ProductStrict
<1> QED BY <1>1, <1>4 DEF p

\* Dividing twice is dividing by the product.
LEMMA QuotientTwice ==
    ASSUME NEW n \in Int, NEW b \in Nat, NEW p \in Nat, b > 0, p > 0
    PROVE  n \div (b * p) = (n \div p) \div b
<1> DEFINE q == n \div p
           r == q \div b
<1>1. q \in Int /\ q * p <= n /\ n < q * p + p
  BY Quotient
<1> HIDE DEF q
<1>2. r \in Int /\ r * b <= q /\ q < r * b + b
  BY <1>1, Quotient
<1> HIDE DEF r
<1>3. (r * b) * p <= q * p
  BY <1>1, <1>2, Product
<1>4. (q + 1) * p <= (r * b + b) * p
  BY <1>1, <1>2, Product
<1>5. /\ (q + 1) * p = q * p + p
      /\ (r * b) * p = r * (b * p)
      /\ (r * b + b) * p = r * (b * p) + b * p
  BY <1>1, <1>2
<1>6. b * p \in Nat /\ b * p > 0
  OBVIOUS
<1>7. r * (b * p) <= n /\ n < r * (b * p) + b * p
  BY <1>1, <1>2, <1>3, <1>4, <1>5
<1>8. n \div (b * p) = r
  BY <1>2, <1>6, <1>7, QuotientUnique
<1> QED BY <1>8 DEF q, r

\* A larger number has no smaller a quotient.
LEMMA QuotientMonotone ==
    ASSUME NEW m \in Int, NEW n \in Int, NEW b \in Nat, b > 0, m <= n
    PROVE  m \div b <= n \div b
<1> DEFINE p == m \div b
           q == n \div b
<1>1. p \in Int /\ p * b <= m
  BY Quotient
<1>2. q \in Int /\ n < q * b + b
  BY Quotient
<1> HIDE DEF p, q
<1>3. p * b < (q + 1) * b
  BY <1>1, <1>2
<1>4. p < q + 1
  BY <1>1, <1>2, <1>3, ProductStrict
<1> QED BY <1>1, <1>2, <1>4 DEF p, q

-----------------------------------------------------------------------------
(* Digits.                                                                   *)

\* The exponents in use are those of the assumption.
Places == 0 .. SecondDigits + FractionDigits + 1

\* The weights of the places are positive numbers.
LEMMA Powers == \A k \in Places : Base ^ k \in Nat /\ Base ^ k > 0
<1> USE PowerAssumption
<1> DEFINE T == {k \in Nat : k \in Places => Base ^ k \in Nat /\ Base ^ k > 0}
<1>1. 0 \in T
  OBVIOUS
<1>2. ASSUME NEW k \in T PROVE k + 1 \in T
  <2> SUFFICES ASSUME k + 1 \in Places
               PROVE  Base ^ (k + 1) \in Nat /\ Base ^ (k + 1) > 0
    OBVIOUS
  <2>1. k \in 0 .. SecondDigits + FractionDigits /\ k \in Places
    BY DEF Places
  <2>2. Base ^ k \in Nat /\ Base ^ k > 0
    BY <2>1
  <2>3. Base ^ (k + 1) = Base * Base ^ k
    BY <2>1
  <2>4. \A p \in Nat : p > 0 => Base * p \in Nat /\ Base * p > 0
    OBVIOUS
  <2> QED BY <2>2, <2>3, <2>4
<1> HIDE DEF T
<1>3. T = Nat
  <2> T \in SUBSET Nat
    BY DEF T
  <2> QED BY <1>1, <1>2, Numbers
<1>4. ASSUME NEW k \in Places PROVE k \in T
  BY <1>3 DEF Places
<1> QED BY <1>4 DEF T

\* What n has at the k-th place and above it.
Above(n, k) == n \div Base ^ k

\* A place's quotient is the next one's dividend, and quotients keep the order.
LEMMA AboveStep ==
    ASSUME NEW n \in Int, NEW k \in Places
    PROVE  /\ Above(n, k) \in Int
           /\ k + 1 \in Places => Above(n, k + 1) = Above(n, k) \div Base
           /\ \A m \in Int : m <= n => Above(m, k) <= Above(n, k)
<1>1. Base ^ k \in Nat /\ Base ^ k > 0
  BY Powers
<1>2. k + 1 \in Places => Base ^ (k + 1) = Base * Base ^ k
  BY PowerAssumption DEF Places
<1>3. Base \in Nat /\ Base > 0
  BY PowerAssumption
<1>4. Above(n, k) \in Int
  BY <1>1, Quotient DEF Above
<1>5. ASSUME k + 1 \in Places PROVE Above(n, k + 1) = Above(n, k) \div Base
  BY <1>1, <1>2, <1>3, <1>5, QuotientTwice DEF Above
<1>6. \A m \in Int : m <= n => Above(m, k) <= Above(n, k)
  BY <1>1, QuotientMonotone DEF Above
<1> QED BY <1>4, <1>5, <1>6

\* Nothing is above the width of a number, and all of it is above nothing.
LEMMA AboveEnds ==
    ASSUME NEW n \in Nat, NEW width \in Places
    PROVE  /\ Above(n, 0) = n
           /\ n < Base ^ width => Above(n, width) = 0
<1>1. Base ^ width \in Nat /\ Base ^ width > 0
  BY Powers
<1>2. Base ^ 0 = 1
  BY PowerAssumption
<1>3. n \div 1 = n
  BY QuotientUnique
<1>4. n < Base ^ width => n \div Base ^ width = 0
  BY <1>1, QuotientUnique
<1> QED BY <1>2, <1>3, <1>4 DEF Above

\* A number's text: as many digits as its width, each of them a character.
LEMMA DigitsType ==
    ASSUME NEW n \in Int, NEW width \in 0 .. SecondDigits + FractionDigits
    PROVE  /\ Digits(n, width) \in Seq(Nat)
           /\ Len(Digits(n, width)) = width
           /\ \A i \in 1 .. width : Digits(n, width)[i] = 1 + (Above(n, width - i) % Base)
<1>1. ASSUME NEW i \in 1 .. width
      PROVE  1 + (Above(n, width - i) % Base) \in Nat
  <2>1. Above(n, width - i) \in Int
    BY AboveStep, PowerAssumption DEF Places
  <2> QED BY <2>1, Quotient, PowerAssumption
<1>2. Digits(n, width) = [i \in 1 .. width |-> 1 + (Above(n, width - i) % Base)]
  BY DEF Digits, Above
<1> QED BY <1>1, <1>2, PowerAssumption

\* Of two numbers the smaller has, at the first digit that differs, the smaller.
LEMMA DigitsOrder ==
    ASSUME NEW width \in 0 .. SecondDigits + FractionDigits,
           NEW m \in Nat, NEW n \in Nat, m < n, n < Base ^ width
    PROVE  \E i \in 1 .. width :
             /\ \A j \in 1 .. i - 1 : Digits(m, width)[j] = Digits(n, width)[j]
             /\ Digits(m, width)[i] < Digits(n, width)[i]
<1> DEFINE T == {k \in 0 .. width : \A l \in k .. width : Above(m, l) = Above(n, l)}
<1>1. SecondDigits + FractionDigits \in Nat /\ \A k \in 0 .. width : k \in Places
  BY PowerAssumption DEF Places
<1>2. Above(m, width) = 0 /\ Above(n, width) = 0 /\ Above(m, 0) = m /\ Above(n, 0) = n
  <2> Base ^ width \in Nat /\ width \in Places
    BY <1>1, Powers
  <2> QED BY AboveEnds
<1>3. PICK k \in T : \A l \in T : k <= l
  <2> width \in T
    BY <1>2
  <2> HIDE DEF T
  <2> T \in SUBSET Nat
    BY DEF T
  <2> QED BY Least
<1>4. k \in 1 .. width
  BY <1>2, <1>1
<1>5. PICK p \in 0 .. width - 1 : k = p + 1 /\ width - p \in 1 .. width
  BY <1>1, <1>4
<1>6. Above(m, p) # Above(n, p)
  <2>1. p \notin T
    <3> HIDE DEF T
    <3> QED BY <1>3, <1>4, <1>5
  <2>2. PICK l \in p .. width : Above(m, l) # Above(n, l)
    BY <2>1, <1>5
  <2>3. l \notin k .. width
    BY <2>2, <1>3
  <2>4. l = p
    BY <2>3, <1>5
  <2> QED BY <2>2, <2>4
<1> DEFINE a == Above(m, p)
           b == Above(n, p)
<1>7. a \in Int /\ b \in Int /\ a < b /\ a \div Base = b \div Base
  <2>1. p \in Places /\ p + 1 \in Places
    BY <1>1, <1>4, <1>5
  <2>2. a \in Int /\ b \in Int /\ a <= b
    BY <2>1, AboveStep
  <2>3. Above(m, k) = a \div Base /\ Above(n, k) = b \div Base
    BY <2>1, <1>5, AboveStep
  <2>4. Above(m, k) = Above(n, k)
    BY <1>3, <1>4
  <2>5. a # b
    BY <1>6
  <2> HIDE DEF a, b
  <2> QED BY <2>2, <2>3, <2>4, <2>5
<1>8. a % Base \in Int /\ b % Base \in Int /\ a % Base < b % Base
  <2> HIDE DEF a, b
  <2> Base \in Nat /\ Base > 0
    BY PowerAssumption
  <2>1. /\ a % Base = a - (a \div Base) * Base
        /\ b % Base = b - (b \div Base) * Base
        /\ a \div Base \in Int
    BY <1>7, Quotient
  <2> QED BY <2>1, <1>7
<1> DEFINE i == width - p
<1>9. i \in 1 .. width /\ width - i = p
  BY <1>5
<1>10. Digits(m, width)[i] < Digits(n, width)[i]
  <2> HIDE DEF i
  <2>1. /\ Digits(m, width)[i] = 1 + (a % Base)
        /\ Digits(n, width)[i] = 1 + (b % Base)
    <3>1. /\ Digits(m, width)[i] = 1 + (Above(m, width - i) % Base)
          /\ Digits(n, width)[i] = 1 + (Above(n, width - i) % Base)
      <4>1. \A j \in 1 .. width :
              /\ Digits(m, width)[j] = 1 + (Above(m, width - j) % Base)
              /\ Digits(n, width)[j] = 1 + (Above(n, width - j) % Base)
        BY DigitsType
      <4> QED BY <4>1, <1>9
    <3> QED BY <3>1, <1>9
  <2> HIDE DEF a, b
  <2> QED BY <2>1, <1>8
<1>11. ASSUME NEW j \in 1 .. i - 1
       PROVE  Digits(m, width)[j] = Digits(n, width)[j]
  <2>1. width - j \in k .. width /\ j \in 1 .. width
    BY <1>4, <1>5
  <2>2. Above(m, width - j) = Above(n, width - j)
    BY <2>1, <1>3
  <2> QED BY <2>1, <2>2, DigitsType
<1> HIDE DEF i
<1> QED BY <1>9, <1>10, <1>11

-----------------------------------------------------------------------------
(* Texts and their order.                                                    *)

\* The number of ticks in a second is one of the weights.
LEMMA PerSecondType == PerSecond \in Nat /\ PerSecond > 0 /\ PerSecond = Base ^ FractionDigits
BY Powers, PowerAssumption DEF PerSecond, Places

\* A fraction is a text.
LEMMA FractionType ==
    ASSUME NEW n \in Int
    PROVE  Fraction(n) \in Seq(Nat)
<1> DEFINE digits == Digits(n, FractionDigits)
           Ends(k) == /\ k > 0 => digits[k] # 1
                      /\ \A j \in k + 1 .. FractionDigits : digits[j] = 1
           T == {k \in 0 .. FractionDigits : \A j \in k + 1 .. FractionDigits : digits[j] = 1}
           last == CHOOSE k \in 0 .. FractionDigits : Ends(k)
<1>1. FractionDigits \in Nat /\ FractionDigits \in 0 .. SecondDigits + FractionDigits
  BY PowerAssumption
<1>2. digits \in Seq(Nat) /\ Len(digits) = FractionDigits
  BY <1>1, DigitsType
<1>3. \E k \in 0 .. FractionDigits : Ends(k)
  <2> HIDE DEF digits
  <2>1. PICK k \in T : \A l \in T : k <= l
    <3>1. FractionDigits \in T
      BY <1>1
    <3> HIDE DEF T
    <3> T \in SUBSET Nat
      BY <1>1 DEF T
    <3> QED BY <3>1, Least
  <2>2. ASSUME k > 0, digits[k] = 1
        PROVE  FALSE
    <3> k \in Nat
      BY <1>1
    <3>1. k - 1 \in 0 .. FractionDigits /\ \A j \in k .. FractionDigits : digits[j] = 1
      BY <1>1, <2>2
    <3>2. k - 1 \in T
      BY <3>1
    <3> HIDE DEF T
    <3> QED BY <2>1, <2>2, <3>1, <3>2
  <2> QED BY <2>2
<1>4. last \in 0 .. FractionDigits
  <2> HIDE DEF Ends
  <2> QED BY <1>3
<1>5. Fraction(n) = IF last = 0 THEN <<>> ELSE <<Dot>> \o SubSeq(digits, 1, last)
  BY DEF Fraction
<1>6. SubSeq(digits, 1, last) \in Seq(Nat) /\ <<Dot>> \in Seq(Nat) /\ <<>> \in Seq(Nat)
  <2> HIDE DEF digits, last
  <2>1. \A i \in 1 .. last : digits[i] \in Nat
    BY <1>1, <1>2, <1>4
  <2>2. SubSeq(digits, 1, last) = [i \in 1 .. last |-> digits[i]]
    BY <1>1, <1>2, <1>4
  <2> QED BY <1>1, <1>4, <2>1, <2>2 DEF Dot
<1> HIDE DEF digits, last
<1> QED BY <1>5, <1>6

\* A formatted time is a text that begins with the digits of its second.
LEMMA FormatType ==
    ASSUME NEW n \in Int
    PROVE  /\ Format(n) \in Seq(Nat)
           /\ Len(Format(n)) > SecondDigits
           /\ \A i \in 1 .. SecondDigits :
                Format(n)[i] = Digits(n \div PerSecond, SecondDigits)[i]
<1> DEFINE seconds == Digits(n \div PerSecond, SecondDigits)
           fraction == Fraction(n % PerSecond)
<1>1. SecondDigits \in Nat /\ SecondDigits \in 0 .. SecondDigits + FractionDigits
  BY PowerAssumption
<1>2. n \div PerSecond \in Int /\ n % PerSecond \in Int
  BY PerSecondType, Quotient
<1>3. seconds \in Seq(Nat) /\ Len(seconds) = SecondDigits
  BY <1>1, <1>2, DigitsType
<1>4. fraction \in Seq(Nat)
  BY <1>2, FractionType
<1>5. <<Zed>> \in Seq(Nat)
  BY PowerAssumption DEF Zed
<1>6. Format(n) = seconds \o fraction \o <<Zed>>
  BY DEF Format
<1> HIDE DEF seconds, fraction
<1>7. /\ seconds \o fraction \in Seq(Nat)
      /\ Len(seconds \o fraction) >= SecondDigits
      /\ \A i \in 1 .. SecondDigits : (seconds \o fraction)[i] = seconds[i]
  BY <1>1, <1>3, <1>4
<1>8. \A s \in Seq(Nat), t \in Seq(Nat) : /\ s \o t \in Seq(Nat)
                                          /\ Len(s \o t) = Len(s) + Len(t)
                                          /\ \A i \in 1 .. Len(s) : (s \o t)[i] = s[i]
  OBVIOUS
<1>9. Len(<<Zed>>) = 1
  OBVIOUS
<1>10. Format(n) \in Seq(Nat) /\ Len(Format(n)) > SecondDigits
  BY <1>1, <1>5, <1>6, <1>7, <1>8, <1>9
<1>11. \A i \in 1 .. SecondDigits : Format(n)[i] = seconds[i]
  BY <1>1, <1>5, <1>6, <1>7, <1>8
<1> QED BY <1>10, <1>11 DEF seconds

\* The order of texts is asymmetric,
LEMMA SortsBeforeAsymmetric ==
    ASSUME NEW a \in Seq(Nat), NEW b \in Seq(Nat), SortsBefore(a, b)
    PROVE  ~SortsBefore(b, a) /\ a # b
<1>1. PICK i \in 1 .. Len(b) : /\ i <= Len(a) + 1
                               /\ \A j \in 1 .. i - 1 : a[j] = b[j]
                               /\ i <= Len(a) => a[i] < b[i]
  BY DEF SortsBefore
<1>2. ASSUME NEW k \in 1 .. Len(a), k <= Len(b) + 1,
             \A j \in 1 .. k - 1 : b[j] = a[j], k <= Len(b) => b[k] < a[k]
      PROVE  FALSE
  <2>1. \A j \in 1 .. Len(a) : a[j] \in Nat
    OBVIOUS
  <2>2. \A j \in 1 .. Len(b) : b[j] \in Nat
    OBVIOUS
  <2>3. Len(a) \in Nat /\ Len(b) \in Nat
    OBVIOUS
  <2>4. CASE i < k
    BY <1>1, <1>2, <2>1, <2>2, <2>3, <2>4
  <2>5. CASE k < i
    BY <1>1, <1>2, <2>1, <2>2, <2>3, <2>5
  <2>6. CASE i = k
    BY <1>1, <1>2, <2>1, <2>2, <2>3, <2>6
  <2> QED BY <2>3, <2>4, <2>5, <2>6
<1>3. ~SortsBefore(b, a)
  BY <1>2 DEF SortsBefore
<1> QED BY <1>3

\* transitive
LEMMA SortsBeforeTransitive ==
    ASSUME NEW a \in Seq(Nat), NEW b \in Seq(Nat), NEW c \in Seq(Nat),
           SortsBefore(a, b), SortsBefore(b, c)
    PROVE  SortsBefore(a, c)
<1>1. PICK i \in 1 .. Len(b) : /\ i <= Len(a) + 1
                               /\ \A j \in 1 .. i - 1 : a[j] = b[j]
                               /\ i <= Len(a) => a[i] < b[i]
  BY DEF SortsBefore
<1>2. PICK k \in 1 .. Len(c) : /\ k <= Len(b) + 1
                               /\ \A j \in 1 .. k - 1 : b[j] = c[j]
                               /\ k <= Len(b) => b[k] < c[k]
  BY DEF SortsBefore
<1>3. /\ \A j \in 1 .. Len(a) : a[j] \in Nat
      /\ \A j \in 1 .. Len(b) : b[j] \in Nat
      /\ \A j \in 1 .. Len(c) : c[j] \in Nat
      /\ Len(a) \in Nat /\ Len(b) \in Nat /\ Len(c) \in Nat
  OBVIOUS
<1>4. CASE i < k
  <2>1. i \in 1 .. Len(c) /\ b[i] = c[i]
    BY <1>2, <1>3, <1>4
  <2>2. \A j \in 1 .. i - 1 : a[j] = c[j]
    BY <1>1, <1>2, <1>3, <1>4
  <2> QED BY <1>1, <2>1, <2>2 DEF SortsBefore
<1>5. CASE k <= i
  <2>1. k <= Len(a) + 1
    BY <1>1, <1>3, <1>5
  <2>2. \A j \in 1 .. k - 1 : a[j] = c[j]
    BY <1>1, <1>2, <1>3, <1>5
  <2>3. b[k] < c[k]
    BY <1>1, <1>2, <1>3, <1>5
  <2>4. ASSUME k <= Len(a) PROVE a[k] < c[k]
    <3>1. k \in 1 .. Len(a) /\ k \in 1 .. Len(b) /\ k \in 1 .. Len(c)
      BY <1>3, <1>5, <2>4
    <3>2. a[k] \in Nat /\ b[k] \in Nat /\ c[k] \in Nat
      BY <1>3, <3>1
    <3>3. a[k] = b[k] \/ a[k] < b[k]
      <4>1. CASE k < i
        BY <1>1, <1>3, <3>1, <4>1
      <4>2. CASE k = i
        BY <1>1, <3>1, <4>2, <2>4
      <4> QED BY <1>3, <1>5, <4>1, <4>2
    <3> QED BY <2>3, <3>2, <3>3
  <2> QED BY <2>1, <2>2, <2>4 DEF SortsBefore
<1> QED BY <1>3, <1>4, <1>5

\* The order of texts is total.
LEMMA SortsBeforeTotal ==
    ASSUME NEW a \in Seq(Nat), NEW b \in Seq(Nat), a # b
    PROVE  SortsBefore(a, b) \/ SortsBefore(b, a)
<1> DEFINE Part(i) == /\ i <= Len(a) + 1 /\ i <= Len(b) + 1
                      /\ i <= Len(a) /\ i <= Len(b) => a[i] # b[i]
           T == {i \in Nat : i > 0 /\ Part(i)}
<1>1. /\ \A j \in 1 .. Len(a) : a[j] \in Nat
      /\ \A j \in 1 .. Len(b) : b[j] \in Nat
      /\ Len(a) \in Nat /\ Len(b) \in Nat
  OBVIOUS
<1>2. T # {}
  <2>1. CASE Len(a) < Len(b)
    <3> Len(a) + 1 \in T
      BY <1>1, <2>1
    <3> QED OBVIOUS
  <2>2. CASE Len(b) < Len(a)
    <3> Len(b) + 1 \in T
      BY <1>1, <2>2
    <3> QED OBVIOUS
  <2>3. CASE Len(a) = Len(b)
    <3>1. PICK i \in 1 .. Len(a) : a[i] # b[i]
      BY <1>1, <2>3, SeqEqual
    <3>2. i \in T
      BY <1>1, <2>3, <3>1
    <3> QED BY <3>2
  <2> QED BY <1>1, <2>1, <2>2, <2>3
<1>3. PICK i \in T : \A k \in T : i <= k
  <2> HIDE DEF T
  <2> T \in SUBSET Nat
    BY DEF T
  <2> QED BY <1>2, Least
<1>4. \A j \in 1 .. i - 1 : a[j] = b[j]
  <2> SUFFICES ASSUME NEW j \in 1 .. i - 1 PROVE a[j] = b[j]
    OBVIOUS
  <2>1. i \in Nat /\ j \in Nat /\ j < i /\ j > 0 /\ i <= Len(a) + 1 /\ i <= Len(b) + 1
    BY <1>3
  <2>2. j \notin T
    <3> HIDE DEF T
    <3> QED BY <1>3, <2>1
  <2> QED BY <1>1, <2>1, <2>2
<1>5. CASE i <= Len(a) /\ i <= Len(b)
  <2>1. i \in 1 .. Len(a) /\ i \in 1 .. Len(b) /\ a[i] # b[i]
    BY <1>1, <1>5
  <2>2. a[i] < b[i] \/ b[i] < a[i]
    BY <1>1, <2>1
  <2> QED BY <1>1, <1>4, <1>5, <2>1, <2>2 DEF SortsBefore
<1>6. CASE i = Len(a) + 1 /\ i <= Len(b)
  BY <1>1, <1>4, <1>6 DEF SortsBefore
<1>7. CASE i = Len(b) + 1 /\ i <= Len(a)
  BY <1>1, <1>4, <1>7 DEF SortsBefore
<1>8. ~ (i = Len(a) + 1 /\ i = Len(b) + 1)
  <2> SUFFICES ASSUME i = Len(a) + 1, i = Len(b) + 1 PROVE FALSE
    OBVIOUS
  <2>1. Len(a) = Len(b)
    BY <1>1
  <2>2. PICK j \in 1 .. Len(a) : a[j] # b[j]
    BY <1>1, <2>1, SeqEqual
  <2> QED BY <1>4, <2>2, <1>1
<1> QED BY <1>1, <1>5, <1>6, <1>7, <1>8

\* A time in an earlier second has a text that sorts before.
LEMMA EarlierSecond ==
    ASSUME NEW m \in Nat, NEW n \in Nat, m \div PerSecond < n \div PerSecond,
           n < Base ^ SecondDigits * PerSecond
    PROVE  SortsBefore(Format(m), Format(n))
<1> DEFINE p == m \div PerSecond
           q == n \div PerSecond
<1>1. PerSecond \in Nat /\ PerSecond > 0
  BY PerSecondType
<1>2. SecondDigits \in Nat /\ SecondDigits \in 0 .. SecondDigits + FractionDigits
  BY PowerAssumption
<1>3. Base ^ SecondDigits \in Nat
  BY Powers, PowerAssumption DEF Places
<1>4. p \in Nat /\ q \in Nat
  <2>1. \A k \in Nat : k \div PerSecond >= 0
    <3> 0 \div PerSecond = 0
      BY <1>1, QuotientUnique
    <3> QED BY <1>1, QuotientMonotone
  <2> QED BY <1>1, <2>1, Quotient
<1>5. q < Base ^ SecondDigits
  <2>1. q * PerSecond <= n
    BY <1>1, Quotient
  <2> HIDE DEF q
  <2>2. q * PerSecond < Base ^ SecondDigits * PerSecond
    BY <1>1, <1>3, <1>4, <2>1
  <2> QED BY <1>1, <1>3, <1>4, <2>2, ProductStrict
<1>6. p < q
  OBVIOUS
<1>7. PICK i \in 1 .. SecondDigits :
          /\ \A j \in 1 .. i - 1 : Digits(p, SecondDigits)[j] = Digits(q, SecondDigits)[j]
          /\ Digits(p, SecondDigits)[i] < Digits(q, SecondDigits)[i]
  <2> HIDE DEF p, q
  <2> QED BY <1>2, <1>4, <1>5, <1>6, DigitsOrder
<1> DEFINE a == Format(m)
           b == Format(n)
<1>8. \A k \in Int : /\ Format(k) \in Seq(Nat)
                     /\ Len(Format(k)) > SecondDigits
                     /\ \A j \in 1 .. SecondDigits :
                          Format(k)[j] = Digits(k \div PerSecond, SecondDigits)[j]
  BY FormatType
<1>9. /\ a \in Seq(Nat) /\ Len(a) > SecondDigits
      /\ b \in Seq(Nat) /\ Len(b) > SecondDigits
      /\ \A j \in 1 .. SecondDigits : a[j] = Digits(p, SecondDigits)[j]
      /\ \A j \in 1 .. SecondDigits : b[j] = Digits(q, SecondDigits)[j]
  <2> m \in Int /\ n \in Int
    OBVIOUS
  <2>1. /\ a \in Seq(Nat) /\ Len(a) > SecondDigits
        /\ \A j \in 1 .. SecondDigits : a[j] = Digits(p, SecondDigits)[j]
    BY <1>8, Zenon
  <2>2. /\ b \in Seq(Nat) /\ Len(b) > SecondDigits
        /\ \A j \in 1 .. SecondDigits : b[j] = Digits(q, SecondDigits)[j]
    BY <1>8, Zenon
  <2> QED BY <2>1, <2>2
<1> HIDE DEF a, b, p, q
<1>10. /\ i \in 1 .. Len(b) /\ i <= Len(a) + 1
       /\ \A j \in 1 .. i - 1 : a[j] = b[j]
       /\ a[i] < b[i]
  BY <1>2, <1>7, <1>9
<1>11. SortsBefore(a, b)
  BY <1>10 DEF SortsBefore
<1> QED BY <1>11 DEF a, b

\* A whole second apart: the later time is in a later second.
LEMMA SecondApart ==
    ASSUME NEW m \in Nat, NEW n \in Nat, m + PerSecond <= n
    PROVE  m \div PerSecond < n \div PerSecond
<1> DEFINE p == m \div PerSecond
           q == n \div PerSecond
<1>1. PerSecond \in Nat /\ PerSecond > 0
  BY PerSecondType
<1>2. p \in Int /\ p * PerSecond <= m /\ q \in Int /\ n < q * PerSecond + PerSecond
  BY <1>1, Quotient
<1> HIDE DEF p, q
<1>3. p * PerSecond < q * PerSecond
  BY <1>1, <1>2
<1> QED BY <1>1, <1>2, <1>3, ProductStrict DEF p, q

-----------------------------------------------------------------------------
(* Rows in order.                                                            *)

StrictOrder(S, R) ==
    /\ \A a \in S : <<a, a>> \notin R
    /\ \A a, b, c \in S : <<a, b>> \in R /\ <<b, c>> \in R => <<a, c>> \in R
    /\ \A a, b \in S : a # b => <<a, b>> \in R \/ <<b, a>> \in R

\* By a strict order, a finite set's rows come out once each, in that order.
LEMMA OrderedInOrder ==
    ASSUME NEW S, IsFiniteSet(S), NEW R, StrictOrder(S, R)
    PROVE  /\ Cardinality(S) \in Nat
           /\ Ordered(S, R) \in [1 .. Cardinality(S) -> S]
           /\ \A a \in S : \E i \in 1 .. Cardinality(S) : Ordered(S, R)[i] = a
           /\ \A i, j \in 1 .. Cardinality(S) :
                i < j => <<Ordered(S, R)[i], Ordered(S, R)[j]>> \in R
<1> DEFINE Preds(a) == {b \in S : <<b, a>> \in R}
           before == [a \in S |-> Cardinality(Preds(a))]
           n == Cardinality(S)
<1>1. n \in Nat
  BY FS_CardinalityType
<1>2. \A a \in S : IsFiniteSet(Preds(a)) /\ before[a] \in Nat
  <2> TAKE a \in S
  <2> Preds(a) \in SUBSET S
    OBVIOUS
  <2> HIDE DEF Preds
  <2>1. IsFiniteSet(Preds(a))
    BY FS_Subset
  <2> QED BY <2>1, FS_CardinalityType
<1>3. \A a \in S : before[a] < n
  <2> TAKE a \in S
  <2>1. Preds(a) \in SUBSET S /\ Preds(a) # S
    BY DEF StrictOrder
  <2> HIDE DEF Preds
  <2>2. before[a] <= n /\ before[a] # n
    BY <2>1, FS_Subset
  <2> HIDE DEF before, n
  <2> QED BY <1>1, <1>2, <2>2
<1>4. \A a, b \in S : <<a, b>> \in R => before[a] < before[b]
  <2> SUFFICES ASSUME NEW a \in S, NEW b \in S, <<a, b>> \in R PROVE before[a] < before[b]
    OBVIOUS
  <2>1. Preds(a) \in SUBSET Preds(b) /\ Preds(a) # Preds(b)
    BY DEF StrictOrder
  <2> HIDE DEF Preds
  <2>2. before[a] <= before[b] /\ before[a] # before[b]
    BY <1>2, <2>1, FS_Subset
  <2> HIDE DEF before
  <2> QED BY <1>2, <2>2
<1>5. Ordered(S, R) = [i \in 1 .. n |-> CHOOSE a \in S : before[a] = i - 1]
  BY DEF Ordered
<1>6. before \in [S -> Nat]
  <2>1. \A a \in S : Cardinality(Preds(a)) \in Nat
    BY <1>2
  <2> HIDE DEF Preds
  <2> QED BY <2>1
<1> HIDE DEF n, before
<1>7. \A a, b \in S : before[a] = before[b] => a = b
  <2> SUFFICES ASSUME NEW a \in S, NEW b \in S, before[a] = before[b], a # b PROVE FALSE
    OBVIOUS
  <2>1. <<a, b>> \in R \/ <<b, a>> \in R
    BY DEF StrictOrder
  <2>2. before[a] < before[b] \/ before[b] < before[a]
    BY <1>4, <2>1
  <2>3. before[a] \in Nat
    BY <1>6
  <2> QED BY <2>2, <2>3
<1>8. \A i \in 1 .. n : \E a \in S : before[a] = i - 1
  <2> DEFINE place == [a \in S |-> before[a] + 1]
  <2>1. place \in Injection(S, 1 .. n)
    <3>1. \A a \in S : before[a] + 1 \in 1 .. n
      BY <1>1, <1>3, <1>6
    <3>2. place \in [S -> 1 .. n]
      BY <3>1
    <3>3. \A a, b \in S : place[a] = place[b] => a = b
      BY <1>6, <1>7
    <3> QED BY <3>2, <3>3 DEF Injection, IsInjective
  <2>2. IsFiniteSet(1 .. n) /\ Cardinality(1 .. n) = n
    BY <1>1, FS_Interval
  <2>3. \A i \in 1 .. n : \E a \in S : place[a] = i
    <3> HIDE DEF place
    <3>1. place \in Surjection(S, 1 .. n)
      BY <2>1, <2>2, FS_Injection DEF n
    <3> QED BY <3>1 DEF Surjection
  <2> SUFFICES ASSUME NEW i \in 1 .. n PROVE \E a \in S : before[a] = i - 1
    OBVIOUS
  <2>4. PICK a \in S : before[a] + 1 = i
    BY <2>3
  <2> QED BY <1>6, <2>4
<1> DEFINE row == Ordered(S, R)
<1>9. \A i \in 1 .. n : row[i] \in S /\ before[row[i]] = i - 1
  BY <1>5, <1>8
<1>10. row \in [1 .. n -> S]
  BY <1>5, <1>9
<1> HIDE DEF row
<1>11. ASSUME NEW a \in S PROVE \E i \in 1 .. n : row[i] = a
  <2>1. before[a] + 1 \in 1 .. n
    BY <1>1, <1>3, <1>6
  <2>2. before[row[before[a] + 1]] = before[a] /\ row[before[a] + 1] \in S
    BY <1>6, <1>9, <2>1
  <2>3. row[before[a] + 1] = a
    BY <1>7, <2>2
  <2> QED BY <2>1, <2>3
<1>12. ASSUME NEW i \in 1 .. n, NEW j \in 1 .. n, i < j PROVE <<row[i], row[j]>> \in R
  <2>1. /\ row[i] \in S /\ row[j] \in S /\ before[row[i]] = i - 1 /\ before[row[j]] = j - 1
    BY <1>9
  <2>2. row[i] # row[j] /\ ~ (before[row[j]] < before[row[i]])
    BY <1>1, <1>12, <2>1
  <2>3. <<row[j], row[i]>> \notin R
    BY <1>4, <2>1, <2>2
  <2> QED BY <2>1, <2>2, <2>3 DEF StrictOrder
<1> QED BY <1>1, <1>10, <1>11, <1>12 DEF n, row

\* ORDER BY in the due list is a strict order on tasks,
LEMMA EarlierOrders ==
    ASSUME next \in [Tasks -> Seq(Nat) \cup {Null}], NEW S \in SUBSET Tasks
    PROVE  StrictOrder(S, {p \in Tasks \X Tasks : Earlier(p[1], p[2])})
<1> DEFINE R == {p \in Tasks \X Tasks : Earlier(p[1], p[2])}
<1>1. \A t \in Tasks : t \in Nat
  BY RowAssumption
<1>2. \A t \in Tasks : next[t] # Null => next[t] \in Seq(Nat)
  OBVIOUS
<1>3. \A t, u \in Tasks : <<t, u>> \in R <=> Earlier(t, u)
  <2> HIDE DEF R
  <2> TAKE t, u \in Tasks
  <2>1. <<t, u>> \in R <=> <<t, u>> \in Tasks \X Tasks /\ Earlier(<<t, u>>[1], <<t, u>>[2])
    BY Zenon DEF R
  <2>2. <<t, u>>[1] = t /\ <<t, u>>[2] = u
    OBVIOUS
  <2> QED BY <2>1, <2>2
<1>4. \A t \in Tasks : ~ Earlier(t, t)
  BY <1>1, <1>2, SortsBeforeAsymmetric DEF Earlier
<1>5. ASSUME NEW t \in Tasks, NEW u \in Tasks, NEW v \in Tasks, Earlier(t, u), Earlier(u, v)
      PROVE  Earlier(t, v)
  <2>1. CASE next[t] = Null
    BY <1>1, <1>5, <2>1 DEF Earlier
  <2>2. CASE next[t] # Null
    <3>1. next[u] # Null /\ next[v] # Null
      BY <1>5, <2>2 DEF Earlier
    <3>2. SortsBefore(next[t], next[u]) \/ (next[t] = next[u] /\ t < u)
      BY <1>5, <2>2, <3>1, Zenon DEF Earlier
    <3>3. SortsBefore(next[u], next[v]) \/ (next[u] = next[v] /\ u < v)
      BY <1>5, <3>1, Zenon DEF Earlier
    <3>4. SortsBefore(next[t], next[v]) \/ (next[t] = next[v] /\ t < v)
      BY <1>1, <1>2, <2>2, <3>1, <3>2, <3>3, SortsBeforeTransitive
    <3> QED BY <2>2, <3>1, <3>4 DEF Earlier
  <2> QED BY <2>1, <2>2
<1>6. ASSUME NEW t \in Tasks, NEW u \in Tasks, t # u
      PROVE  Earlier(t, u) \/ Earlier(u, t)
  <2>1. t < u \/ u < t
    BY <1>1, <1>6
  <2>2. next[t] # Null /\ next[u] # Null
        => next[t] = next[u] \/ SortsBefore(next[t], next[u]) \/ SortsBefore(next[u], next[t])
    BY <1>2, SortsBeforeTotal
  <2> QED BY <2>1, <2>2 DEF Earlier
<1> HIDE DEF R
<1> QED BY <1>3, <1>4, <1>5, <1>6 DEF StrictOrder, R

\* and in the run listings one on runs.
LEMMA NewerOrders ==
    ASSUME NEW Rows, runs \in Seq(Rows), \A r \in DOMAIN runs : runs[r].started \in Seq(Nat),
           NEW S \in SUBSET DOMAIN runs
    PROVE  StrictOrder(S, {p \in (DOMAIN runs) \X (DOMAIN runs) : Newer(p[1], p[2])})
<1> DEFINE R == {p \in (DOMAIN runs) \X (DOMAIN runs) : Newer(p[1], p[2])}
           text(r) == runs[r].started
<1>1. \A r \in DOMAIN runs : r \in Nat
  OBVIOUS
<1>2. \A r \in DOMAIN runs : text(r) \in Seq(Nat)
  OBVIOUS
<1>3. \A r, s \in DOMAIN runs : <<r, s>> \in R <=> Newer(r, s)
  <2> HIDE DEF R
  <2> TAKE r, s \in DOMAIN runs
  <2>1. <<r, s>> \in R
          <=> /\ <<r, s>> \in (DOMAIN runs) \X (DOMAIN runs)
              /\ Newer(<<r, s>>[1], <<r, s>>[2])
    BY Zenon DEF R
  <2>2. <<r, s>>[1] = r /\ <<r, s>>[2] = s
    OBVIOUS
  <2> QED BY <2>1, <2>2
<1>4. \A r, s : Newer(r, s) <=> SortsBefore(text(s), text(r)) \/ (text(r) = text(s) /\ s < r)
  BY Zenon DEF Newer
<1> HIDE DEF text, R
<1>5. \A r \in DOMAIN runs : ~ Newer(r, r)
  BY <1>1, <1>2, <1>4, SortsBeforeAsymmetric
<1>6. ASSUME NEW r \in DOMAIN runs, NEW s \in DOMAIN runs, NEW q \in DOMAIN runs,
             Newer(r, s), Newer(s, q)
      PROVE  Newer(r, q)
  <2>1. SortsBefore(text(s), text(r)) \/ (text(r) = text(s) /\ s < r)
    BY <1>4, <1>6
  <2>2. SortsBefore(text(q), text(s)) \/ (text(s) = text(q) /\ q < s)
    BY <1>4, <1>6
  <2>3. SortsBefore(text(q), text(r)) \/ (text(r) = text(q) /\ q < r)
    BY <1>1, <1>2, <2>1, <2>2, SortsBeforeTransitive
  <2> QED BY <1>4, <2>3
<1>7. ASSUME NEW r \in DOMAIN runs, NEW s \in DOMAIN runs, r # s
      PROVE  Newer(r, s) \/ Newer(s, r)
  <2>1. r < s \/ s < r
    BY <1>1, <1>7
  <2>2. text(r) = text(s) \/ SortsBefore(text(r), text(s)) \/ SortsBefore(text(s), text(r))
    BY <1>2, SortsBeforeTotal
  <2> QED BY <1>4, <2>1, <2>2
<1> QED BY <1>3, <1>5, <1>6, <1>7 DEF StrictOrder, R

-----------------------------------------------------------------------------
(* The times' invariant.                                                     *)

RunTimes == [task : Tasks, project : Projects, started : Seq(Nat), at : Nat, status : Status]

TimeTypeOK ==
    /\ clock \in Nat /\ clock <= MaxClock
    /\ interval \in [Tasks -> Intervals]
    /\ next \in [Tasks -> Seq(Nat) \cup {Null}]
    /\ runs \in Seq(RunTimes)
    /\ dueAt \in [Tasks -> Nat \cup {Null}]

\* The text of a time is the one that was promised, when the interval fits,
TextIsPromise ==
    \A t \in Tasks : dueAt[t] # Null =>
      /\ next[t] # Null
      /\ Fits(interval[t]) => next[t] = Format(dueAt[t]) /\ dueAt[t] < MaxClock + DurationLimit

\* and a run's is the one it started at.
TextIsStart ==
    \A r \in DOMAIN runs : runs[r].started = Format(runs[r].at) /\ runs[r].at <= MaxClock

\* A run is filed under the project of its task.
RunHasProject == \A r \in DOMAIN runs : runs[r].project = ProjectOf[runs[r].task]

TimeInv == TimeTypeOK /\ TextIsPromise /\ TextIsStart /\ RunHasProject

\* The clock's text and those of the promises fit the width of the layout.
LEMMA Widths ==
    /\ Base ^ SecondDigits * PerSecond \in Nat
    /\ MaxClock + DurationLimit <= Base ^ SecondDigits * PerSecond
    /\ MaxClock < Base ^ SecondDigits * PerSecond
<1>1. Base ^ SecondDigits \in Nat /\ SecondDigits \in Places
  BY Powers, PowerAssumption DEF Places
<1>2. PerSecond \in Nat /\ PerSecond = Base ^ FractionDigits
  BY PerSecondType
<1>3. MaxClock + DurationLimit <= Base ^ SecondDigits * PerSecond
  BY <1>2, ClockAssumption
<1>4. Base ^ SecondDigits * PerSecond \in Nat
  BY <1>1, <1>2
<1> DEFINE w == Base ^ SecondDigits * PerSecond
<1> HIDE DEF w
<1>5. MaxClock < w
  BY <1>3, <1>4, ClockAssumption DEF w
<1> QED BY <1>3, <1>4, <1>5 DEF w

\* An interval that fits has the duration that was asked for.
LEMMA DurationFits ==
    ASSUME NEW s \in Nat
    PROVE  /\ Duration(s) \in Int
           /\ s * PerSecond \in Nat
           /\ Fits(s) => Duration(s) = s * PerSecond /\ s * PerSecond < DurationLimit
<1> DEFINE p == s * PerSecond
           d == (p + DurationLimit) % (2 * DurationLimit)
<1>1. PerSecond \in Nat /\ DurationLimit \in Nat /\ DurationLimit > 0
  BY PerSecondType, ClockAssumption
<1>2. p \in Nat
  BY <1>1
<1>3. Duration(s) = d - DurationLimit /\ (Fits(s) <=> p < DurationLimit)
  BY DEF Duration, Fits
<1> HIDE DEF p
<1>4. 2 * DurationLimit \in Nat /\ 2 * DurationLimit > 0 /\ p + DurationLimit \in Nat
  BY <1>1, <1>2
<1>5. d \in Int
  BY <1>4, Quotient
<1>6. ASSUME p < DurationLimit PROVE d = p + DurationLimit
  <2>1. (p + DurationLimit) \div (2 * DurationLimit) = 0
    BY <1>1, <1>2, <1>4, <1>6, QuotientUnique
  <2>2. \A x \in Int, y \in Nat : y > 0 /\ x \div y = 0 => x % y = x
    BY Quotient
  <2> QED BY <1>4, <2>1, <2>2
<1> HIDE DEF d
<1>7. p < DurationLimit => d - DurationLimit = p
  BY <1>1, <1>2, <1>5, <1>6
<1>8. d - DurationLimit \in Int
  BY <1>1, <1>5
<1> QED BY <1>2, <1>3, <1>7, <1>8 DEF p

\* A database that was just created satisfies it,
LEMMA TimeInvInit == TimeInit => TimeInv
<1> SUFFICES ASSUME TimeInit PROVE TimeInv
  OBVIOUS
<1>1. TimeTypeOK
  BY ClockAssumption DEF TimeInit, TimeTypeOK
<1>2. TextIsPromise
  BY DEF TimeInit, TextIsPromise
<1>3. TextIsStart /\ RunHasProject
  BY DEF TimeInit, TextIsStart, RunHasProject
<1> QED BY <1>1, <1>2, <1>3 DEF TimeInv

\* The due list has tasks that are due, none of them twice, in order.
LEMMA DueListed ==
    ASSUME TimeTypeOK
    PROVE  LET due == {t \in Tasks : Due(t)}
               n == Cardinality(due)
           IN  /\ n \in Nat
               /\ ListDueTasks \in [1 .. n -> due]
               /\ ListDueTasks # <<>> => n > 0
               /\ \A t \in due : \E i \in 1 .. n : ListDueTasks[i] = t
               /\ \A i, j \in 1 .. n : i < j => Earlier(ListDueTasks[i], ListDueTasks[j])
<1> DEFINE due == {t \in Tasks : Due(t)}
           n == Cardinality(due)
           R == {p \in Tasks \X Tasks : Earlier(p[1], p[2])}
<1>1. due \in SUBSET Tasks /\ IsFiniteSet(due)
  <2>1. due \in SUBSET Tasks
    OBVIOUS
  <2> HIDE DEF due
  <2> QED BY <2>1, RowAssumption, FS_Subset
<1>2. ListDueTasks = Ordered(due, R)
  BY DEF ListDueTasks
<1>3. \A p : p \in R <=> p \in Tasks \X Tasks /\ Earlier(p[1], p[2])
  OBVIOUS
<1> HIDE DEF due
<1>4. StrictOrder(due, R)
  BY <1>1, EarlierOrders DEF TimeTypeOK
<1> HIDE DEF R
<1>5. /\ n \in Nat /\ ListDueTasks \in [1 .. n -> due]
      /\ \A t \in due : \E i \in 1 .. n : ListDueTasks[i] = t
      /\ \A i, j \in 1 .. n : i < j => <<ListDueTasks[i], ListDueTasks[j]>> \in R
  BY <1>1, <1>2, <1>4, OrderedInOrder
<1> HIDE DEF n
<1>6. ASSUME NEW i \in 1 .. n, NEW j \in 1 .. n, i < j
      PROVE  Earlier(ListDueTasks[i], ListDueTasks[j])
  <2> DEFINE p == <<ListDueTasks[i], ListDueTasks[j]>>
  <2>1. p \in R
    BY <1>5, <1>6
  <2>2. p[1] = ListDueTasks[i] /\ p[2] = ListDueTasks[j]
    OBVIOUS
  <2> HIDE DEF p
  <2> QED BY <1>3, <2>1, <2>2
<1>7. ASSUME n = 0 PROVE ListDueTasks = <<>>
  BY <1>5, <1>7
<1> QED BY <1>5, <1>6, <1>7 DEF n, due

\* Every step keeps it.
LEMMA TimeInvNext == TimeInv /\ TimeNext => TimeInv'
<1> SUFFICES ASSUME TimeInv, TimeNext PROVE TimeInv'
  OBVIOUS
<1> USE DEF TimeInv
<1>1. CASE Advance
  <2>1. TimeTypeOK'
    BY <1>1, ClockAssumption DEF TimeTypeOK, Advance
  <2>2. TextIsPromise' /\ TextIsStart' /\ RunHasProject'
    BY <1>1 DEF TextIsPromise, TextIsStart, RunHasProject, Advance
  <2> QED BY <2>1, <2>2
<1>2. CASE Start
  <2> DEFINE t == ListDueTasks[1]
             row == [task |-> t, project |-> ProjectOf[t], started |-> Format(clock),
                     at |-> clock, status |-> "running"]
  <2>1. t \in Tasks
    BY <1>2, DueListed DEF Start
  <2>2. Format(clock) \in Seq(Nat)
    BY FormatType DEF TimeTypeOK
  <2>3. row \in RunTimes
    BY <2>1, <2>2, RowAssumption DEF RunTimes, Status, TimeTypeOK
  <2>4. runs' = Append(runs, row)
    BY <1>2 DEF Start
  <2>5. row.started = Format(row.at) /\ row.at <= MaxClock /\ row.project = ProjectOf[row.task]
    BY DEF TimeTypeOK
  <2> HIDE DEF row
  <2>6. /\ runs \in Seq(RunTimes) /\ runs' \in Seq(RunTimes)
        /\ DOMAIN runs' = DOMAIN runs \cup {Len(runs) + 1}
        /\ runs'[Len(runs) + 1] = row
        /\ \A r \in DOMAIN runs : runs'[r] = runs[r]
    BY <2>3, <2>4 DEF TimeTypeOK
  <2>7. TimeTypeOK'
    BY <1>2, <2>6 DEF TimeTypeOK, Start
  <2>8. TextIsPromise'
    BY <1>2 DEF TextIsPromise, Start
  <2>9. TextIsStart' /\ RunHasProject'
    BY <2>5, <2>6 DEF TextIsStart, RunHasProject
  <2> QED BY <2>7, <2>8, <2>9
<1>3. ASSUME NEW status \in Status, ScheduleTaskAfterRun(status) PROVE TimeInv'
  <2>1. PICK r \in Running :
          /\ runs' = [runs EXCEPT ![r].status = status]
          /\ next' = [next EXCEPT ![runs[r].task] =
                        Format(clock + Duration(interval[runs[r].task]))]
          /\ dueAt' = [dueAt EXCEPT ![runs[r].task] = clock + interval[runs[r].task] * PerSecond]
          /\ UNCHANGED <<clock, interval>>
    BY <1>3 DEF ScheduleTaskAfterRun
  <2> DEFINE t == runs[r].task
             s == interval[t]
  <2>2. r \in DOMAIN runs /\ runs[r] \in RunTimes /\ t \in Tasks
    <3>1. r \in DOMAIN runs
      BY DEF Running
    <3>2. runs[r] \in RunTimes
      BY <3>1, ElementOfSeq DEF TimeTypeOK
    <3> QED BY <3>1, <3>2 DEF RunTimes
  <2>3. s \in Nat
    BY <2>2, RowAssumption DEF TimeTypeOK
  <2>4. runs' \in Seq(RunTimes)
    <3>1. [runs[r] EXCEPT !.status = status] \in RunTimes
      BY <2>2 DEF RunTimes
    <3>2. runs' = [runs EXCEPT ![r] = [runs[r] EXCEPT !.status = status]]
      BY <2>1
    <3> QED BY <2>2, <3>1, <3>2, ExceptSeq DEF TimeTypeOK
  <2>5. Duration(s) \in Int /\ s * PerSecond \in Nat
    BY <2>3, DurationFits
  <2>6. clock + Duration(s) \in Int /\ clock + s * PerSecond \in Nat
    BY <2>5 DEF TimeTypeOK
  <2>7. Format(clock + Duration(s)) \in Seq(Nat)
    BY <2>6, FormatType
  <2>8. Format(clock + Duration(s)) # Null /\ clock + s * PerSecond # Null
    BY <2>6, <2>7, RowAssumption
  <2>9. TimeTypeOK'
    <3>1. next' \in [Tasks -> Seq(Nat) \cup {Null}]
      BY <2>1, <2>7 DEF TimeTypeOK
    <3>2. dueAt' \in [Tasks -> Nat \cup {Null}]
      BY <2>1, <2>6 DEF TimeTypeOK
    <3> QED BY <2>1, <2>4, <3>1, <3>2 DEF TimeTypeOK
  <2>10. TextIsPromise'
    <3> SUFFICES ASSUME NEW u \in Tasks, dueAt'[u] # Null
                 PROVE  /\ next'[u] # Null
                        /\ Fits(interval[u]) => /\ next'[u] = Format(dueAt'[u])
                                                /\ dueAt'[u] < MaxClock + DurationLimit
      BY <2>1, Zenon DEF TextIsPromise, Fits, PerSecond
    <3>1. CASE u # t
      <4>1. next'[u] = next[u] /\ dueAt'[u] = dueAt[u]
        BY <2>1, <3>1 DEF TimeTypeOK
      <4> QED BY <4>1 DEF TextIsPromise
    <3>2. CASE u = t
      <4>1. next'[u] = Format(clock + Duration(s)) /\ dueAt'[u] = clock + s * PerSecond
        BY <2>1, <2>2, <3>2 DEF TimeTypeOK
      <4>2. ASSUME Fits(s) PROVE Duration(s) = s * PerSecond /\ s * PerSecond < DurationLimit
        BY <2>3, <4>2, DurationFits
      <4>3. ASSUME Fits(s) PROVE clock + s * PerSecond < MaxClock + DurationLimit
        <5> DEFINE x == s * PerSecond
        <5>1. x \in Nat /\ x < DurationLimit
          BY <2>5, <4>2, <4>3
        <5> HIDE DEF x
        <5>2. clock + x < MaxClock + DurationLimit
          BY <5>1, ClockAssumption DEF TimeTypeOK
        <5> QED BY <5>2 DEF x
      <4> QED BY <2>8, <3>2, <4>1, <4>2, <4>3
    <3> QED BY <3>1, <3>2
  <2>11. TextIsStart' /\ RunHasProject'
    <3>1. /\ DOMAIN runs' = DOMAIN runs
          /\ \A q \in DOMAIN runs : /\ runs'[q].started = runs[q].started
                                    /\ runs'[q].at = runs[q].at
                                    /\ runs'[q].task = runs[q].task
                                    /\ runs'[q].project = runs[q].project
      BY <2>1, <2>2 DEF RunTimes
    <3>2. \A q \in DOMAIN runs' : runs'[q].started = Format(runs'[q].at) /\ runs'[q].at <= MaxClock
      BY <3>1 DEF TextIsStart
    <3> QED BY <3>1, <3>2 DEF TextIsStart, RunHasProject
  <2> QED BY <2>9, <2>10, <2>11
<1> QED BY <1>1, <1>2, <1>3 DEF TimeNext

-----------------------------------------------------------------------------
(* What the text order tells of the times.                                   *)

\* Texts of times are never in the wrong order by a second or more.
LEMMA TextTellsSecond ==
    ASSUME NEW m \in Nat, NEW n \in Nat, SortsBefore(Format(n), Format(m)) \/ Format(m) = Format(n),
           n < Base ^ SecondDigits * PerSecond
    PROVE  ~ (m + PerSecond <= n)
<1> DEFINE a == Format(m)
           b == Format(n)
<1> SUFFICES ASSUME m + PerSecond <= n PROVE FALSE
  OBVIOUS
<1>1. SortsBefore(a, b)
  BY SecondApart, EarlierSecond
<1>2. a \in Seq(Nat) /\ b \in Seq(Nat)
  <2> m \in Int /\ n \in Int
    OBVIOUS
  <2> QED BY FormatType
<1>3. SortsBefore(b, a) \/ a = b
  OBVIOUS
<1> HIDE DEF a, b
<1> QED BY <1>1, <1>2, <1>3, SortsBeforeAsymmetric

\* What a row promises is a time the width of the layout has room for.
LEMMA PromiseType ==
    ASSUME TimeInv, NEW t \in Tasks, dueAt[t] # Null, Fits(interval[t])
    PROVE  /\ dueAt[t] \in Nat /\ dueAt[t] < Base ^ SecondDigits * PerSecond
           /\ next[t] # Null /\ next[t] = Format(dueAt[t]) /\ next[t] \in Seq(Nat)
<1>1. dueAt[t] \in Nat /\ next[t] \in Seq(Nat) \cup {Null}
  BY DEF TimeInv, TimeTypeOK
<1>2. next[t] # Null /\ next[t] = Format(dueAt[t]) /\ dueAt[t] < MaxClock + DurationLimit
  BY DEF TimeInv, TextIsPromise
<1> DEFINE w == Base ^ SecondDigits * PerSecond
<1>3. w \in Nat /\ MaxClock + DurationLimit <= w
  BY Widths
<1> HIDE DEF w
<1>4. dueAt[t] < w
  BY <1>1, <1>2, <1>3, ClockAssumption
<1> QED BY <1>1, <1>2, <1>4 DEF w

\* So is the clock, and its text is a sequence of ranks.
LEMMA ClockType ==
    ASSUME TimeInv
    PROVE  /\ clock \in Nat /\ clock < Base ^ SecondDigits * PerSecond
           /\ Format(clock) \in Seq(Nat)
<1>1. clock \in Nat /\ clock <= MaxClock
  BY DEF TimeInv, TimeTypeOK
<1> DEFINE w == Base ^ SecondDigits * PerSecond
<1>2. w \in Nat /\ MaxClock < w
  BY Widths
<1> HIDE DEF w
<1>3. clock < w
  BY <1>1, <1>2, ClockAssumption
<1>4. clock \in Int
  BY <1>1
<1> QED BY <1>1, <1>3, <1>4, FormatType DEF w

\* A task is due neither a whole second early nor a whole second late.
LEMMA InvDueToTheSecond == TimeInv => DueToTheSecond
<1> SUFFICES ASSUME TimeInv, NEW t \in Tasks, dueAt[t] # Null, Fits(interval[t])
             PROVE  /\ Due(t) => clock + PerSecond > dueAt[t]
                    /\ clock >= dueAt[t] + PerSecond => Due(t)
  BY DEF DueToTheSecond
<1> DEFINE d == dueAt[t]
<1>1. /\ d \in Nat /\ d < Base ^ SecondDigits * PerSecond
      /\ next[t] # Null /\ next[t] = Format(d) /\ Format(d) \in Seq(Nat)
  BY PromiseType
<1>2. clock \in Nat /\ clock < Base ^ SecondDigits * PerSecond /\ Format(clock) \in Seq(Nat)
  BY ClockType
<1>3. Due(t) <=> ~SortsBefore(Format(clock), Format(d))
  BY <1>1 DEF Due
<1>4. PerSecond \in Nat
  BY PerSecondType
<1> HIDE DEF d
<1>5. ASSUME Due(t) PROVE clock + PerSecond > d
  <2>1. SortsBefore(Format(d), Format(clock)) \/ Format(clock) = Format(d)
    BY <1>1, <1>2, <1>3, <1>5, SortsBeforeTotal
  <2>2. ~ (clock + PerSecond <= d)
    BY <1>1, <1>2, <2>1, TextTellsSecond
  <2> QED BY <1>1, <1>2, <1>4, <2>2
<1>6. ASSUME clock >= d + PerSecond, ~Due(t) PROVE FALSE
  <2>1. SortsBefore(Format(clock), Format(d))
    BY <1>3, <1>6
  <2>2. ~ (d + PerSecond <= clock)
    BY <1>1, <1>2, <2>1, TextTellsSecond
  <2> QED BY <1>1, <1>2, <1>4, <1>6, <2>2
<1> QED BY <1>5, <1>6 DEF d

\* The first of the due list is not a second younger than any task that waits.
LEMMA FirstIsOldest ==
    ASSUME TimeInv, ListDueTasks # <<>>, NEW u \in Tasks,
           dueAt[ListDueTasks[1]] # Null, Fits(interval[ListDueTasks[1]]),
           dueAt[u] # Null, Fits(interval[u])
    PROVE  dueAt[ListDueTasks[1]] < dueAt[u] + PerSecond
<1> DEFINE t == ListDueTasks[1]
           due == {x \in Tasks : Due(x)}
           n == Cardinality(due)
<1>1. /\ n \in Nat /\ n > 0 /\ ListDueTasks \in [1 .. n -> due]
      /\ \A x \in due : \E i \in 1 .. n : ListDueTasks[i] = x
      /\ \A i, j \in 1 .. n : i < j => Earlier(ListDueTasks[i], ListDueTasks[j])
  BY DueListed DEF TimeInv
<1> HIDE DEF n
<1>2. t \in Tasks /\ Due(t)
  BY <1>1
<1> DEFINE d == dueAt[t]
           e == dueAt[u]
           w == Base ^ SecondDigits * PerSecond
<1>3. /\ d \in Nat /\ d < w /\ next[t] # Null
      /\ next[t] = Format(d) /\ Format(d) \in Seq(Nat)
  BY <1>2, PromiseType
<1>4. /\ e \in Nat /\ e < w /\ next[u] # Null
      /\ next[u] = Format(e) /\ Format(e) \in Seq(Nat)
  BY PromiseType
<1>5. PerSecond \in Nat
  BY PerSecondType
<1>6. SUFFICES ASSUME e + PerSecond <= d PROVE FALSE
  <2> HIDE DEF d, e
  <2> QED BY <1>3, <1>4, <1>5 DEF d, e
<1>7. SortsBefore(next[u], next[t])
  <2> HIDE DEF d, e
  <2>1. SortsBefore(Format(e), Format(d))
    BY <1>3, <1>4, <1>6, SecondApart, EarlierSecond DEF w
  <2> QED BY <1>3, <1>4, <2>1
<1>8. Due(u)
  <2>1. ~SortsBefore(Format(clock), next[t]) /\ Format(clock) \in Seq(Nat)
    BY <1>2, <1>3, ClockType DEF Due
  <2>2. ~SortsBefore(Format(clock), next[u])
    BY <1>3, <1>4, <1>7, <2>1, SortsBeforeTransitive
  <2> QED BY <2>2 DEF Due
<1> HIDE DEF d, e, w
<1>9. Earlier(t, u)
  <2>1. u \in due
    BY <1>8
  <2>2. PICK i \in 1 .. n : ListDueTasks[i] = u
    BY <1>1, <2>1
  <2>3. i # 1
    <3>1. next[u] # next[t]
      BY <1>3, <1>4, <1>7, SortsBeforeAsymmetric
    <3> QED BY <2>2, <3>1
  <2> QED BY <1>1, <2>2, <2>3
<1>10. SortsBefore(next[t], next[u]) \/ next[t] = next[u]
  BY <1>3, <1>4, <1>9 DEF Earlier
<1> QED BY <1>3, <1>4, <1>7, <1>10, SortsBeforeAsymmetric

\* Only Start adds a run, and it starts the first of the due list.
LEMMA OldestStartsFirstNext ==
    ASSUME TimeInv, TimeNext, NEW t \in Tasks, NEW u \in Tasks,
           Len(runs') > Len(runs), runs'[Len(runs')].task = t,
           dueAt[t] # Null, dueAt[u] # Null, Fits(interval[t]), Fits(interval[u])
    PROVE  dueAt[t] < dueAt[u] + PerSecond
<1>1. runs \in Seq(RunTimes)
  BY DEF TimeInv, TimeTypeOK
<1>2. ~Advance
  BY <1>1 DEF Advance
<1>3. ASSUME NEW status \in Status, ScheduleTaskAfterRun(status) PROVE FALSE
  <2>1. PICK r \in Running : runs' = [runs EXCEPT ![r].status = status]
    BY <1>3 DEF ScheduleTaskAfterRun
  <2>2. DOMAIN runs' = DOMAIN runs
    BY <2>1
  <2>3. Len(runs') = Len(runs)
    BY <1>1, <2>1
  <2> QED BY <1>1, <2>3
<1>4. Start
  BY <1>2, <1>3 DEF TimeNext
<1>5. runs'[Len(runs')].task = ListDueTasks[1]
  BY <1>1, <1>4 DEF Start
<1> QED BY <1>4, <1>5, FirstIsOldest DEF Start

\* A listing has the runs that match, once each, newest first to the second.
LEMMA RunsListed ==
    ASSUME TimeInv, NEW f \in Filter
    PROVE  LET listed == ListRuns(f)
               rows == {r \in DOMAIN runs : Matches(r, f)}
               n == Cardinality(rows)
           IN  /\ n \in Nat /\ listed \in [1 .. n -> rows]
               /\ \A r \in rows : \E i \in 1 .. n : listed[i] = r
               /\ \A i, j \in 1 .. n :
                    i < j => runs[listed[i]].at + PerSecond > runs[listed[j]].at
<1> DEFINE listed == ListRuns(f)
           rows == {r \in DOMAIN runs : Matches(r, f)}
           n == Cardinality(rows)
           R == {p \in (DOMAIN runs) \X (DOMAIN runs) : Newer(p[1], p[2])}
<1>1. /\ runs \in Seq(RunTimes)
      /\ \A r \in DOMAIN runs : /\ runs[r].started \in Seq(Nat) /\ runs[r].at \in Nat
                                /\ runs[r].at <= MaxClock
                                /\ runs[r].started = Format(runs[r].at)
  <2>1. runs \in Seq(RunTimes)
    BY DEF TimeInv, TimeTypeOK
  <2>2. \A r \in DOMAIN runs : runs[r] \in RunTimes
    BY <2>1, ElementOfSeq
  <2>3. \A r \in DOMAIN runs : runs[r].started \in Seq(Nat) /\ runs[r].at \in Nat
    BY <2>2 DEF RunTimes
  <2> QED BY <2>1, <2>3 DEF TimeInv, TextIsStart
<1>2. rows \in SUBSET DOMAIN runs /\ IsFiniteSet(rows)
  <2>1. IsFiniteSet(DOMAIN runs)
    <3>1. DOMAIN runs = 1 .. Len(runs) /\ Len(runs) \in Nat
      BY <1>1
    <3> QED BY <3>1, FS_Interval
  <2>2. rows \in SUBSET DOMAIN runs
    OBVIOUS
  <2> HIDE DEF rows
  <2> QED BY <2>1, <2>2, FS_Subset
<1>3. listed = Ordered(rows, R)
  BY DEF ListRuns
<1>4. \A p : p \in R => Newer(p[1], p[2])
  OBVIOUS
<1> HIDE DEF rows
<1>5. StrictOrder(rows, R)
  BY <1>1, <1>2, NewerOrders
<1> HIDE DEF R
<1>6. /\ n \in Nat /\ listed \in [1 .. n -> rows]
      /\ \A r \in rows : \E i \in 1 .. n : listed[i] = r
      /\ \A i, j \in 1 .. n : i < j => <<listed[i], listed[j]>> \in R
  BY <1>2, <1>3, <1>5, OrderedInOrder
<1> HIDE DEF n, listed
<1>7. ASSUME NEW i \in 1 .. n, NEW j \in 1 .. n, i < j
      PROVE  runs[listed[i]].at + PerSecond > runs[listed[j]].at
  <2> DEFINE r == listed[i]
             s == listed[j]
             p == <<r, s>>
             a == runs[r].at
             b == runs[s].at
  <2>1. p \in R /\ p[1] = r /\ p[2] = s
    BY <1>6, <1>7
  <2>2. r \in DOMAIN runs /\ s \in DOMAIN runs
    BY <1>2, <1>6
  <2>3. Newer(r, s)
    <3> HIDE DEF p
    <3> QED BY <1>4, <2>1
  <2> HIDE DEF r, s
  <2>4. SortsBefore(runs[s].started, runs[r].started) \/ runs[r].started = runs[s].started
    BY <2>3 DEF Newer
  <2>5. /\ a \in Nat /\ b \in Nat /\ b <= MaxClock
        /\ runs[r].started = Format(a) /\ runs[s].started = Format(b)
    BY <1>1, <2>2
  <2> HIDE DEF a, b
  <2>6. b < Base ^ SecondDigits * PerSecond
    <3> DEFINE w == Base ^ SecondDigits * PerSecond
    <3>1. w \in Nat /\ MaxClock < w
      BY Widths
    <3> HIDE DEF w
    <3>2. b < w
      BY <2>5, <3>1, ClockAssumption
    <3> QED BY <3>2 DEF w
  <2>7. SortsBefore(Format(b), Format(a)) \/ Format(a) = Format(b)
    BY <2>4, <2>5
  <2>8. ~ (a + PerSecond <= b)
    BY <2>5, <2>6, <2>7, TextTellsSecond
  <2>9. a + PerSecond > b
    BY <2>5, <2>8, PerSecondType
  <2> QED BY <2>9 DEF a, b, r, s
<1> QED BY <1>6, <1>7 DEF n, rows, listed

\* The listing and LatestRunForTask go by the text of started_at, and that
\* tells the second (ListRuns, LatestRunForTask).
LEMMA InvNewestListedFirst == TimeInv => NewestListedFirst
<1> SUFFICES ASSUME TimeInv PROVE NewestListedFirst
  OBVIOUS
<1>1. ASSUME NEW f \in Filter
      PROVE  LET listed == ListRuns(f) IN
               /\ Range(listed) = {r \in DOMAIN runs :
                                     /\ f.project \in {Null, ProjectOf[runs[r].task]}
                                     /\ f.task \in {Null, runs[r].task}
                                     /\ f.status \in {Null, runs[r].status}}
               /\ Len(listed) = Cardinality(Range(listed))
               /\ \A i, j \in DOMAIN listed :
                    i < j => runs[listed[i]].at + PerSecond > runs[listed[j]].at
  <2> DEFINE listed == ListRuns(f)
             rows == {r \in DOMAIN runs : Matches(r, f)}
             n == Cardinality(rows)
  <2>1. /\ n \in Nat /\ listed \in [1 .. n -> rows]
        /\ \A r \in rows : \E i \in 1 .. n : listed[i] = r
        /\ \A i, j \in 1 .. n :
             i < j => runs[listed[i]].at + PerSecond > runs[listed[j]].at
    BY RunsListed
  <2>2. rows = {r \in DOMAIN runs : /\ f.project \in {Null, ProjectOf[runs[r].task]}
                                    /\ f.task \in {Null, runs[r].task}
                                    /\ f.status \in {Null, runs[r].status}}
    BY DEF Matches, TimeInv, RunHasProject
  <2> HIDE DEF listed, rows
  <2>3. Range(listed) = rows
    BY <2>1 DEF Range
  <2>4. listed \in Seq(rows) /\ Len(listed) = n /\ DOMAIN listed = 1 .. n
    <3> HIDE DEF n
    <3> QED BY <2>1
  <2>5. \A i, j \in DOMAIN listed : i < j => runs[listed[i]].at + PerSecond > runs[listed[j]].at
    BY <2>1, <2>4
  <2> QED BY <2>2, <2>3, <2>4, <2>5 DEF listed
<1>2. ASSUME NEW t \in Tasks, NEW r \in DOMAIN runs, runs[r].task = t
      PROVE  runs[LatestRunForTask(t)].at + PerSecond > runs[r].at
  <2> DEFINE f == [project |-> Null, task |-> t, status |-> Null]
             listed == ListRuns(f)
             rows == {q \in DOMAIN runs : Matches(q, f)}
             n == Cardinality(rows)
  <2>1. f \in Filter
    BY DEF Filter
  <2>2. r \in rows
    BY <1>2 DEF Matches
  <2>3. LatestRunForTask(t) = IF listed = <<>> THEN Null ELSE listed[1]
    BY DEF LatestRunForTask
  <2> HIDE DEF f
  <2>4. /\ n \in Nat /\ listed \in [1 .. n -> rows]
        /\ \A q \in rows : \E i \in 1 .. n : listed[i] = q
        /\ \A i, j \in 1 .. n :
             i < j => runs[listed[i]].at + PerSecond > runs[listed[j]].at
    BY <2>1, RunsListed
  <2> HIDE DEF listed, rows, n
  <2>5. PICK i \in 1 .. n : listed[i] = r
    BY <2>2, <2>4
  <2>6. listed # <<>> /\ 1 \in 1 .. n
    BY <2>4, <2>5
  <2>7. CASE i = 1
    <3>1. runs[r].at \in Nat
      <4>1. runs \in Seq(RunTimes)
        BY DEF TimeInv, TimeTypeOK
      <4>2. runs[r] \in RunTimes
        BY <4>1, ElementOfSeq
      <4> QED BY <4>2 DEF RunTimes
    <3>2. PerSecond \in Nat /\ PerSecond > 0
      BY PerSecondType
    <3>3. runs[r].at + PerSecond > runs[r].at
      BY <3>1, <3>2
    <3> QED BY <2>3, <2>5, <2>6, <2>7, <3>3
  <2>8. CASE i # 1
    BY <2>3, <2>4, <2>5, <2>6, <2>8
  <2> QED BY <2>7, <2>8
<1>3. \A t \in Tasks : LET latest == LatestRunForTask(t) IN
        \A r \in DOMAIN runs :
          runs[r].task = t => runs[latest].at + PerSecond > runs[r].at
  BY <1>2
<1> QED BY <1>1, <1>3 DEF NewestListedFirst

-----------------------------------------------------------------------------
(* Sequences.                                                                *)

\* Seq(S) is the only set of sequences over S that holds the empty one and,
\* with a sequence, every one that is one element longer.
LEMMA Sequences ==
    ASSUME NEW S, NEW P \in SUBSET Seq(S), <<>> \in P,
           \A s \in P, c \in S : Append(s, c) \in P
    PROVE  P = Seq(S)
<1> DEFINE T == {n \in Nat : \A s \in Seq(S) : Len(s) = n => s \in P}
<1>1. 0 \in T
  <2> SUFFICES ASSUME NEW s \in Seq(S), Len(s) = 0 PROVE s \in P
    OBVIOUS
  <2> s = <<>>
    BY EmptySeq
  <2> QED OBVIOUS
<1>2. ASSUME NEW n \in T PROVE n + 1 \in T
  <2>1. n \in Nat /\ \A s \in Seq(S) : Len(s) = n => s \in P
    OBVIOUS
  <2>2. ASSUME NEW s \in Seq(S), Len(s) = n + 1 PROVE s \in P
    <3> HIDE DEF T
    <3>1. s # <<>>
      BY <2>1, <2>2
    <3>2. PICK t \in Seq(S), c \in S : s = Append(t, c)
      BY <3>1, SequenceEmptyOrAppend
    <3>3. Len(t) = n
      BY <2>1, <2>2, <3>2
    <3> QED BY <2>1, <3>2, <3>3
  <2> QED BY <2>1, <2>2
<1> HIDE DEF T
<1>3. T = Nat
  <2> T \in SUBSET Nat
    BY DEF T
  <2> QED BY <1>1, <1>2, Numbers
<1>4. ASSUME NEW s \in Seq(S) PROVE s \in P
  <2> Len(s) \in T
    BY <1>3
  <2> QED BY DEF T
<1> QED BY <1>4

\* A value can be carried through n steps, in one way.
LEMMA Iteration ==
    ASSUME NEW S, NEW z \in S, NEW n \in Nat, NEW step \in [1 .. n -> [S -> S]]
    PROVE  \E f \in [0 .. n -> S] : f[0] = z /\ \A i \in 1 .. n : f[i] = step[i][f[i - 1]]
<1> DEFINE Good(k, f) == f[0] = z /\ \A i \in 1 .. k : f[i] = step[i][f[i - 1]]
           Through(k) == \E f \in [0 .. k -> S] : Good(k, f)
           T == {k \in Nat : k <= n => Through(k)}
<1>1. 0 \in T
  <2> DEFINE f == [i \in 0 .. 0 |-> z]
  <2> f \in [0 .. 0 -> S] /\ Good(0, f)
    OBVIOUS
  <2> QED OBVIOUS
<1>2. ASSUME NEW k \in T PROVE k + 1 \in T
  <2> HIDE DEF Through
  <2> SUFFICES ASSUME k + 1 <= n PROVE Through(k + 1)
    OBVIOUS
  <2>1. k \in Nat /\ k <= n /\ k + 1 \in 1 .. n /\ Through(k)
    OBVIOUS
  <2>2. PICK f \in [0 .. k -> S] : Good(k, f)
    BY <2>1 DEF Through
  <2>3. f[k] \in S /\ step[k + 1][f[k]] \in S
    BY <2>1, <2>2
  <2> DEFINE g == [i \in 0 .. k + 1 |-> IF i = k + 1 THEN step[k + 1][f[k]] ELSE f[i]]
  <2>4. g \in [0 .. k + 1 -> S]
    BY <2>1, <2>2, <2>3
  <2>5. g[0] = z
    BY <2>1, <2>2
  <2>6. ASSUME NEW i \in 1 .. k + 1 PROVE g[i] = step[i][g[i - 1]]
    <3>1. CASE i = k + 1
      <4> g[i] = step[k + 1][f[k]] /\ g[i - 1] = f[k]
        BY <2>1, <3>1
      <4> QED BY <3>1
    <3>2. CASE i # k + 1
      <4> i \in 1 .. k /\ g[i] = f[i] /\ g[i - 1] = f[i - 1]
        BY <2>1, <3>2
      <4> HIDE DEF g
      <4> QED BY <2>2
    <3> QED BY <3>1, <3>2
  <2> HIDE DEF g
  <2> QED BY <2>4, <2>5, <2>6 DEF Through
<1> HIDE DEF T
<1>3. T = Nat
  <2> T \in SUBSET Nat
    BY DEF T
  <2> QED BY <1>1, <1>2, Numbers
<1>4. n \in T
  BY <1>3
<1> QED BY <1>4 DEF T

-----------------------------------------------------------------------------
(* Texts put together.                                                       *)

Text == Seq(Symbol)

\* A sequence of one element, of two, of three and of four: each is the one
\* before with its last element appended.
LEMMA Single ==
    ASSUME NEW S, NEW c \in S
    PROVE  <<c>> \in Seq(S)
OBVIOUS

\* Short sequences, an element at a time.
LEMMA Pair ==
    ASSUME NEW S, NEW a \in S, NEW b \in S
    PROVE  <<a, b>> \in Seq(S) /\ <<a, b>> = Append(<<a>>, b)
<1> DEFINE s == Append(<<a>>, b)
           t == <<a, b>>
<1>1. <<a>> \in Seq(S) /\ t \in Seq(S) /\ Len(t) = 2 /\ t[1] = a /\ t[2] = b
  OBVIOUS
<1>2. s \in Seq(S) /\ Len(s) = 2 /\ s[1] = a /\ s[2] = b
  BY <1>1, AppendProperties
<1> HIDE DEF s, t
<1>3. \A i \in 1 .. Len(s) : s[i] = t[i]
 BY <1>1, <1>2
<1> QED BY <1>1, <1>2, <1>3, SeqEqual DEF s, t

\* Three elements.
LEMMA Triple ==
    ASSUME NEW S, NEW a \in S, NEW b \in S, NEW c \in S
    PROVE  <<a, b, c>> \in Seq(S) /\ <<a, b, c>> = Append(<<a, b>>, c)
<1> DEFINE s == Append(<<a, b>>, c)
           t == <<a, b, c>>
<1>1. /\ <<a, b>> \in Seq(S) /\ t \in Seq(S) /\ Len(t) = 3
      /\ t[1] = a /\ t[2] = b /\ t[3] = c
  OBVIOUS
<1>2. s \in Seq(S) /\ Len(s) = 3 /\ s[1] = a /\ s[2] = b /\ s[3] = c
  BY <1>1, AppendProperties
<1> HIDE DEF s, t
<1>3. \A i \in 1 .. Len(s) : s[i] = t[i]
 BY <1>1, <1>2
<1> QED BY <1>1, <1>2, <1>3, SeqEqual DEF s, t

\* Four elements.
LEMMA Quadruple ==
    ASSUME NEW S, NEW a \in S, NEW b \in S, NEW c \in S, NEW d \in S
    PROVE  <<a, b, c, d>> \in Seq(S) /\ <<a, b, c, d>> = Append(<<a, b, c>>, d)
<1> DEFINE s == Append(<<a, b, c>>, d)
           t == <<a, b, c, d>>
<1>1. /\ <<a, b, c>> \in Seq(S) /\ t \in Seq(S) /\ Len(t) = 4
      /\ t[1] = a /\ t[2] = b /\ t[3] = c /\ t[4] = d
  OBVIOUS
<1>2. s \in Seq(S) /\ Len(s) = 4 /\ s[1] = a /\ s[2] = b /\ s[3] = c /\ s[4] = d
  BY <1>1, AppendProperties
<1> HIDE DEF s, t
<1>3. \A i \in 1 .. Len(s) : s[i] = t[i]
 BY <1>1, <1>2
<1> QED BY <1>1, <1>2, <1>3, SeqEqual DEF s, t

\* What FlattenSeq makes of some texts, from left to right.
Flattens(f, texts) ==
    f = [i \in 1 .. Len(texts) |-> IF i = 1 THEN texts[i] ELSE f[i - 1] \o texts[i]]

\* There is a function that FlattenSeq could choose.
LEMMA FlattensExists ==
    ASSUME NEW texts \in Seq(Text)
    PROVE  \E f : Flattens(f, texts) /\ f \in [1 .. Len(texts) -> Text]
<1> DEFINE n == Len(texts)
           step == [i \in 1 .. n |-> [s \in Text |-> s \o texts[i]]]
<1>1. n \in Nat /\ \A i \in 1 .. n : texts[i] \in Text
  OBVIOUS
<1>2. step \in [1 .. n -> [Text -> Text]]
  BY <1>1, ConcatProperties DEF Text
<1>3. <<>> \in Text
  BY EmptySeq DEF Text
<1> HIDE DEF n
<1>4. PICK g \in [0 .. n -> Text] : g[0] = <<>> /\ \A i \in 1 .. n : g[i] = step[i][g[i - 1]]
  <2> HIDE DEF step
  <2>1. \A z \in Text, m \in Nat : \A st \in [1 .. m -> [Text -> Text]] :
          \E g \in [0 .. m -> Text] : g[0] = z /\ \A i \in 1 .. m : g[i] = st[i][g[i - 1]]
    <3> SUFFICES ASSUME NEW z \in Text, NEW m \in Nat, NEW st \in [1 .. m -> [Text -> Text]]
                 PROVE  \E g \in [0 .. m -> Text] :
                          g[0] = z /\ \A i \in 1 .. m : g[i] = st[i][g[i - 1]]
      OBVIOUS
    <3> QED BY Iteration
  <2>2. \A st \in [1 .. n -> [Text -> Text]] :
          \E g \in [0 .. n -> Text] : g[0] = <<>> /\ \A i \in 1 .. n : g[i] = st[i][g[i - 1]]
    BY <1>1, <1>3, <2>1
  <2> QED BY <1>2, <2>2
<1>5. ASSUME NEW i \in 1 .. n PROVE g[i] = g[i - 1] \o texts[i]
  <2> g[i - 1] \in Text
    BY <1>1, <1>4
  <2> QED BY <1>4
<1>6. ASSUME 1 \in 1 .. n PROVE g[1] = texts[1]
  <2>1. g[1] = <<>> \o texts[1]
    <3>1. g[1] = g[1 - 1] \o texts[1]
      BY <1>5, <1>6
    <3>2. 1 - 1 = 0
      OBVIOUS
    <3> QED BY <1>4, <3>1, <3>2
  <2> QED BY <1>1, <1>6, <2>1, ConcatEmptySeq DEF Text
<1> DEFINE f == [i \in 1 .. n |-> g[i]]
<1>7. f \in [1 .. n -> Text]
  BY <1>1, <1>4
<1>8. ASSUME NEW i \in 1 .. n
      PROVE  f[i] = IF i = 1 THEN texts[i] ELSE f[i - 1] \o texts[i]
  <2>1. CASE i = 1
    BY <1>6, <2>1
  <2>2. CASE i # 1
    <3>1. i - 1 \in 1 .. n /\ f[i] = g[i] /\ f[i - 1] = g[i - 1]
      BY <1>1, <2>2
    <3> HIDE DEF f
    <3> QED BY <1>5, <2>2, <3>1
  <2> QED BY <2>1, <2>2
<1>9. f = [i \in 1 .. n |-> f[i]]
  OBVIOUS
<1> HIDE DEF f
<1>10. f = [i \in 1 .. n |-> IF i = 1 THEN texts[i] ELSE f[i - 1] \o texts[i]]
  BY <1>8, <1>9
<1> QED BY <1>7, <1>10 DEF Flattens, n

\* Two sequences begin with the same n elements.
Alike(s, t, n) == n <= Len(s) /\ n <= Len(t) /\ \A i \in 1 .. n : s[i] = t[i]

\* It is the same for texts that begin alike.
LEMMA FlattensAgree ==
    ASSUME NEW texts \in Seq(Text), NEW others \in Seq(Text), NEW n \in Nat,
           Alike(texts, others, n), NEW f, NEW g, Flattens(f, texts), Flattens(g, others)
    PROVE  \A i \in 1 .. n : f[i] = g[i]
<1> DEFINE T == {i \in Nat : i + 1 \in 1 .. n => f[i + 1] = g[i + 1]}
<1>1. \A i \in 1 .. n : i \in 1 .. Len(texts) /\ i \in 1 .. Len(others)
  BY DEF Alike
<1>2. 0 \in T
  BY <1>1 DEF Flattens, Alike
<1>3. ASSUME NEW i \in T PROVE i + 1 \in T
  <2> SUFFICES ASSUME i + 2 \in 1 .. n PROVE f[i + 2] = g[i + 2]
    OBVIOUS
  <2>1. i \in Nat /\ i + 1 \in 1 .. n /\ f[i + 1] = g[i + 1]
    OBVIOUS
  <2> DEFINE k == i + 2
  <2>2. k \in 1 .. n /\ k # 1 /\ k - 1 = i + 1
    BY <2>1
  <2> HIDE DEF k
  <2> texts[k] = others[k]
    BY <2>2 DEF Alike
  <2>3. f[k] = f[k - 1] \o texts[k]
    BY <1>1, <2>2 DEF Flattens
  <2>4. g[k] = g[k - 1] \o others[k]
    BY <1>1, <2>2 DEF Flattens
  <2> QED BY <2>1, <2>2, <2>3, <2>4 DEF k
<1> HIDE DEF T
<1>4. T = Nat
  <2> T \in SUBSET Nat
    BY DEF T
  <2> QED BY <1>2, <1>3, Numbers
<1> QED
  <2> SUFFICES ASSUME NEW i \in 1 .. n PROVE f[i] = g[i]
    OBVIOUS
  <2>1. i - 1 \in T
    BY <1>4
  <2>2. (i - 1) + 1 = i
    OBVIOUS
  <2> QED BY <2>1, <2>2 DEF T

\* The texts of a sequence, one after the other.
LEMMA FlattenSeqIs ==
    ASSUME NEW texts \in Seq(Text), texts # <<>>
    PROVE  \E f : /\ Flattens(f, texts) /\ f \in [1 .. Len(texts) -> Text]
                  /\ FlattenSeq(texts) = f[Len(texts)]
<1> DEFINE g == CHOOSE f : Flattens(f, texts)
<1>1. Len(texts) \in Nat /\ Len(texts) # 0
  BY EmptySeq
<1>2. FlattenSeq(texts) = g[Len(texts)]
  BY <1>1 DEF FlattenSeq, Flattens
<1>3. Flattens(g, texts)
  BY FlattensExists
<1>4. PICK f : Flattens(f, texts) /\ f \in [1 .. Len(texts) -> Text]
  BY FlattensExists
<1> HIDE DEF g
<1>5. \A i \in 1 .. Len(texts) : g[i] = f[i]
  <2> Alike(texts, texts, Len(texts))
    BY <1>1 DEF Alike
  <2> QED BY <1>1, <1>3, <1>4, FlattensAgree
<1> QED BY <1>1, <1>2, <1>4, <1>5

\* No texts are the empty text.
LEMMA FlattenEmpty == FlattenSeq(<<>>) = <<>>
BY DEF FlattenSeq

\* One more text comes after all of them.
LEMMA FlattenAppend ==
    ASSUME NEW texts \in Seq(Text), NEW text \in Text
    PROVE  FlattenSeq(texts) \in Text /\ FlattenSeq(Append(texts, text)) = FlattenSeq(texts) \o text
<1> DEFINE more == Append(texts, text)
           n == Len(texts)
<1>1. /\ n \in Nat /\ more \in Seq(Text) /\ more # <<>> /\ Len(more) = n + 1
      /\ more[n + 1] = text /\ \A i \in 1 .. n : more[i] = texts[i]
  BY AppendProperties
<1> HIDE DEF more
<1>2. PICK g : /\ Flattens(g, more) /\ g \in [1 .. n + 1 -> Text]
               /\ FlattenSeq(more) = g[n + 1]
  BY <1>1, FlattenSeqIs
<1>3. CASE texts = <<>>
  <2>1. n = 0
    BY <1>3
  <2>2. FlattenSeq(more) = text
    BY <1>1, <1>2, <2>1 DEF Flattens
  <2>3. <<>> \in Text /\ <<>> \o text = text
    BY EmptySeq, ConcatEmptySeq DEF Text
  <2> QED BY <1>3, <2>2, <2>3, FlattenEmpty DEF more
<1>4. CASE texts # <<>>
  <2>1. PICK f : /\ Flattens(f, texts) /\ f \in [1 .. n -> Text]
                 /\ FlattenSeq(texts) = f[n]
    BY <1>4, FlattenSeqIs
  <2>2. n # 0
    BY <1>4, EmptySeq
  <2>3. \A i \in 1 .. n : f[i] = g[i]
    <3>1. Alike(texts, more, n)
      BY <1>1 DEF Alike
    <3>2. Flattens(f, texts) /\ Flattens(g, more)
      BY <1>2, <2>1
    <3> HIDE DEF n
    <3> QED BY <1>1, <3>1, <3>2, FlattensAgree
  <2> DEFINE k == n + 1
  <2>4. k \in 1 .. Len(more) /\ k # 1 /\ k - 1 = n
    BY <1>1, <2>2
  <2> HIDE DEF k
  <2>5. g[k] = g[k - 1] \o more[k]
    BY <1>2, <2>4 DEF Flattens
  <2>6. g[n + 1] = g[n] \o text
    BY <1>1, <2>4, <2>5 DEF k
  <2>7. FlattenSeq(texts) \in Text /\ g[n] = FlattenSeq(texts)
    BY <1>1, <2>1, <2>2, <2>3
  <2> QED BY <1>2, <2>6, <2>7 DEF more
<1> QED BY <1>3, <1>4

-----------------------------------------------------------------------------
(* A shell's reading.                                                        *)

Word == Text \cup {And}
Scan == [mode : {"plain", "quoted", "escaped"}, inWord : BOOLEAN, word : Text, words : Seq(Word)]

Reads(f, z, text) ==
    f = [i \in 0 .. Len(text) |-> IF i = 0 THEN z ELSE ReadSymbol(f[i - 1], text[i])]

\* Ending a word leaves a state of the scanner.
LEMMA EndWordType ==
    ASSUME NEW z \in Scan
    PROVE  EndWord(z) \in Scan
<1>1. Append(z.words, z.word) \in Seq(Word)
  BY AppendProperties DEF Scan, Word
<1>2. <<>> \in Text
  BY EmptySeq DEF Text
<1> QED BY <1>1, <1>2 DEF EndWord, Scan

\* Reading any symbol leaves a state of the scanner.
LEMMA ReadSymbolType ==
    ASSUME NEW z \in Scan, NEW c \in Symbol
    PROVE  ReadSymbol(z, c) \in Scan
<1>1. Literal(z, c) \in Scan
  <2> Append(z.word, c) \in Text
    BY AppendProperties DEF Scan, Text
  <2> QED BY DEF Literal, Scan
<1>2. EndWord(z) \in Scan
  BY EndWordType
<1>3. [EndWord(z) EXCEPT !.words = Append(@, And)] \in Scan
  <2>1. Append(EndWord(z).words, And) \in Seq(Word)
    BY <1>2, AppendProperties DEF Scan, Word
  <2> QED BY <1>2, <2>1 DEF Scan
<1>4. /\ [z EXCEPT !.mode = "plain"] \in Scan
      /\ [z EXCEPT !.mode = "quoted", !.inWord = TRUE] \in Scan
      /\ [z EXCEPT !.mode = "escaped"] \in Scan
  BY DEF Scan
<1>5. ReadSymbol(z, c) \in {Literal(z, c), EndWord(z), [EndWord(z) EXCEPT !.words = Append(@, And)],
                            [z EXCEPT !.mode = "plain"],
                            [z EXCEPT !.mode = "quoted", !.inWord = TRUE],
                            [z EXCEPT !.mode = "escaped"]}
  BY Zenon DEF ReadSymbol
<1> QED BY <1>1, <1>2, <1>3, <1>4, <1>5

\* So the scanner has a state at every place of a text,
LEMMA ReadsExists ==
    ASSUME NEW z \in Scan, NEW text \in Text
    PROVE  \E f : Reads(f, z, text) /\ f \in [0 .. Len(text) -> Scan]
<1> DEFINE n == Len(text)
           step == [i \in 1 .. n |-> [y \in Scan |-> ReadSymbol(y, text[i])]]
<1>1. n \in Nat /\ \A i \in 1 .. n : text[i] \in Symbol
  BY DEF Text
<1>2. step \in [1 .. n -> [Scan -> Scan]]
  BY <1>1, ReadSymbolType
<1> HIDE DEF n
<1>3. PICK f \in [0 .. n -> Scan] : f[0] = z /\ \A i \in 1 .. n : f[i] = step[i][f[i - 1]]
  <2> HIDE DEF step
  <2>1. \A y \in Scan, m \in Nat : \A st \in [1 .. m -> [Scan -> Scan]] :
          \E g \in [0 .. m -> Scan] : g[0] = y /\ \A i \in 1 .. m : g[i] = st[i][g[i - 1]]
    <3> SUFFICES ASSUME NEW y \in Scan, NEW m \in Nat, NEW st \in [1 .. m -> [Scan -> Scan]]
                 PROVE  \E g \in [0 .. m -> Scan] :
                          g[0] = y /\ \A i \in 1 .. m : g[i] = st[i][g[i - 1]]
      OBVIOUS
    <3> QED BY Iteration
  <2> QED BY <1>1, <1>2, <2>1
<1>4. ASSUME NEW i \in 0 .. n
      PROVE  f[i] = IF i = 0 THEN z ELSE ReadSymbol(f[i - 1], text[i])
  <2>1. CASE i = 0
    BY <1>3, <2>1
  <2>2. CASE i # 0
    <3> i \in 1 .. n /\ f[i - 1] \in Scan
      BY <1>1, <1>3, <2>2
    <3> QED BY <1>3, <2>2
  <2> QED BY <2>1, <2>2
<1>5. f = [i \in 0 .. n |-> IF i = 0 THEN z ELSE ReadSymbol(f[i - 1], text[i])]
  BY <1>3, <1>4
<1> QED BY <1>3, <1>5 DEF Reads, n

\* the same for texts that begin alike.
LEMMA ReadsAgree ==
    ASSUME NEW text \in Text, NEW other \in Text, NEW n \in Nat, Alike(text, other, n),
           NEW z, NEW f, NEW g, Reads(f, z, text), Reads(g, z, other)
    PROVE  \A i \in 0 .. n : f[i] = g[i]
<1> DEFINE T == {i \in Nat : i \in 0 .. n => f[i] = g[i]}
<1>1. /\ \A i \in 0 .. n : i \in 0 .. Len(text) /\ i \in 0 .. Len(other)
      /\ Len(text) \in Nat /\ Len(other) \in Nat
  BY DEF Text, Alike
<1>2. 0 \in T
  BY <1>1 DEF Reads
<1>3. ASSUME NEW i \in T PROVE i + 1 \in T
  <2> SUFFICES ASSUME i + 1 \in 0 .. n PROVE f[i + 1] = g[i + 1]
    OBVIOUS
  <2>1. i \in Nat /\ i \in 0 .. n /\ f[i] = g[i]
    OBVIOUS
  <2> DEFINE k == i + 1
  <2>2. k \in 0 .. n /\ k \in 1 .. n /\ k # 0 /\ k - 1 = i
    BY <2>1
  <2> HIDE DEF k
  <2> text[k] = other[k]
    BY <2>2 DEF Alike
  <2>3. f[k] = ReadSymbol(f[k - 1], text[k])
    BY <1>1, <2>2 DEF Reads
  <2>4. g[k] = ReadSymbol(g[k - 1], other[k])
    BY <1>1, <2>2 DEF Reads
  <2> QED BY <2>1, <2>2, <2>3, <2>4 DEF k
<1> HIDE DEF T
<1>4. T = Nat
  <2> T \in SUBSET Nat
    BY DEF T
  <2> QED BY <1>2, <1>3, Numbers
<1> QED BY <1>4 DEF T

\* Read is the state after the last symbol.
LEMMA ReadIs ==
    ASSUME NEW z \in Scan, NEW text \in Text
    PROVE  \E f : /\ Reads(f, z, text) /\ f \in [0 .. Len(text) -> Scan]
                  /\ Read(z, text) = f[Len(text)]
<1> DEFINE g == CHOOSE f : Reads(f, z, text)
<1>1. Len(text) \in Nat
  BY DEF Text
<1>2. Read(z, text) = g[Len(text)]
  BY DEF Read, Reads
<1>3. Reads(g, z, text)
  BY ReadsExists
<1>4. PICK f : Reads(f, z, text) /\ f \in [0 .. Len(text) -> Scan]
  BY ReadsExists
<1> HIDE DEF g
<1>5. \A i \in 0 .. Len(text) : g[i] = f[i]
  <2> Alike(text, text, Len(text))
    BY <1>1 DEF Alike
  <2> QED BY <1>1, <1>3, <1>4, ReadsAgree
<1> QED BY <1>1, <1>2, <1>4, <1>5

\* Nothing is read from nothing, and a text's last symbol is read last.
LEMMA ReadStep ==
    ASSUME NEW z \in Scan
    PROVE  /\ Read(z, <<>>) = z
           /\ \A text \in Text : Read(z, text) \in Scan
           /\ \A text \in Text, c \in Symbol :
                Read(z, Append(text, c)) = ReadSymbol(Read(z, text), c)
<1>1. Read(z, <<>>) = z
  <2>1. <<>> \in Text /\ Len(<<>>) = 0
    BY EmptySeq DEF Text
  <2>2. PICK f : Reads(f, z, <<>>) /\ Read(z, <<>>) = f[0]
    BY <2>1, ReadIs
  <2> QED BY <2>1, <2>2 DEF Reads
<1>2. ASSUME NEW text \in Text PROVE Read(z, text) \in Scan
  <2> Len(text) \in Nat
    BY DEF Text
  <2> QED BY ReadIs
<1>3. ASSUME NEW text \in Text, NEW c \in Symbol
      PROVE  Read(z, Append(text, c)) = ReadSymbol(Read(z, text), c)
  <2> DEFINE more == Append(text, c)
             n == Len(text)
             k == n + 1
  <2>1. /\ n \in Nat /\ more \in Text /\ Len(more) = n + 1
        /\ more[n + 1] = c /\ \A i \in 1 .. n : text[i] = more[i]
    <3>1. n \in Nat
      BY DEF Text
    <3>2. more \in Text
      BY AppendProperties DEF Text
    <3>3. Len(more) = n + 1 /\ more[n + 1] = c
      BY AppendProperties DEF Text
    <3>4. \A i \in 1 .. n : more[i] = text[i]
      BY AppendProperties DEF Text
    <3> QED BY <3>1, <3>2, <3>3, <3>4
  <2> HIDE DEF more
  <2>2. PICK f : Reads(f, z, text) /\ Read(z, text) = f[n]
    BY ReadIs
  <2>3. PICK g : Reads(g, z, more) /\ Read(z, more) = g[n + 1]
    BY <2>1, ReadIs
  <2>4. f[n] = g[n]
    <3>1. Alike(text, more, n)
      BY <2>1 DEF Alike
    <3>2. \A i \in 0 .. n : f[i] = g[i]
      <4> HIDE DEF n
      <4> QED BY <2>1, <2>2, <2>3, <3>1, ReadsAgree
    <3> QED BY <2>1, <3>2
  <2>5. k \in 0 .. Len(more) /\ k # 0 /\ k - 1 = n
    BY <2>1
  <2> HIDE DEF k
  <2>6. g[k] = ReadSymbol(g[k - 1], more[k])
    BY <2>3, <2>5 DEF Reads
  <2>7. g[k] = ReadSymbol(f[n], c)
    BY <2>1, <2>4, <2>5, <2>6 DEF k
  <2> QED BY <2>2, <2>3, <2>7 DEF k, more
<1> QED BY <1>1, <1>2, <1>3

\* A text is read on from where the reading of the one before it ended.
LEMMA ReadConcat ==
    ASSUME NEW z \in Scan, NEW text \in Text, NEW more \in Text
    PROVE  Read(z, text \o more) = Read(Read(z, text), more)
<1> DEFINE P == {s \in Text : Read(z, text \o s) = Read(Read(z, text), s)}
<1>1. Read(z, text) \in Scan
  BY ReadStep
<1>2. <<>> \in P
  <2> <<>> \in Text /\ text \o <<>> = text
    BY EmptySeq, ConcatEmptySeq DEF Text
  <2> QED BY <1>1, ReadStep
<1>3. ASSUME NEW s \in P, NEW c \in Symbol PROVE Append(s, c) \in P
  <2>1. s \in Text /\ Read(z, text \o s) = Read(Read(z, text), s)
    OBVIOUS
  <2>2. Append(s, c) \in Text /\ text \o s \in Text
    BY <2>1, AppendProperties, ConcatProperties DEF Text
  <2>3. text \o Append(s, c) = Append(text \o s, c)
    <3>1. <<c>> \in Text
      BY Single DEF Text
    <3>2. Append(s, c) = s \o <<c>> /\ Append(text \o s, c) = (text \o s) \o <<c>>
      BY <2>1, <2>2, AppendIsConcat DEF Text
    <3>3. (text \o s) \o <<c>> = text \o (s \o <<c>>)
      <4> text \in Seq(Symbol) /\ s \in Seq(Symbol) /\ <<c>> \in Seq(Symbol)
        BY <2>1, <3>1 DEF Text
      <4> QED BY ConcatAssociative
    <3> QED BY <3>2, <3>3
  <2>4. Read(z, Append(text \o s, c)) = ReadSymbol(Read(z, text \o s), c)
    BY <2>2, ReadStep
  <2>5. Read(Read(z, text), Append(s, c)) = ReadSymbol(Read(Read(z, text), s), c)
    BY <1>1, <2>1, ReadStep
  <2>6. Read(z, text \o Append(s, c)) = Read(Read(z, text), Append(s, c))
    BY <2>1, <2>3, <2>4, <2>5
  <2> QED BY <2>2, <2>6
<1> HIDE DEF P
<1>4. P = Text
  <2> P \in SUBSET Text
    BY DEF P
  <2> QED BY <1>2, <1>3, Sequences DEF Text
<1> QED BY <1>4 DEF P

-----------------------------------------------------------------------------
(* Symbols that become texts.                                                *)

\* The texts F has for the symbols of s, one after the other.
FlatMap(F, s) == FlattenSeq([i \in DOMAIN s |-> F[s[i]]])

\* Applying a function to every element of a sequence.
LEMMA MapType ==
    ASSUME NEW S, NEW T, NEW s \in Seq(S), NEW F \in [S -> T]
    PROVE  /\ [i \in DOMAIN s |-> F[s[i]]] \in Seq(T)
           /\ Len([i \in DOMAIN s |-> F[s[i]]]) = Len(s)
OBVIOUS

\* FlatMap makes a text, and goes symbol by symbol.
LEMMA FlatMapStep ==
    ASSUME NEW F \in [Symbol -> Text]
    PROVE  /\ FlatMap(F, <<>>) = <<>>
           /\ \A s \in Text : FlatMap(F, s) \in Text
           /\ \A s \in Text, c \in Symbol : FlatMap(F, Append(s, c)) = FlatMap(F, s) \o F[c]
<1> DEFINE map(s) == [i \in DOMAIN s |-> F[s[i]]]
<1>1. FlatMap(F, <<>>) = <<>>
  <2> map(<<>>) = <<>>
    OBVIOUS
  <2> QED BY FlattenEmpty DEF FlatMap
<1>2. ASSUME NEW s \in Text PROVE map(s) \in Seq(Text) /\ Len(map(s)) = Len(s)
  <2> s \in Seq(Symbol)
    BY DEF Text
  <2> QED BY MapType
<1>3. ASSUME NEW s \in Text, NEW c \in Symbol
      PROVE  map(Append(s, c)) = Append(map(s), F[c])
  <2> DEFINE a == map(Append(s, c))
             b == Append(map(s), F[c])
  <2>1. /\ Append(s, c) \in Text /\ Len(Append(s, c)) = Len(s) + 1 /\ Len(s) \in Nat
        /\ \A i \in 1 .. Len(s) : Append(s, c)[i] = s[i]
        /\ Append(s, c)[Len(s) + 1] = c
    BY AppendProperties DEF Text
  <2>2. /\ a \in Seq(Text) /\ Len(a) = Len(s) + 1
        /\ \A i \in 1 .. Len(s) + 1 : a[i] = F[Append(s, c)[i]]
    <3> HIDE DEF a
    <3>1. a \in Seq(Text) /\ Len(a) = Len(s) + 1
      BY <1>2, <2>1 DEF a
    <3>2. DOMAIN Append(s, c) = 1 .. Len(s) + 1
      BY <2>1 DEF Text
    <3> QED BY <3>1, <3>2 DEF a
  <2>3. F[c] \in Text
    OBVIOUS
  <2>4. /\ b \in Seq(Text) /\ Len(b) = Len(s) + 1 /\ b[Len(s) + 1] = F[c]
        /\ \A i \in 1 .. Len(s) : b[i] = F[s[i]]
    <3>1. map(s) \in Seq(Text) /\ Len(map(s)) = Len(s)
      BY <1>2
    <3>2. \A i \in 1 .. Len(s) : map(s)[i] = F[s[i]]
      BY DEF Text
    <3> HIDE DEF map
    <3> QED BY <2>3, <3>1, <3>2, AppendProperties
  <2> HIDE DEF a, b
  <2>5. \A i \in 1 .. Len(a) : a[i] = b[i]
    <3> SUFFICES ASSUME NEW i \in 1 .. Len(s) + 1 PROVE a[i] = b[i]
      BY <2>2
    <3>1. CASE i = Len(s) + 1
      BY <2>1, <2>2, <2>4, <3>1
    <3>2. CASE i # Len(s) + 1
      <4> i \in 1 .. Len(s)
        BY <2>1, <3>2
      <4> QED BY <2>1, <2>2, <2>4
    <3> QED BY <3>1, <3>2
  <2>6. a = b
    BY <2>2, <2>4, <2>5, SeqEqual
  <2> QED BY <2>6 DEF a, b
<1>4. ASSUME NEW s \in Text, NEW c \in Symbol
      PROVE  FlatMap(F, s) \in Text /\ FlatMap(F, Append(s, c)) = FlatMap(F, s) \o F[c]
  <2> F[c] \in Text
    OBVIOUS
  <2>1. map(s) \in Seq(Text) /\ map(Append(s, c)) = Append(map(s), F[c])
    BY <1>2, <1>3
  <2> HIDE DEF map
  <2>2. FlattenSeq(map(s)) \in Text /\ FlattenSeq(Append(map(s), F[c])) = FlattenSeq(map(s)) \o F[c]
    BY <2>1, FlattenAppend
  <2> QED BY <2>1, <2>2 DEF FlatMap, map
<1>5. ASSUME NEW s \in Text PROVE FlatMap(F, s) \in Text
  <2> Quote \in Symbol
    BY TextAssumption
  <2> QED BY <1>4
<1> QED BY <1>1, <1>4, <1>5

-----------------------------------------------------------------------------
(* Quoting and reading.                                                      *)

\* Reading a text of one symbol, alone and before others.
LEMMA ReadSymbols ==
    ASSUME NEW z \in Scan, NEW a \in Symbol
    PROVE  /\ <<a>> \in Text
           /\ Read(z, <<a>>) = ReadSymbol(z, a)
           /\ \A text \in Text : Read(z, <<a>> \o text) = Read(ReadSymbol(z, a), text)
<1>1. <<>> \in Text /\ <<a>> \in Text /\ <<a>> = Append(<<>>, a)
  BY EmptySeq, Single DEF Text
<1>2. Read(z, <<a>>) = ReadSymbol(z, a)
  <2>1. Read(z, Append(<<>>, a)) = ReadSymbol(Read(z, <<>>), a)
    BY <1>1, ReadStep
  <2> QED BY <1>1, <2>1, ReadStep
<1> QED BY <1>1, <1>2, ReadConcat

\* One symbol more is read after the others.
LEMMA ReadLast ==
    ASSUME NEW z \in Scan, NEW text \in Text, NEW c \in Symbol
    PROVE  Read(z, Append(text, c)) = ReadSymbol(Read(z, text), c)
BY ReadStep

Escape == [c \in Symbol |-> IF c = Quote THEN <<Quote, Backslash, Quote, Quote>> ELSE <<c>>]

\* Escape makes a text of every symbol.
LEMMA EscapeType == Escape \in [Symbol -> Text]
<1>1. ASSUME NEW c \in Symbol PROVE <<c>> \in Text /\ <<Quote, Backslash, Quote, Quote>> \in Text
  <2>1. <<c>> \in Text
    BY Single DEF Text
  <2>2. Quote \in Symbol /\ Backslash \in Symbol
    BY TextAssumption
  <2> QED BY <2>1, <2>2 DEF Text
<1> QED BY <1>1 DEF Escape

\* ShellQuote puts quotes around the escaped symbols.
LEMMA ShellQuoteIs ==
    ASSUME NEW s \in Text
    PROVE  /\ ShellQuote(s) = <<Quote>> \o FlatMap(Escape, s) \o <<Quote>>
           /\ ShellQuote(s) \in Text
<1>1. [i \in DOMAIN s |-> IF s[i] = Quote THEN <<Quote, Backslash, Quote, Quote>> ELSE <<s[i]>>]
        = [i \in DOMAIN s |-> Escape[s[i]]]
  BY DEF Escape, Text
<1>2. ShellQuote(s) = <<Quote>> \o FlatMap(Escape, s) \o <<Quote>>
  BY <1>1 DEF ShellQuote, FlatMap
<1>3. <<Quote>> \in Text /\ FlatMap(Escape, s) \in Text
  <2> Quote \in Symbol
    BY TextAssumption
  <2> QED BY Single, EscapeType, FlatMapStep DEF Text
<1>4. <<Quote>> \o FlatMap(Escape, s) \in Text
  BY <1>3, ConcatProperties DEF Text
<1>5. ShellQuote(s) \in Text
  BY <1>2, <1>3, <1>4, ConcatProperties DEF Text
<1> QED BY <1>2, <1>5

\* The word that is being read gets longer by w.
Longer(z, w) == [z EXCEPT !.inWord = TRUE, !.word = @ \o w]

\* Longer leaves a state of the scanner.
LEMMA LongerType ==
    ASSUME NEW z \in Scan, NEW w \in Text
    PROVE  /\ Longer(z, w) \in Scan
           /\ Longer(z, w).mode = z.mode /\ Longer(z, w).inWord = TRUE
           /\ Longer(z, w).word = z.word \o w /\ Longer(z, w).words = z.words
<1> z.word \o w \in Text
  BY ConcatProperties DEF Scan, Text
<1> QED BY DEF Longer, Scan

\* Longer twice is longer by both.
LEMMA LongerTwice ==
    ASSUME NEW z \in Scan, NEW v \in Text, NEW w \in Text
    PROVE  Longer(Longer(z, v), w) = Longer(z, v \o w)
<1>1. (z.word \o v) \o w = z.word \o (v \o w)
  BY ConcatAssociative DEF Scan, Text
<1> QED BY <1>1 DEF Longer, Scan

\* A symbol that is read as itself makes the word longer.
LEMMA ReadLiteral ==
    ASSUME NEW z \in Scan, NEW c \in Symbol
    PROVE  /\ z.mode = "quoted" /\ c # Quote => ReadSymbol(z, c) = Longer(z, <<c>>)
           /\ z.mode = "plain" /\ c \notin {Blank, Quote, Backslash, And}
                => ReadSymbol(z, c) = Longer(z, <<c>>)
<1>1. Append(z.word, c) = z.word \o <<c>>
  BY AppendIsConcat DEF Scan, Text
<1>2. z.mode # "escaped" => Literal(z, c) = Longer(z, <<c>>)
  BY <1>1 DEF Literal, Longer, Scan
<1>3. z.mode = "quoted" /\ c # Quote => ReadSymbol(z, c) = Literal(z, c)
  BY DEF ReadSymbol, Quote, Backslash, Blank, And
<1>4. z.mode = "plain" /\ c \notin {Blank, Quote, Backslash, And} => ReadSymbol(z, c) = Literal(z, c)
  BY DEF ReadSymbol, Quote, Backslash, Blank, And
<1> QED BY <1>2, <1>3, <1>4

\* Inside quotes an escaped symbol is read as it was.
LEMMA ReadEscape ==
    ASSUME NEW z \in Scan, z.mode = "quoted", NEW c \in Symbol
    PROVE  Read(z, Escape[c]) = Longer(z, <<c>>)
<1>1. CASE c # Quote
  BY <1>1, ReadSymbols, ReadLiteral DEF Escape
<1>2. CASE c = Quote
  <2> DEFINE a == [z EXCEPT !.mode = "plain"]
             b == [a EXCEPT !.mode = "escaped"]
             d == Literal(b, Quote)
  <2>1. Quote \in Symbol /\ Backslash \in Symbol /\ Quote # Backslash
    BY TextAssumption DEF Quote, Backslash
  <2>2. a \in Scan /\ a.mode = "plain" /\ ReadSymbol(z, Quote) = a
    BY DEF Scan, ReadSymbol, Quote, Backslash, Blank, And
  <2>3. b \in Scan /\ b.mode = "escaped" /\ ReadSymbol(a, Backslash) = b
    BY <2>1, <2>2 DEF Scan, ReadSymbol, Quote, Backslash, Blank, And
  <2>4. d \in Scan /\ ReadSymbol(b, Quote) = d
    <3>1. ReadSymbol(b, Quote) = d
      BY <2>3 DEF ReadSymbol, Quote, Backslash, Blank, And
    <3> QED BY <2>1, <2>3, <3>1, ReadSymbolType
  <2>5. d.mode = "plain" /\ d.words = z.words /\ d.word = Append(z.word, Quote)
    BY DEF Literal, Scan
  <2>6. ReadSymbol(d, Quote) = [d EXCEPT !.mode = "quoted", !.inWord = TRUE]
    BY <2>5 DEF ReadSymbol, Quote, Backslash, Blank, And
  <2>7. Append(z.word, Quote) = z.word \o <<Quote>>
    BY <2>1, AppendIsConcat DEF Scan, Text
  <2>8. [d EXCEPT !.mode = "quoted", !.inWord = TRUE] = Longer(z, <<Quote>>)
    BY <2>4, <2>5, <2>7 DEF Longer, Scan
  <2>9. Escape[c] = <<Quote, Backslash, Quote, Quote>>
    BY <1>2, <2>1 DEF Escape
  <2> HIDE DEF a, b, d
  <2> DEFINE s1 == <<Quote>>
             s2 == <<Quote, Backslash>>
             s3 == <<Quote, Backslash, Quote>>
             s4 == <<Quote, Backslash, Quote, Quote>>
  <2>10. s1 \in Text /\ Read(z, s1) = a
    BY <2>1, <2>2, ReadSymbols
  <2>11. s2 \in Text /\ s2 = Append(s1, Backslash)
    BY <2>1, Pair DEF Text
  <2>12. s3 \in Text /\ s3 = Append(s2, Quote)
    BY <2>1, Triple DEF Text
  <2>13. s4 = Append(s3, Quote) /\ Escape[c] = s4
    BY <2>1, <2>9, Quadruple
  <2> HIDE DEF s1, s2, s3, s4
  <2>14. Read(z, Escape[c]) = ReadSymbol(d, Quote)
    <3>1. Read(z, s2) = b
      BY <2>1, <2>3, <2>10, <2>11, ReadLast
    <3>2. Read(z, s3) = d
      BY <2>1, <2>4, <2>11, <2>12, <3>1, ReadLast
    <3> QED BY <2>1, <2>12, <2>13, <3>2, ReadLast
  <2> QED BY <1>2, <2>6, <2>8, <2>14
<1> QED BY <1>1, <1>2

\* Inside quotes an escaped text is read as it was, symbol after symbol.
LEMMA ReadEscaped ==
    ASSUME NEW z \in Scan, z.mode = "quoted", z.inWord, NEW s \in Text
    PROVE  Read(z, FlatMap(Escape, s)) = Longer(z, s)
<1> DEFINE P == {t \in Text : Read(z, FlatMap(Escape, t)) = Longer(z, t)}
<1>1. <<>> \in P
  <2>1. <<>> \in Text /\ z.word \o <<>> = z.word
    BY EmptySeq, ConcatEmptySeq DEF Scan, Text
  <2>2. Longer(z, <<>>) = z
    BY <2>1 DEF Longer, Scan
  <2> QED BY <2>1, <2>2, EscapeType, FlatMapStep, ReadStep
<1>2. ASSUME NEW t \in P, NEW c \in Symbol PROVE Append(t, c) \in P
  <2>1. t \in Text /\ Read(z, FlatMap(Escape, t)) = Longer(z, t)
    OBVIOUS
  <2>2. /\ FlatMap(Escape, t) \in Text /\ Escape[c] \in Text /\ <<c>> \in Text
        /\ FlatMap(Escape, Append(t, c)) = FlatMap(Escape, t) \o Escape[c]
    BY <2>1, EscapeType, FlatMapStep, ReadSymbols
  <2>3. Read(z, FlatMap(Escape, Append(t, c))) = Read(Longer(z, t), Escape[c])
    BY <2>1, <2>2, ReadConcat
  <2>4. Read(Longer(z, t), Escape[c]) = Longer(Longer(z, t), <<c>>)
    BY <2>1, LongerType, ReadEscape
  <2>5. Append(t, c) = t \o <<c>> /\ Append(t, c) \in Text
    BY <2>1, AppendIsConcat, AppendProperties DEF Text
  <2>6. Longer(Longer(z, t), <<c>>) = Longer(z, t \o <<c>>)
    BY <2>1, <2>2, LongerTwice
  <2>7. Read(z, FlatMap(Escape, Append(t, c))) = Longer(z, Append(t, c))
    BY <2>3, <2>4, <2>5, <2>6
  <2> QED BY <2>5, <2>7
<1> HIDE DEF P
<1>3. P = Text
  <2> P \in SUBSET Text
    BY DEF P
  <2> QED BY <1>1, <1>2, Sequences DEF Text
<1> QED BY <1>3 DEF P

\* A quoted value makes the word longer by the value, whatever it holds.
LEMMA ReadShellQuote ==
    ASSUME NEW z \in Scan, z.mode = "plain", NEW s \in Text
    PROVE  Read(z, ShellQuote(s)) = Longer(z, s)
<1> DEFINE a == [z EXCEPT !.mode = "quoted", !.inWord = TRUE]
           b == Longer(a, s)
<1>1. Quote \in Symbol /\ <<Quote>> \in Text /\ FlatMap(Escape, s) \in Text
  <2> Quote \in Symbol
    BY TextAssumption
  <2> QED BY Single, EscapeType, FlatMapStep DEF Text
<1>2. a \in Scan /\ a.mode = "quoted" /\ a.inWord /\ ReadSymbol(z, Quote) = a
  BY DEF Scan, ReadSymbol, Quote, Backslash, Blank, And
<1>3. b \in Scan /\ b.mode = "quoted" /\ Read(a, FlatMap(Escape, s)) = b
  BY <1>2, ReadEscaped, LongerType
<1>4. ReadSymbol(b, Quote) = [b EXCEPT !.mode = "plain"]
  BY <1>3 DEF ReadSymbol, Quote, Backslash, Blank, And
<1>5. [b EXCEPT !.mode = "plain"] = Longer(z, s)
  BY DEF Longer, Scan
<1> HIDE DEF a, b
<1>6. ShellQuote(s) = (<<Quote>> \o FlatMap(Escape, s)) \o <<Quote>>
  BY ShellQuoteIs
<1>7. <<Quote>> \o FlatMap(Escape, s) \in Text
  BY <1>1, ConcatProperties DEF Text
<1>8. Read(z, <<Quote>> \o FlatMap(Escape, s)) = b
  BY <1>1, <1>2, <1>3, ReadSymbols
<1>9. Read(z, ShellQuote(s)) = Read(b, <<Quote>>)
  BY <1>1, <1>6, <1>7, <1>8, ReadConcat
<1> QED BY <1>1, <1>3, <1>4, <1>5, <1>9, ReadSymbols

-----------------------------------------------------------------------------
(* Placeholders and their values.                                            *)

\* What a symbol of a command becomes.
Piece(vals, shellEscape) ==
    [c \in Symbol |->
       IF \A key \in Keys : c # Placeholder(key) THEN <<c>>
       ELSE IF shellEscape THEN ShellQuote(vals[CHOOSE key \in Keys : c = Placeholder(key)])
       ELSE vals[CHOOSE key \in Keys : c = Placeholder(key)]]

\* A piece is the symbol itself, or the value of one of the keys, quoted or not.
LEMMA PieceCases ==
    ASSUME NEW vals \in Vals, NEW c \in Symbol
    PROVE  \/ \A esc \in BOOLEAN : Piece(vals, esc)[c] = <<c>>
           \/ \E v \in Text : Piece(vals, TRUE)[c] = ShellQuote(v) /\ Piece(vals, FALSE)[c] = v
<1>1. CASE \A key \in Keys : c # Placeholder(key)
  BY <1>1 DEF Piece
<1>2. CASE ~ \A key \in Keys : c # Placeholder(key)
  <2> DEFINE key == CHOOSE key \in Keys : c = Placeholder(key)
  <2>1. key \in Keys
    BY <1>2, Zenon
  <2>2. vals \in [Keys -> Text]
    BY TextAssumption DEF Text
  <2> HIDE DEF key
  <2>3. vals[key] \in Text
    BY <2>1, <2>2
  <2>4. Piece(vals, TRUE)[c] = ShellQuote(vals[key]) /\ Piece(vals, FALSE)[c] = vals[key]
    BY <1>2 DEF Piece, key
  <2> QED BY <2>3, <2>4
<1> QED BY <1>1, <1>2

\* A piece is a text.
LEMMA PieceType ==
    ASSUME NEW vals \in Vals, NEW esc \in BOOLEAN
    PROVE  Piece(vals, esc) \in [Symbol -> Text]
<1>1. ASSUME NEW c \in Symbol PROVE Piece(vals, esc)[c] \in Text
  <2>1. <<c>> \in Text
    BY Single DEF Text
  <2>2. \A v \in Text : ShellQuote(v) \in Text
    BY ShellQuoteIs
  <2> QED BY <2>1, <2>2, PieceCases
<1>2. Piece(vals, esc) = [c \in Symbol |-> Piece(vals, esc)[c]]
  BY DEF Piece
<1> QED BY <1>1, <1>2

\* Replace goes symbol by symbol.
LEMMA ReplaceIs ==
    ASSUME NEW vals \in Vals, NEW esc \in BOOLEAN, NEW s \in Text
    PROVE  /\ Replace(s, vals, esc) = FlatMap(Piece(vals, esc), s)
           /\ Replace(s, vals, esc) \in Text
<1>1. \A i \in DOMAIN s : s[i] \in Symbol
  BY DEF Text
<1>2. Replace(s, vals, esc) = FlatMap(Piece(vals, esc), s)
  <2> DEFINE value(c) == vals[CHOOSE key \in Keys : c = Placeholder(key)]
             piece(c) == IF \A key \in Keys : c # Placeholder(key) THEN <<c>>
                         ELSE IF esc THEN ShellQuote(value(c)) ELSE value(c)
  <2>1. Replace(s, vals, esc) = FlattenSeq([i \in DOMAIN s |-> piece(s[i])])
    BY Zenon DEF Replace
  <2>2. \A c \in Symbol : Piece(vals, esc)[c] = piece(c)
    BY Zenon DEF Piece
  <2> HIDE DEF piece
  <2>3. [i \in DOMAIN s |-> piece(s[i])] = [i \in DOMAIN s |-> Piece(vals, esc)[s[i]]]
    BY <1>1, <2>2
  <2> QED BY <2>1, <2>3 DEF FlatMap
<1> QED BY <1>2, PieceType, FlatMapStep

\* What the documents say a text stands for is what Replace makes of it unquoted.
LEMMA FilledIs ==
    ASSUME NEW vals \in Vals, NEW s \in Text
    PROVE  Filled(s, vals) = Replace(s, vals, FALSE)
<1> DEFINE value(c) == vals[CHOOSE key \in Keys : c = Placeholder(key)]
           means(c) == IF \E key \in Keys : c = Placeholder(key) THEN value(c) ELSE <<c>>
           piece(c) == IF \A key \in Keys : c # Placeholder(key) THEN <<c>>
                       ELSE IF FALSE THEN ShellQuote(value(c)) ELSE value(c)
<1>1. Filled(s, vals) = FlattenSeq([i \in DOMAIN s |-> means(s[i])])
  BY Zenon DEF Filled
<1>2. Replace(s, vals, FALSE) = FlattenSeq([i \in DOMAIN s |-> piece(s[i])])
  BY Zenon DEF Replace
<1>3. \A c : means(c) = piece(c)
  OBVIOUS
<1> HIDE DEF means, piece
<1>4. [i \in DOMAIN s |-> means(s[i])] = [i \in DOMAIN s |-> piece(s[i])]
  BY <1>3
<1> QED BY <1>1, <1>2, <1>4

\* What a text is read as, wherever it comes outside quotes: one word, or the
\* rest of one.
ReadsAs(text, w) ==
    /\ text \in Text /\ w \in Text
    /\ \A z \in Scan : z.mode = "plain" => Read(z, text) = Longer(z, w)

\* The symbols of which the words of a shell string are made.
Plain == Symbol \ {Blank, Quote, Backslash, And}

\* A plain symbol is read as itself.
LEMMA PlainReadsAs ==
    ASSUME NEW c \in Plain
    PROVE  ReadsAs(<<c>>, <<c>>)
<1>1. c \in Symbol /\ <<c>> \in Text
  BY Single DEF Plain, Text
<1>2. ASSUME NEW z \in Scan, z.mode = "plain" PROVE Read(z, <<c>>) = Longer(z, <<c>>)
  BY <1>1, <1>2, ReadSymbols, ReadLiteral DEF Plain
<1> QED BY <1>1, <1>2 DEF ReadsAs

\* A quoted text is read as the text.
LEMMA QuotedReadsAs ==
    ASSUME NEW s \in Text
    PROVE  ReadsAs(ShellQuote(s), s)
BY ShellQuoteIs, ReadShellQuote DEF ReadsAs

\* One text after another.
LEMMA ReadsAsConcat ==
    ASSUME NEW t, NEW v, NEW u, NEW w, ReadsAs(t, v), ReadsAs(u, w)
    PROVE  ReadsAs(t \o u, v \o w)
<1>1. t \in Text /\ v \in Text /\ u \in Text /\ w \in Text
  BY DEF ReadsAs
<1>2. t \o u \in Text /\ v \o w \in Text
  BY <1>1, ConcatProperties DEF Text
<1>3. ASSUME NEW z \in Scan, z.mode = "plain"
      PROVE  Read(z, t \o u) = Longer(z, v \o w)
  <2>1. Read(z, t \o u) = Read(Longer(z, v), u)
    BY <1>1, <1>3, ReadConcat DEF ReadsAs
  <2>2. Longer(z, v) \in Scan /\ Longer(z, v).mode = "plain"
    BY <1>1, <1>3, LongerType
  <2>3. Read(Longer(z, v), u) = Longer(Longer(z, v), w)
    BY <2>2 DEF ReadsAs
  <2> QED BY <1>1, <2>1, <2>3, LongerTwice
<1> QED BY <1>2, <1>3 DEF ReadsAs

\* A word of a shell string is read as the word with its values in place.
LEMMA PartReadsAs ==
    ASSUME NEW vals \in Vals, NEW part \in Seq(Plain), part # <<>>
    PROVE  ReadsAs(Replace(part, vals, TRUE), Replace(part, vals, FALSE))
<1> DEFINE q == Piece(vals, TRUE)
           p == Piece(vals, FALSE)
           P == {t \in Seq(Plain) : t # <<>> => ReadsAs(FlatMap(q, t), FlatMap(p, t))}
<1>1. q \in [Symbol -> Text] /\ p \in [Symbol -> Text]
  BY PieceType
<1>2. ASSUME NEW c \in Plain PROVE ReadsAs(q[c], p[c])
  <2>1. c \in Symbol
    BY DEF Plain
  <2> QED BY <2>1, PieceCases, PlainReadsAs, QuotedReadsAs
<1>3. Seq(Plain) \subseteq Text
  BY DEF Plain, Text
<1> HIDE DEF q, p
<1>4. <<>> \in P
  BY EmptySeq
<1>5. ASSUME NEW t \in P, NEW c \in Plain PROVE Append(t, c) \in P
  <2>1. t \in Seq(Plain) /\ t \in Text /\ c \in Symbol
    BY <1>3 DEF Plain
  <2>2. Append(t, c) \in Seq(Plain)
    BY <2>1, AppendProperties
  <2>3. /\ FlatMap(q, Append(t, c)) = FlatMap(q, t) \o q[c]
        /\ FlatMap(p, Append(t, c)) = FlatMap(p, t) \o p[c]
    BY <1>1, <2>1, FlatMapStep
  <2>4. ReadsAs(FlatMap(q, Append(t, c)), FlatMap(p, Append(t, c)))
    <3>1. CASE t = <<>>
      <4>1. FlatMap(q, t) = <<>> /\ FlatMap(p, t) = <<>>
        BY <1>1, <3>1, FlatMapStep
      <4>2. q[c] \in Seq(Symbol) /\ p[c] \in Seq(Symbol)
        BY <1>1, <2>1 DEF Text
      <4>3. <<>> \o q[c] = q[c] /\ <<>> \o p[c] = p[c]
        BY <4>2, ConcatEmptySeq
      <4> QED BY <1>2, <2>3, <4>1, <4>3
    <3>2. CASE t # <<>>
      BY <1>2, <2>3, <3>2, ReadsAsConcat
    <3> QED BY <3>1, <3>2
  <2> QED BY <2>2, <2>4
<1>6. P = Seq(Plain)
  <2> P \in SUBSET Seq(Plain)
    BY DEF P
  <2> HIDE DEF P
  <2> QED BY <1>4, <1>5, Sequences
<1>7. ReadsAs(FlatMap(q, part), FlatMap(p, part))
  BY <1>6
<1> QED BY <1>3, <1>7, ReplaceIs DEF q, p

-----------------------------------------------------------------------------
(* Words.                                                                    *)

\* Between words.
Fresh == {z \in Scan : z.mode = "plain" /\ ~ z.inWord /\ z.word = <<>>}

\* The same place, with more words behind it.
More(z, ws) == [z EXCEPT !.words = @ \o ws]

\* More leads from between words to between words.
LEMMA MoreType ==
    ASSUME NEW z \in Fresh, NEW ws \in Seq(Word)
    PROVE  More(z, ws) \in Fresh /\ More(z, ws).words = z.words \o ws
<1> z.words \o ws \in Seq(Word)
  BY ConcatProperties DEF Fresh, Scan
<1> QED BY DEF More, Fresh, Scan

\* More twice is more of both.
LEMMA MoreTwice ==
    ASSUME NEW z \in Fresh, NEW vs \in Seq(Word), NEW ws \in Seq(Word)
    PROVE  More(More(z, vs), ws) = More(z, vs \o ws)
<1>1. (z.words \o vs) \o ws = z.words \o (vs \o ws)
  BY ConcatAssociative DEF Fresh, Scan
<1> QED BY <1>1 DEF More, Fresh, Scan

\* A state of the scanner is its four fields.
LEMMA SameState ==
    ASSUME NEW y \in Scan, NEW z \in Scan, y.mode = z.mode, y.inWord = z.inWord,
           y.word = z.word, y.words = z.words
    PROVE  y = z
BY DEF Scan

\* A text that is read as a word, up to the end of the word.
LEMMA OneWord ==
    ASSUME NEW z \in Fresh, NEW t, NEW w, ReadsAs(t, w)
    PROVE  /\ t \in Text /\ Read(z, t) \in Scan /\ Read(z, t).mode = "plain"
           /\ EndWord(Read(z, t)) = More(z, <<w>>)
<1> DEFINE y == Longer(z, w)
<1>1. t \in Text /\ w \in Text /\ z \in Scan /\ z.mode = "plain" /\ Read(z, t) = y
  BY DEF ReadsAs, Fresh
<1>2. <<>> \o w = w
  BY <1>1, ConcatEmptySeq DEF Text
<1>3. y \in Scan /\ y.mode = "plain" /\ y.inWord /\ y.word = w /\ y.words = z.words
  <2>1. z.word = <<>>
    BY DEF Fresh
  <2>2. /\ y \in Scan /\ y.mode = z.mode /\ y.inWord = TRUE
        /\ y.word = z.word \o w /\ y.words = z.words
    BY <1>1, LongerType
  <2> HIDE DEF y
  <2> QED BY <1>1, <1>2, <2>1, <2>2
<1>4. Append(z.words, w) = z.words \o <<w>>
  BY <1>1, AppendIsConcat DEF Fresh, Scan, Word
<1>5. /\ EndWord(y) \in Scan /\ EndWord(y).mode = "plain" /\ EndWord(y).inWord = FALSE
      /\ EndWord(y).word = <<>> /\ EndWord(y).words = Append(z.words, w)
  <2> HIDE DEF y
  <2>1. EndWord(y) \in Scan
    BY <1>3, EndWordType
  <2> QED BY <1>3, <2>1 DEF EndWord, Scan
<1>6. /\ More(z, <<w>>) \in Scan /\ More(z, <<w>>).mode = "plain"
      /\ More(z, <<w>>).inWord = FALSE /\ More(z, <<w>>).word = <<>>
      /\ More(z, <<w>>).words = z.words \o <<w>>
  <2>1. <<w>> \in Seq(Word)
    BY <1>1, Single DEF Word
  <2>2. More(z, <<w>>) \in Fresh /\ More(z, <<w>>).words = z.words \o <<w>>
    BY <2>1, MoreType
  <2> QED BY <2>2 DEF Fresh, Scan
<1> HIDE DEF y
<1>7. EndWord(y) = More(z, <<w>>)
  BY <1>4, <1>5, <1>6, SameState
<1> QED BY <1>1, <1>3, <1>7

\* The blank behind it ends it.
LEMMA ReadBlank ==
    ASSUME NEW y \in Scan, y.mode = "plain"
    PROVE  <<Blank>> \in Text /\ Read(y, <<Blank>>) = EndWord(y)
<1>1. Blank \in Symbol
  BY TextAssumption
<1>2. ReadSymbol(y, Blank) = EndWord(y)
  BY DEF ReadSymbol, Quote, Backslash, Blank, And
<1> QED BY <1>1, <1>2, ReadSymbols

\* A word and a blank behind it are one word more.
LEMMA WordAndBlank ==
    ASSUME NEW z \in Fresh, NEW t, NEW w, ReadsAs(t, w)
    PROVE  t \o <<Blank>> \in Text /\ Read(z, t \o <<Blank>>) = More(z, <<w>>)
<1>1. /\ t \in Text /\ Read(z, t) \in Scan /\ Read(z, t).mode = "plain"
      /\ EndWord(Read(z, t)) = More(z, <<w>>)
  BY OneWord
<1>2. <<Blank>> \in Text /\ Read(Read(z, t), <<Blank>>) = EndWord(Read(z, t))
  BY <1>1, ReadBlank
<1>3. Read(z, t \o <<Blank>>) = Read(Read(z, t), <<Blank>>)
  BY <1>1, <1>2, ReadConcat DEF Fresh
<1>4. t \o <<Blank>> \in Text
  BY <1>1, <1>2, ConcatProperties DEF Text
<1> QED BY <1>1, <1>2, <1>3, <1>4

\* Blanks between some texts.
Spaced(texts) == [i \in DOMAIN texts |-> IF i = 1 THEN texts[i] ELSE <<Blank>> \o texts[i]]

\* A text with a blank before it is a text.
LEMMA BlankBefore ==
    ASSUME NEW t \in Text
    PROVE  <<Blank>> \o t \in Text
<1> <<Blank>> \in Text
  BY TextAssumption, Single DEF Text
<1> QED BY ConcatProperties DEF Text

\* What Join puts together are texts, as many as it was given.
LEMMA SpacedType ==
    ASSUME NEW texts \in Seq(Text)
    PROVE  /\ Spaced(texts) \in Seq(Text) /\ Len(Spaced(texts)) = Len(texts)
           /\ \A i \in 1 .. Len(texts) :
                Spaced(texts)[i] = IF i = 1 THEN texts[i] ELSE <<Blank>> \o texts[i]
<1>1. \A i \in 1 .. Len(texts) : texts[i] \in Text
  OBVIOUS
<1>2. \A t \in Text : <<Blank>> \o t \in Text
  BY BlankBefore
<1>3. \A i \in 1 .. Len(texts) :
        (IF i = 1 THEN texts[i] ELSE <<Blank>> \o texts[i]) \in Text
  BY <1>1, <1>2
<1>4. DOMAIN texts = 1 .. Len(texts) /\ Len(texts) \in Nat
  OBVIOUS
<1> DEFINE g(i) == IF i = 1 THEN texts[i] ELSE <<Blank>> \o texts[i]
<1>5. /\ \A i \in 1 .. Len(texts) : g(i) \in Text
      /\ Spaced(texts) = [i \in 1 .. Len(texts) |-> g(i)]
  BY <1>3, <1>4 DEF Spaced
<1> HIDE DEF g
<1>6. Spaced(texts) \in Seq(Text) /\ Len(Spaced(texts)) = Len(texts)
  BY <1>4, <1>5
<1>7. \A i \in 1 .. Len(texts) : Spaced(texts)[i] = g(i)
  BY <1>5
<1> QED BY <1>6, <1>7 DEF g

\* One text more comes behind a blank, unless it is the first.
LEMMA JoinAppend ==
    ASSUME NEW texts \in Seq(Text), NEW t \in Text
    PROVE  /\ Join(texts) \in Text
           /\ Join(Append(texts, t)) = IF texts = <<>> THEN t ELSE Join(texts) \o (<<Blank>> \o t)
<1> DEFINE n == Len(texts)
           u == IF n + 1 = 1 THEN t ELSE <<Blank>> \o t
           a == Spaced(Append(texts, t))
           b == Append(Spaced(texts), u)
<1>1. /\ n \in Nat /\ Append(texts, t) \in Seq(Text) /\ Len(Append(texts, t)) = n + 1
      /\ \A i \in 1 .. n : Append(texts, t)[i] = texts[i]
      /\ Append(texts, t)[n + 1] = t
  BY AppendProperties
<1>2. /\ Spaced(texts) \in Seq(Text) /\ Len(Spaced(texts)) = n
      /\ \A i \in 1 .. n : Spaced(texts)[i] = IF i = 1 THEN texts[i] ELSE <<Blank>> \o texts[i]
  BY SpacedType
<1>3. /\ a \in Seq(Text) /\ Len(a) = n + 1
      /\ \A i \in 1 .. n + 1 :
           a[i] = IF i = 1 THEN Append(texts, t)[i] ELSE <<Blank>> \o Append(texts, t)[i]
  BY <1>1, SpacedType
<1>4. a[n + 1] = u /\ n + 1 \in 1 .. n + 1
  <2>1. n + 1 \in 1 .. n + 1
    BY <1>1
  <2> HIDE DEF a, n
  <2> QED BY <1>1, <1>3, <2>1
<1>5. u \in Text
  BY BlankBefore
<1> HIDE DEF a, u
<1>6. /\ b \in Seq(Text) /\ Len(b) = n + 1 /\ b[n + 1] = u
      /\ \A i \in 1 .. n : b[i] = Spaced(texts)[i]
  BY <1>1, <1>2, <1>5, AppendProperties
<1> HIDE DEF b
<1>7. \A i \in 1 .. Len(a) : a[i] = b[i]
  <2> SUFFICES ASSUME NEW i \in 1 .. n + 1 PROVE a[i] = b[i]
    BY <1>3
  <2>1. CASE i = n + 1
    BY <1>4, <1>6, <2>1
  <2>2. CASE i # n + 1
    <3>1. i \in 1 .. n
      BY <1>1, <2>2
    <3>2. a[i] = IF i = 1 THEN texts[i] ELSE <<Blank>> \o texts[i]
      BY <1>1, <1>3, <3>1
    <3>3. b[i] = IF i = 1 THEN texts[i] ELSE <<Blank>> \o texts[i]
      BY <1>2, <1>6, <3>1
    <3> QED BY <3>2, <3>3
  <2> QED BY <2>1, <2>2
<1>8. a = b
  BY <1>3, <1>6, <1>7, SeqEqual
<1>9. /\ FlattenSeq(Spaced(texts)) \in Text
      /\ FlattenSeq(Append(Spaced(texts), u)) = FlattenSeq(Spaced(texts)) \o u
  BY <1>2, <1>5, FlattenAppend
<1>10. Join(texts) = FlattenSeq(Spaced(texts)) /\ Join(Append(texts, t)) = FlattenSeq(a)
  BY DEF Join, Spaced, a
<1>11. Join(Append(texts, t)) = Join(texts) \o u
  BY <1>8, <1>9, <1>10 DEF b
<1>12. CASE texts = <<>>
  <2>1. n = 0 /\ u = t
    BY <1>12 DEF u
  <2>2. Spaced(texts) = <<>>
    BY <1>2, <2>1, EmptySeq
  <2>3. Join(texts) = <<>> /\ <<>> \o t = t
    BY <1>10, <2>2, FlattenEmpty, ConcatEmptySeq DEF Text
  <2> QED BY <1>9, <1>10, <1>11, <1>12, <2>1, <2>3
<1>13. CASE texts # <<>>
  <2> n # 0
    BY <1>13, EmptySeq
  <2> u = <<Blank>> \o t
    BY <1>1 DEF u
  <2> QED BY <1>9, <1>10, <1>11, <1>13
<1> QED BY <1>12, <1>13

\* Some texts and the words they are read as.
Spelled(texts, ws) ==
    /\ texts \in Seq(Text) /\ ws \in Seq(Text) /\ Len(texts) = Len(ws)
    /\ \A i \in 1 .. Len(texts) : ReadsAs(texts[i], ws[i])

Joined(z, texts, ws) ==
    /\ Join(texts) \in Text /\ Read(z, Join(texts)) \in Scan
    /\ Read(z, Join(texts)).mode = "plain"
    /\ EndWord(Read(z, Join(texts))) = More(z, ws)

\* A sequence of texts is a sequence of words.
LEMMA TextsAreWords == Seq(Text) \subseteq Seq(Word)
BY DEF Word

\* Joined by blanks, some texts are read as their words.
LEMMA ReadJoin ==
    ASSUME NEW z \in Fresh, NEW texts, NEW ws, Spelled(texts, ws), texts # <<>>
    PROVE  Joined(z, texts, ws)
<1> DEFINE P == {t \in Seq(Text) : t # <<>> => \A v \in Seq(Text) : Spelled(t, v) => Joined(z, t, v)}
<1>1. <<>> \in P
  BY EmptySeq
<1>2. ASSUME NEW t \in P, NEW a \in Text PROVE Append(t, a) \in P
  <2>1. t \in Seq(Text) /\ Append(t, a) \in Seq(Text)
    BY AppendProperties
  <2>2. ASSUME NEW v \in Seq(Text), Spelled(Append(t, a), v) PROVE Joined(z, Append(t, a), v)
    <3>1. /\ Len(Append(t, a)) = Len(t) + 1 /\ Len(t) \in Nat /\ Append(t, a)[Len(t) + 1] = a
          /\ \A i \in 1 .. Len(t) : Append(t, a)[i] = t[i]
      BY <2>1, AppendProperties
    <3>2. Len(v) = Len(t) + 1 /\ \A i \in 1 .. Len(t) + 1 : ReadsAs(Append(t, a)[i], v[i])
      BY <2>2, <3>1 DEF Spelled
    <3>3. v # <<>>
      BY <3>1, <3>2
    <3>4. PICK u \in Seq(Text), w \in Text : v = Append(u, w)
      BY <3>3, SequenceEmptyOrAppend
    <3>5. /\ Len(u) = Len(t) /\ v[Len(t) + 1] = w
          /\ \A i \in 1 .. Len(t) : v[i] = u[i]
      BY <3>1, <3>2, <3>4, AppendProperties
    <3>6. ReadsAs(a, w)
      BY <3>1, <3>2, <3>5
    <3>7. Spelled(t, u)
      BY <2>1, <3>1, <3>2, <3>5 DEF Spelled
    <3>8. CASE t = <<>>
      <4>1. Join(Append(t, a)) = a
        BY <2>1, <3>8, JoinAppend
      <4>2. u = <<>>
        BY <3>5, <3>8, EmptySeq
      <4>3. v = <<w>>
        BY <3>4, <4>2
      <4> QED BY <3>6, <4>1, <4>3, OneWord DEF Joined
    <3>9. CASE t # <<>>
      <4> DEFINE y == Read(z, Join(t))
                 x == More(z, u)
      <4>1. Join(t) \in Text /\ y \in Scan /\ y.mode = "plain" /\ EndWord(y) = x
        BY <3>7, <3>9 DEF Joined
      <4>2. Join(Append(t, a)) = Join(t) \o (<<Blank>> \o a) /\ Join(Append(t, a)) \in Text
        BY <2>1, <3>9, JoinAppend
      <4>3. <<Blank>> \o a \in Text /\ a \in Text /\ <<Blank>> \in Text
        BY <4>1, BlankBefore, ReadBlank
      <4>4. Read(z, Join(Append(t, a))) = Read(y, <<Blank>> \o a)
        BY <4>1, <4>2, <4>3, ReadConcat DEF Fresh
      <4>5. Read(y, <<Blank>> \o a) = Read(Read(y, <<Blank>>), a)
        BY <4>1, <4>3, ReadConcat
      <4>6. Read(y, <<Blank>>) = x
        BY <4>1, ReadBlank
      <4>7. x \in Fresh /\ u \in Seq(Word)
        BY MoreType, TextsAreWords
      <4> HIDE DEF x, y
      <4>8. /\ Read(x, a) \in Scan /\ Read(x, a).mode = "plain"
            /\ EndWord(Read(x, a)) = More(x, <<w>>)
        BY <3>6, <4>7, OneWord
      <4>9. More(x, <<w>>) = More(z, v)
        <5>1. <<w>> \in Seq(Word)
          BY Single DEF Word
        <5>2. v = u \o <<w>>
          BY <3>4, AppendIsConcat
        <5> QED BY <4>7, <5>1, <5>2, MoreTwice DEF x
      <4> QED BY <4>2, <4>4, <4>5, <4>6, <4>8, <4>9 DEF Joined
    <3> QED BY <3>8, <3>9
  <2> QED BY <2>1, <2>2
<1>3. P = Seq(Text)
  <2> P \in SUBSET Seq(Text)
    BY DEF P
  <2> HIDE DEF P
  <2> QED BY <1>1, <1>2, Sequences
<1> QED BY <1>3 DEF Spelled

\* Between words, "&&" is a word of its own and a blank is nothing.
LEMMA ReadBetween ==
    ASSUME NEW x \in Fresh
    PROVE  ReadSymbol(x, And) = More(x, <<And>>) /\ ReadSymbol(x, Blank) = x
<1>1. EndWord(x) = x
  BY DEF Fresh, EndWord
<1>2. ReadSymbol(x, Blank) = EndWord(x)
  BY DEF Fresh, ReadSymbol, Quote, Backslash, Blank, And
<1>3. ReadSymbol(x, And) = [EndWord(x) EXCEPT !.words = Append(@, And)]
  BY DEF Fresh, ReadSymbol, Quote, Backslash, Blank, And
<1>4. Append(x.words, And) = x.words \o <<And>>
  <2> x.words \in Seq(Word) /\ And \in Word
    BY DEF Fresh, Scan, Word
  <2> QED BY AppendIsConcat
<1> QED BY <1>1, <1>2, <1>3, <1>4 DEF More

\* The command words of the program's own.
LEMMA OwnWords ==
    ASSUME NEW c \in {"cd", "exec", "bash", "-lc"}
    PROVE  ReadsAs(<<c>>, <<c>>)
<1> c \in Plain
  BY TextAssumption DEF Plain, Blank, Quote, Backslash, And
<1> QED BY PlainReadsAs

\* A word of the program's own and a blank.
LEMMA ReadOwnWord ==
    ASSUME NEW z \in Fresh, NEW c \in {"cd", "exec", "bash", "-lc"}
    PROVE  <<c, Blank>> \in Text /\ Read(z, <<c, Blank>>) = More(z, <<<<c>>>>)
<1>1. ReadsAs(<<c>>, <<c>>)
  BY OwnWords
<1>2. c \in Symbol /\ Blank \in Symbol /\ <<c>> \in Seq(Symbol)
  BY <1>1, TextAssumption DEF ReadsAs, Text
<1>3. <<c, Blank>> = <<c>> \o <<Blank>>
  BY <1>2, Pair, AppendIsConcat
<1> QED BY <1>1, <1>3, WordAndBlank

\* What stands before a command's words.
Before(path) == <<<<"cd">>, path, And>>

\* Cd is read as the three words (BuildRemoteCommand).
LEMMA ReadCd ==
    ASSUME NEW z \in Fresh, NEW path \in Text
    PROVE  Cd(path) \in Text /\ Read(z, Cd(path)) = More(z, Before(path))
<1> DEFINE a == <<"cd", Blank>>
           b == ShellQuote(path)
           c == <<Blank, And, Blank>>
           z1 == More(z, <<<<"cd">>>>)
           y == Read(z1, b)
           z2 == More(z1, <<path>>)
           z3 == More(z2, <<And>>)
<1>1. a \in Text /\ Read(z, a) = z1
  BY ReadOwnWord
<1>2. <<<<"cd">>>> \in Seq(Word) /\ <<path>> \in Seq(Word) /\ <<And>> \in Seq(Word)
  <2> <<"cd">> \in Text
    BY TextAssumption, Single DEF Text
  <2> QED BY Single DEF Word
<1>3. z1 \in Fresh
  BY <1>2, MoreType
<1>4. b \in Text /\ y \in Scan /\ y.mode = "plain" /\ EndWord(y) = z2
  <2> HIDE DEF z1, b
  <2> QED BY <1>3, QuotedReadsAs, OneWord DEF b
<1>5. z2 \in Fresh
  <2> HIDE DEF z1
  <2> QED BY <1>2, <1>3, MoreType
<1>6. z3 \in Fresh
  <2> HIDE DEF z2
  <2> QED BY <1>2, <1>5, MoreType
<1> HIDE DEF a, b, z1, z2, z3, y
<1>7. c \in Text /\ Read(y, c) = z3
  <2> DEFINE s1 == <<Blank>>
             s2 == <<Blank, And>>
  <2>1. Blank \in Symbol /\ And \in Symbol
    BY TextAssumption
  <2>2. s1 \in Text /\ Read(y, s1) = z2
    BY <1>4, ReadBlank
  <2>3. s2 \in Text /\ s2 = Append(s1, And)
    BY <2>1, Pair DEF Text
  <2>4. c \in Text /\ c = Append(s2, Blank)
    BY <2>1, Triple DEF Text
  <2> HIDE DEF s1, s2, c
  <2>5. Read(y, s2) = z3
    BY <1>4, <1>5, <2>1, <2>2, <2>3, ReadLast, ReadBetween DEF z3
  <2> QED BY <1>4, <1>6, <2>1, <2>3, <2>4, <2>5, ReadLast, ReadBetween
<1> HIDE DEF c
<1>8. a \o b \in Text /\ (a \o b) \o c \in Text
  BY <1>1, <1>4, <1>7, ConcatProperties DEF Text
<1>9. Read(z, a \o b) = y
  BY <1>1, <1>4, ReadConcat DEF Fresh, y
<1>10. Read(z, (a \o b) \o c) = z3
  BY <1>7, <1>8, <1>9, ReadConcat DEF Fresh
<1>11. z3 = More(z, Before(path))
  <2> DEFINE w == <<"cd">>
             s1 == <<w>>
             s2 == <<w, path>>
  <2>1. w \in Word /\ path \in Word /\ And \in Word
    <3> w \in Text
      BY TextAssumption, Single DEF Text
    <3> QED BY DEF Word
  <2>2. s1 \in Seq(Word) /\ s2 \in Seq(Word) /\ s2 = s1 \o <<path>>
    <3> HIDE DEF w
    <3> QED BY <2>1, Single, Pair, AppendIsConcat
  <2>3. Before(path) = s2 \o <<And>>
    <3>1. Before(path) = <<w, path, And>>
      BY DEF Before
    <3> HIDE DEF w
    <3> QED BY <2>1, <2>2, <3>1, Triple, AppendIsConcat
  <2>4. z1 = More(z, s1)
    BY DEF z1
  <2> HIDE DEF w, s1, s2
  <2>5. z2 = More(z, s2)
    BY <1>2, <2>2, <2>4, MoreTwice DEF z2
  <2>6. z3 = More(z2, <<And>>)
    BY DEF z3
  <2>7. More(More(z, s2), <<And>>) = More(z, s2 \o <<And>>)
    BY <1>2, <2>2, MoreTwice
  <2> QED BY <2>3, <2>5, <2>6, <2>7
<1> QED BY <1>8, <1>10, <1>11 DEF Cd, a, b, c

-----------------------------------------------------------------------------
(* The two shells.                                                           *)

\* A shell starts between words.
LEMMA StartIsFresh == Scanned \in Fresh /\ Scanned.words = <<>>
<1> <<>> \in Text /\ <<>> \in Seq(Word)
  BY EmptySeq DEF Text
<1> QED BY DEF Scanned, Fresh, Scan

\* What bash makes of its script, with and without exec.
LEMMA ScriptWords ==
    ASSUME NEW path \in Text, NEW texts, NEW ws, Spelled(texts, ws), texts # <<>>
    PROVE  /\ Cd(path) \o Join(texts) \in Text
           /\ Words(Cd(path) \o Join(texts)) = Before(path) \o ws
           /\ Cd(path) \o <<"exec", Blank>> \o Join(texts) \in Text
           /\ Words(Cd(path) \o <<"exec", Blank>> \o Join(texts))
                = Before(path) \o (<<<<"exec">>>> \o ws)
<1> DEFINE b == Before(path)
           x == <<<<"exec">>>>
           c == Cd(path)
           e == <<"exec", Blank>>
           j == Join(texts)
           z == More(Scanned, b)
           y == More(z, x)
<1>1. c \in Text /\ Read(Scanned, c) = z
  BY StartIsFresh, ReadCd
<1>2. b \in Seq(Word) /\ x \in Seq(Word) /\ ws \in Seq(Word)
  <2>1. <<"cd">> \in Text /\ <<"exec">> \in Text
    BY TextAssumption, Single DEF Text
  <2>2. <<"cd">> \in Word /\ <<"exec">> \in Word /\ path \in Word /\ And \in Word
    BY <2>1 DEF Word
  <2> QED BY <2>2, Triple, Single, TextsAreWords DEF Before, Spelled
<1> HIDE DEF b, x
<1>3. z \in Fresh
  BY <1>2, StartIsFresh, MoreType
<1> HIDE DEF z
<1>4. e \in Text /\ Read(z, e) = y
  BY <1>3, ReadOwnWord DEF x
<1>5. y \in Fresh
  BY <1>2, <1>3, MoreType
<1> HIDE DEF c, e, j, y
<1>6. j \in Text /\ EndWord(Read(z, j)) = More(z, ws) /\ EndWord(Read(y, j)) = More(y, ws)
  BY <1>3, <1>5, ReadJoin DEF Joined, j
<1>7. Scanned \in Scan
  BY StartIsFresh DEF Fresh
<1>8. c \o j \in Text /\ c \o e \in Text /\ (c \o e) \o j \in Text
  BY <1>1, <1>4, <1>6, ConcatProperties DEF Text
<1>9. Read(Scanned, c \o j) = Read(z, j)
  BY <1>1, <1>6, <1>7, ReadConcat
<1>10. Read(Scanned, c \o e) = y
  BY <1>1, <1>4, <1>7, ReadConcat
<1>11. Read(Scanned, (c \o e) \o j) = Read(y, j)
  BY <1>6, <1>7, <1>8, <1>10, ReadConcat
<1>12. More(z, ws) = More(Scanned, b \o ws)
  BY <1>2, StartIsFresh, MoreTwice DEF z
<1>13. x \o ws \in Seq(Word) /\ More(y, ws) = More(Scanned, b \o (x \o ws))
  <2>1. x \o ws \in Seq(Word)
    BY <1>2, ConcatProperties
  <2>2. More(y, ws) = More(z, x \o ws)
    BY <1>2, <1>3, MoreTwice DEF y
  <2>3. More(z, x \o ws) = More(Scanned, b \o (x \o ws))
    BY <1>2, <2>1, StartIsFresh, MoreTwice DEF z
  <2> QED BY <2>1, <2>2, <2>3
<1>14. \A vs \in Seq(Word) : More(Scanned, vs).words = vs
  BY StartIsFresh, MoreType, ConcatEmptySeq
<1>15. b \o ws \in Seq(Word) /\ b \o (x \o ws) \in Seq(Word)
  BY <1>2, <1>13, ConcatProperties
<1>16. Words(c \o j) = b \o ws
  BY <1>6, <1>9, <1>12, <1>14, <1>15 DEF Words
<1>17. Words((c \o e) \o j) = b \o (x \o ws)
  BY <1>6, <1>11, <1>13, <1>14, <1>15 DEF Words
<1> QED BY <1>8, <1>16, <1>17 DEF b, x, c, e, j

\* The login shell gives bash its script as it was.
LEMMA OuterWords ==
    ASSUME NEW inner \in Text
    PROVE  Words(Join(<<<<"bash">>, <<"-lc">>, ShellQuote(inner)>>))
             = <<<<"bash">>, <<"-lc">>, inner>>
<1> DEFINE b == <<"bash">>
           l == <<"-lc">>
           q == ShellQuote(inner)
           texts == <<b, l, q>>
           ws == <<b, l, inner>>
<1>1. ReadsAs(b, b) /\ ReadsAs(l, l) /\ ReadsAs(q, inner)
  BY OwnWords, QuotedReadsAs
<1> HIDE DEF b, l, q
<1>2. b \in Text /\ l \in Text /\ q \in Text
  BY <1>1 DEF ReadsAs
<1>3. texts \in Seq(Text) /\ ws \in Seq(Text)
  BY <1>2, Triple
<1>4. Spelled(texts, ws)
  BY <1>1, <1>3 DEF Spelled
<1>5. texts # <<>>
  OBVIOUS
<1> HIDE DEF texts, ws
<1>6. EndWord(Read(Scanned, Join(texts))) = More(Scanned, ws)
  BY <1>4, <1>5, StartIsFresh, ReadJoin DEF Joined
<1>7. More(Scanned, ws).words = ws
  <2>1. ws \in Seq(Word)
    BY <1>3, TextsAreWords
  <2>2. More(Scanned, ws).words = <<>> \o ws
    BY <2>1, StartIsFresh, MoreType
  <2> QED BY <2>1, <2>2, ConcatEmptySeq
<1> QED BY <1>6, <1>7 DEF Words, texts, ws, b, l, q

\* The process gets what stands behind "cd path &&".
LEMMA RunIs ==
    ASSUME NEW inner \in Text, NEW path \in Text, NEW argv \in Seq(Word), argv # <<>>,
           Words(inner) = Before(path) \o argv
    PROVE  Run(Join(<<<<"bash">>, <<"-lc">>, ShellQuote(inner)>>))
             = Received(path, IF Head(argv) = <<"exec">> THEN Tail(argv) ELSE argv)
<1> DEFINE text == Join(<<<<"bash">>, <<"-lc">>, ShellQuote(inner)>>)
           outer == <<<<"bash">>, <<"-lc">>, inner>>
           two == <<<<"bash">>, <<"-lc">>>>
           b == Before(path)
           script == b \o argv
<1>1. Words(text) = outer
  BY OuterWords
<1>2. <<"bash">> \in Text /\ <<"-lc">> \in Text /\ <<"cd">> \in Text
  BY TextAssumption, Single DEF Text
<1>3. Len(outer) = 3 /\ outer[3] = inner /\ SubSeq(outer, 1, 2) = two
  <2> DEFINE s == SubSeq(outer, 1, 2)
  <2>1. outer \in Seq(Text) /\ two \in Seq(Text) /\ Len(two) = 2
    BY <1>2, Triple, Pair
  <2>2. /\ s \in Seq(Text) /\ Len(s) = 2
        /\ \A i \in 1 .. 2 : s[i] = outer[1 + i - 1]
    <3>1. \A i \in 1 .. 2 : outer[i] \in Text
      BY <1>2
    <3> HIDE DEF outer
    <3> QED BY <3>1, SubSeqProperties
  <2>3. outer[1] = two[1] /\ outer[2] = two[2]
    OBVIOUS
  <2> HIDE DEF s
  <2>4. \A i \in 1 .. Len(s) : s[i] = two[i]
    <3> HIDE DEF outer, two
    <3> QED BY <2>2, <2>3
  <2>5. s = two
    <3> HIDE DEF two
    <3> QED BY <2>1, <2>2, <2>4, SeqEqual
  <2> QED BY <2>5 DEF s
<1>4. /\ b \in Seq(Word) /\ Len(b) = 3 /\ b[1] = <<"cd">> /\ b[2] = path /\ b[3] = And
  <2> <<"cd">> \in Word /\ path \in Word /\ And \in Word
    BY <1>2 DEF Word
  <2> QED BY Triple DEF Before
<1> HIDE DEF b
<1>5. /\ script \in Seq(Word) /\ Len(script) = 3 + Len(argv) /\ Len(argv) \in Nat
      /\ \A i \in 1 .. 3 : script[i] = b[i]
      /\ \A i \in 1 .. Len(argv) : script[3 + i] = argv[i]
  <2>1. /\ script \in Seq(Word) /\ Len(script) = 3 + Len(argv) /\ Len(argv) \in Nat
        /\ \A i \in 1 .. 3 + Len(argv) :
             script[i] = IF i <= 3 THEN b[i] ELSE argv[i - 3]
    <3> DEFINE n == Len(argv)
    <3>1. n \in Nat
      OBVIOUS
    <3>2. /\ script \in Seq(Word) /\ Len(script) = Len(b) + Len(argv)
          /\ \A i \in 1 .. Len(b) + Len(argv) :
               script[i] = IF i <= Len(b) THEN b[i] ELSE argv[i - Len(b)]
      BY <1>4, ConcatProperties
    <3> HIDE DEF script
    <3> QED BY <1>4, <3>1, <3>2
  <2> HIDE DEF script
  <2>2. \A i \in 1 .. 3 : script[i] = b[i]
    BY <2>1
  <2>3. ASSUME NEW i \in 1 .. Len(argv) PROVE script[3 + i] = argv[i]
    <3>1. 3 + i \in 1 .. 3 + Len(argv) /\ ~ (3 + i <= 3) /\ (3 + i) - 3 = i
      BY <2>1
    <3> QED BY <2>1, <3>1
  <2> QED BY <2>1, <2>2, <2>3
<1>6. Len(argv) > 0
  BY <1>5, EmptySeq
<1>7. SubSeq(script, 4, Len(script)) = argv
  <2> DEFINE s == SubSeq(script, 4, Len(script))
  <2> HIDE DEF script
  <2>1. /\ s \in Seq(Word) /\ Len(s) = Len(argv)
        /\ \A i \in 1 .. Len(argv) : s[i] = script[4 + i - 1]
    <3>1. \A i \in 4 .. Len(script) : script[i] \in Word
      BY <1>5
    <3> QED BY <1>5, <1>6, <3>1, SubSeqProperties
  <2> HIDE DEF s
  <2>2. \A i \in 1 .. Len(s) : s[i] = argv[i]
    <3> SUFFICES ASSUME NEW i \in 1 .. Len(argv) PROVE s[i] = argv[i]
      BY <2>1
    <3> 4 + i - 1 = 3 + i
      OBVIOUS
    <3> QED BY <1>5, <2>1
  <2> QED BY <2>1, <2>2, SeqEqual DEF s
<1>8. script[1] = <<"cd">> /\ script[2] = path /\ script[3] = And /\ Len(script) > 3
  BY <1>4, <1>5, <1>6
<1>9. Words(outer[3]) = script
  BY <1>3 DEF b
<1> HIDE DEF text, outer, two, script
<1>10. Run(text) = Received(script[2], IF Head(argv) = <<"exec">> THEN Tail(argv) ELSE argv)
  BY <1>1, <1>3, <1>7, <1>8, <1>9, Zenon DEF Run, two
<1> QED BY <1>8, <1>10 DEF text

-----------------------------------------------------------------------------
(* From the command to the process.                                          *)

\* The parts of a command with their values, as the shell is to read them.
Values(c) == [i \in DOMAIN c.parts |->
                IF c.json THEN ThroughJSON(Replace(c.parts[i], c.vals, FALSE))
                          ELSE Replace(c.parts[i], c.vals, FALSE)]

\* ... and as they are written into the script.
Written(c) == [i \in DOMAIN c.parts |->
                 IF c.json THEN ShellQuote(ThroughJSON(Replace(c.parts[i], c.vals, FALSE)))
                           ELSE Replace(c.parts[i], c.vals, TRUE)]

\* What went through JSON is a text.
LEMMA ThroughJSONType ==
    ASSUME NEW s \in Text
    PROVE  ThroughJSON(s) \in Text
<1> "U+FFFD" \in Symbol
  BY TextAssumption
<1> QED BY DEF ThroughJSON, Text

\* The fields of a command.
LEMMA CommandType ==
    ASSUME NEW c \in Command
    PROVE  /\ c.vals \in Vals /\ c.path \in Text /\ c.path # <<>> /\ c.json \in BOOLEAN
           /\ c.parts \in Seq(Text)
           /\ ~ c.json => /\ c.parts # <<>>
                          /\ \A i \in 1 .. Len(c.parts) : c.parts[i] \in ShellParts
<1>1. \A S : BoundedSeq(S, MaxParts) \subseteq Seq(S)
  BY TextAssumption DEF BoundedSeq, SeqOf
<1>2. JSONParts \subseteq Text /\ ShellParts \subseteq Text /\ Paths \subseteq Text \ {<<>>}
  BY TextAssumption DEF Text
<1>3. c.vals \in Vals /\ c.path \in Paths /\ c.json \in BOOLEAN
  BY DEF Command
<1>4. c.json => c.parts \in Seq(JSONParts)
  BY <1>1 DEF Command
<1>5. ~ c.json => c.parts \in Seq(ShellParts) /\ c.parts # <<>>
  BY <1>1 DEF Command
<1>6. c.parts \in Seq(Text)
  BY <1>2, <1>3, <1>4, <1>5
<1>7. ~ c.json => \A i \in 1 .. Len(c.parts) : c.parts[i] \in ShellParts
  BY <1>5
<1> QED BY <1>2, <1>3, <1>5, <1>6, <1>7

\* What is written is read as what was meant.
LEMMA WrittenIsSpelled ==
    ASSUME NEW c \in Command
    PROVE  /\ Spelled(Written(c), Values(c)) /\ Len(Values(c)) = Len(c.parts)
           /\ ~ c.json => Values(c) # <<>> /\ Values(c)[1] # <<"exec">>
<1> DEFINE n == Len(c.parts)
           v(i) == IF c.json THEN ThroughJSON(Replace(c.parts[i], c.vals, FALSE))
                             ELSE Replace(c.parts[i], c.vals, FALSE)
           w(i) == IF c.json THEN ShellQuote(ThroughJSON(Replace(c.parts[i], c.vals, FALSE)))
                             ELSE Replace(c.parts[i], c.vals, TRUE)
<1>1. /\ c.vals \in Vals /\ c.json \in BOOLEAN /\ n \in Nat /\ DOMAIN c.parts = 1 .. n
      /\ \A i \in 1 .. n : c.parts[i] \in Text
  BY CommandType
<1>2. ASSUME NEW i \in 1 .. n PROVE ReadsAs(w(i), v(i))
  <2> DEFINE p == c.parts[i]
             r == Replace(p, c.vals, FALSE)
  <2>1. p \in Text /\ r \in Text
    BY <1>1, ReplaceIs
  <2>2. CASE c.json
    <3> HIDE DEF p, r
    <3>1. ThroughJSON(r) \in Text
      BY <2>1, ThroughJSONType
    <3>2. ReadsAs(ShellQuote(ThroughJSON(r)), ThroughJSON(r))
      BY <3>1, QuotedReadsAs
    <3> QED BY <2>2, <3>2 DEF p, r
  <2>3. CASE ~ c.json
    <3>1. p \in ShellParts
      BY <2>3, CommandType
    <3>2. p \in Seq(Plain) /\ p # <<>>
      BY <3>1, TextAssumption DEF Plain
    <3> HIDE DEF p, r
    <3>3. ReadsAs(Replace(p, c.vals, TRUE), r)
      BY <1>1, <3>2, PartReadsAs DEF r
    <3> QED BY <2>3, <3>3 DEF p, r
  <2> QED BY <1>1, <2>2, <2>3
<1>3. \A i \in 1 .. n : w(i) \in Text /\ v(i) \in Text
  BY <1>2 DEF ReadsAs
<1>4. Written(c) = [i \in 1 .. n |-> w(i)] /\ Values(c) = [i \in 1 .. n |-> v(i)]
  BY <1>1 DEF Written, Values
<1>5. ~ c.json => n # 0 /\ v(1) # <<"exec">>
  <2> SUFFICES ASSUME ~ c.json PROVE n # 0 /\ v(1) # <<"exec">>
    OBVIOUS
  <2>1. n # 0 /\ c.parts[1] \in ShellParts
    <3> c.parts # <<>> /\ c.parts \in Seq(Text)
      BY CommandType
    <3> n # 0
      BY EmptySeq
    <3> QED BY <1>1, CommandType
  <2>2. Replace(c.parts[1], c.vals, FALSE) # <<"exec">>
    <3>1. Filled(c.parts[1], c.vals) # <<"exec">>
      BY <1>1, <2>1, TextAssumption
    <3>2. c.parts[1] \in Text
      BY <2>1, TextAssumption DEF Text
    <3> QED BY <1>1, <3>1, <3>2, FilledIs
  <2> QED BY <2>1, <2>2
<1> HIDE DEF n, v, w
<1>6. /\ Written(c) \in Seq(Text) /\ Len(Written(c)) = n
      /\ Values(c) \in Seq(Text) /\ Len(Values(c)) = n
      /\ \A i \in 1 .. n : Written(c)[i] = w(i) /\ Values(c)[i] = v(i)
  BY <1>1, <1>3, <1>4
<1>7. Spelled(Written(c), Values(c))
  BY <1>2, <1>6 DEF Spelled
<1>8. ~ c.json => Values(c) # <<>> /\ Values(c)[1] # <<"exec">>
  <2> SUFFICES ASSUME ~ c.json PROVE Values(c) # <<>> /\ Values(c)[1] # <<"exec">>
    OBVIOUS
  <2>1. n # 0 /\ 1 \in 1 .. n
    BY <1>1, <1>5
  <2> QED BY <1>5, <1>6, <2>1
<1> QED BY <1>6, <1>7, <1>8 DEF n

\* A text without a byte that is not UTF-8 comes through JSON as it is.
LEMMA JSONKeeps ==
    ASSUME NEW s \in Text, BadByte \notin Range(s)
    PROVE  ThroughJSON(s) = s
<1>1. \A i \in DOMAIN s : s[i] # BadByte
  BY DEF Range
<1>2. s = [i \in DOMAIN s |-> s[i]]
  BY DEF Text
<1> QED BY <1>1, <1>2 DEF ThroughJSON

\* The words that are sent are those the documents mean, when JSON can hold them.
LEMMA ValuesAreFilled ==
    ASSUME NEW c \in Command, FitsJSON(c)
    PROVE  Values(c) = [i \in DOMAIN c.parts |-> Filled(c.parts[i], c.vals)]
<1>1. ASSUME NEW i \in DOMAIN c.parts
      PROVE  Filled(c.parts[i], c.vals) =
               IF c.json THEN ThroughJSON(Replace(c.parts[i], c.vals, FALSE))
                         ELSE Replace(c.parts[i], c.vals, FALSE)
  <2> DEFINE r == Replace(c.parts[i], c.vals, FALSE)
  <2>1. c.parts[i] \in Text /\ c.vals \in Vals /\ c.parts[i] \in Range(c.parts)
    BY CommandType DEF Range
  <2>2. r \in Text /\ Filled(c.parts[i], c.vals) = r
    BY <2>1, ReplaceIs, FilledIs
  <2>3. c.json => BadByte \notin Range(r)
    BY <2>1, <2>2 DEF FitsJSON
  <2> HIDE DEF r
  <2>4. c.json => ThroughJSON(r) = r
    BY <2>2, <2>3, JSONKeeps
  <2> QED BY <2>2, <2>4 DEF r
<1> QED BY <1>1 DEF Values

\* What Send makes of a command.
Outcome(c) ==
    LET expanded == Expand(c)
        remote == BuildRemoteCommand(c.path, expanded)
    IN  IF expanded.error \/ remote.error THEN Error ELSE Run(remote.text)

\* Send sends what the operator meant: Expand, BuildRemoteCommand and the two
\* shells together.
LEMMA OutcomeMeant ==
    ASSUME NEW c \in Command, NamesMatched(c), FitsJSON(c)
    PROVE  Outcome(c) = Meant(c)
<1> DEFINE unknown == \E part \in Range(c.parts) : Mentions(part, Unknown)
           e == Expand(c)
           vs == Values(c)
           ts == Written(c)
           inner == RemoteInner(c.path, e)
           remote == BuildRemoteCommand(c.path, e)
<1>1. CASE unknown
  <2>1. e.error
    BY <1>1 DEF Expand, Error
  <2>2. Meant(c) = Error
    BY <1>1 DEF Meant, HasUnknown, Mentions
  <2> QED BY <2>1, <2>2 DEF Outcome
<1>2. CASE ~ unknown
  <2>1. /\ e = [error |-> FALSE, json |-> c.json,
                parts |-> [i \in DOMAIN c.parts |->
                             IF c.json THEN ThroughJSON(Replace(c.parts[i], c.vals, FALSE))
                                       ELSE Replace(c.parts[i], c.vals, TRUE)]]
    BY <1>2, Zenon DEF Expand
  <2>2. /\ ~ e.error /\ e.json = c.json
        /\ c.json => e.parts = vs /\ [i \in DOMAIN e.parts |-> ShellQuote(e.parts[i])] = ts
        /\ ~ c.json => e.parts = ts
    <3> HIDE DEF e
    <3> QED BY <2>1 DEF Values, Written
  <2>3. /\ c.path \in Text /\ c.path # <<>> /\ c.json \in BOOLEAN /\ c.parts \in Seq(Text)
    BY CommandType
  <2>4. /\ Spelled(ts, vs) /\ Len(vs) = Len(c.parts) /\ ts \in Seq(Text) /\ vs \in Seq(Text)
        /\ Len(ts) = Len(vs)
        /\ ~ c.json => vs # <<>> /\ vs[1] # <<"exec">>
    BY WrittenIsSpelled DEF Spelled
  <2> HIDE DEF unknown, e, vs, ts
  <2>5. CASE c.parts = <<>>
    <3>1. Meant(c) = Error
      BY <2>5 DEF Meant
    <3>2. vs = <<>> /\ c.json
      BY <2>3, <2>4, <2>5, EmptySeq
    <3>3. remote = Error
      BY <2>2, <3>2 DEF BuildRemoteCommand
    <3> QED BY <3>1, <3>3 DEF Outcome, Error, e
  <2>6. CASE c.parts # <<>>
    <3>1. Meant(c) = Received(c.path, vs)
      <4>1. ~HasUnknown(c)
        BY <1>2 DEF HasUnknown, NamesMatched, Mentions, unknown
      <4>2. vs = [i \in DOMAIN c.parts |-> Filled(c.parts[i], c.vals)]
        BY ValuesAreFilled DEF vs
      <4> QED BY <2>6, <4>1, <4>2, Zenon DEF Meant
    <3>2. vs # <<>> /\ ts # <<>>
      BY <2>3, <2>4, <2>6, EmptySeq
    <3>3. /\ remote.error = FALSE
          /\ remote.text = Join(<<<<"bash">>, <<"-lc">>, ShellQuote(inner)>>)
      BY <2>2, <2>3, <3>2 DEF BuildRemoteCommand
    <3>4. Run(remote.text) = Received(c.path, vs)
      <4>1. vs \in Seq(Word)
        BY <2>4, TextsAreWords
      <4> DEFINE path == c.path
      <4>4. path \in Text /\ Spelled(ts, vs) /\ ts # <<>>
        BY <2>3, <2>4, <3>2
      <4> HIDE DEF path
      <4>5. /\ Cd(path) \o Join(ts) \in Text
            /\ Words(Cd(path) \o Join(ts)) = Before(path) \o vs
            /\ Cd(path) \o <<"exec", Blank>> \o Join(ts) \in Text
            /\ Words(Cd(path) \o <<"exec", Blank>> \o Join(ts))
                 = Before(path) \o (<<<<"exec">>>> \o vs)
        BY <4>4, ScriptWords
      <4>2. CASE c.json
        <5> DEFINE x == <<"exec">>
                   argv == <<x>> \o vs
        <5>1. inner = Cd(c.path) \o <<"exec", Blank>> \o Join(ts)
          BY <2>2, <4>2 DEF RemoteInner
        <5>2. inner \in Text /\ Words(inner) = Before(c.path) \o argv
          BY <4>5, <5>1 DEF path
        <5>3. x \in Word /\ <<x>> \in Seq(Word)
          <6> x \in Text
            BY TextAssumption, Single DEF Text
          <6> QED BY Single DEF Word
        <5> HIDE DEF x
        <5>4. argv \in Seq(Word) /\ argv # <<>> /\ Head(argv) = x /\ Tail(argv) = vs
          <6> DEFINE t == Tail(argv)
          <6>1. /\ argv \in Seq(Word) /\ Len(argv) = 1 + Len(vs) /\ Len(vs) \in Nat
                /\ argv[1] = x /\ \A i \in 1 .. Len(vs) : argv[i + 1] = vs[i]
            <7>1. /\ argv \in Seq(Word) /\ Len(argv) = 1 + Len(vs)
                  /\ \A i \in 1 .. 1 + Len(vs) :
                       argv[i] = IF i <= 1 THEN <<x>>[i] ELSE vs[i - 1]
              BY <4>1, <5>3, ConcatProperties
            <7>2. Len(vs) \in Nat /\ <<x>>[1] = x
              BY <4>1
            <7> HIDE DEF argv
            <7>3. argv[1] = x
              BY <7>1, <7>2
            <7>4. ASSUME NEW i \in 1 .. Len(vs) PROVE argv[i + 1] = vs[i]
              <8> i + 1 \in 1 .. 1 + Len(vs) /\ ~ (i + 1 <= 1) /\ (i + 1) - 1 = i
                BY <7>2
              <8> QED BY <7>1
            <7> QED BY <7>1, <7>2, <7>3, <7>4
          <6> HIDE DEF argv
          <6>2. argv # <<>> /\ Head(argv) = x
            BY <6>1
          <6>3. /\ t \in Seq(Word) /\ Len(t) = Len(argv) - 1
                /\ \A i \in 1 .. Len(t) : t[i] = argv[i + 1]
            BY <6>1, <6>2, HeadTailProperties
          <6> HIDE DEF t
          <6>4. t = vs
            <7> Len(t) = Len(vs) /\ \A i \in 1 .. Len(t) : t[i] = vs[i]
              BY <6>1, <6>3
            <7> QED BY <4>1, <6>3, SeqEqual
          <6> QED BY <6>1, <6>2, <6>4 DEF t
        <5> HIDE DEF inner, argv
        <5>5. Run(Join(<<<<"bash">>, <<"-lc">>, ShellQuote(inner)>>))
                = Received(c.path, IF Head(argv) = <<"exec">> THEN Tail(argv) ELSE argv)
          BY <2>3, <5>2, <5>4, RunIs
        <5> QED BY <3>3, <5>4, <5>5 DEF x
      <4>3. CASE ~ c.json
        <5>1. inner = Cd(c.path) \o Join(ts)
          BY <2>2, <4>3 DEF RemoteInner
        <5>2. inner \in Text /\ Words(inner) = Before(c.path) \o vs
          BY <4>5, <5>1 DEF path
        <5>3. Head(vs) # <<"exec">>
          BY <2>4, <4>3
        <5> HIDE DEF inner
        <5>4. Run(Join(<<<<"bash">>, <<"-lc">>, ShellQuote(inner)>>))
                = Received(c.path, IF Head(vs) = <<"exec">> THEN Tail(vs) ELSE vs)
          BY <2>3, <3>2, <4>1, <5>2, RunIs
        <5> QED BY <3>3, <5>3, <5>4
      <4> QED BY <2>3, <4>2, <4>3
    <3> QED BY <2>2, <3>1, <3>3, <3>4 DEF Outcome, e
  <2> QED BY <2>5, <2>6
<1> QED BY <1>1, <1>2

\* So sending keeps the property.
LEMMA SendKeepsMeaning ==
    ASSUME command \in Command, ArrivesAsMeant, Send
    PROVE  ArrivesAsMeant'
<1>1. sent' = Outcome(command) /\ command' = command
  BY Zenon DEF Send, Outcome
<1>2. NamesMatched(command) /\ FitsJSON(command) => sent' = Meant(command)
  BY <1>1, OutcomeMeant
<1> QED BY <1>1, <1>2 DEF ArrivesAsMeant

-----------------------------------------------------------------------------
(* The two together.                                                         *)

\* Before it is sent, the command is one the program can have; afterwards the
\* worker host has what was meant.
TextInv ==
    /\ command # Unsent => command \in Command
    /\ ArrivesAsMeant

\* The invariant of both halves,
Inv == TimeInv /\ TextInv

\* which holds at the start: either half begins as it would alone,
LEMMA InvInit == Init => Inv
<1> SUFFICES ASSUME Init PROVE Inv
  OBVIOUS
<1>1. TimeInv
  BY TimeInvInit DEF Init
<1>2. TextInv
  BY DEF Init, CommandInit, TextInv, ArrivesAsMeant
<1> QED BY <1>1, <1>2 DEF Inv

\* and which every step keeps: a step of one half leaves the other alone.
LEMMA InvNext == Inv /\ [Next]_vars => Inv'
<1> SUFFICES ASSUME Inv, [Next]_vars PROVE Inv'
  OBVIOUS
<1>1. ASSUME UNCHANGED commandVars PROVE TextInv'
  BY <1>1 DEF Inv, TextInv, ArrivesAsMeant, commandVars
<1>2. ASSUME UNCHANGED timeVars PROVE TimeInv'
  BY <1>2 DEF Inv, TimeInv, TimeTypeOK, TextIsPromise, TextIsStart, RunHasProject, timeVars
<1>3. CASE command = Unsent /\ TimeNext /\ UNCHANGED commandVars
  <2>1. TimeInv'
    BY <1>3, TimeInvNext DEF Inv
  <2> QED BY <1>1, <1>3, <2>1 DEF Inv
<1>4. CASE command # Unsent /\ Send /\ UNCHANGED timeVars
  <2>1. ArrivesAsMeant'
    BY <1>4, SendKeepsMeaning DEF Inv, TextInv
  <2>2. TextInv'
    BY <1>4, <2>1 DEF Inv, TextInv, Send
  <2> QED BY <1>2, <1>4, <2>2 DEF Inv
<1>5. CASE UNCHANGED vars
  BY <1>1, <1>2, <1>5 DEF Inv, vars
<1> QED BY <1>3, <1>4, <1>5 DEF Next

\* The times in memory and in the database have their types, and what a row
\* holds is the text of the time that was promised or at which a run started.
THEOREM InvHolds == Spec => []Inv
<1> QED BY InvInit, InvNext, PTL DEF Spec

\* Whatever the digits, the clock and the intervals: a task whose interval fits
\* a duration is never listed as due a whole second before its time, and is
\* listed when a second has passed since (ListDueTasks, nowISO).
THEOREM DueIsToTheSecond == Spec => []DueToTheSecond
<1>1. Inv => DueToTheSecond
  BY InvDueToTheSecond DEF Inv
<1> QED BY <1>1, InvHolds, PTL

\* A task that starts is not a whole second younger than another one that waits
\* (ListDueTasks' ORDER BY next_run_at, which compares texts).
THEOREM OldestIsFirst == Spec => OldestStartsFirst
<1> DEFINE A == \A t, u \in Tasks :
                  /\ runs # runs' /\ Len(runs') > Len(runs) /\ runs'[Len(runs')].task = t
                  /\ dueAt[t] # Null /\ dueAt[u] # Null
                  /\ Fits(interval[t]) /\ Fits(interval[u])
                  => dueAt[t] < dueAt[u] + PerSecond
<1>1. ASSUME Inv, [Next]_vars PROVE [A]_timeVars
  <2>1. CASE command = Unsent /\ TimeNext /\ UNCHANGED commandVars
    BY <1>1, <2>1, OldestStartsFirstNext DEF Inv
  <2>2. CASE UNCHANGED timeVars
    BY <2>2
  <2> QED BY <1>1, <2>1, <2>2 DEF Next, vars
<1>2. Spec => [][A]_timeVars
  BY <1>1, InvHolds, PTL DEF Spec
<1> QED BY <1>2 DEF OldestStartsFirst

\* The run list and the newest run of a task are right to the second, for any
\* number of runs (ListRuns, LatestRunForTask).
THEOREM NewestIsFirst == Spec => []NewestListedFirst
<1>1. Inv => NewestListedFirst
  BY InvNewestListedFirst DEF Inv
<1> QED BY <1>1, InvHolds, PTL

\* Whatever the values, the path, the parts and their number: the process on the
\* worker host gets the words the documents promise, in the project's directory,
\* unless the command has a name in braces that Expand does not see, or an array
\* is to hold a byte that JSON cannot.
THEOREM CommandsArrive == Spec => []ArrivesAsMeant
<1>1. Inv => ArrivesAsMeant
  BY DEF Inv, TextInv
<1> QED BY <1>1, InvHolds, PTL

=============================================================================
