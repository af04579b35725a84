----------------------------- MODULE BencodeProofs -----------------------------
(***************************************************************************)
(* Proofs about Bencode, for texts of any length and numbers of any limit: *)
(* the parser reads exactly what the grammar says, and what its callers    *)
(* make of an error does no harm.  The parser and the grammar are          *)
(* recursive functions: that they satisfy their recursion, and what        *)
(* follows from it, is shown by induction over positions.                  *)
(***************************************************************************)
EXTENDS Bencode, WellFoundedInduction, SequenceTheorems, TLAPS

------------------------------------------------------------------------------
(* Induction, in a form that takes a set instead of a predicate *)

Lower == {ss \in Nat \X Nat : ss[1] < ss[2]}

\* A set of naturals has a least element.
LEMMA Least ==
    ASSUME NEW T, T \subseteq Nat, T # {}
    PROVE  \E m \in T : \A n \in T : m <= n
<1>1. IsWellFoundedOn(Lower, Nat)
  BY NatLessThanWellFounded DEF OpToRel, Lower
<1>2. PICK m \in T : \A n \in T : ~(<<n, m>> \in Lower)
  BY <1>1, WFMin
<1>3. ASSUME NEW n \in T, ~(m <= n) PROVE FALSE
  <2>1. <<n, m>> \in Lower
    BY <1>3 DEF Lower
  <2>. QED
    BY <1>2, <2>1
<1>. QED
  BY <1>3

LEMMA SetInduction ==
    ASSUME NEW S, \A k \in Nat : (\A j \in 0 .. k - 1 : j \in S) => k \in S
    PROVE  \A k \in Nat : k \in S
<1>. DEFINE Others == Nat \ S
<1>1. SUFFICES ASSUME Others # {} PROVE FALSE
  OBVIOUS
<1>. HIDE DEF Others
<1>2. PICK m \in Others : \A n \in Others : m <= n
  BY <1>1, Least DEF Others
<1>3. m \in Nat
  BY DEF Others
<1>4. ASSUME NEW j \in 0 .. m - 1 PROVE j \in S
  BY <1>2, <1>3 DEF Others
<1>. QED
  BY <1>3, <1>4 DEF Others

\* From the end of a text to its beginning.
LEMMA Downward ==
    ASSUME NEW n \in Nat, NEW S,
           \A p \in 0 .. n : (\A q \in p + 1 .. n : q \in S) => p \in S
    PROVE  \A p \in 0 .. n : p \in S
<1>. DEFINE Passed == {k \in Nat : k <= n => n - k \in S}
<1>1. ASSUME NEW k \in Nat, \A j \in 0 .. k - 1 : j \in Passed PROVE k \in Passed
  <2>1. SUFFICES ASSUME k <= n PROVE n - k \in S
    OBVIOUS
  <2>2. ASSUME NEW q \in n - k + 1 .. n PROVE q \in S
    <3>1. n - q \in 0 .. k - 1 /\ n - q <= n /\ n - (n - q) = q
      BY <2>1
    <3>. QED
      BY <1>1, <3>1
  <2>3. n - k \in 0 .. n
    BY <2>1
  <2>. QED
    BY <2>2, <2>3
<1>2. \A k \in Nat : k \in Passed
  <2>. HIDE DEF Passed
  <2>. QED
    BY <1>1, SetInduction
<1>3. ASSUME NEW p \in 0 .. n PROVE p \in S
  <2>1. n - p \in Nat /\ n - p <= n /\ n - (n - p) = p
    OBVIOUS
  <2>. QED
    BY <1>2, <2>1
<1>. QED
  BY <1>3

------------------------------------------------------------------------------
(* Characters and numbers *)

LEMMA Characters ==
    ASSUME NEW t \in Seq(Alphabet)
    PROVE  /\ Len(t) \in Nat
           /\ \A k \in 1 .. Len(t) : t[k] \in Alphabet
           /\ \A p \in 0 .. Len(t) - 1 : At(t, p) = t[p + 1] /\ At(t, p) \in Alphabet
           /\ At(t, Len(t)) = EOF /\ EOF \notin Alphabet
           /\ \A p \in 0 .. Len(t) : (At(t, p) = EOF) <=> p = Len(t)
<1>1. Len(t) \in Nat /\ \A k \in 1 .. Len(t) : t[k] \in Alphabet
  OBVIOUS
<1>2. EOF \notin Alphabet
  BY DEF EOF, Alphabet, Digits
<1>3. ASSUME NEW p \in 0 .. Len(t) - 1 PROVE At(t, p) = t[p + 1] /\ At(t, p) \in Alphabet
  BY <1>1 DEF At
<1>4. At(t, Len(t)) = EOF
  BY <1>1 DEF At
<1>5. ASSUME NEW p \in 0 .. Len(t) PROVE (At(t, p) = EOF) <=> p = Len(t)
  <2>1. p # Len(t) => p \in 0 .. Len(t) - 1
    BY <1>1
  <2>. QED
    BY <1>2, <1>3, <1>4, <2>1
<1>. QED
  BY <1>1, <1>2, <1>3, <1>4, <1>5

\* The digits from p on end at one place.
LEMMA EndIs ==
    ASSUME NEW t \in Seq(Alphabet), NEW p \in 0 .. Len(t)
    PROVE  /\ EndOfDigits(t, p) \in p .. Len(t)
           /\ At(t, EndOfDigits(t, p)) \notin Digits
           /\ \A q \in p .. EndOfDigits(t, p) - 1 : At(t, q) \in Digits
           /\ \A m \in p .. Len(t) :
                 (At(t, m) \notin Digits /\ \A q \in p .. m - 1 : At(t, q) \in Digits)
                     => m = EndOfDigits(t, p)
<1>. DEFINE T == {q \in p .. Len(t) : At(t, q) \notin Digits}
            e == EndOfDigits(t, p)
<1>1. Len(t) \in Nat /\ At(t, Len(t)) = EOF /\ EOF \notin Digits
  BY Characters DEF EOF, Digits
<1>2. Len(t) \in T /\ T \subseteq Nat
  BY <1>1
<1>3. e = CHOOSE x \in T : \A y \in T : x <= y
  BY DEF EndOfDigits, Min
<1>4. \E x \in T : \A y \in T : x <= y
  <2>. HIDE DEF T
  <2>. QED
    BY <1>2, Least
<1>5. e \in T /\ \A y \in T : e <= y
  <2>. HIDE DEF T, e
  <2>. QED
    BY <1>3, <1>4
<1>. HIDE DEF e
<1>6. e \in p .. Len(t) /\ At(t, e) \notin Digits
  BY <1>5
<1>7. ASSUME NEW q \in p .. e - 1 PROVE At(t, q) \in Digits
  <2>1. q \in p .. Len(t) /\ ~(e <= q)
    BY <1>1, <1>6
  <2>. QED
    BY <1>5, <2>1
<1>8. ASSUME NEW m \in p .. Len(t), At(t, m) \notin Digits,
             \A q \in p .. m - 1 : At(t, q) \in Digits
      PROVE  m = e
  <2>1. e <= m
    BY <1>5, <1>8
  <2>2. ~(e < m)
    BY <1>1, <1>6, <1>8
  <2>. QED
    BY <1>1, <1>6, <2>1, <2>2
<1>. QED
  BY <1>6, <1>7, <1>8 DEF e

LEMMA Digit == \A c \in Digits : DigitOf[c] \in Nat
  BY DEF Digits, DigitOf

\* The recursion of strtol has a solution, which is a natural number.
LEMMA StrtolNat ==
    ASSUME NEW t \in Seq(Alphabet), NEW a \in 0 .. Len(t), NEW b \in a .. Len(t),
           \A k \in a + 1 .. b : t[k] \in Digits
    PROVE  strtol(t, a, b) \in Nat
<1>. DEFINE Solves(g, n) ==
                g = [q \in a .. n |-> IF q = a THEN 0 ELSE 10 * g[q - 1] + DigitOf[t[q]]]
            Solved == {k \in Nat : \E g : Solves(g, a + k)}
            upTo == CHOOSE g : Solves(g, b)
<1>1. a \in Nat /\ b \in Nat /\ a <= b
  BY Characters
<1>2. ASSUME NEW k \in Nat, \A j \in 0 .. k - 1 : j \in Solved PROVE k \in Solved
  <2>1. CASE k = 0
    <3>. DEFINE g == [q \in a .. a |-> IF q = a THEN 0 ELSE 0]
    <3>1. \A q \in a .. a : q = a
      BY <1>1
    <3>2. \A q \in a .. a : g[q] = IF q = a THEN 0 ELSE 10 * g[q - 1] + DigitOf[t[q]]
      BY <3>1
    <3>3. Solves(g, a)
      BY <3>2
    <3>4. a + k = a
      BY <1>1, <2>1
    <3>5. \E h : Solves(h, a + k)
      <4>. HIDE DEF g, Solves
      <4>. QED
        BY <3>3, <3>4
    <3>. HIDE DEF Solves
    <3>. QED
      BY <3>5
  <2>2. CASE k # 0
    <3>1. k - 1 \in Solved
      <4>1. k - 1 \in 0 .. k - 1
        BY <2>2
      <4>. HIDE DEF Solved
      <4>. QED
        BY <1>2, <4>1
    <3>2. PICK g : Solves(g, a + (k - 1))
      BY <3>1
    <3>. DEFINE h == [q \in a .. a + k |-> IF q = a + k THEN 10 * g[a + k - 1] + DigitOf[t[a + k]]
                                           ELSE g[q]]
    <3>3. ASSUME NEW q \in a .. a + k
          PROVE  h[q] = IF q = a THEN 0 ELSE 10 * h[q - 1] + DigitOf[t[q]]
      BY <1>1, <2>2, <3>2
    <3>4. Solves(h, a + k)
      BY <3>3
    <3>. HIDE DEF h
    <3>. QED
      BY <3>4
  <2>. QED
    BY <2>1, <2>2
<1>3. b - a \in Solved
  <2>. HIDE DEF Solved
  <2>. QED
    BY <1>1, <1>2, SetInduction
<1>4. Solves(upTo, b)
  <2>1. a + (b - a) = b
    BY <1>1
  <2>. QED
    BY <1>3, <2>1
<1>5. strtol(t, a, b) = upTo[b]
  BY DEF strtol
<1>. HIDE DEF upTo
<1>6. ASSUME NEW q \in a .. b
      PROVE  upTo[q] = IF q = a THEN 0 ELSE 10 * upTo[q - 1] + DigitOf[t[q]]
  BY <1>4
<1>. DEFINE Natural == {k \in Nat : a + k <= b => upTo[a + k] \in Nat}
<1>7. ASSUME NEW k \in Nat, \A j \in 0 .. k - 1 : j \in Natural PROVE k \in Natural
  <2>1. SUFFICES ASSUME a + k <= b PROVE upTo[a + k] \in Nat
    OBVIOUS
  <2>2. a + k \in a .. b
    BY <1>1, <2>1
  <2>3. CASE k = 0
    BY <1>6, <2>2, <2>3
  <2>4. CASE k # 0
    <3>1. k - 1 \in Natural /\ a + (k - 1) <= b /\ (a + k) - 1 = a + (k - 1) /\ a + k # a
      BY <1>1, <1>7, <2>1, <2>4
    <3>2. upTo[(a + k) - 1] \in Nat
      BY <3>1
    <3>3. DigitOf[t[a + k]] \in Nat
      <4>1. a + k \in a + 1 .. b
        BY <1>1, <2>1, <2>4
      <4>. QED
        BY <4>1, Digit
    <3>4. upTo[a + k] = 10 * upTo[(a + k) - 1] + DigitOf[t[a + k]]
      BY <1>6, <2>2, <3>1
    <3>. QED
      BY <3>2, <3>3, <3>4
  <2>. QED
    BY <2>3, <2>4
<1>8. b - a \in Natural
  <2>. HIDE DEF Natural
  <2>. QED
    BY <1>1, <1>7, SetInduction
<1>9. upTo[b] \in Nat
  <2>1. a + (b - a) = b
    BY <1>1
  <2>. QED
    BY <1>8, <2>1
<1>. QED
  BY <1>5, <1>9

\* A number is read where the grammar has one, and as far as its digits go.
LEMMA NumberRead ==
    ASSUME NEW t \in Seq(Alphabet), NEW p \in 0 .. Len(t)
    PROVE  LET r == extractNumber(t, p)
           IN  \/ r = Result(Undefined, p, "error")
               \/ /\ r = Good(r.node, r.at)
                  /\ r.at \in p + 1 .. Len(t)
                  /\ At(t, r.at) \notin Digits
                  /\ r.node \in Numbers(t, p, r.at)
                  /\ At(t, p) \in Digits => r.node \in Nat
<1>. DEFINE sign == IF At(t, p) = "-" THEN 1 ELSE 0
            start == p + sign
            end == EndOfDigits(t, start)
            factor == IF sign = 1 THEN -1 ELSE 1
            number == factor * strtol(t, start, end)
<1>1. SUFFICES ASSUME ~TooLong(sign, end - start), end # start
               PROVE  /\ end \in p + 1 .. Len(t)
                      /\ At(t, end) \notin Digits
                      /\ number \in Numbers(t, p, end)
                      /\ At(t, p) \in Digits => number \in Nat
  <2>1. extractNumber(t, p) = IF TooLong(sign, end - start) \/ end = start
                              THEN Result(Undefined, p, "error") ELSE Good(number, end)
    BY DEF extractNumber
  <2>2. \A a, b : Good(a, b).node = a /\ Good(a, b).at = b
    BY DEF Good, Result
  <2>. HIDE DEF number, end, start, sign
  <2>. QED
    BY <2>1, <2>2
<1>2. Len(t) \in Nat /\ (p < Len(t) \/ sign = 0)
  BY Characters DEF EOF
<1>3. Len(t) \in Nat /\ start \in 0 .. Len(t) /\ sign \in {0, 1} /\ start = p + sign
  BY Characters, <1>2 DEF EOF
<1>4. /\ end \in start .. Len(t)
      /\ At(t, end) \notin Digits
      /\ \A q \in start .. end - 1 : At(t, q) \in Digits
  <2>. HIDE DEF start
  <2>. QED
    BY <1>3, EndIs
<1>. HIDE DEF end
<1>5. end \in p + 1 .. Len(t)
  BY <1>1, <1>3, <1>4
<1>6. ASSUME NEW k \in start + 1 .. end PROVE t[k] \in Digits
  <2>1. k - 1 \in start .. end - 1 /\ k - 1 \in 0 .. Len(t) - 1 /\ (k - 1) + 1 = k
    BY <1>3, <1>4
  <2>. QED
    BY <1>4, <2>1, Characters
<1>7. strtol(t, start, end) \in Nat
  <2>. HIDE DEF start
  <2>. QED
    BY <1>3, <1>4, <1>6, StrtolNat
<1>8. (IF p < end /\ t[p + 1] = "-" THEN 1 ELSE 0) = sign
  <2>1. p < end /\ p \in 0 .. Len(t) - 1
    BY <1>3, <1>5
  <2>. QED
    BY <2>1, Characters
<1>9. number \in Numbers(t, p, end)
  <2>1. p + sign < end /\ end - p <= DIGITS_IN_LONG
    BY <1>1, <1>3, <1>4, BencodeAssumption DEF TooLong
  <2>2. number = (1 - 2 * sign) * strtol(t, p + sign, end)
    BY <1>3
  <2>3. Numbers(t, p, end) = {(1 - 2 * sign) * strtol(t, p + sign, end)}
    <3>. HIDE DEF sign
    <3>. QED
      BY <1>3, <1>6, <1>8, <2>1 DEF Numbers
  <2>. QED
    BY <2>2, <2>3
<1>10. At(t, p) \in Digits => number \in Nat
  <2>1. At(t, p) \in Digits => factor = 1
    BY DEF Digits
  <2>. QED
    BY <1>7, <2>1
<1>. QED
  BY <1>4, <1>5, <1>9, <1>10

LEMMA NumberIsRead ==
    ASSUME NEW t \in Seq(Alphabet), NEW p \in 0 .. Len(t), NEW m \in 0 .. Len(t),
           NEW number \in Numbers(t, p, m), At(t, m) \notin Digits
    PROVE  extractNumber(t, p) = Good(number, m) /\ p < m
<1>. DEFINE sign == IF At(t, p) = "-" THEN 1 ELSE 0
            start == p + sign
            end == EndOfDigits(t, start)
            shown == IF p < m /\ t[p + 1] = "-" THEN 1 ELSE 0
<1>1. Len(t) \in Nat
  BY Characters
<1>2. /\ p + shown < m /\ m - p <= DIGITS_IN_LONG
      /\ \A k \in p + shown + 1 .. m : t[k] \in Digits
      /\ number = (1 - 2 * shown) * strtol(t, p + shown, m)
  BY DEF Numbers
<1>3. p < m
  BY <1>2
<1>4. shown = sign
  <2>1. p \in 0 .. Len(t) - 1
    BY <1>1, <1>3
  <2>. QED
    BY <1>3, <2>1, Characters
<1>5. sign \in {0, 1}
  OBVIOUS
<1>. HIDE DEF shown, sign
<1>6. start \in 0 .. Len(t) /\ m \in start .. Len(t) /\ end = EndOfDigits(t, start) /\ start < m
  BY <1>1, <1>2, <1>4, <1>5
<1>7. ASSUME NEW q \in start .. m - 1 PROVE At(t, q) \in Digits
  <2>1. q + 1 \in p + shown + 1 .. m /\ q \in 0 .. Len(t) - 1
    BY <1>1, <1>4, <1>5, <1>6
  <2>. QED
    BY <1>2, <2>1, Characters
<1>8. end = m
  <2>. HIDE DEF start, end
  <2>. QED
    BY <1>6, <1>7, EndIs
<1>9. ~TooLong(sign, end - start) /\ end # start
  BY <1>1, <1>2, <1>5, <1>6, <1>8, BencodeAssumption DEF TooLong
<1>10. (IF sign = 1 THEN -1 ELSE 1) * strtol(t, start, end) = number
  BY <1>2, <1>4, <1>5, <1>8
<1>11. extractNumber(t, p) = Good((IF sign = 1 THEN -1 ELSE 1) * strtol(t, start, end), end)
  <2>1. extractNumber(t, p) = IF TooLong(sign, end - start) \/ end = start
                              THEN Result(Undefined, p, "error")
                              ELSE Good((IF sign = 1 THEN -1 ELSE 1) * strtol(t, start, end), end)
    BY DEF extractNumber, sign
  <2>. QED
    BY <1>9, <2>1
<1>. QED
  BY <1>3, <1>8, <1>10, <1>11

\* What the parts of a result and of a node are.
LEMMA Fields ==
    /\ \A node, at, status : /\ Result(node, at, status).node = node
                             /\ Result(node, at, status).at = at
                             /\ Result(node, at, status).status = status
    /\ \A node, at : /\ Good(node, at).node = node
                     /\ Good(node, at).at = at
                     /\ Good(node, at).status = "good"
    /\ \A at : Bad(at).node = NULL /\ Bad(at).at = at /\ Bad(at).status = "error"
    /\ \A type, value : Node(type, value).type = type /\ Node(type, value).value = value
    /\ \A node, a, b : /\ Placed(node, a, b).type = node.type
                       /\ Placed(node, a, b).value = node.value
                       /\ Placed(node, a, b).start = a
                       /\ Placed(node, a, b).end = b
    /\ NULL.type = "NULL"
  BY DEF Result, Good, Bad, Node, Placed, NULL

LEMMA PartsOf ==
    \A r, node, at, status :
        r = Result(node, at, status) => r.node = node /\ r.at = at /\ r.status = status
  BY DEF Result

\* A string is read where the grammar has one, and up to the same place.
LEMMA StringRead ==
    ASSUME NEW t \in Seq(Alphabet), NEW p \in 0 .. Len(t), At(t, p) \in Digits
    PROVE  LET r == parseString(t, p)
           IN  \/ r = Bad(r.at)
               \/ /\ r = Good(Node("str", r.node.value), r.at)
                  /\ r.at \in p + 1 .. Len(t)
                  /\ r.node.value \in StringsIn(t, p, r.at)
<1>. DEFINE length == extractNumber(t, p)
            m == length.at
            b == m + 1 + length.node
            string == SubSeq(t, (m + 1) + 1, b)
<1>1. parseString(t, p) = IF length.status = "error" \/ At(t, m) # ":" THEN Bad(p)
                          ELSE IF b > Len(t) THEN Bad(Len(t)) ELSE Good(Node("str", string), b)
  BY DEF parseString
<1>2. CASE length.status = "error" \/ At(t, m) # ":" \/ b > Len(t)
  <2>1. parseString(t, p) = Bad(p) \/ parseString(t, p) = Bad(Len(t))
    BY <1>1, <1>2
  <2>. QED
    BY <2>1, Fields
<1>3. CASE length.status # "error" /\ At(t, m) = ":" /\ ~(b > Len(t))
  <2>1. /\ m \in p + 1 .. Len(t)
        /\ length.node \in Numbers(t, p, m)
        /\ length.node \in Nat
    <3>1. length # Result(Undefined, p, "error")
      BY <1>3, Fields
    <3>. QED
      BY <3>1, NumberRead
  <2>2. Len(t) \in Nat /\ p < Len(t) /\ m < Len(t) /\ t[p + 1] \in Digits /\ t[m + 1] = ":"
    <3>1. p # Len(t) /\ m # Len(t)
      BY <1>3, Characters DEF EOF, Digits
    <3>2. Len(t) \in Nat /\ p \in 0 .. Len(t) - 1 /\ m \in 0 .. Len(t) - 1
      BY <2>1, <3>1, Characters
    <3>3. At(t, p) = t[p + 1] /\ At(t, m) = t[m + 1]
      BY <3>2, Characters
    <3>. QED
      BY <1>3, <3>2, <3>3
  <2>3. b \in p + 1 .. Len(t) /\ m \in p + 1 .. b - 1 /\ b - m - 1 = length.node /\ (m + 1) + 1 = m + 2
    <3>1. b <= Len(t)
      <4>1. b \in Int
        BY <2>1
      <4>2. ~(b > Len(t))
        BY <1>3
      <4>. HIDE DEF b
      <4>. QED
        BY <2>2, <4>1, <4>2
    <3>. DEFINE n == length.node
    <3>2. b = m + 1 + n /\ n \in Nat /\ m \in p + 1 .. Len(t)
      BY <2>1
    <3>3. Len(t) \in Nat /\ m < Len(t) /\ p \in Nat
      BY <2>2
    <3>. HIDE DEF m, b, n
    <3>4. b \in p + 1 .. Len(t) /\ m \in p + 1 .. b - 1 /\ b - m - 1 = n /\ (m + 1) + 1 = m + 2
      BY <3>1, <3>2, <3>3
    <3>. QED
      BY <3>4 DEF n
  <2>4. string \in StringsIn(t, p, b)
    <3>. HIDE DEF m, b
    <3>. QED
      BY <2>1, <2>2, <2>3 DEF StringsIn
  <2>5. parseString(t, p) = Good(Node("str", string), b)
    <3>. HIDE DEF m, b, string
    <3>. QED
      BY <1>1, <1>3
  <2>. QED
    <3>. HIDE DEF m, b, string
    <3>. QED
      BY <2>3, <2>4, <2>5, Fields
<1>. QED
  BY <1>2, <1>3

LEMMA StringIsRead ==
    ASSUME NEW t \in Seq(Alphabet), NEW p \in 0 .. Len(t), NEW b \in 0 .. Len(t),
           NEW string \in StringsIn(t, p, b)
    PROVE  /\ parseString(t, p) = Good(Node("str", string), b)
           /\ p < b
           /\ At(t, p) \in Digits
<1>1. PICK m \in p + 1 .. b - 1 : /\ t[p + 1] \in Digits /\ t[m + 1] = ":"
                                  /\ b - m - 1 \in Numbers(t, p, m)
                                  /\ string = SubSeq(t, m + 2, b)
  BY DEF StringsIn
<1>2. Len(t) \in Nat /\ p \in 0 .. Len(t) - 1 /\ m \in 0 .. Len(t) - 1 /\ m \in 0 .. Len(t)
  BY Characters, <1>1
<1>3. At(t, p) \in Digits /\ At(t, m) = ":"
  BY <1>1, <1>2, Characters
<1>4. extractNumber(t, p) = Good(b - m - 1, m)
  <2>1. At(t, m) \notin Digits
    BY <1>3 DEF Digits
  <2>. QED
    BY <1>1, <1>2, <2>1, NumberIsRead
<1>5. (m + 1) + (b - m - 1) = b /\ ~(b > Len(t)) /\ (m + 1) + 1 = m + 2
  BY <1>1, <1>2
<1>6. parseString(t, p) = Good(Node("str", string), b)
  BY <1>1, <1>3, <1>4, <1>5, Fields DEF parseString
<1>. QED
  BY <1>1, <1>2, <1>3, <1>6

\* An integer is read where the grammar has one, and up to the same place.
LEMMA IntRead ==
    ASSUME NEW t \in Seq(Alphabet), NEW p \in 0 .. Len(t), At(t, p) = "i"
    PROVE  LET r == parseInt(t, p)
           IN  /\ r = Result(Node("int", r.node.value), r.at, r.status)
               /\ r.status \in {"good", "error"}
               /\ r.status = "good" =>
                     /\ r.at \in p + 2 .. Len(t)
                     /\ t[r.at] = "e"
                     /\ r.node.value \in Numbers(t, p + 1, r.at - 1)
<1>. DEFINE number == extractNumber(t, p + 1)
            m == number.at
<1>1. p + 1 \in 0 .. Len(t) /\ Len(t) \in Nat
  BY Characters DEF EOF
<1>2. CASE number.status = "good" /\ At(t, m) = "e"
  <2>1. m \in p + 1 + 1 .. Len(t) /\ number.node \in Numbers(t, p + 1, m)
    <3>1. number # Result(Undefined, p + 1, "error")
      BY <1>2, Fields
    <3>. QED
      BY <1>1, <3>1, NumberRead
  <2>2. m \in 0 .. Len(t) - 1 /\ t[m + 1] = "e"
    <3>1. m # Len(t)
      BY <1>2, Characters DEF EOF
    <3>2. m \in 0 .. Len(t) - 1
      BY <1>1, <2>1, <3>1
    <3>. QED
      BY <1>2, <3>2, Characters
  <2>3. m + 1 \in p + 2 .. Len(t) /\ (m + 1) - 1 = m
    BY <1>1, <2>1, <2>2
  <2>4. parseInt(t, p) = Good(Node("int", number.node), m + 1)
    BY <1>2 DEF parseInt
  <2>. QED
    <3>. HIDE DEF number, m
    <3>. QED
      BY <2>1, <2>2, <2>3, <2>4, Fields DEF Good
<1>3. CASE ~(number.status = "good" /\ At(t, m) = "e")
  <2>1. parseInt(t, p) = Result(Node("int", number.node), m, "error")
    BY <1>3 DEF parseInt
  <2>. QED
    BY <2>1, Fields
<1>. QED
  BY <1>2, <1>3

LEMMA IntIsRead ==
    ASSUME NEW t \in Seq(Alphabet), NEW p \in 0 .. Len(t), NEW b \in p + 2 .. Len(t), t[b] = "e",
           NEW number \in Numbers(t, p + 1, b - 1)
    PROVE  parseInt(t, p) = Good(Node("int", number), b)
<1>1. /\ Len(t) \in Nat /\ p + 1 \in 0 .. Len(t)
      /\ b - 1 \in 0 .. Len(t) - 1 /\ b - 1 \in 0 .. Len(t) /\ (b - 1) + 1 = b
  BY Characters
<1>2. At(t, b - 1) = "e"
  BY <1>1, Characters
<1>3. extractNumber(t, p + 1) = Good(number, b - 1)
  <2>1. At(t, b - 1) \notin Digits
    BY <1>2 DEF Digits
  <2>. QED
    BY <1>1, <2>1, NumberIsRead
<1>. QED
  BY <1>1, <1>2, <1>3, Fields DEF parseInt

------------------------------------------------------------------------------
(* The loops: what they come to at a position depends on later positions only, *)
(* so their recursion has a solution                                           *)

Kinds == {"list", "dict"}

Shaped(t, p, kind, r) ==
    /\ r = Result(r.node, r.at, r.status)
    /\ r.status \in {"good", "error", "never returns"}
    /\ r.node = NULL \/ r.node = Node(kind, r.node.value)
    /\ r.status = "good" => r.node # NULL /\ r.at \in p + 1 .. Len(t)

ValueShaped(t, p, x) ==
    /\ x = Result(x.node, x.at, x.status)
    /\ x.status \in {"good", "error", "never returns"}
    /\ x.status = "good" => \/ x.node = NULL /\ x.at = p
                            \/ x.node # NULL /\ x.at \in p + 1 .. Len(t)

ShapedBeyond(t, p, f) ==
    \A q \in p + 1 .. Len(t), kind \in Kinds : Shaped(t, q, kind, f[<<kind, q>>])

SameBeyond(t, p, f, g) ==
    \A q \in p + 1 .. Len(t), kind \in Kinds : f[<<kind, q>>] = g[<<kind, q>>]

\* What parseCollectionValue makes of each character.
LEMMA ValueIs ==
    ASSUME NEW t, NEW p, NEW f
    PROVE  LET x == parseCollectionValue(t, p, f)
           IN  /\ At(t, p) = "l" => x = Spanned(p, f[<<"list", p + 1>>])
               /\ At(t, p) = "d" => x = Spanned(p, f[<<"dict", p + 1>>])
               /\ At(t, p) = "i" => x = Spanned(p, parseInt(t, p))
               /\ At(t, p) \in Digits => x = Spanned(p, parseString(t, p))
               /\ At(t, p) \notin Digits \cup {"l", "d", "i"} => x = Good(NULL, p)
<1>1. CASE At(t, p) = "l"
  BY <1>1 DEF parseCollectionValue, parseList, Digits
<1>2. CASE At(t, p) = "d"
  BY <1>2 DEF parseCollectionValue, parseDict, Digits
<1>3. CASE At(t, p) = "i"
  BY <1>3 DEF parseCollectionValue, Digits
<1>4. CASE At(t, p) \in Digits
  <2>1. At(t, p) \notin {"l", "d", "i"}
    BY <1>4 DEF Digits
  <2>. QED
    BY <1>4, <2>1 DEF parseCollectionValue
<1>5. CASE At(t, p) \notin Digits \cup {"l", "d", "i"}
  <2>1. parseCollectionValue(t, p, f) = Spanned(p, Good(NULL, p))
    BY <1>5 DEF parseCollectionValue
  <2>2. Spanned(p, Good(NULL, p)) = Good(NULL, p)
    BY Fields DEF Spanned
  <2>. QED
    BY <1>5, <2>1, <2>2
<1>. QED
  BY <1>1, <1>2, <1>3, <1>4, <1>5

LEMMA NotNull ==
    /\ \A kind \in Kinds \cup {"str", "int"} : \A v : Node(kind, v) # NULL
    /\ \A node, a, b : node.type # "NULL" => Placed(node, a, b) # NULL
  BY Fields DEF Kinds

LEMMA SpannedParts ==
    ASSUME NEW p, NEW made, made.node # NULL
    PROVE  /\ Spanned(p, made) = Result(Placed(made.node, p, made.at), made.at, made.status)
           /\ Spanned(p, made).node = Placed(made.node, p, made.at)
           /\ Spanned(p, made).at = made.at
           /\ Spanned(p, made).status = made.status
<1>1. Spanned(p, made) = Result(Placed(made.node, p, made.at), made.at, made.status)
  BY DEF Spanned, Span
<1>. QED
  BY <1>1, PartsOf

LEMMA SpannedShape ==
    ASSUME NEW t, NEW p, NEW made, NEW kind \in Kinds \cup {"str", "int"},
           made = Result(made.node, made.at, made.status),
           made.status \in {"good", "error", "never returns"},
           made.node = NULL \/ made.node = Node(kind, made.node.value),
           made.status = "good" => made.node # NULL /\ made.at \in p + 1 .. Len(t)
    PROVE  ValueShaped(t, p, Spanned(p, made))
<1>1. CASE made.node = NULL
  BY <1>1 DEF Spanned, ValueShaped
<1>2. CASE made.node # NULL
  <2>1. made.node.type # "NULL"
    <3>1. made.node = Node(kind, made.node.value)
      BY <1>2
    <3>2. \A v : Node(kind, v).type = kind
      BY Fields
    <3>3. made.node.type = kind
      BY <3>1, <3>2
    <3>. QED
      BY <3>3 DEF Kinds
  <2>2. Placed(made.node, p, made.at) # NULL
    BY <2>1, NotNull
  <2>3. /\ Spanned(p, made) = Result(Placed(made.node, p, made.at), made.at, made.status)
        /\ Spanned(p, made).node = Placed(made.node, p, made.at)
        /\ Spanned(p, made).at = made.at
        /\ Spanned(p, made).status = made.status
    BY <1>2, SpannedParts
  <2>. QED
    BY <2>2, <2>3 DEF ValueShaped
<1>. QED
  BY <1>1, <1>2

\* A value, or the place where none begins.
LEMMA ValueShape ==
    ASSUME NEW t \in Seq(Alphabet), NEW p \in 0 .. Len(t), NEW f, ShapedBeyond(t, p, f)
    PROVE  ValueShaped(t, p, parseCollectionValue(t, p, f))
<1>1. Len(t) \in Nat /\ (At(t, p) # EOF => p + 1 \in p + 1 .. Len(t))
  BY Characters
<1>2. CASE At(t, p) = "l"
  <2>1. Shaped(t, p + 1, "list", f[<<"list", p + 1>>])
    BY <1>1, <1>2 DEF ShapedBeyond, Kinds, EOF
  <2>2. ValueShaped(t, p, Spanned(p, f[<<"list", p + 1>>]))
    <3>. DEFINE made == f[<<"list", p + 1>>]
    <3>1. "list" \in Kinds \cup {"str", "int"}
      BY DEF Kinds
    <3>2. made.at \in p + 1 + 1 .. Len(t) => made.at \in p + 1 .. Len(t)
      BY <1>1
    <3>. HIDE DEF made
    <3>. QED
      BY <2>1, <3>1, <3>2, SpannedShape DEF Shaped, made
  <2>. QED
    BY <1>2, <2>2, ValueIs
<1>3. CASE At(t, p) = "d"
  <2>1. Shaped(t, p + 1, "dict", f[<<"dict", p + 1>>])
    BY <1>1, <1>3 DEF ShapedBeyond, Kinds, EOF
  <2>2. ValueShaped(t, p, Spanned(p, f[<<"dict", p + 1>>]))
    <3>. DEFINE made == f[<<"dict", p + 1>>]
    <3>1. "dict" \in Kinds \cup {"str", "int"}
      BY DEF Kinds
    <3>2. made.at \in p + 1 + 1 .. Len(t) => made.at \in p + 1 .. Len(t)
      BY <1>1
    <3>. HIDE DEF made
    <3>. QED
      BY <2>1, <3>1, <3>2, SpannedShape DEF Shaped, made
  <2>. QED
    BY <1>3, <2>2, ValueIs
<1>4. CASE At(t, p) = "i"
  <2>1. ValueShaped(t, p, Spanned(p, parseInt(t, p)))
    <3>. DEFINE made == parseInt(t, p)
    <3>1. "int" \in Kinds \cup {"str", "int"}
      OBVIOUS
    <3>2. /\ made = Result(made.node, made.at, made.status)
          /\ made.status \in {"good", "error"}
          /\ made.node = Node("int", made.node.value)
          /\ made.status = "good" => made.at \in p + 2 .. Len(t)
      BY <1>4, IntRead, Fields
    <3>3. made.at \in p + 2 .. Len(t) => made.at \in p + 1 .. Len(t)
      BY <1>1
    <3>4. made.node # NULL
      <4>. HIDE DEF made
      <4>. QED
        BY <3>1, <3>2, NotNull
    <3>. HIDE DEF made
    <3>. QED
      BY <3>1, <3>2, <3>3, <3>4, SpannedShape DEF made
  <2>. QED
    BY <1>4, <2>1, ValueIs
<1>5. CASE At(t, p) \in Digits
  <2>1. ValueShaped(t, p, Spanned(p, parseString(t, p)))
    <3>. DEFINE made == parseString(t, p)
    <3>1. "str" \in Kinds \cup {"str", "int"}
      OBVIOUS
    <3>2. \/ made = Bad(made.at)
          \/ made = Good(Node("str", made.node.value), made.at) /\ made.at \in p + 1 .. Len(t)
      BY <1>5, StringRead
    <3>3. made = Bad(made.at) => made.node = NULL /\ made = Result(made.node, made.at, "error")
      BY Fields DEF Bad
    <3>4. made = Good(Node("str", made.node.value), made.at)
             => /\ made.node = Node("str", made.node.value)
                /\ made = Result(made.node, made.at, "good")
      BY Fields DEF Good
    <3>5. Node("str", made.node.value) # NULL
      BY <3>1, NotNull
    <3>6. \A node, at, status : Result(node, at, status).status = status
      BY Fields
    <3>. HIDE DEF made
    <3>7. CASE made = Bad(made.at)
      <4>1. made = Result(made.node, made.at, "error") /\ made.node = NULL
        BY <3>3, <3>7
      <4>2. made.status = "error"
        BY <3>6, <4>1
      <4>. QED
        BY <3>1, <4>1, <4>2, SpannedShape DEF made
    <3>8. CASE made = Good(Node("str", made.node.value), made.at) /\ made.at \in p + 1 .. Len(t)
      <4>1. made = Result(made.node, made.at, "good") /\ made.node = Node("str", made.node.value)
        BY <3>4, <3>8
      <4>2. made.status = "good" /\ made.node # NULL
        BY <3>5, <3>6, <4>1
      <4>. QED
        BY <3>1, <3>8, <4>1, <4>2, SpannedShape DEF made
    <3>. QED
      BY <3>2, <3>7, <3>8
  <2>. QED
    BY <1>5, <2>1, ValueIs
<1>6. CASE At(t, p) \notin Digits \cup {"l", "d", "i"}
  <2>. DEFINE x == Good(NULL, p)
  <2>1. x = Result(x.node, x.at, x.status) /\ x.node = NULL /\ x.at = p /\ x.status = "good"
    BY Fields DEF Good
  <2>2. ValueShaped(t, p, x)
    <3>. HIDE DEF x
    <3>. QED
      BY <2>1 DEF ValueShaped
  <2>. QED
    BY <1>6, <2>2, ValueIs
<1>. QED
  BY <1>2, <1>3, <1>4, <1>5, <1>6

LEMMA ValueSame ==
    ASSUME NEW t \in Seq(Alphabet), NEW p \in 0 .. Len(t), NEW f, NEW g, SameBeyond(t, p, f, g)
    PROVE  parseCollectionValue(t, p, f) = parseCollectionValue(t, p, g)
<1>1. At(t, p) # EOF => /\ f[<<"list", p + 1>>] = g[<<"list", p + 1>>]
                        /\ f[<<"dict", p + 1>>] = g[<<"dict", p + 1>>]
  BY Characters DEF SameBeyond, Kinds
<1>. QED
  BY <1>1, ValueIs DEF EOF

LEMMA BeforeShape ==
    ASSUME NEW t, NEW p, NEW q, NEW kind \in Kinds, NEW item, NEW rest, Shaped(t, q, kind, rest),
           q + 1 .. Len(t) \subseteq p + 1 .. Len(t)
    PROVE  /\ Shaped(t, p, kind, Before(item, rest))
           /\ Before(item, rest).at = rest.at
           /\ Before(item, rest).status = rest.status
           /\ rest.node = NULL => Before(item, rest).node = NULL
           /\ rest.node # NULL =>
                 Before(item, rest).node = Node(kind, <<item>> \o rest.node.value)
<1>1. CASE rest.node = NULL
  <2>1. Before(item, rest) = rest
    BY <1>1 DEF Before
  <2>. QED
    BY <1>1, <2>1 DEF Shaped
<1>2. CASE rest.node # NULL
  <2>. DEFINE whole == <<item>> \o rest.node.value
  <2>1. rest.node.type = kind
    <3>1. rest.node = Node(kind, rest.node.value)
      BY <1>2 DEF Shaped
    <3>2. \A v : Node(kind, v).type = kind
      BY Fields
    <3>. QED
      BY <3>1, <3>2
  <2>2. Before(item, rest) = Result(Node(kind, whole), rest.at, rest.status)
    BY <1>2, <2>1 DEF Before
  <2>. HIDE DEF whole
  <2>3. /\ Before(item, rest).node = Node(kind, whole)
        /\ Before(item, rest).at = rest.at
        /\ Before(item, rest).status = rest.status
    BY <2>2 DEF Result
  <2>4. Node(kind, whole) # NULL /\ Node(kind, whole).value = whole
    BY NotNull, Fields
  <2>5. Shaped(t, p, kind, Before(item, rest))
    <3>1. rest.status \in {"good", "error", "never returns"}
      BY DEF Shaped
    <3>2. rest.status = "good" => rest.at \in p + 1 .. Len(t)
      BY DEF Shaped
    <3>. QED
      BY <2>2, <2>3, <2>4, <3>1, <3>2 DEF Shaped
  <2>. QED
    BY <1>2, <2>3, <2>5 DEF whole
<1>. QED
  BY <1>1, <1>2

LEMMA ShapeOf ==
    ASSUME NEW t, NEW p, NEW kind \in Kinds
    PROVE  /\ p + 1 \in p + 1 .. Len(t) => Shaped(t, p, kind, Good(Node(kind, <<>>), p + 1))
           /\ \A at : Shaped(t, p, kind, Bad(at))
           /\ \A at : Shaped(t, p, kind, Result(Node(kind, <<>>), at, "error"))
           /\ \A at, status : status \in {"error", "never returns"}
                                 => Shaped(t, p, kind, Result(NULL, at, status))
<1>1. Node(kind, <<>>) # NULL /\ Node(kind, <<>>).value = <<>>
  BY NotNull, Fields
<1>2. ASSUME NEW at, NEW status \in {"error", "never returns"}
      PROVE  /\ Shaped(t, p, kind, Result(NULL, at, status))
             /\ Shaped(t, p, kind, Result(Node(kind, <<>>), at, status))
  <2>1. \A node : /\ Result(node, at, status).node = node
                  /\ Result(node, at, status).at = at
                  /\ Result(node, at, status).status = status
    BY DEF Result
  <2>. QED
    BY <1>1, <2>1 DEF Shaped
<1>3. p + 1 \in p + 1 .. Len(t) => Shaped(t, p, kind, Good(Node(kind, <<>>), p + 1))
  <2>. DEFINE r == Good(Node(kind, <<>>), p + 1)
  <2>1. /\ r = Result(r.node, r.at, r.status)
        /\ r.node = Node(kind, <<>>)
        /\ r.at = p + 1
        /\ r.status = "good"
    BY Fields DEF Good
  <2>2. r.node # NULL /\ r.node.value = <<>>
    <3>. HIDE DEF r
    <3>. QED
      BY <1>1, <2>1
  <2>3. p + 1 \in p + 1 .. Len(t) => Shaped(t, p, kind, r)
    <3>. HIDE DEF r
    <3>. QED
      BY <2>1, <2>2 DEF Shaped
  <2>. QED
    BY <2>3
<1>. QED
  BY <1>2, <1>3 DEF Bad

\* One turn of the loop of parseList.
LEMMA ListTurn ==
    ASSUME NEW t \in Seq(Alphabet), NEW p \in 0 .. Len(t), NEW f
    PROVE  LET item == parseCollectionValue(t, p, f)
               r    == ListLoop(t, p, f)
           IN  /\ At(t, p) = "e" => r = Good(Node("list", <<>>), p + 1)
               /\ At(t, p) = EOF => r = Bad(p)
               /\ At(t, p) \notin {"e", EOF} =>
                     /\ item.status # "good" => r = Result(NULL, item.at, item.status)
                     /\ item.status = "good" /\ item.node = NULL => r = Result(NULL, p, "never returns")
                     /\ item.status = "good" /\ item.node # NULL
                           => r = Before(item.node, f[<<"list", item.at>>])
<1>1. At(t, p) = "e" => Behind(t, p) = p + 1
  <2>1. SUFFICES ASSUME At(t, p) = "e" PROVE p < Len(t)
    BY DEF Behind
  <2>2. p # Len(t)
    BY <2>1, Characters DEF EOF
  <2>3. Len(t) \in Nat
    BY Characters
  <2>. QED
    BY <2>2, <2>3
<1>. QED
  BY <1>1 DEF ListLoop, ListEnds, EOF

\* What the loop of parseDict comes to where no key begins.
LEMMA DictElse ==
    ASSUME NEW t, NEW p, NEW f, NEW g, At(t, p) \notin Digits
    PROVE  DictLoop(t, p, f) = DictLoop(t, p, g)
<1>1. CASE At(t, p) = "e"
  BY <1>1 DEF DictLoop, Digits, EOF
<1>2. CASE At(t, p) = EOF
  BY <1>2 DEF DictLoop, Digits, EOF
<1>3. CASE At(t, p) \notin Digits \cup {"e", EOF}
  BY <1>3 DEF DictLoop
<1>. QED
  BY <1>1, <1>2, <1>3

\* One turn of the loop of parseDict.
LEMMA DictTurn ==
    ASSUME NEW t \in Seq(Alphabet), NEW p \in 0 .. Len(t), NEW f
    PROVE  LET key   == parseString(t, p)
               value == parseCollectionValue(t, key.at, f)
               r     == DictLoop(t, p, f)
           IN  /\ At(t, p) = "e" => r = Good(Node("dict", <<>>), p + 1)
               /\ At(t, p) = EOF => r = Result(Node("dict", <<>>), p, "error")
               /\ At(t, p) \notin Digits \cup {"e", EOF} => r = Bad(p)
               /\ At(t, p) \in Digits =>
                     /\ key.status # "good" => r = Bad(key.at)
                     /\ key.status = "good" /\ value.status # "good"
                           => r = Result(NULL, value.at, value.status)
                     /\ key.status = "good" /\ value.status = "good"
                           => r = Before([key |-> key.node.value, value |-> value.node],
                                         f[<<"dict", value.at>>])
<1>. DEFINE key == parseString(t, p)
            value == parseCollectionValue(t, key.at, f)
            longer == Before([key |-> key.node.value, value |-> value.node], f[<<"dict", value.at>>])
            more == IF key.status # "good" THEN Bad(key.at)
                    ELSE IF value.status # "good" THEN Result(NULL, value.at, value.status)
                    ELSE longer
<1>1. DictLoop(t, p, f) = CASE At(t, p) = "e" -> Good(Node("dict", <<>>), p + 1)
                            [] At(t, p) = EOF -> Result(Node("dict", <<>>), p, "error")
                            [] At(t, p) \notin Digits \cup {"e", EOF} -> Bad(p)
                            [] At(t, p) \in Digits -> more
  BY DEF DictLoop
<1>2. key.status # "good" => more = Bad(key.at)
  OBVIOUS
<1>3. key.status = "good" /\ value.status # "good" => more = Result(NULL, value.at, value.status)
  OBVIOUS
<1>4. key.status = "good" /\ value.status = "good" => more = longer
  OBVIOUS
<1>5. "e" \notin Digits /\ EOF \notin Digits /\ "e" # EOF
  BY DEF Digits, EOF
<1>. HIDE DEF more, longer, value, key
<1>6. /\ At(t, p) = "e" => DictLoop(t, p, f) = Good(Node("dict", <<>>), p + 1)
      /\ At(t, p) = EOF => DictLoop(t, p, f) = Result(Node("dict", <<>>), p, "error")
      /\ At(t, p) \notin Digits \cup {"e", EOF} => DictLoop(t, p, f) = Bad(p)
      /\ At(t, p) \in Digits => DictLoop(t, p, f) = more
  BY <1>1, <1>5
<1>. QED
  BY <1>2, <1>3, <1>4, <1>6 DEF longer, value, key

LEMMA Beyond ==
    ASSUME NEW t \in Seq(Alphabet), NEW p \in 0 .. Len(t), NEW q \in p .. Len(t), NEW f, NEW g
    PROVE  /\ ShapedBeyond(t, p, f) => ShapedBeyond(t, q, f)
           /\ SameBeyond(t, p, f, g) => SameBeyond(t, q, f, g)
           /\ q + 1 .. Len(t) \subseteq p + 1 .. Len(t)
           /\ q \in 0 .. Len(t)
<1>1. q + 1 .. Len(t) \subseteq p + 1 .. Len(t) /\ q \in 0 .. Len(t)
  BY Characters
<1>. QED
  BY <1>1 DEF ShapedBeyond, SameBeyond

\* What parseDict has when it has read a key.
LEMMA KeyThenValue ==
    ASSUME NEW t \in Seq(Alphabet), NEW p \in 0 .. Len(t), NEW f, ShapedBeyond(t, p, f),
           At(t, p) \in Digits, parseString(t, p).status = "good"
    PROVE  LET key   == parseString(t, p)
               value == parseCollectionValue(t, key.at, f)
           IN  /\ key.at \in p + 1 .. Len(t)
               /\ key.at \in 0 .. Len(t)
               /\ key.node.value \in StringsIn(t, p, key.at)
               /\ ValueShaped(t, key.at, value)
               /\ value.status = "good" => value.at \in p + 1 .. Len(t)
<1>. DEFINE key == parseString(t, p)
            value == parseCollectionValue(t, key.at, f)
<1>1. key.at \in p + 1 .. Len(t) /\ key.node.value \in StringsIn(t, p, key.at)
  <2>1. key # Bad(key.at)
    BY Fields
  <2>. QED
    BY <2>1, StringRead
<1>. HIDE DEF key
<1>2. key.at \in p .. Len(t) /\ key.at \in 0 .. Len(t)
  BY <1>1, Characters
<1>3. ShapedBeyond(t, key.at, f)
  BY <1>2, Beyond
<1>4. ValueShaped(t, key.at, value)
  BY <1>2, <1>3, ValueShape
<1>5. value.status = "good" => value.at \in p + 1 .. Len(t)
  <2>1. value.status = "good" => value.at = key.at \/ value.at \in key.at + 1 .. Len(t)
    BY <1>4 DEF ValueShaped
  <2>. HIDE DEF value
  <2>. QED
    BY <1>1, <2>1, Characters
<1>. QED
  BY <1>1, <1>2, <1>4, <1>5 DEF key

LEMMA ListShape ==
    ASSUME NEW t \in Seq(Alphabet), NEW p \in 0 .. Len(t), NEW f, ShapedBeyond(t, p, f)
    PROVE  Shaped(t, p, "list", ListLoop(t, p, f))
<1>. DEFINE item == parseCollectionValue(t, p, f)
            r    == ListLoop(t, p, f)
            rest == f[<<"list", item.at>>]
<1>1. "list" \in Kinds /\ (At(t, p) # EOF => p + 1 \in p + 1 .. Len(t))
  BY Characters DEF Kinds
<1>2. ValueShaped(t, p, item)
  BY ValueShape
<1>3. CASE At(t, p) = "e"
  <2>1. r = Good(Node("list", <<>>), p + 1) /\ At(t, p) # EOF
    BY <1>3, ListTurn DEF EOF
  <2>. HIDE DEF r
  <2>. QED
    BY <1>1, <2>1, ShapeOf DEF r
<1>4. CASE At(t, p) = EOF
  <2>1. r = Bad(p)
    BY <1>4, ListTurn
  <2>. HIDE DEF r
  <2>. QED
    BY <1>1, <2>1, ShapeOf DEF r
<1>5. CASE At(t, p) \notin {"e", EOF}
  <2>1. CASE item.status # "good" \/ item.node = NULL
    <3>1. \/ r = Result(NULL, item.at, item.status) /\ item.status # "good"
          \/ r = Result(NULL, p, "never returns")
      BY <1>5, <2>1, ListTurn
    <3>2. item.status \in {"good", "error", "never returns"}
      BY <1>2 DEF ValueShaped
    <3>. HIDE DEF r, item
    <3>. QED
      BY <1>1, <3>1, <3>2, ShapeOf DEF r
  <2>2. CASE item.status = "good" /\ item.node # NULL
    <3>1. r = Before(item.node, rest)
      BY <1>5, <2>2, ListTurn
    <3>2. item.at \in p + 1 .. Len(t)
      BY <1>2, <2>2 DEF ValueShaped
    <3>3. Shaped(t, item.at, "list", rest)
      BY <1>1, <3>2 DEF ShapedBeyond
    <3>4. item.at + 1 .. Len(t) \subseteq p + 1 .. Len(t)
      <4>. HIDE DEF item
      <4>. QED
        BY <3>2, Beyond, Characters
    <3>. HIDE DEF r, item, rest
    <3>5. Shaped(t, p, "list", r)
      BY <1>1, <3>1, <3>3, <3>4, BeforeShape
    <3>. QED
      BY <3>5 DEF r
  <2>. QED
    BY <2>1, <2>2
<1>. QED
  BY <1>3, <1>4, <1>5

LEMMA DictShape ==
    ASSUME NEW t \in Seq(Alphabet), NEW p \in 0 .. Len(t), NEW f, ShapedBeyond(t, p, f)
    PROVE  Shaped(t, p, "dict", DictLoop(t, p, f))
<1>. DEFINE key   == parseString(t, p)
            value == parseCollectionValue(t, key.at, f)
            entry == [key |-> key.node.value, value |-> value.node]
            rest  == f[<<"dict", value.at>>]
            r     == DictLoop(t, p, f)
<1>1. "dict" \in Kinds /\ (At(t, p) # EOF => p + 1 \in p + 1 .. Len(t))
  BY Characters DEF Kinds
<1>2. CASE At(t, p) = "e"
  <2>1. r = Good(Node("dict", <<>>), p + 1) /\ At(t, p) # EOF
    BY <1>2, DictTurn DEF EOF
  <2>. HIDE DEF r
  <2>. QED
    BY <1>1, <2>1, ShapeOf DEF r
<1>3. CASE At(t, p) \notin Digits \cup {"e"}
  <2>1. r = Result(Node("dict", <<>>), p, "error") \/ r = Bad(p)
    BY <1>3, DictTurn DEF EOF
  <2>. HIDE DEF r
  <2>. QED
    BY <1>1, <2>1, ShapeOf DEF r
<1>4. CASE At(t, p) \in Digits
  <2>1. CASE key.status # "good"
    <3>1. r = Bad(key.at)
      BY <1>4, <2>1, DictTurn
    <3>. HIDE DEF r, key
    <3>. QED
      BY <1>1, <3>1, ShapeOf DEF r
  <2>2. CASE key.status = "good"
    <3>1. ValueShaped(t, key.at, value) /\ (value.status = "good" => value.at \in p + 1 .. Len(t))
      BY <1>4, <2>2, KeyThenValue
    <3>2. CASE value.status # "good"
      <4>1. r = Result(NULL, value.at, value.status)
        BY <1>4, <2>2, <3>2, DictTurn
      <4>2. value.status \in {"error", "never returns"}
        BY <3>1, <3>2 DEF ValueShaped
      <4>. HIDE DEF r, value
      <4>. QED
        BY <1>1, <4>1, <4>2, ShapeOf DEF r
    <3>3. CASE value.status = "good"
      <4>1. r = Before(entry, rest)
        BY <1>4, <2>2, <3>3, DictTurn
      <4>2. Shaped(t, value.at, "dict", rest)
        BY <1>1, <3>1, <3>3 DEF ShapedBeyond
      <4>3. value.at + 1 .. Len(t) \subseteq p + 1 .. Len(t)
        <5>. HIDE DEF value
        <5>. QED
          BY <3>1, <3>3, Characters
      <4>. HIDE DEF r, value, rest, entry
      <4>4. Shaped(t, p, "dict", r)
        BY <1>1, <4>1, <4>2, <4>3, BeforeShape
      <4>. QED
        BY <4>4 DEF r
    <3>. QED
      BY <3>2, <3>3
  <2>. QED
    BY <2>1, <2>2
<1>. QED
  BY <1>2, <1>3, <1>4

LEMMA ListSame ==
    ASSUME NEW t \in Seq(Alphabet), NEW p \in 0 .. Len(t), NEW f, NEW g,
           ShapedBeyond(t, p, f), SameBeyond(t, p, f, g)
    PROVE  ListLoop(t, p, f) = ListLoop(t, p, g)
<1>. DEFINE item == parseCollectionValue(t, p, f)
<1>1. item = parseCollectionValue(t, p, g)
  BY ValueSame
<1>2. CASE item.status = "good" /\ item.node # NULL
  <2>1. item.at \in p + 1 .. Len(t)
    BY <1>2, ValueShape DEF ValueShaped
  <2>2. f[<<"list", item.at>>] = g[<<"list", item.at>>]
    BY <2>1 DEF SameBeyond, Kinds
  <2>. QED
    BY <1>1, <2>2 DEF ListLoop
<1>3. CASE ~(item.status = "good" /\ item.node # NULL)
  BY <1>1, <1>3 DEF ListLoop
<1>. QED
  BY <1>2, <1>3

LEMMA DictSame ==
    ASSUME NEW t \in Seq(Alphabet), NEW p \in 0 .. Len(t), NEW f, NEW g,
           ShapedBeyond(t, p, f), SameBeyond(t, p, f, g)
    PROVE  DictLoop(t, p, f) = DictLoop(t, p, g)
<1>. DEFINE key   == parseString(t, p)
            value == parseCollectionValue(t, key.at, f)
<1>1. CASE At(t, p) \in Digits /\ key.status = "good"
  <2>1. key.at \in p + 1 .. Len(t) /\ (value.status = "good" => value.at \in p + 1 .. Len(t))
    BY <1>1, KeyThenValue
  <2>2. value = parseCollectionValue(t, key.at, g)
    <3>. HIDE DEF key
    <3>1. key.at \in p .. Len(t) /\ key.at \in 0 .. Len(t)
      BY <2>1, Characters
    <3>2. SameBeyond(t, key.at, f, g)
      BY <3>1, Beyond
    <3>. QED
      BY <3>1, <3>2, ValueSame
  <2>3. value.status = "good" => f[<<"dict", value.at>>] = g[<<"dict", value.at>>]
    BY <2>1 DEF SameBeyond, Kinds
  <2>. DEFINE value2 == parseCollectionValue(t, key.at, g)
              entry  == [key |-> key.node.value, value |-> value.node]
              entry2 == [key |-> key.node.value, value |-> value2.node]
  <2>4. value2 = value /\ entry2 = entry
    BY <2>2
  <2>5. CASE value.status = "good"
    <3>1. DictLoop(t, p, f) = Before(entry, f[<<"dict", value.at>>])
      BY <1>1, <2>5, DictTurn
    <3>2. DictLoop(t, p, g) = Before(entry2, g[<<"dict", value2.at>>])
      BY <1>1, <2>4, <2>5, DictTurn
    <3>. HIDE DEF key, value, value2, entry, entry2
    <3>. QED
      BY <2>3, <2>4, <2>5, <3>1, <3>2
  <2>6. CASE value.status # "good"
    <3>1. DictLoop(t, p, f) = Result(NULL, value.at, value.status)
      BY <1>1, <2>6, DictTurn
    <3>2. DictLoop(t, p, g) = Result(NULL, value2.at, value2.status)
      BY <1>1, <2>4, <2>6, DictTurn
    <3>. HIDE DEF key, value, value2
    <3>. QED
      BY <2>4, <3>1, <3>2
  <2>. QED
    BY <2>5, <2>6
<1>2. CASE At(t, p) \in Digits /\ key.status # "good"
  <2>1. DictLoop(t, p, f) = Bad(key.at)
    BY <1>2, DictTurn
  <2>2. DictLoop(t, p, g) = Bad(key.at)
    BY <1>2, DictTurn
  <2>. QED
    BY <2>1, <2>2
<1>3. CASE At(t, p) \notin Digits
  BY <1>3, DictElse
<1>. QED
  BY <1>1, <1>2, <1>3

LoopStep(t, w, f) == IF w[1] = "list" THEN ListLoop(t, w[2], f) ELSE DictLoop(t, w[2], f)

LoopsFrom(t, p) == {w \in Kinds \X (0 .. Len(t)) : w[2] >= p}

LoopsSolve(t, p, f) == f = [w \in LoopsFrom(t, p) |-> LoopStep(t, w, f)]

AllShaped(t, p, f) == \A w \in LoopsFrom(t, p) : Shaped(t, w[2], w[1], f[w])

LEMMA LoopPlaces ==
    ASSUME NEW t \in Seq(Alphabet), NEW p \in 0 .. Len(t)
    PROVE  /\ \A w \in LoopsFrom(t, p) :
                 /\ w[1] \in Kinds /\ w[2] \in p .. Len(t) /\ w[2] \in 0 .. Len(t)
                 /\ w = <<w[1], w[2]>>
                 /\ w[2] # p => w \in LoopsFrom(t, p + 1)
           /\ \A q \in p .. Len(t), kind \in Kinds : /\ <<kind, q>> \in LoopsFrom(t, p)
                                                     /\ <<kind, q>>[1] = kind /\ <<kind, q>>[2] = q
           /\ \A q \in p + 1 .. Len(t), kind \in Kinds : <<kind, q>> \in LoopsFrom(t, p + 1)
  BY Characters DEF LoopsFrom

LEMMA LoopStepShape ==
    ASSUME NEW t \in Seq(Alphabet), NEW p \in 0 .. Len(t), NEW f, ShapedBeyond(t, p, f),
           NEW w \in LoopsFrom(t, p), w[2] = p
    PROVE  Shaped(t, p, w[1], LoopStep(t, w, f))
<1>1. w[1] = "list" \/ w[1] = "dict"
  BY LoopPlaces DEF Kinds
<1>2. CASE w[1] = "list"
  BY <1>2, ListShape DEF LoopStep
<1>3. CASE w[1] = "dict"
  BY <1>3, DictShape DEF LoopStep
<1>. QED
  BY <1>1, <1>2, <1>3

LEMMA LoopStepSame ==
    ASSUME NEW t \in Seq(Alphabet), NEW p \in 0 .. Len(t), NEW f, NEW g,
           ShapedBeyond(t, p, f), SameBeyond(t, p, f, g), NEW w \in LoopsFrom(t, p)
    PROVE  LoopStep(t, w, f) = LoopStep(t, w, g)
<1>1. w[2] \in p .. Len(t) /\ w[2] \in 0 .. Len(t)
  BY LoopPlaces
<1>2. ShapedBeyond(t, w[2], f) /\ SameBeyond(t, w[2], f, g)
  BY <1>1, Beyond
<1>. QED
  BY <1>1, <1>2, ListSame, DictSame DEF LoopStep

LEMMA ShapedFromStep ==
    ASSUME NEW t \in Seq(Alphabet), NEW p \in 0 .. Len(t), NEW f, AllShaped(t, p + 1, f)
    PROVE  ShapedBeyond(t, p, f)
<1>1. ASSUME NEW q \in p + 1 .. Len(t), NEW kind \in Kinds PROVE Shaped(t, q, kind, f[<<kind, q>>])
  <2>1. <<kind, q>> \in LoopsFrom(t, p + 1)
    BY LoopPlaces
  <2>2. Shaped(t, <<kind, q>>[2], <<kind, q>>[1], f[<<kind, q>>])
    BY <2>1 DEF AllShaped
  <2>. QED
    BY <2>2
<1>. QED
  BY <1>1 DEF ShapedBeyond

\* The recursion of the loops has a solution from every position on.
LEMMA LoopsSolvable ==
    ASSUME NEW t \in Seq(Alphabet)
    PROVE  \E f : LoopsSolve(t, 0, f)
<1>. DEFINE Solved == {p \in 0 .. Len(t) : \E f : LoopsSolve(t, p, f) /\ AllShaped(t, p, f)}
<1>1. Len(t) \in Nat
  BY Characters
<1>2. ASSUME NEW p \in 0 .. Len(t), \A q \in p + 1 .. Len(t) : q \in Solved PROVE p \in Solved
  <2>1. \E f : LoopsSolve(t, p + 1, f) /\ AllShaped(t, p + 1, f)
    <3>1. CASE p = Len(t)
      <4>. DEFINE f == [w \in {} |-> NULL]
      <4>1. LoopsFrom(t, p + 1) = {}
        BY <1>1, <3>1 DEF LoopsFrom
      <4>2. LoopsSolve(t, p + 1, f) /\ AllShaped(t, p + 1, f)
        BY <4>1 DEF LoopsSolve, AllShaped
      <4>. HIDE DEF f
      <4>. QED
        BY <4>2
    <3>2. CASE p # Len(t)
      <4>1. p + 1 \in Solved
        <5>1. p + 1 \in p + 1 .. Len(t)
          BY <1>1, <3>2
        <5>. HIDE DEF Solved
        <5>. QED
          BY <1>2, <5>1
      <4>. QED
        BY <4>1
    <3>. QED
      BY <3>1, <3>2
  <2>2. PICK f : LoopsSolve(t, p + 1, f) /\ AllShaped(t, p + 1, f)
    BY <2>1
  <2>. DEFINE h == [w \in LoopsFrom(t, p) |-> IF w[2] = p THEN LoopStep(t, w, f) ELSE f[w]]
  <2>3. ShapedBeyond(t, p, f)
    BY <2>2, ShapedFromStep
  <2>4. SameBeyond(t, p, f, h)
    <3>1. ASSUME NEW q \in p + 1 .. Len(t), NEW kind \in Kinds PROVE f[<<kind, q>>] = h[<<kind, q>>]
      <4>1. q \in p .. Len(t) /\ q # p
        BY <1>1
      <4>2. <<kind, q>> \in LoopsFrom(t, p) /\ <<kind, q>>[2] = q
        BY <4>1, LoopPlaces
      <4>. QED
        BY <4>1, <4>2
    <3>. HIDE DEF h
    <3>. QED
      BY <3>1 DEF SameBeyond
  <2>5. ASSUME NEW w \in LoopsFrom(t, p) PROVE h[w] = LoopStep(t, w, f)
    <3>1. CASE w[2] = p
      BY <3>1
    <3>2. CASE w[2] # p
      <4>1. w \in LoopsFrom(t, p + 1)
        BY <3>2, LoopPlaces
      <4>2. f[w] = LoopStep(t, w, f)
        BY <2>2, <4>1 DEF LoopsSolve
      <4>. QED
        BY <3>2, <4>2
    <3>. QED
      BY <3>1, <3>2
  <2>6. ASSUME NEW w \in LoopsFrom(t, p) PROVE h[w] = LoopStep(t, w, h)
    <3>1. LoopStep(t, w, f) = LoopStep(t, w, h)
      <4>. HIDE DEF h
      <4>. QED
        BY <2>3, <2>4, LoopStepSame
    <3>. HIDE DEF h
    <3>. QED
      BY <2>5, <3>1
  <2>7. LoopsSolve(t, p, h)
    <3>1. h = [w \in LoopsFrom(t, p) |-> h[w]]
      OBVIOUS
    <3>. HIDE DEF h
    <3>. QED
      BY <2>6, <3>1 DEF LoopsSolve
  <2>8. AllShaped(t, p, h)
    <3>1. ASSUME NEW w \in LoopsFrom(t, p) PROVE Shaped(t, w[2], w[1], h[w])
      <4>1. CASE w[2] = p
        <5>1. Shaped(t, p, w[1], LoopStep(t, w, f))
          BY <2>3, <4>1, LoopStepShape
        <5>. HIDE DEF h
        <5>. QED
          BY <2>5, <4>1, <5>1
      <4>2. CASE w[2] # p
        <5>1. w \in LoopsFrom(t, p + 1)
          BY <4>2, LoopPlaces
        <5>2. Shaped(t, w[2], w[1], f[w])
          BY <2>2, <5>1 DEF AllShaped
        <5>3. h[w] = f[w]
          BY <4>2
        <5>. HIDE DEF h
        <5>. QED
          BY <5>2, <5>3
      <4>. QED
        BY <4>1, <4>2
    <3>. HIDE DEF h
    <3>. QED
      BY <3>1 DEF AllShaped
  <2>. HIDE DEF h
  <2>. QED
    BY <2>7, <2>8
<1>3. 0 \in Solved
  <2>. HIDE DEF Solved
  <2>1. \A p \in 0 .. Len(t) : p \in Solved
    BY <1>1, <1>2, Downward
  <2>. QED
    BY <1>1, <2>1
<1>. QED
  BY <1>3

\* The loops satisfy their recursion, and have the shape that follows from it.
LEMMA LoopsAre ==
    ASSUME NEW t \in Seq(Alphabet)
    PROVE  /\ \A p \in 0 .. Len(t) :
                 /\ Loops(t)[<<"list", p>>] = ListLoop(t, p, Loops(t))
                 /\ Loops(t)[<<"dict", p>>] = DictLoop(t, p, Loops(t))
                 /\ ShapedBeyond(t, p, Loops(t))
                 /\ Shaped(t, p, "list", Loops(t)[<<"list", p>>])
                 /\ Shaped(t, p, "dict", Loops(t)[<<"dict", p>>])
<1>. DEFINE loops == Loops(t)
<1>1. LoopsSolve(t, 0, loops)
  <2>1. LoopsFrom(t, 0) = {"list", "dict"} \X (0 .. Len(t))
    BY Characters DEF LoopsFrom, Kinds
  <2>2. \A f : LoopsSolve(t, 0, f)
                 <=> f = [w \in {"list", "dict"} \X (0 .. Len(t)) |->
                            IF w[1] = "list" THEN ListLoop(t, w[2], f) ELSE DictLoop(t, w[2], f)]
    BY <2>1 DEF LoopsSolve, LoopStep
  <2>3. loops = CHOOSE f : f = [w \in {"list", "dict"} \X (0 .. Len(t)) |->
                            IF w[1] = "list" THEN ListLoop(t, w[2], f) ELSE DictLoop(t, w[2], f)]
    BY DEF Loops
  <2>4. PICK g : LoopsSolve(t, 0, g)
    BY LoopsSolvable
  <2>. HIDE DEF loops
  <2>5. loops = [w \in {"list", "dict"} \X (0 .. Len(t)) |->
                   IF w[1] = "list" THEN ListLoop(t, w[2], loops) ELSE DictLoop(t, w[2], loops)]
    BY <2>2, <2>3, <2>4
  <2>. QED
    BY <2>2, <2>5
<1>. HIDE DEF loops
<1>2. 0 \in 0 .. Len(t) /\ Len(t) \in Nat
  BY Characters
<1>3. ASSUME NEW p \in 0 .. Len(t)
      PROVE  /\ loops[<<"list", p>>] = ListLoop(t, p, loops)
             /\ loops[<<"dict", p>>] = DictLoop(t, p, loops)
  <2>1. /\ <<"list", p>> \in LoopsFrom(t, 0)
        /\ <<"dict", p>> \in LoopsFrom(t, 0)
    BY <1>2, LoopPlaces DEF Kinds
  <2>2. /\ loops[<<"list", p>>] = LoopStep(t, <<"list", p>>, loops)
        /\ loops[<<"dict", p>>] = LoopStep(t, <<"dict", p>>, loops)
    BY <1>1, <2>1 DEF LoopsSolve
  <2>3. "list" # "dict"
    OBVIOUS
  <2>. QED
    BY <2>2, <2>3 DEF LoopStep
<1>. DEFINE Regular == {p \in 0 .. Len(t) : /\ Shaped(t, p, "list", loops[<<"list", p>>])
                                          /\ Shaped(t, p, "dict", loops[<<"dict", p>>])}
<1>4. ASSUME NEW p \in 0 .. Len(t), \A q \in p + 1 .. Len(t) : q \in Regular
      PROVE  ShapedBeyond(t, p, loops)
  BY <1>4 DEF ShapedBeyond, Kinds
<1>5. ASSUME NEW p \in 0 .. Len(t), \A q \in p + 1 .. Len(t) : q \in Regular PROVE p \in Regular
  <2>1. ShapedBeyond(t, p, loops)
    BY <1>4, <1>5
  <2>. QED
    BY <1>3, <2>1, ListShape, DictShape
<1>6. \A p \in 0 .. Len(t) : p \in Regular
  <2>. HIDE DEF Regular
  <2>. QED
    BY <1>2, <1>5, Downward
<1>7. ASSUME NEW p \in 0 .. Len(t) PROVE ShapedBeyond(t, p, loops)
  <2>1. p + 1 .. Len(t) \subseteq 0 .. Len(t)
    BY <1>2
  <2>. HIDE DEF Regular
  <2>. QED
    BY <1>4, <1>6, <2>1
<1>. QED
  BY <1>3, <1>6, <1>7 DEF loops

------------------------------------------------------------------------------
(* The grammar: what a part of a text denotes depends on its own characters    *)
(* and on what its later parts denote, so its recursion has a solution         *)

Begins(t, u) ==
    /\ t \in Seq(Alphabet) /\ u \in Seq(Alphabet)
    /\ Len(t) <= Len(u)
    /\ \A k \in 1 .. Len(t) : t[k] = u[k]

SamePast(t, p, f, g) ==
    \A q \in p + 1 .. Len(t), b \in 0 .. Len(t), kind \in Kinds : f[<<kind, q, b>>] = g[<<kind, q, b>>]

Cons(v, rest) == <<v>> \o rest

\* A value, and the rest.
Headed(t, a, b, f, s) ==
    \E m \in a + 1 .. b : \E v \in Denoted(t, a, m, f), rest \in f[<<"list", m, b>>] : s = Cons(v, rest)

LEMMA InLists ==
    ASSUME NEW t, NEW a, NEW b, NEW f, NEW s
    PROVE  s \in Lists(t, a, b, f) <=>
              \/ a = b /\ s = <<>>
              \/ a # b /\ Headed(t, a, b, f, s)
<1>1. CASE a = b
  BY <1>1 DEF Lists
<1>2. CASE a # b
  <2>. DEFINE Within == {m \in a + 1 .. b : Denoted(t, a, m, f) # {}}
              Part(m) == {Cons(v, rest) : v \in Denoted(t, a, m, f), rest \in f[<<"list", m, b>>]}
  <2>1. Lists(t, a, b, f) = UNION {Part(m) : m \in Within}
    BY <1>2 DEF Lists, Cons
  <2>2. \A m : s \in Part(m) <=>
               \E v \in Denoted(t, a, m, f), rest \in f[<<"list", m, b>>] : s = Cons(v, rest)
    OBVIOUS
  <2>3. \A m : m \in Within <=> m \in a + 1 .. b /\ Denoted(t, a, m, f) # {}
    OBVIOUS
  <2>4. s \in Lists(t, a, b, f) <=> \E m \in Within : s \in Part(m)
    <3>. HIDE DEF Within, Part
    <3>. QED
      BY <2>1
  <2>. HIDE DEF Within, Part
  <2>5. s \in Lists(t, a, b, f) <=> \E m \in a + 1 .. b : \E v \in Denoted(t, a, m, f), rest \in f[<<"list", m, b>>] :
                             s = Cons(v, rest)
    BY <2>2, <2>3, <2>4
  <2>. QED
    BY <1>2, <2>5 DEF Headed
<1>. QED
  BY <1>1, <1>2

\* A key, its value, and the rest.
Longer(t, a, b, f, s) ==
    \E m \in a + 1 .. b : \E n \in m + 1 .. b :
       \E k \in StringsIn(t, a, m), v \in Denoted(t, m, n, f), rest \in f[<<"dict", n, b>>] :
          s = Cons([key |-> k, value |-> v], rest)

LEMMA InDicts ==
    ASSUME NEW t, NEW a, NEW b, NEW f, NEW s
    PROVE  s \in Dicts(t, a, b, f) <=>
              \/ a = b /\ s = <<>>
              \/ a # b /\ \E k \in StringsIn(t, a, b) : s = <<[key |-> k, value |-> NULL]>>
              \/ a # b /\ Longer(t, a, b, f, s)
<1>1. CASE a = b
  BY <1>1 DEF Dicts
<1>2. CASE a # b
  <2>. DEFINE Keyed == {m \in a + 1 .. b : StringsIn(t, a, m) # {}}
              Within(m) == {n \in m + 1 .. b : Denoted(t, m, n, f) # {}}
              Part(m, n) == {Cons([key |-> k, value |-> v], rest) :
                               k \in StringsIn(t, a, m), v \in Denoted(t, m, n, f), rest \in f[<<"dict", n, b>>]}
              Last == {<<[key |-> k, value |-> NULL]>> : k \in StringsIn(t, a, b)}
              Level(m) == UNION {Part(m, n) : n \in Within(m)}
  <2>1. Dicts(t, a, b, f) = Last \cup UNION {Level(m) : m \in Keyed}
    BY <1>2 DEF Dicts, Cons
  <2>2. \A m, n : s \in Part(m, n) <=>
               \E k \in StringsIn(t, a, m), v \in Denoted(t, m, n, f), rest \in f[<<"dict", n, b>>] :
                  s = Cons([key |-> k, value |-> v], rest)
    OBVIOUS
  <2>3. \A m, n : n \in Within(m) <=> n \in m + 1 .. b /\ Denoted(t, m, n, f) # {}
    OBVIOUS
  <2>4. \A m : m \in Keyed <=> m \in a + 1 .. b /\ StringsIn(t, a, m) # {}
    OBVIOUS
  <2>5. \A m : s \in Level(m) <=> \E n \in Within(m) : s \in Part(m, n)
    <3>. HIDE DEF Part, Within
    <3>. QED
      OBVIOUS
  <2>6. s \in Last <=> \E k \in StringsIn(t, a, b) : s = <<[key |-> k, value |-> NULL]>>
    OBVIOUS
  <2>. HIDE DEF Keyed, Within, Part, Last, Level
  <2>7. s \in Dicts(t, a, b, f) <=> s \in Last \/ \E m \in Keyed : s \in Level(m)
    BY <2>1
  <2>8. (\E m \in Keyed : s \in Level(m)) =>
           \E m \in a + 1 .. b : \E n \in m + 1 .. b :
              \E k \in StringsIn(t, a, m), v \in Denoted(t, m, n, f), rest \in f[<<"dict", n, b>>] :
                 s = Cons([key |-> k, value |-> v], rest)
    <3>1. SUFFICES ASSUME NEW m \in Keyed, s \in Level(m)
                   PROVE  \E n \in m + 1 .. b :
                             \E k \in StringsIn(t, a, m), v \in Denoted(t, m, n, f), rest \in f[<<"dict", n, b>>] :
                                s = Cons([key |-> k, value |-> v], rest)
      BY <2>4
    <3>2. PICK n \in Within(m) : s \in Part(m, n)
      BY <2>5, <3>1
    <3>3. n \in m + 1 .. b
      BY <2>3, <3>2
    <3>. QED
      BY <2>2, <3>2, <3>3
  <2>9. ASSUME NEW m \in a + 1 .. b, NEW n \in m + 1 .. b, NEW k \in StringsIn(t, a, m),
               NEW v \in Denoted(t, m, n, f), NEW rest \in f[<<"dict", n, b>>],
               s = Cons([key |-> k, value |-> v], rest)
        PROVE  \E i \in Keyed : s \in Level(i)
    <3>1. s \in Part(m, n) /\ n \in Within(m) /\ m \in Keyed
      BY <2>2, <2>3, <2>4, <2>9
    <3>. QED
      BY <2>5, <3>1
  <2>. QED
    BY <1>2, <2>6, <2>7, <2>8, <2>9 DEF Longer
<1>. QED
  BY <1>1, <1>2

\* What a part of a text can be, by its first and its last character.
LEMMA InDenoted ==
    ASSUME NEW t, NEW a \in Int, NEW b \in Int, NEW f, NEW v
    PROVE  v \in Denoted(t, a, b, f) <=>
              /\ a < b
              /\ \/ t[a + 1] \in Digits
                       /\ \E x \in StringsIn(t, a, b) : v = Placed(Node("str", x), a, b)
                 \/ /\ t[b] = "e" /\ a + 1 # b
                    /\ \/ t[a + 1] = "i" /\ \E x \in Numbers(t, a + 1, b - 1) : v = Placed(Node("int", x), a, b)
                       \/ t[a + 1] = "l" /\ \E x \in f[<<"list", a + 1, b - 1>>] : v = Placed(Node("list", x), a, b)
                       \/ t[a + 1] = "d" /\ \E x \in f[<<"dict", a + 1, b - 1>>] : v = Placed(Node("dict", x), a, b)
<1>1. \A type, values : v \in Nodes(type, values, a, b) <=> \E x \in values : v = Placed(Node(type, x), a, b)
  BY DEF Nodes
<1>2. CASE ~(a < b)
  BY <1>2 DEF Denoted
<1>3. CASE a < b /\ t[a + 1] \in Digits
  <2>1. Denoted(t, a, b, f) = Nodes("str", StringsIn(t, a, b), a, b)
    BY <1>3 DEF Denoted
  <2>. QED
    BY <1>1, <1>3, <2>1 DEF Digits
<1>4. CASE a < b /\ t[a + 1] \notin Digits /\ (t[b] # "e" \/ a + 1 = b)
  BY <1>4 DEF Denoted
<1>5. CASE a < b /\ t[a + 1] \notin Digits /\ t[b] = "e" /\ a + 1 # b
  <2>1. CASE t[a + 1] = "i"
    <3>1. Denoted(t, a, b, f) = Nodes("int", Numbers(t, a + 1, b - 1), a, b)
      BY <1>5, <2>1 DEF Denoted
    <3>. QED
      BY <1>1, <1>5, <2>1, <3>1
  <2>2. CASE t[a + 1] = "l"
    <3>1. Denoted(t, a, b, f) = Nodes("list", f[<<"list", a + 1, b - 1>>], a, b)
      BY <1>5, <2>2 DEF Denoted
    <3>. QED
      BY <1>1, <1>5, <2>2, <3>1
  <2>3. CASE t[a + 1] = "d"
    <3>1. Denoted(t, a, b, f) = Nodes("dict", f[<<"dict", a + 1, b - 1>>], a, b)
      BY <1>5, <2>3 DEF Denoted
    <3>. QED
      BY <1>1, <1>5, <2>3, <3>1
  <2>4. CASE t[a + 1] \notin {"i", "l", "d"}
    <3>1. Denoted(t, a, b, f) = {}
      BY <1>5, <2>4 DEF Denoted
    <3>. QED
      BY <1>5, <2>4, <3>1
  <2>. QED
    BY <2>1, <2>2, <2>3, <2>4
<1>. QED
  BY <1>2, <1>3, <1>4, <1>5

LEMMA InInt ==
    ASSUME NEW t, NEW a \in Int, NEW b \in Int, a < b, t[a + 1] = "i", NEW f, NEW v
    PROVE  v \in Denoted(t, a, b, f) <=>
              t[b] = "e" /\ a + 1 # b /\ \E s \in Numbers(t, a + 1, b - 1) : v = Placed(Node("int", s), a, b)
<1>1. Denoted(t, a, b, f) = IF t[b] # "e" \/ a + 1 = b THEN {} ELSE Nodes("int", Numbers(t, a + 1, b - 1), a, b)
  BY DEF Denoted, Digits
<1>2. v \in Nodes("int", Numbers(t, a + 1, b - 1), a, b) <=>
         \E s \in Numbers(t, a + 1, b - 1) : v = Placed(Node("int", s), a, b)
  BY DEF Nodes
<1>. QED
  BY <1>1, <1>2

LEMMA InList ==
    ASSUME NEW t, NEW a \in Int, NEW b \in Int, a < b, t[a + 1] = "l", NEW f, NEW v
    PROVE  v \in Denoted(t, a, b, f) <=>
              t[b] = "e" /\ a + 1 # b /\ \E s \in f[<<"list", a + 1, b - 1>>] : v = Placed(Node("list", s), a, b)
<1>1. Denoted(t, a, b, f) = IF t[b] # "e" \/ a + 1 = b THEN {} ELSE Nodes("list", f[<<"list", a + 1, b - 1>>], a, b)
  BY DEF Denoted, Digits
<1>2. v \in Nodes("list", f[<<"list", a + 1, b - 1>>], a, b) <=>
         \E s \in f[<<"list", a + 1, b - 1>>] : v = Placed(Node("list", s), a, b)
  BY DEF Nodes
<1>. QED
  BY <1>1, <1>2

LEMMA InDict ==
    ASSUME NEW t, NEW a \in Int, NEW b \in Int, a < b, t[a + 1] = "d", NEW f, NEW v
    PROVE  v \in Denoted(t, a, b, f) <=>
              t[b] = "e" /\ a + 1 # b /\ \E s \in f[<<"dict", a + 1, b - 1>>] : v = Placed(Node("dict", s), a, b)
<1>1. Denoted(t, a, b, f) = IF t[b] # "e" \/ a + 1 = b THEN {} ELSE Nodes("dict", f[<<"dict", a + 1, b - 1>>], a, b)
  BY DEF Denoted, Digits
<1>2. v \in Nodes("dict", f[<<"dict", a + 1, b - 1>>], a, b) <=>
         \E s \in f[<<"dict", a + 1, b - 1>>] : v = Placed(Node("dict", s), a, b)
  BY DEF Nodes
<1>. QED
  BY <1>1, <1>2

\* What is written in the beginning of a text is not changed by what follows.
LEMMA StrtolSame ==
    ASSUME NEW t, NEW u, Begins(t, u), NEW a \in 0 .. Len(t), NEW b \in 0 .. Len(t)
    PROVE  strtol(t, a, b) = strtol(u, a, b)
<1>. DEFINE F(s, g) == [q \in a .. b |-> IF q = a THEN 0 ELSE 10 * g[q - 1] + DigitOf[s[q]]]
<1>1. ASSUME NEW g PROVE F(t, g) = F(u, g)
  <2>1. ASSUME NEW q \in a .. b, q # a PROVE t[q] = u[q]
    BY <2>1, Characters DEF Begins
  <2>. QED
    BY <2>1
<1>2. strtol(t, a, b) = (CHOOSE g : g = F(t, g))[b] /\ strtol(u, a, b) = (CHOOSE g : g = F(u, g))[b]
  BY DEF strtol
<1>. HIDE DEF F
<1>. QED
  BY <1>1, <1>2

LEMMA NumbersSame ==
    ASSUME NEW t, NEW u, Begins(t, u), NEW a \in 0 .. Len(t), NEW b \in 0 .. Len(t)
    PROVE  Numbers(t, a, b) = Numbers(u, a, b)
<1>. DEFINE sign(s) == IF a < b /\ s[a + 1] = "-" THEN 1 ELSE 0
<1>1. Len(t) \in Nat /\ \A k \in 1 .. Len(t) : t[k] = u[k]
  BY Characters DEF Begins
<1>2. sign(t) = sign(u) /\ sign(t) \in {0, 1}
  BY <1>1
<1>3. (\A k \in a + sign(t) + 1 .. b : t[k] \in Digits) <=> \A k \in a + sign(u) + 1 .. b : u[k] \in Digits
  BY <1>1, <1>2
<1>4. a + sign(t) < b => strtol(t, a + sign(t), b) = strtol(u, a + sign(u), b)
  <2>. HIDE DEF sign
  <2>1. a + sign(t) < b => a + sign(t) \in 0 .. Len(t)
    BY <1>1, <1>2
  <2>. QED
    BY <1>2, <2>1, StrtolSame
<1>5. \A s : Numbers(s, a, b) =
          IF a + sign(s) < b /\ b - a <= DIGITS_IN_LONG /\ \A k \in a + sign(s) + 1 .. b : s[k] \in Digits
          THEN {(1 - 2 * sign(s)) * strtol(s, a + sign(s), b)} ELSE {}
  BY DEF Numbers
<1>. HIDE DEF sign
<1>. QED
  BY <1>2, <1>3, <1>4, <1>5

LEMMA SubSeqSame ==
    ASSUME NEW t, NEW u, Begins(t, u), NEW a \in Nat, a >= 1, NEW b \in 0 .. Len(t)
    PROVE  SubSeq(t, a, b) = SubSeq(u, a, b)
  BY Characters DEF Begins

LEMMA StringsSame ==
    ASSUME NEW t, NEW u, Begins(t, u), NEW a \in 0 .. Len(t), NEW b \in 0 .. Len(t)
    PROVE  StringsIn(t, a, b) = StringsIn(u, a, b)
<1>. DEFINE Ms(s) == {m \in a + 1 .. b - 1 :
                        s[a + 1] \in Digits /\ s[m + 1] = ":" /\ b - m - 1 \in Numbers(s, a, m)}
<1>1. Len(t) \in Nat /\ \A k \in 1 .. Len(t) : t[k] = u[k]
  BY Characters DEF Begins
<1>2. Ms(t) = Ms(u)
  <2>1. ASSUME NEW m \in a + 1 .. b - 1
        PROVE  /\ t[a + 1] = u[a + 1] /\ t[m + 1] = u[m + 1]
               /\ Numbers(t, a, m) = Numbers(u, a, m)
               /\ SubSeq(t, m + 2, b) = SubSeq(u, m + 2, b)
    <3>1. m \in 0 .. Len(t) /\ m + 2 \in Nat /\ m + 2 >= 1 /\ a + 1 \in 1 .. Len(t) /\ m + 1 \in 1 .. Len(t)
      BY <1>1
    <3>. QED
      BY <1>1, <3>1, NumbersSame, SubSeqSame
  <2>. QED
    BY <2>1
<1>3. ASSUME NEW m \in Ms(t) PROVE SubSeq(t, m + 2, b) = SubSeq(u, m + 2, b)
  <2>1. m + 2 \in Nat /\ m + 2 >= 1
    BY <1>1
  <2>. QED
    BY <2>1, SubSeqSame
<1>4. \A s : StringsIn(s, a, b) = {SubSeq(s, m + 2, b) : m \in Ms(s)}
  BY DEF StringsIn
<1>. HIDE DEF Ms
<1>. QED
  BY <1>2, <1>3, <1>4

LEMMA DenotedSame ==
    ASSUME NEW t, NEW u, Begins(t, u), NEW a \in 0 .. Len(t), NEW b \in 0 .. Len(t),
           NEW f, NEW g, SamePast(t, a, f, g), NEW v
    PROVE  v \in Denoted(t, a, b, f) <=> v \in Denoted(u, a, b, g)
<1>1. Len(t) \in Nat /\ a \in Int /\ b \in Int /\ \A k \in 1 .. Len(t) : t[k] = u[k]
  BY Characters DEF Begins
<1>2. CASE ~(a < b)
  BY <1>1, <1>2, InDenoted
<1>3. CASE a < b
  <2>1. t[a + 1] = u[a + 1] /\ t[b] = u[b]
    BY <1>1, <1>3
  <2>2. StringsIn(t, a, b) = StringsIn(u, a, b)
    BY StringsSame
  <2>3. Numbers(t, a + 1, b - 1) = Numbers(u, a + 1, b - 1)
    BY <1>1, <1>3, NumbersSame
  <2>4. \A kind \in Kinds : f[<<kind, a + 1, b - 1>>] = g[<<kind, a + 1, b - 1>>]
    BY <1>1, <1>3 DEF SamePast
  <2>5. /\ f[<<"list", a + 1, b - 1>>] = g[<<"list", a + 1, b - 1>>]
        /\ f[<<"dict", a + 1, b - 1>>] = g[<<"dict", a + 1, b - 1>>]
    BY <2>4 DEF Kinds
  <2>. QED
    BY <1>1, <2>1, <2>2, <2>3, <2>5, InDenoted
<1>. QED
  BY <1>2, <1>3

LEMMA ListsSame ==
    ASSUME NEW t, NEW u, Begins(t, u), NEW a \in 0 .. Len(t), NEW b \in 0 .. Len(t),
           NEW f, NEW g, SamePast(t, a, f, g)
    PROVE  Lists(t, a, b, f) = Lists(u, a, b, g)
<1>1. ASSUME NEW m \in a + 1 .. b
      PROVE  /\ \A v : v \in Denoted(t, a, m, f) <=> v \in Denoted(u, a, m, g)
             /\ f[<<"list", m, b>>] = g[<<"list", m, b>>]
  <2>1. m \in 0 .. Len(t) /\ m \in a + 1 .. Len(t)
    BY Characters DEF Begins
  <2>2. f[<<"list", m, b>>] = g[<<"list", m, b>>]
    BY <2>1 DEF SamePast, Kinds
  <2>. QED
    BY <2>1, <2>2, DenotedSame
<1>2. ASSUME NEW s PROVE s \in Lists(t, a, b, f) <=> s \in Lists(u, a, b, g)
  <2>1. Headed(t, a, b, f, s) <=> Headed(u, a, b, g, s)
    BY <1>1 DEF Headed
  <2>. QED
    BY <2>1, InLists
<1>. QED
  BY <1>2

LEMMA DictsSame ==
    ASSUME NEW t, NEW u, Begins(t, u), NEW a \in 0 .. Len(t), NEW b \in 0 .. Len(t),
           NEW f, NEW g, SamePast(t, a, f, g)
    PROVE  Dicts(t, a, b, f) = Dicts(u, a, b, g)
<1>1. Len(t) \in Nat
  BY Characters DEF Begins
<1>2. StringsIn(t, a, b) = StringsIn(u, a, b)
  BY StringsSame
<1>3. ASSUME NEW m \in a + 1 .. b, NEW n \in m + 1 .. b
      PROVE  /\ StringsIn(t, a, m) = StringsIn(u, a, m)
             /\ \A v : v \in Denoted(t, m, n, f) <=> v \in Denoted(u, m, n, g)
             /\ f[<<"dict", n, b>>] = g[<<"dict", n, b>>]
  <2>1. m \in 0 .. Len(t) /\ n \in 0 .. Len(t) /\ n \in a + 1 .. Len(t)
    BY <1>1
  <2>2. StringsIn(t, a, m) = StringsIn(u, a, m)
    BY <2>1, StringsSame
  <2>3. SamePast(t, m, f, g)
    <3>1. m + 1 .. Len(t) \subseteq a + 1 .. Len(t)
      BY <1>1
    <3>. QED
      BY <3>1 DEF SamePast
  <2>4. \A v : v \in Denoted(t, m, n, f) <=> v \in Denoted(u, m, n, g)
    BY <2>1, <2>3, DenotedSame
  <2>5. f[<<"dict", n, b>>] = g[<<"dict", n, b>>]
    BY <2>1 DEF SamePast, Kinds
  <2>. QED
    BY <2>2, <2>4, <2>5
<1>4. ASSUME NEW s PROVE Longer(t, a, b, f, s) <=> Longer(u, a, b, g, s)
  BY <1>3 DEF Longer
<1>5. ASSUME NEW s PROVE s \in Dicts(t, a, b, f) <=> s \in Dicts(u, a, b, g)
  BY <1>2, <1>4, InDicts
<1>. QED
  BY <1>5

BodyStep(t, w, f) == IF w[1] = "list" THEN Lists(t, w[2], w[3], f) ELSE Dicts(t, w[2], w[3], f)

BodiesFrom(t, p) == {w \in Kinds \X (0 .. Len(t)) \X (0 .. Len(t)) : w[2] >= p}

BodiesSolve(t, p, f) == f = [w \in BodiesFrom(t, p) |-> BodyStep(t, w, f)]

LEMMA BodyPlaces ==
    ASSUME NEW t \in Seq(Alphabet), NEW p \in 0 .. Len(t)
    PROVE  /\ \A w \in BodiesFrom(t, p) :
                 /\ w[1] \in Kinds /\ w[2] \in p .. Len(t) /\ w[2] \in 0 .. Len(t) /\ w[3] \in 0 .. Len(t)
                 /\ w[2] # p => w \in BodiesFrom(t, p + 1)
           /\ \A q \in p .. Len(t), b \in 0 .. Len(t), kind \in Kinds :
                 /\ <<kind, q, b>> \in BodiesFrom(t, p)
                 /\ <<kind, q, b>>[1] = kind /\ <<kind, q, b>>[2] = q /\ <<kind, q, b>>[3] = b
  BY Characters DEF BodiesFrom

LEMMA BodyStepSame ==
    ASSUME NEW t \in Seq(Alphabet), NEW p \in 0 .. Len(t), NEW f, NEW g, SamePast(t, p, f, g),
           NEW w \in BodiesFrom(t, p)
    PROVE  BodyStep(t, w, f) = BodyStep(t, w, g)
<1>1. w[2] \in p .. Len(t) /\ w[2] \in 0 .. Len(t) /\ w[3] \in 0 .. Len(t)
  BY BodyPlaces
<1>2. SamePast(t, w[2], f, g)
  <2>1. w[2] + 1 .. Len(t) \subseteq p + 1 .. Len(t)
    BY <1>1, Characters
  <2>. QED
    BY <2>1 DEF SamePast
<1>3. Begins(t, t)
  BY Characters DEF Begins
<1>4. Lists(t, w[2], w[3], f) = Lists(t, w[2], w[3], g)
  BY <1>1, <1>2, <1>3, ListsSame
<1>5. Dicts(t, w[2], w[3], f) = Dicts(t, w[2], w[3], g)
  BY <1>1, <1>2, <1>3, DictsSame
<1>. QED
  BY <1>4, <1>5 DEF BodyStep

\* The recursion of the grammar has a solution from every position on.
LEMMA BodiesSolvable ==
    ASSUME NEW t \in Seq(Alphabet)
    PROVE  \E f : BodiesSolve(t, 0, f)
<1>. DEFINE Solved == {p \in 0 .. Len(t) : \E f : BodiesSolve(t, p, f)}
<1>1. Len(t) \in Nat
  BY Characters
<1>2. ASSUME NEW p \in 0 .. Len(t), \A q \in p + 1 .. Len(t) : q \in Solved PROVE p \in Solved
  <2>1. \E f : BodiesSolve(t, p + 1, f)
    <3>1. CASE p = Len(t)
      <4>. DEFINE f == [w \in {} |-> NULL]
      <4>1. BodiesFrom(t, p + 1) = {}
        BY <1>1, <3>1 DEF BodiesFrom
      <4>2. BodiesSolve(t, p + 1, f)
        BY <4>1 DEF BodiesSolve
      <4>. HIDE DEF f
      <4>. QED
        BY <4>2
    <3>2. CASE p # Len(t)
      <4>1. p + 1 \in Solved
        <5>1. p + 1 \in p + 1 .. Len(t)
          BY <1>1, <3>2
        <5>. HIDE DEF Solved
        <5>. QED
          BY <1>2, <5>1
      <4>. QED
        BY <4>1
    <3>. QED
      BY <3>1, <3>2
  <2>2. PICK f : BodiesSolve(t, p + 1, f)
    BY <2>1
  <2>. DEFINE h == [w \in BodiesFrom(t, p) |-> IF w[2] = p THEN BodyStep(t, w, f) ELSE f[w]]
  <2>3. SamePast(t, p, f, h)
    <3>1. ASSUME NEW q \in p + 1 .. Len(t), NEW b \in 0 .. Len(t), NEW kind \in Kinds
          PROVE  f[<<kind, q, b>>] = h[<<kind, q, b>>]
      <4>1. q \in p .. Len(t) /\ q # p
        BY <1>1
      <4>2. <<kind, q, b>> \in BodiesFrom(t, p) /\ <<kind, q, b>>[2] = q
        BY <4>1, BodyPlaces
      <4>. QED
        BY <4>1, <4>2
    <3>. HIDE DEF h
    <3>. QED
      BY <3>1 DEF SamePast
  <2>4. ASSUME NEW w \in BodiesFrom(t, p) PROVE h[w] = BodyStep(t, w, f)
    <3>1. CASE w[2] = p
      BY <3>1
    <3>2. CASE w[2] # p
      <4>1. w \in BodiesFrom(t, p + 1)
        BY <3>2, BodyPlaces
      <4>2. f[w] = BodyStep(t, w, f)
        BY <2>2, <4>1 DEF BodiesSolve
      <4>. QED
        BY <3>2, <4>2
    <3>. QED
      BY <3>1, <3>2
  <2>5. ASSUME NEW w \in BodiesFrom(t, p) PROVE h[w] = BodyStep(t, w, h)
    <3>1. BodyStep(t, w, f) = BodyStep(t, w, h)
      <4>. HIDE DEF h
      <4>. QED
        BY <2>3, BodyStepSame
    <3>. HIDE DEF h
    <3>. QED
      BY <2>4, <3>1
  <2>6. BodiesSolve(t, p, h)
    <3>1. h = [w \in BodiesFrom(t, p) |-> h[w]]
      OBVIOUS
    <3>. HIDE DEF h
    <3>. QED
      BY <2>5, <3>1 DEF BodiesSolve
  <2>. HIDE DEF h
  <2>. QED
    BY <2>6
<1>3. 0 \in Solved
  <2>. HIDE DEF Solved
  <2>1. \A p \in 0 .. Len(t) : p \in Solved
    BY <1>1, <1>2, Downward
  <2>. QED
    BY <1>1, <2>1
<1>. QED
  BY <1>3

LEMMA BodiesAre ==
    ASSUME NEW t \in Seq(Alphabet), NEW a \in 0 .. Len(t), NEW b \in 0 .. Len(t)
    PROVE  /\ Bodies(t)[<<"list", a, b>>] = Lists(t, a, b, Bodies(t))
           /\ Bodies(t)[<<"dict", a, b>>] = Dicts(t, a, b, Bodies(t))
<1>. DEFINE bodies == Bodies(t)
<1>1. BodiesSolve(t, 0, bodies)
  <2>1. BodiesFrom(t, 0) = {"list", "dict"} \X (0 .. Len(t)) \X (0 .. Len(t))
    BY Characters DEF BodiesFrom, Kinds
  <2>2. \A f : BodiesSolve(t, 0, f)
                 <=> f = [w \in {"list", "dict"} \X (0 .. Len(t)) \X (0 .. Len(t)) |->
                            IF w[1] = "list" THEN Lists(t, w[2], w[3], f) ELSE Dicts(t, w[2], w[3], f)]
    BY <2>1 DEF BodiesSolve, BodyStep
  <2>3. bodies = CHOOSE f : f = [w \in {"list", "dict"} \X (0 .. Len(t)) \X (0 .. Len(t)) |->
                            IF w[1] = "list" THEN Lists(t, w[2], w[3], f) ELSE Dicts(t, w[2], w[3], f)]
    BY DEF Bodies
  <2>4. PICK g : BodiesSolve(t, 0, g)
    BY BodiesSolvable
  <2>. HIDE DEF bodies
  <2>5. bodies = [w \in {"list", "dict"} \X (0 .. Len(t)) \X (0 .. Len(t)) |->
                   IF w[1] = "list" THEN Lists(t, w[2], w[3], bodies) ELSE Dicts(t, w[2], w[3], bodies)]
    BY <2>2, <2>3, <2>4
  <2>. QED
    BY <2>2, <2>5
<1>. HIDE DEF bodies
<1>2. 0 \in 0 .. Len(t) /\ Len(t) \in Nat
  BY Characters
<1>3. /\ <<"list", a, b>> \in BodiesFrom(t, 0)
      /\ <<"dict", a, b>> \in BodiesFrom(t, 0)
  BY <1>2, BodyPlaces DEF Kinds
<1>4. /\ bodies[<<"list", a, b>>] = BodyStep(t, <<"list", a, b>>, bodies)
      /\ bodies[<<"dict", a, b>>] = BodyStep(t, <<"dict", a, b>>, bodies)
  BY <1>1, <1>3 DEF BodiesSolve
<1>5. "list" # "dict"
  OBVIOUS
<1>. QED
  BY <1>4, <1>5 DEF BodyStep, bodies

------------------------------------------------------------------------------
(* The parser and the grammar agree, from every position on                    *)

Value(t, p) == parseCollectionValue(t, p, Loops(t))

Means(t, a, b) == Denoted(t, a, b, Bodies(t))

\* A collection that the grammar has is read,
Reads(t, kind, p) ==
    \A b \in p .. Len(t) - 1 : At(t, b) = "e" =>
       \A s \in Bodies(t)[<<kind, p, b>>] : Loops(t)[<<kind, p>>] = Good(Node(kind, s), b + 1)

\* what is read is a collection that the grammar has,
ReadsOnly(t, kind, p) ==
    Loops(t)[<<kind, p>>].status = "good" =>
       \E b \in p .. Len(t) - 1 : /\ At(t, b) = "e"
                                  /\ \E s \in Bodies(t)[<<kind, p, b>>] :
                                        Loops(t)[<<kind, p>>] = Good(Node(kind, s), b + 1)

\* and a dictionary that comes with an error is all that is left of the text.
ReadsRest(t, p) ==
    LET r == Loops(t)[<<"dict", p>>]
    IN  r.status = "error" /\ r.node # NULL =>
           \E s \in Bodies(t)[<<"dict", p, Len(t)>>] : r.node = Node("dict", s)

Agrees(t, p) ==
    /\ Reads(t, "list", p) /\ ReadsOnly(t, "list", p)
    /\ Reads(t, "dict", p) /\ ReadsOnly(t, "dict", p)
    /\ ReadsRest(t, p)

ValueAgrees(t, p) ==
    /\ \A b \in p + 1 .. Len(t) : \A v \in Means(t, p, b) : Value(t, p) = Good(v, b) /\ v # NULL
    /\ Value(t, p).status = "good" /\ Value(t, p).node # NULL =>
          Value(t, p).at \in p + 1 .. Len(t) /\ Value(t, p).node \in Means(t, p, Value(t, p).at)

LEMMA SpannedGood ==
    ASSUME NEW p, NEW kind \in Kinds \cup {"str", "int"}, NEW s, NEW b
    PROVE  /\ Spanned(p, Good(Node(kind, s), b)) = Good(Placed(Node(kind, s), p, b), b)
           /\ Placed(Node(kind, s), p, b) # NULL
<1>. DEFINE node == Node(kind, s)
            made == Good(node, b)
<1>1. node # NULL /\ node.type = kind
  BY NotNull, Fields
<1>2. Placed(node, p, b) # NULL
  <2>1. node.type # "NULL"
    BY <1>1 DEF Kinds
  <2>. HIDE DEF node
  <2>. QED
    BY <2>1, NotNull
<1>. HIDE DEF node
<1>3. made.node = node /\ made.at = b /\ made.status = "good"
  BY Fields
<1>4. Spanned(p, made) = Result(Placed(made.node, p, made.at), made.at, made.status)
  BY <1>1, <1>3 DEF Spanned, Span
<1>5. Spanned(p, made) = Good(Placed(node, p, b), b)
  <2>. HIDE DEF made
  <2>. QED
    BY <1>3, <1>4 DEF Good
<1>. QED
  BY <1>2, <1>5 DEF node

LEMMA BeforeParts ==
    \A item, rest : /\ Before(item, rest).status = rest.status
                    /\ Before(item, rest).node # NULL => rest.node # NULL
  BY PartsOf DEF Before

LEMMA BeforeGood ==
    ASSUME NEW kind \in Kinds, NEW item, NEW s, NEW at
    PROVE  Before(item, Good(Node(kind, s), at)) = Good(Node(kind, Cons(item, s)), at)
<1>. DEFINE node == Node(kind, s)
            rest == Good(node, at)
<1>1. node # NULL /\ node.type = kind /\ node.value = s
  BY NotNull, Fields
<1>. HIDE DEF node
<1>2. rest.node = node /\ rest.at = at /\ rest.status = "good"
  BY Fields
<1>3. Before(item, rest) = Result(Node(rest.node.type, Cons(item, rest.node.value)), rest.at, rest.status)
  BY <1>1, <1>2 DEF Before, Cons
<1>. HIDE DEF rest
<1>4. Before(item, rest) = Good(Node(kind, Cons(item, s)), at)
  BY <1>1, <1>2, <1>3 DEF Good
<1>. QED
  BY <1>4 DEF rest, node

\* How a value begins.
LEMMA Starts ==
    ASSUME NEW t \in Seq(Alphabet), NEW a \in 0 .. Len(t), NEW b \in 0 .. Len(t), NEW f
    PROVE  /\ \A v \in Denoted(t, a, b, f) : At(t, a) \in Digits \cup {"i", "l", "d"} /\ a < b
           /\ \A s \in StringsIn(t, a, b) : At(t, a) \in Digits /\ a < b
<1>1. ASSUME NEW v \in Denoted(t, a, b, f) PROVE At(t, a) \in Digits \cup {"i", "l", "d"} /\ a < b
  <2>1. a \in Int /\ b \in Int
    BY Characters
  <2>2. a < b /\ t[a + 1] \in Digits \cup {"i", "l", "d"}
    BY <2>1, InDenoted
  <2>3. a \in 0 .. Len(t) - 1
    BY <2>2, Characters
  <2>. QED
    BY <2>2, <2>3, Characters
<1>. QED
  BY <1>1, StringIsRead

\* A value that is a collection, when the collection is read as the grammar says.
LEMMA Collected ==
    ASSUME NEW t \in Seq(Alphabet), NEW p \in 0 .. Len(t), NEW kind \in Kinds,
           At(t, p) = (IF kind = "list" THEN "l" ELSE "d"),
           Reads(t, kind, p + 1), ReadsOnly(t, kind, p + 1)
    PROVE  ValueAgrees(t, p)
<1>. DEFINE made == Loops(t)[<<kind, p + 1>>]
            x == Value(t, p)
<1>1. Len(t) \in Nat /\ p \in 0 .. Len(t) - 1 /\ p \in Int /\ t[p + 1] = At(t, p)
  <2>1. At(t, p) # EOF
    BY DEF EOF
  <2>. QED
    BY <2>1, Characters
<1>2. x = Spanned(p, made)
  BY ValueIs DEF Value, Kinds
<1>3. t[p + 1] \notin Digits /\ t[p + 1] # "i"
      /\ (t[p + 1] = "l" <=> kind = "list") /\ (t[p + 1] = "d" <=> kind = "dict")
  BY <1>1 DEF Digits, Kinds
<1>4. ASSUME NEW b \in p + 1 .. Len(t), NEW v
      PROVE  v \in Means(t, p, b) <=>
                /\ t[b] = "e" /\ p + 1 # b
                /\ \E s \in Bodies(t)[<<kind, p + 1, b - 1>>] : v = Placed(Node(kind, s), p, b)
  <2>1. p < b /\ b \in Int /\ p \in Int
    BY <1>1
  <2>2. CASE kind = "list"
    <3>1. t[p + 1] = "l"
      BY <1>3, <2>2
    <3>2. v \in Denoted(t, p, b, Bodies(t)) <=>
             t[b] = "e" /\ p + 1 # b
               /\ \E s \in Bodies(t)[<<"list", p + 1, b - 1>>] : v = Placed(Node("list", s), p, b)
      BY <2>1, <3>1, InList
    <3>. QED
      BY <2>2, <3>2 DEF Means
  <2>3. CASE kind = "dict"
    <3>1. t[p + 1] = "d"
      BY <1>3, <2>3
    <3>2. v \in Denoted(t, p, b, Bodies(t)) <=>
             t[b] = "e" /\ p + 1 # b
               /\ \E s \in Bodies(t)[<<"dict", p + 1, b - 1>>] : v = Placed(Node("dict", s), p, b)
      BY <2>1, <3>1, InDict
    <3>. QED
      BY <2>3, <3>2 DEF Means
  <2>. QED
    BY <2>2, <2>3 DEF Kinds
<1>5. ASSUME NEW b \in p + 1 .. Len(t), NEW v \in Means(t, p, b) PROVE x = Good(v, b) /\ v # NULL
  <2>1. PICK s \in Bodies(t)[<<kind, p + 1, b - 1>>] : v = Placed(Node(kind, s), p, b)
    BY <1>4
  <2>2. /\ b - 1 \in p + 1 .. Len(t) - 1 /\ b - 1 \in 0 .. Len(t) - 1
        /\ (b - 1) + 1 = b /\ t[b] = "e"
    BY <1>1, <1>4
  <2>3. At(t, b - 1) = "e"
    BY <2>2, Characters
  <2>4. made = Good(Node(kind, s), (b - 1) + 1)
    BY <2>1, <2>2, <2>3 DEF Reads
  <2>5. made = Good(Node(kind, s), b)
    BY <2>2, <2>4
  <2>. HIDE DEF made, x
  <2>. QED
    BY <1>2, <2>1, <2>5, SpannedGood
<1>6. ASSUME x.status = "good", x.node # NULL
      PROVE  x.at \in p + 1 .. Len(t) /\ x.node \in Means(t, p, x.at)
  <2>1. made.status = "good"
    <3>1. made.node = NULL => x = made
      BY <1>2 DEF Spanned
    <3>2. made.node # NULL => x.status = made.status
      BY <1>2, SpannedParts
    <3>. HIDE DEF made, x
    <3>. QED
      BY <1>6, <3>1, <3>2
  <2>2. PICK c \in p + 1 .. Len(t) - 1 : /\ At(t, c) = "e"
                                         /\ \E s \in Bodies(t)[<<kind, p + 1, c>>] : made = Good(Node(kind, s), c + 1)
    BY <2>1 DEF ReadsOnly
  <2>3. PICK s \in Bodies(t)[<<kind, p + 1, c>>] : made = Good(Node(kind, s), c + 1)
    BY <2>2
  <2>4. x = Good(Placed(Node(kind, s), p, c + 1), c + 1)
    <3>. HIDE DEF made, x
    <3>. QED
      BY <1>2, <2>3, SpannedGood
  <2>5. x.node = Placed(Node(kind, s), p, c + 1) /\ x.at = c + 1
    <3>. HIDE DEF x
    <3>. QED
      BY <2>4, Fields
  <2>6. c \in 0 .. Len(t) - 1 /\ c + 1 \in p + 1 .. Len(t) /\ p + 1 # c + 1 /\ (c + 1) - 1 = c
    BY <1>1
  <2>7. t[c + 1] = "e"
    BY <2>2, <2>6, Characters
  <2>8. Placed(Node(kind, s), p, c + 1) \in Means(t, p, c + 1)
    BY <1>4, <2>6, <2>7
  <2>. HIDE DEF x
  <2>. QED
    BY <2>5, <2>6, <2>8
<1>. HIDE DEF x
<1>. QED
  BY <1>5, <1>6 DEF ValueAgrees, x

LEMMA ValueReads ==
    ASSUME NEW t \in Seq(Alphabet), NEW p \in 0 .. Len(t), p < Len(t) => Agrees(t, p + 1)
    PROVE  ValueAgrees(t, p)
<1>. DEFINE x == Value(t, p)
<1>1. Len(t) \in Nat /\ p \in Int /\ (p # Len(t) => p \in 0 .. Len(t) - 1 /\ t[p + 1] = At(t, p))
  BY Characters
<1>2. CASE At(t, p) \in {"l", "d"}
  <2>1. p < Len(t)
    <3>1. p # Len(t)
      BY <1>2, Characters DEF EOF
    <3>. QED
      BY <1>1, <3>1
  <2>2. Agrees(t, p + 1)
    BY <2>1
  <2>3. CASE At(t, p) = "l"
    <3>1. "list" \in Kinds /\ Reads(t, "list", p + 1) /\ ReadsOnly(t, "list", p + 1)
      BY <2>2 DEF Agrees, Kinds
    <3>. QED
      BY <2>3, <3>1, Collected
  <2>4. CASE At(t, p) = "d"
    <3>1. "dict" \in Kinds /\ Reads(t, "dict", p + 1) /\ ReadsOnly(t, "dict", p + 1) /\ "dict" # "list"
      BY <2>2 DEF Agrees, Kinds
    <3>. QED
      BY <2>4, <3>1, Collected
  <2>. QED
    BY <1>2, <2>3, <2>4
<1>3. CASE At(t, p) = "i"
  <2>. DEFINE made == parseInt(t, p)
  <2>1. p \in 0 .. Len(t) - 1 /\ t[p + 1] = "i"
    <3>1. p # Len(t)
      BY <1>3, Characters DEF EOF
    <3>. QED
      BY <1>1, <1>3, <3>1
  <2>2. x = Spanned(p, made)
    BY <1>3, ValueIs DEF Value
  <2>3. ASSUME NEW b \in p + 1 .. Len(t), NEW v
        PROVE  v \in Means(t, p, b) <=>
                 t[b] = "e" /\ p + 1 # b /\ \E s \in Numbers(t, p + 1, b - 1) : v = Placed(Node("int", s), p, b)
    <3>1. p < b /\ b \in Int
      BY <1>1
    <3>. QED
      BY <1>1, <2>1, <3>1, InInt DEF Means
  <2>4. ASSUME NEW b \in p + 1 .. Len(t), NEW v \in Means(t, p, b) PROVE x = Good(v, b) /\ v # NULL
    <3>1. PICK s \in Numbers(t, p + 1, b - 1) : v = Placed(Node("int", s), p, b)
      BY <2>3
    <3>2. b \in p + 2 .. Len(t) /\ t[b] = "e"
      BY <1>1, <2>3
    <3>3. made = Good(Node("int", s), b)
      BY <3>2, IntIsRead
    <3>. HIDE DEF made, x
    <3>. QED
      BY <2>2, <3>1, <3>3, SpannedGood
  <2>5. ASSUME x.status = "good" PROVE x.at \in p + 1 .. Len(t) /\ x.node \in Means(t, p, x.at)
    <3>1. /\ made = Result(Node("int", made.node.value), made.at, made.status)
          /\ made.status = "good" =>
               /\ made.at \in p + 2 .. Len(t)
               /\ t[made.at] = "e"
               /\ made.node.value \in Numbers(t, p + 1, made.at - 1)
      BY <1>3, IntRead
    <3>. DEFINE s == made.node.value
                b == made.at
                node == Node("int", s)
    <3>2. made.node = node
      BY <3>1, PartsOf
    <3>. HIDE DEF made
    <3>3. made.node # NULL
      BY <3>2, NotNull
    <3>4. x.node = Placed(made.node, p, b) /\ x.at = b /\ x.status = made.status
      BY <2>2, <3>3, SpannedParts
    <3>5. b \in p + 1 .. Len(t) /\ p + 1 # b
      BY <1>1, <2>5, <3>1, <3>4
    <3>6. Placed(node, p, b) \in Means(t, p, b)
      BY <2>3, <2>5, <3>1, <3>4, <3>5
    <3>. HIDE DEF x, node, b
    <3>. QED
      BY <3>2, <3>4, <3>5, <3>6
  <2>. HIDE DEF x
  <2>. QED
    BY <2>4, <2>5 DEF ValueAgrees, x
<1>4. CASE At(t, p) \in Digits
  <2>. DEFINE made == parseString(t, p)
  <2>1. p \in 0 .. Len(t) - 1 /\ t[p + 1] \in Digits
    <3>1. p # Len(t)
      BY <1>4, Characters DEF EOF, Digits
    <3>. QED
      BY <1>1, <1>4, <3>1
  <2>2. x = Spanned(p, made)
    BY <1>4, ValueIs DEF Value
  <2>3. ASSUME NEW b \in p + 1 .. Len(t), NEW v
        PROVE  v \in Means(t, p, b) <=> \E s \in StringsIn(t, p, b) : v = Placed(Node("str", s), p, b)
    <3>1. p < b /\ b \in Int /\ p \in Int /\ t[p + 1] \in Digits
      BY <1>1, <2>1
    <3>2. Denoted(t, p, b, Bodies(t)) = Nodes("str", StringsIn(t, p, b), p, b)
      BY <3>1 DEF Denoted
    <3>3. v \in Nodes("str", StringsIn(t, p, b), p, b)
             <=> \E s \in StringsIn(t, p, b) : v = Placed(Node("str", s), p, b)
      BY DEF Nodes
    <3>. QED
      BY <3>2, <3>3 DEF Means
  <2>4. ASSUME NEW b \in p + 1 .. Len(t), NEW v \in Means(t, p, b) PROVE x = Good(v, b) /\ v # NULL
    <3>1. PICK s \in StringsIn(t, p, b) : v = Placed(Node("str", s), p, b)
      BY <2>3
    <3>2. b \in 0 .. Len(t)
      BY <1>1
    <3>3. made = Good(Node("str", s), b)
      BY <3>2, StringIsRead
    <3>. HIDE DEF made, x
    <3>. QED
      BY <2>2, <3>1, <3>3, SpannedGood
  <2>5. ASSUME x.status = "good" PROVE x.at \in p + 1 .. Len(t) /\ x.node \in Means(t, p, x.at)
    <3>1. CASE made = Bad(made.at)
      <4>1. made.node = NULL /\ made.status = "error"
        BY <3>1, Fields
      <4>. HIDE DEF made
      <4>2. x = made
        BY <2>2, <4>1 DEF Spanned
      <4>. QED
        BY <2>5, <4>1, <4>2
    <3>2. CASE made # Bad(made.at)
      <4>. DEFINE s == made.node.value
                  b == made.at
                  node == Node("str", s)
      <4>1. made = Good(node, b) /\ b \in p + 1 .. Len(t) /\ s \in StringsIn(t, p, b)
        BY <1>4, <3>2, StringRead
      <4>2. Placed(node, p, b) \in Means(t, p, b)
        BY <2>3, <4>1
      <4>. HIDE DEF made, b, s
      <4>3. x = Good(Placed(node, p, b), b)
        BY <2>2, <4>1, SpannedGood
      <4>4. x.node = Placed(node, p, b) /\ x.at = b
        <5>. HIDE DEF x
        <5>. QED
          BY <4>3, Fields
      <4>. HIDE DEF x
      <4>. QED
        BY <4>1, <4>2, <4>4
    <3>. QED
      BY <3>1, <3>2
  <2>. HIDE DEF x
  <2>. QED
    BY <2>4, <2>5 DEF ValueAgrees, x
<1>5. CASE At(t, p) \notin Digits \cup {"l", "d", "i"}
  <2>1. x = Good(NULL, p)
    BY <1>5, ValueIs DEF Value
  <2>2. x.node = NULL
    BY <2>1, Fields
  <2>3. ASSUME NEW b \in p + 1 .. Len(t), NEW v \in Means(t, p, b) PROVE FALSE
    <3>1. b \in 0 .. Len(t)
      BY <1>1
    <3>. QED
      BY <1>5, <3>1, Starts DEF Means
  <2>. HIDE DEF x
  <2>. QED
    BY <2>2, <2>3 DEF ValueAgrees, x
<1>. QED
  BY <1>2, <1>3, <1>4, <1>5

\* What is at the end of a collection.
LEMMA EmptyAt ==
    ASSUME NEW t \in Seq(Alphabet), NEW p \in 0 .. Len(t)
    PROVE  /\ <<>> \in Bodies(t)[<<"list", p, p>>]
           /\ <<>> \in Bodies(t)[<<"dict", p, p>>]
  BY BodiesAre, InLists, InDicts

LEMMA InListBodies ==
    ASSUME NEW t \in Seq(Alphabet), NEW a \in 0 .. Len(t), NEW b \in 0 .. Len(t), NEW s
    PROVE  s \in Bodies(t)[<<"list", a, b>>] <=>
              \/ a = b /\ s = <<>>
              \/ a # b /\ Headed(t, a, b, Bodies(t), s)
<1>. DEFINE f == Bodies(t)
<1>1. f[<<"list", a, b>>] = Lists(t, a, b, f)
  BY BodiesAre
<1>. HIDE DEF f
<1>2. s \in Lists(t, a, b, f) <=> (a = b /\ s = <<>>) \/ (a # b /\ Headed(t, a, b, f, s))
  BY InLists
<1>. QED
  BY <1>1, <1>2 DEF f

LEMMA InDictBodies ==
    ASSUME NEW t \in Seq(Alphabet), NEW a \in 0 .. Len(t), NEW b \in 0 .. Len(t), NEW s
    PROVE  s \in Bodies(t)[<<"dict", a, b>>] <=>
              \/ a = b /\ s = <<>>
              \/ a # b /\ \E k \in StringsIn(t, a, b) : s = <<[key |-> k, value |-> NULL]>>
              \/ a # b /\ Longer(t, a, b, Bodies(t), s)
<1>. DEFINE f == Bodies(t)
<1>1. f[<<"dict", a, b>>] = Dicts(t, a, b, f)
  BY BodiesAre
<1>. HIDE DEF f
<1>2. s \in Dicts(t, a, b, f) <=>
         \/ a = b /\ s = <<>>
         \/ a # b /\ \E k \in StringsIn(t, a, b) : s = <<[key |-> k, value |-> NULL]>>
         \/ a # b /\ Longer(t, a, b, f, s)
  BY InDicts
<1>. QED
  BY <1>1, <1>2 DEF f

LEMMA ListReads ==
    ASSUME NEW t \in Seq(Alphabet), NEW p \in 0 .. Len(t), \A q \in p + 1 .. Len(t) : Agrees(t, q)
    PROVE  Reads(t, "list", p) /\ ReadsOnly(t, "list", p)
<1>. DEFINE item == Value(t, p)
            r    == Loops(t)[<<"list", p>>]
            m    == item.at
            rest == Loops(t)[<<"list", m>>]
<1>1. Len(t) \in Nat /\ (p # Len(t) => p \in 0 .. Len(t) - 1) /\ "list" \in Kinds
  BY Characters DEF Kinds
<1>2. r = ListLoop(t, p, Loops(t))
  BY LoopsAre
<1>3. ValueAgrees(t, p)
  <2>1. p < Len(t) => p + 1 \in p + 1 .. Len(t)
    BY <1>1
  <2>. QED
    BY <2>1, ValueReads
<1>4. ASSUME NEW b \in p .. Len(t) - 1, NEW s
      PROVE  s \in Bodies(t)[<<"list", p, b>>] <=>
                \/ p = b /\ s = <<>>
                \/ p # b /\ \E k \in p + 1 .. b : \E v \in Means(t, p, k), tail \in Bodies(t)[<<"list", k, b>>] :
                             s = Cons(v, tail)
  <2>1. b \in 0 .. Len(t)
    BY <1>1
  <2>2. s \in Bodies(t)[<<"list", p, b>>] <=>
           (p = b /\ s = <<>>) \/ (p # b /\ Headed(t, p, b, Bodies(t), s))
    BY <2>1, InListBodies
  <2>. QED
    BY <2>2 DEF Means, Headed
<1>5. ASSUME NEW b \in p .. Len(t) - 1, At(t, b) = "e", NEW s \in Bodies(t)[<<"list", p, b>>]
      PROVE  r = Good(Node("list", s), b + 1)
  <2>1. CASE p = b
    BY <1>2, <1>4, <1>5, <2>1, ListTurn
  <2>2. CASE p # b
    <3>0. PICK k \in p + 1 .. b : \E v \in Means(t, p, k), tail \in Bodies(t)[<<"list", k, b>>] : s = Cons(v, tail)
      BY <1>4, <2>2
    <3>1. PICK v \in Means(t, p, k), tail \in Bodies(t)[<<"list", k, b>>] : s = Cons(v, tail)
      BY <3>0
    <3>2. k \in p + 1 .. Len(t) /\ k \in 0 .. Len(t) /\ b \in k .. Len(t) - 1
      BY <1>1
    <3>3. item = Good(v, k) /\ v # NULL
      BY <1>3, <3>2 DEF ValueAgrees
    <3>4. Loops(t)[<<"list", k>>] = Good(Node("list", tail), b + 1)
      BY <1>5, <3>2 DEF Agrees, Reads
    <3>5. At(t, p) \notin {"e", EOF}
      <4>1. At(t, p) \in Digits \cup {"i", "l", "d"}
        BY <3>2, Starts DEF Means
      <4>. QED
        BY <4>1 DEF Digits, EOF
    <3>6. item.status = "good" /\ item.node = v /\ m = k
      <4>. HIDE DEF item
      <4>. QED
        BY <3>3, Fields
    <3>7. r = Before(item.node, rest)
      BY <1>2, <3>3, <3>5, <3>6, ListTurn DEF Value
    <3>8. r = Before(v, Good(Node("list", tail), b + 1))
      <4>. HIDE DEF r, m, item
      <4>. QED
        BY <3>4, <3>6, <3>7
    <3>. HIDE DEF r
    <3>. QED
      BY <1>1, <3>1, <3>8, BeforeGood
  <2>. QED
    BY <2>1, <2>2
<1>6. ASSUME r.status = "good"
      PROVE  \E b \in p .. Len(t) - 1 : /\ At(t, b) = "e"
                                        /\ \E s \in Bodies(t)[<<"list", p, b>>] : r = Good(Node("list", s), b + 1)
  <2>1. CASE At(t, p) = "e"
    <3>1. r = Good(Node("list", <<>>), p + 1)
      BY <1>2, <2>1, ListTurn
    <3>2. p \in p .. Len(t) - 1
      BY <1>1, <2>1, Characters DEF EOF
    <3>3. <<>> \in Bodies(t)[<<"list", p, p>>]
      BY EmptyAt
    <3>. HIDE DEF r
    <3>. QED
      BY <2>1, <3>1, <3>2, <3>3
  <2>2. CASE At(t, p) = EOF
    <3>1. r = Bad(p)
      BY <1>2, <2>2, ListTurn
    <3>. HIDE DEF r
    <3>. QED
      BY <1>6, <3>1, Fields
  <2>3. CASE At(t, p) \notin {"e", EOF}
    <3>1. item.status = "good" /\ item.node # NULL
      <4>1. SUFFICES ASSUME ~(item.status = "good" /\ item.node # NULL) PROVE FALSE
        OBVIOUS
      <4>2. \/ r = Result(NULL, m, item.status) /\ item.status # "good"
            \/ r = Result(NULL, p, "never returns")
        BY <1>2, <2>3, <4>1, ListTurn DEF Value
      <4>3. CASE r = Result(NULL, m, item.status) /\ item.status # "good"
        <5>1. r.status = item.status
          <6>. HIDE DEF r, m, item
          <6>. QED
            BY <4>3 DEF Result
        <5>. QED
          BY <1>6, <4>3, <5>1
      <4>4. CASE r = Result(NULL, p, "never returns")
        <5>1. r.status = "never returns"
          <6>. HIDE DEF r
          <6>. QED
            BY <4>4 DEF Result
        <5>. QED
          BY <1>6, <5>1
      <4>. QED
        BY <4>2, <4>3, <4>4
    <3>2. r = Before(item.node, rest)
      BY <1>2, <2>3, <3>1, ListTurn DEF Value
    <3>3. m \in p + 1 .. Len(t) /\ item.node \in Means(t, p, m)
      BY <1>3, <3>1 DEF ValueAgrees
    <3>. HIDE DEF item, m
    <3>4. m \in 0 .. Len(t) /\ m .. Len(t) - 1 \subseteq p + 1 .. Len(t) - 1
      BY <1>1, <3>3
    <3>5. rest.status = "good"
      <4>. HIDE DEF r, rest
      <4>. QED
        BY <1>6, <3>2, BeforeParts
    <3>6. PICK b \in m .. Len(t) - 1 : /\ At(t, b) = "e"
                                       /\ \E s \in Bodies(t)[<<"list", m, b>>] : rest = Good(Node("list", s), b + 1)
      BY <3>3, <3>5 DEF Agrees, ReadsOnly
    <3>7. PICK tail \in Bodies(t)[<<"list", m, b>>] : rest = Good(Node("list", tail), b + 1)
      BY <3>6
    <3>8. b \in p .. Len(t) - 1 /\ p # b /\ m \in p + 1 .. b
      BY <1>1, <3>3, <3>6
    <3>9. Cons(item.node, tail) \in Bodies(t)[<<"list", p, b>>]
      BY <1>4, <3>3, <3>7, <3>8
    <3>10. r = Good(Node("list", Cons(item.node, tail)), b + 1)
      <4>. HIDE DEF r, rest
      <4>. QED
        BY <1>1, <3>2, <3>7, BeforeGood
    <3>. HIDE DEF r
    <3>. QED
      BY <3>6, <3>8, <3>9, <3>10
  <2>. QED
    BY <2>1, <2>2, <2>3
<1>. HIDE DEF r
<1>. QED
  BY <1>5, <1>6 DEF Reads, ReadsOnly, r

\* A value without a node is a place where no string begins.
LEMMA NoValue ==
    ASSUME NEW t \in Seq(Alphabet), NEW p \in 0 .. Len(t),
           Value(t, p).status = "good", Value(t, p).node = NULL
    PROVE  Value(t, p).at = p /\ At(t, p) \notin Digits
<1>. DEFINE x == Value(t, p)
            made == parseString(t, p)
<1>1. x.at = p
  BY LoopsAre, ValueShape, Characters DEF Value, ValueShaped
<1>2. ASSUME At(t, p) \in Digits PROVE FALSE
  <2>1. x = Spanned(p, made)
    BY <1>2, ValueIs DEF Value
  <2>2. CASE made = Bad(made.at)
    <3>1. made.node = NULL /\ made.status = "error"
      BY <2>2, Fields
    <3>2. x = made
      <4>. HIDE DEF made, x
      <4>. QED
        BY <2>1, <3>1 DEF Spanned
    <3>. QED
      BY <3>1, <3>2
  <2>3. CASE made # Bad(made.at)
    <3>1. made = Good(Node("str", made.node.value), made.at)
      BY <1>2, <2>3, StringRead
    <3>. DEFINE node == Node("str", made.node.value)
                b == made.at
    <3>2. x = Good(Placed(node, p, b), b) /\ Placed(node, p, b) # NULL
      <4>1. made = Good(node, b)
        BY <3>1
      <4>2. Spanned(p, Good(node, b)) = Good(Placed(node, p, b), b) /\ Placed(node, p, b) # NULL
        <5>. HIDE DEF made
        <5>. QED
          BY SpannedGood
      <4>. HIDE DEF made, x, b, node
      <4>. QED
        BY <2>1, <4>1, <4>2
    <3>3. x.node = Placed(node, p, b)
      <4>. HIDE DEF x, b, node
      <4>. QED
        BY <3>2, Fields
    <3>. QED
      BY <3>2, <3>3
  <2>. QED
    BY <2>2, <2>3
<1>. QED
  BY <1>1, <1>2

LEMMA ConsNothing == \A item : Cons(item, <<>>) = <<item>>
<1>1. ASSUME NEW item PROVE <<item>> \o <<>> = <<item>>
  <2>1. <<item>> \in Seq({item})
    OBVIOUS
  <2>. QED
    BY <2>1, ConcatEmptySeq
<1>. QED
  BY <1>1 DEF Cons

\* A dictionary that begins with a key, and what is read from then on.
LEMMA DictKey ==
    ASSUME NEW t \in Seq(Alphabet), NEW p \in 0 .. Len(t), At(t, p) \in Digits,
           LET r == Loops(t)[<<"dict", p>>] IN r.status = "good" \/ r.node # NULL
    PROVE  LET key   == parseString(t, p)
               value == Value(t, key.at)
           IN  /\ key.status = "good"
               /\ value.status = "good"
               /\ key.at \in p + 1 .. Len(t) /\ key.at \in 0 .. Len(t)
               /\ key.node.value \in StringsIn(t, p, key.at)
               /\ value.at \in p + 1 .. Len(t)
               /\ Loops(t)[<<"dict", p>>] = Before([key |-> key.node.value, value |-> value.node],
                                                   Loops(t)[<<"dict", value.at>>])
<1>. DEFINE key   == parseString(t, p)
            value == Value(t, key.at)
            r     == Loops(t)[<<"dict", p>>]
            entry == [key |-> key.node.value, value |-> value.node]
<1>1. r = DictLoop(t, p, Loops(t)) /\ ShapedBeyond(t, p, Loops(t))
  BY LoopsAre
<1>2. key.status = "good"
  <2>1. SUFFICES ASSUME key.status # "good" PROVE FALSE
    OBVIOUS
  <2>2. r = Bad(key.at)
    BY <1>1, <2>1, DictTurn
  <2>3. r.node = NULL /\ r.status = "error"
    <3>. HIDE DEF r, key
    <3>. QED
      BY <2>2, Fields
  <2>. QED
    BY <2>3
<1>3. /\ key.at \in p + 1 .. Len(t) /\ key.at \in 0 .. Len(t)
      /\ key.node.value \in StringsIn(t, p, key.at)
      /\ value.status = "good" => value.at \in p + 1 .. Len(t)
  BY <1>1, <1>2, KeyThenValue DEF Value
<1>4. value.status = "good"
  <2>1. SUFFICES ASSUME value.status # "good" PROVE FALSE
    OBVIOUS
  <2>2. r = Result(NULL, value.at, value.status)
    BY <1>1, <1>2, <2>1, DictTurn DEF Value
  <2>3. r.node = NULL /\ r.status = value.status
    <3>. HIDE DEF r, value
    <3>. QED
      BY <2>2 DEF Result
  <2>. QED
    BY <2>1, <2>3
<1>5. r = Before(entry, Loops(t)[<<"dict", value.at>>])
  BY <1>1, <1>2, <1>4, DictTurn DEF Value
<1>. QED
  BY <1>2, <1>3, <1>4, <1>5

\* What comes after a key without a value.
LEMMA AfterLastKey ==
    ASSUME NEW t \in Seq(Alphabet), NEW p \in 0 .. Len(t), At(t, p) \notin Digits
    PROVE  LET r == Loops(t)[<<"dict", p>>]
           IN  \/ At(t, p) = "e" /\ r = Good(Node("dict", <<>>), p + 1)
               \/ p = Len(t) /\ r = Result(Node("dict", <<>>), p, "error")
               \/ r = Bad(p)
<1>1. Loops(t)[<<"dict", p>>] = DictLoop(t, p, Loops(t))
  BY LoopsAre
<1>2. (At(t, p) = EOF) <=> p = Len(t)
  BY Characters
<1>. QED
  BY <1>1, <1>2, DictTurn

LEMMA DictIsRead ==
    ASSUME NEW t \in Seq(Alphabet), NEW p \in 0 .. Len(t), \A q \in p + 1 .. Len(t) : Agrees(t, q)
    PROVE  Reads(t, "dict", p)
<1>. DEFINE key   == parseString(t, p)
            value == Value(t, key.at)
            entry == [key |-> key.node.value, value |-> value.node]
            r     == Loops(t)[<<"dict", p>>]
<1>1. Len(t) \in Nat /\ "dict" \in Kinds
  BY Characters DEF Kinds
<1>2. r = DictLoop(t, p, Loops(t))
  BY LoopsAre
<1>3. SUFFICES ASSUME NEW b \in p .. Len(t) - 1, At(t, b) = "e", NEW s \in Bodies(t)[<<"dict", p, b>>]
               PROVE  r = Good(Node("dict", s), b + 1)
  BY DEF Reads
<1>4. b \in 0 .. Len(t)
  BY <1>1
<1>5. CASE p = b
  <2>1. s = <<>>
    BY <1>4, <1>5, InDictBodies
  <2>. QED
    BY <1>2, <1>3, <1>5, <2>1, DictTurn
<1>6. CASE p # b /\ \E k \in StringsIn(t, p, b) : s = <<[key |-> k, value |-> NULL]>>
  <2>1. PICK k \in StringsIn(t, p, b) : s = <<[key |-> k, value |-> NULL]>>
    BY <1>6
  <2>2. key = Good(Node("str", k), b) /\ At(t, p) \in Digits
    BY <1>4, StringIsRead
  <2>3. key.status = "good" /\ key.at = b /\ key.node.value = k
    <3>1. key.node = Node("str", k) /\ key.at = b /\ key.status = "good"
      <4>. HIDE DEF key
      <4>. QED
        BY <2>2 DEF Good, Result
    <3>2. Node("str", k).value = k
      BY Fields
    <3>. QED
      BY <3>1, <3>2
  <2>4. value = Good(NULL, b)
    <3>1. At(t, b) \notin Digits \cup {"l", "d", "i"}
      BY <1>3 DEF Digits
    <3>2. Value(t, b) = Good(NULL, b)
      BY <3>1, ValueIs DEF Value
    <3>. QED
      BY <2>3, <3>2
  <2>5. value.status = "good" /\ value.at = b /\ value.node = NULL
    <3>. HIDE DEF value
    <3>. QED
      BY <2>4, Fields
  <2>6. r = Before(entry, Loops(t)[<<"dict", value.at>>])
    BY <1>2, <2>2, <2>3, <2>5, DictTurn DEF Value
  <2>7. Loops(t)[<<"dict", b>>] = Good(Node("dict", <<>>), b + 1)
    <3>1. Loops(t)[<<"dict", b>>] = DictLoop(t, b, Loops(t))
      BY <1>4, LoopsAre
    <3>2. DictLoop(t, b, Loops(t)) = Good(Node("dict", <<>>), b + 1)
      BY <1>3, <1>4, DictTurn
    <3>. QED
      BY <3>1, <3>2
  <2>8. r = Good(Node("dict", Cons([key |-> k, value |-> NULL], <<>>)), b + 1)
    <3>. HIDE DEF r, key, value
    <3>. QED
      BY <1>1, <2>3, <2>5, <2>6, <2>7, BeforeGood
  <2>. HIDE DEF r
  <2>. QED
    BY <2>1, <2>8, ConsNothing
<1>7. CASE p # b /\ Longer(t, p, b, Bodies(t), s)
  <2>1. PICK m \in p + 1 .. b : \E n \in m + 1 .. b :
             \E k \in StringsIn(t, p, m), v \in Denoted(t, m, n, Bodies(t)), rest \in Bodies(t)[<<"dict", n, b>>] :
                s = Cons([key |-> k, value |-> v], rest)
    BY <1>7 DEF Longer
  <2>2. PICK n \in m + 1 .. b :
             \E k \in StringsIn(t, p, m), v \in Denoted(t, m, n, Bodies(t)), rest \in Bodies(t)[<<"dict", n, b>>] :
                s = Cons([key |-> k, value |-> v], rest)
    BY <2>1
  <2>3. PICK k \in StringsIn(t, p, m), v \in Denoted(t, m, n, Bodies(t)), rest \in Bodies(t)[<<"dict", n, b>>] :
                s = Cons([key |-> k, value |-> v], rest)
    BY <2>2
  <2>4. /\ m \in 0 .. Len(t) /\ (m < Len(t) => m + 1 \in p + 1 .. Len(t))
        /\ n \in m + 1 .. Len(t) /\ n \in p + 1 .. Len(t) /\ b \in n .. Len(t) - 1
    BY <1>1
  <2>5. key = Good(Node("str", k), m) /\ At(t, p) \in Digits
    BY <2>4, StringIsRead
  <2>6. key.status = "good" /\ key.at = m /\ key.node.value = k
    <3>1. key.node = Node("str", k) /\ key.at = m /\ key.status = "good"
      <4>. HIDE DEF key
      <4>. QED
        BY <2>5 DEF Good, Result
    <3>2. Node("str", k).value = k
      BY Fields
    <3>. QED
      BY <3>1, <3>2
  <2>7. value = Good(v, n)
    <3>1. ValueAgrees(t, m)
      BY <2>4, ValueReads
    <3>2. Value(t, m) = Good(v, n)
      BY <2>4, <3>1 DEF ValueAgrees, Means
    <3>. QED
      BY <2>6, <3>2
  <2>8. value.status = "good" /\ value.at = n /\ value.node = v
    <3>. HIDE DEF value
    <3>. QED
      BY <2>7, Fields
  <2>9. r = Before(entry, Loops(t)[<<"dict", value.at>>])
    BY <1>2, <2>5, <2>6, <2>8, DictTurn DEF Value
  <2>10. Loops(t)[<<"dict", n>>] = Good(Node("dict", rest), b + 1)
    BY <1>3, <2>4 DEF Agrees, Reads
  <2>11. r = Good(Node("dict", Cons([key |-> k, value |-> v], rest)), b + 1)
    <3>. HIDE DEF r, key, value
    <3>. QED
      BY <1>1, <2>6, <2>8, <2>9, <2>10, BeforeGood
  <2>. HIDE DEF r
  <2>. QED
    BY <2>3, <2>11
<1>. QED
  BY <1>4, <1>5, <1>6, <1>7, InDictBodies

\* What is left of a text after a value, when it is a part of a dictionary, and
\* the dictionary with what comes before it.
LEMMA DictGrows ==
    ASSUME NEW t \in Seq(Alphabet), NEW p \in 0 .. Len(t), NEW m \in p + 1 .. Len(t),
           NEW b \in m .. Len(t), NEW k \in StringsIn(t, p, m)
    PROVE  /\ <<[key |-> k, value |-> NULL]>> \in Bodies(t)[<<"dict", p, m>>]
           /\ \A n \in m + 1 .. b : \A v \in Means(t, m, n) : \A s \in Bodies(t)[<<"dict", n, b>>] :
                 Cons([key |-> k, value |-> v], s) \in Bodies(t)[<<"dict", p, b>>]
<1>1. Len(t) \in Nat /\ m \in 0 .. Len(t) /\ b \in 0 .. Len(t) /\ p # m /\ p # b /\ m \in p + 1 .. b
  BY Characters
<1>2. <<[key |-> k, value |-> NULL]>> \in Bodies(t)[<<"dict", p, m>>]
  BY <1>1, InDictBodies
<1>3. ASSUME NEW n \in m + 1 .. b, NEW v \in Means(t, m, n), NEW s \in Bodies(t)[<<"dict", n, b>>]
      PROVE  Cons([key |-> k, value |-> v], s) \in Bodies(t)[<<"dict", p, b>>]
  <2>1. Longer(t, p, b, Bodies(t), Cons([key |-> k, value |-> v], s))
    BY <1>1 DEF Longer, Means
  <2>. QED
    BY <1>1, <2>1, InDictBodies
<1>. QED
  BY <1>2, <1>3

LEMMA BeforeNode ==
    ASSUME NEW kind \in Kinds, NEW item, NEW rest, NEW s, rest.node = Node(kind, s)
    PROVE  Before(item, rest).node = Node(kind, Cons(item, s))
<1>1. Node(kind, s) # NULL /\ Node(kind, s).type = kind /\ Node(kind, s).value = s
  BY NotNull, Fields
<1>2. rest.node # NULL /\ rest.node.type = kind /\ rest.node.value = s
  BY <1>1
<1>3. Before(item, rest) = Result(Node(kind, Cons(item, s)), rest.at, rest.status)
  BY <1>2 DEF Before, Cons
<1>. QED
  BY <1>3 DEF Result

LEMMA OnlyDictIsRead ==
    ASSUME NEW t \in Seq(Alphabet), NEW p \in 0 .. Len(t), \A q \in p + 1 .. Len(t) : Agrees(t, q)
    PROVE  ReadsOnly(t, "dict", p) /\ ReadsRest(t, p)
<1>. DEFINE r == Loops(t)[<<"dict", p>>]
            Whole == \E b \in p .. Len(t) - 1 :
                        At(t, b) = "e" /\ \E s \in Bodies(t)[<<"dict", p, b>>] : r = Good(Node("dict", s), b + 1)
            Rest == \E s \in Bodies(t)[<<"dict", p, Len(t)>>] : r.node = Node("dict", s)
<1>1. Len(t) \in Nat /\ "dict" \in Kinds /\ (At(t, p) = "e" => p \in p .. Len(t) - 1)
  BY Characters DEF Kinds, EOF
<1>2. SUFFICES ASSUME r.status = "good" \/ (r.status = "error" /\ r.node # NULL)
               PROVE  (r.status = "good" => Whole) /\ (r.status = "error" => Rest)
  BY DEF ReadsOnly, ReadsRest
<1>3. CASE At(t, p) \notin Digits
  <2>1. CASE At(t, p) = "e" /\ r = Good(Node("dict", <<>>), p + 1)
    <3>1. <<>> \in Bodies(t)[<<"dict", p, p>>]
      BY EmptyAt
    <3>2. r.status = "good"
      <4>. HIDE DEF r
      <4>. QED
        BY <2>1, Fields
    <3>3. Whole
      BY <1>1, <2>1, <3>1
    <3>. QED
      BY <3>2, <3>3
  <2>2. CASE p = Len(t) /\ r = Result(Node("dict", <<>>), p, "error")
    <3>1. <<>> \in Bodies(t)[<<"dict", p, Len(t)>>]
      BY <2>2, EmptyAt
    <3>2. r.status = "error" /\ r.node = Node("dict", <<>>)
      <4>. HIDE DEF r
      <4>. QED
        BY <2>2 DEF Result
    <3>. QED
      BY <3>1, <3>2
  <2>3. CASE r = Bad(p)
    <3>1. r.status = "error" /\ r.node = NULL
      <4>. HIDE DEF r
      <4>. QED
        BY <2>3, Fields
    <3>. QED
      BY <1>2, <3>1
  <2>. QED
    BY <1>3, <2>1, <2>2, <2>3, AfterLastKey
<1>4. CASE At(t, p) \in Digits
  <2>. DEFINE key   == parseString(t, p)
              value == Value(t, key.at)
              m     == key.at
              n     == value.at
              k     == key.node.value
              entry == [key |-> k, value |-> value.node]
              rest  == Loops(t)[<<"dict", n>>]
  <2>1. /\ value.status = "good"
        /\ m \in p + 1 .. Len(t) /\ m \in 0 .. Len(t)
        /\ k \in StringsIn(t, p, m)
        /\ n \in p + 1 .. Len(t)
        /\ r = Before(entry, rest)
    BY <1>2, <1>4, DictKey
  <2>2. r.status = rest.status /\ (r.node # NULL => rest.node # NULL)
    <3>. HIDE DEF rest, r, entry
    <3>. QED
      BY <2>1, BeforeParts
  <2>3. CASE value.node # NULL
    <3>1. ValueAgrees(t, m)
      <4>1. m < Len(t) => m + 1 \in p + 1 .. Len(t)
        BY <1>1, <2>1
      <4>. HIDE DEF m
      <4>. QED
        BY <2>1, <4>1, ValueReads
    <3>2. n \in m + 1 .. Len(t) /\ value.node \in Means(t, m, n)
      BY <2>1, <2>3, <3>1 DEF ValueAgrees
    <3>3. Agrees(t, n)
      BY <2>1
    <3>. HIDE DEF m, n, k, value, key
    <3>4. CASE r.status = "good"
      <4>1. rest.status = "good"
        BY <2>2, <3>4
      <4>2. PICK b \in n .. Len(t) - 1 : /\ At(t, b) = "e"
                                         /\ \E s \in Bodies(t)[<<"dict", n, b>>] : rest = Good(Node("dict", s), b + 1)
        BY <3>3, <4>1 DEF Agrees, ReadsOnly
      <4>3. PICK s \in Bodies(t)[<<"dict", n, b>>] : rest = Good(Node("dict", s), b + 1)
        BY <4>2
      <4>4. b \in p .. Len(t) - 1 /\ b \in m .. Len(t) /\ n \in m + 1 .. b
        BY <1>1, <2>1, <3>2, <4>2
      <4>5. Cons(entry, s) \in Bodies(t)[<<"dict", p, b>>]
        BY <2>1, <3>2, <4>3, <4>4, DictGrows
      <4>6. r = Good(Node("dict", Cons(entry, s)), b + 1)
        <5>. HIDE DEF r, rest, entry
        <5>. QED
          BY <1>1, <2>1, <4>3, BeforeGood
      <4>7. Whole
        <5>. HIDE DEF r, entry
        <5>. QED
          BY <4>2, <4>4, <4>5, <4>6
      <4>. QED
        BY <3>4, <4>7
    <3>5. CASE r.status = "error" /\ r.node # NULL
      <4>1. PICK s \in Bodies(t)[<<"dict", n, Len(t)>>] : rest.node = Node("dict", s)
        BY <2>2, <3>3, <3>5 DEF Agrees, ReadsRest
      <4>2. Len(t) \in m .. Len(t) /\ n \in m + 1 .. Len(t)
        BY <1>1, <2>1, <3>2
      <4>3. Cons(entry, s) \in Bodies(t)[<<"dict", p, Len(t)>>]
        BY <2>1, <3>2, <4>1, <4>2, DictGrows
      <4>4. r.node = Node("dict", Cons(entry, s))
        <5>. HIDE DEF r, rest, entry
        <5>. QED
          BY <1>1, <2>1, <4>1, BeforeNode
      <4>5. Rest
        <5>. HIDE DEF r, entry
        <5>. QED
          BY <4>3, <4>4
      <4>. QED
        BY <3>5, <4>5
    <3>. QED
      BY <1>2, <3>4, <3>5
  <2>4. CASE value.node = NULL
    <3>1. n = m /\ At(t, m) \notin Digits
      BY <2>1, <2>4, NoValue
    <3>2. entry = [key |-> k, value |-> NULL]
      BY <2>4
    <3>. HIDE DEF m, n, k, value, key
    <3>3. m \in m .. Len(t)
      BY <1>1, <2>1
    <3>4. <<entry>> \in Bodies(t)[<<"dict", p, m>>]
      <4>. HIDE DEF entry
      <4>. QED
        BY <2>1, <3>2, <3>3, DictGrows
    <3>5. Cons(entry, <<>>) = <<entry>>
      BY ConsNothing
    <3>. HIDE DEF entry
    <3>6. CASE At(t, m) = "e" /\ rest = Good(Node("dict", <<>>), m + 1)
      <4>1. r = Good(Node("dict", <<entry>>), m + 1)
        <5>1. r = Good(Node("dict", Cons(entry, <<>>)), m + 1)
          <6>. HIDE DEF r, rest
          <6>. QED
            BY <1>1, <2>1, <3>6, BeforeGood
        <5>. HIDE DEF r
        <5>. QED
          BY <3>5, <5>1
      <4>2. r.status = "good"
        <5>. HIDE DEF r
        <5>. QED
          BY <4>1, Fields
      <4>3. m \in p .. Len(t) - 1
        <5>1. m # Len(t)
          BY <3>6, Characters DEF EOF
        <5>. QED
          BY <1>1, <2>1, <5>1
      <4>4. Whole
        <5>. HIDE DEF r
        <5>. QED
          BY <3>4, <3>6, <4>1, <4>3
      <4>. QED
        BY <4>2, <4>4
    <3>7. CASE m = Len(t) /\ rest = Result(Node("dict", <<>>), m, "error")
      <4>1. rest.node = Node("dict", <<>>) /\ rest.status = "error"
        <5>. HIDE DEF rest
        <5>. QED
          BY <3>7 DEF Result
      <4>2. r.node = Node("dict", <<entry>>)
        <5>. HIDE DEF rest, r
        <5>. QED
          BY <1>1, <2>1, <3>5, <4>1, BeforeNode
      <4>3. Rest
        <5>. HIDE DEF r
        <5>. QED
          BY <3>4, <3>7, <4>2
      <4>. QED
        BY <2>2, <4>1, <4>3
    <3>8. CASE rest = Bad(m)
      <4>1. rest.node = NULL /\ rest.status = "error"
        <5>. HIDE DEF rest
        <5>. QED
          BY <3>8, Fields
      <4>. QED
        BY <1>2, <2>2, <4>1
    <3>9. \/ At(t, m) = "e" /\ rest = Good(Node("dict", <<>>), m + 1)
          \/ m = Len(t) /\ rest = Result(Node("dict", <<>>), m, "error")
          \/ rest = Bad(m)
      BY <2>1, <3>1, AfterLastKey
    <3>. QED
      BY <3>6, <3>7, <3>8, <3>9
  <2>. QED
    BY <2>3, <2>4
<1>. QED
  BY <1>3, <1>4

\* The parser reads what the grammar says, from every position on.
THEOREM Agreement ==
    ASSUME NEW t \in Seq(Alphabet)
    PROVE  \A p \in 0 .. Len(t) : Agrees(t, p) /\ ValueAgrees(t, p)
<1>. DEFINE Agreed == {p \in 0 .. Len(t) : Agrees(t, p)}
<1>1. Len(t) \in Nat
  BY Characters
<1>2. ASSUME NEW p \in 0 .. Len(t), \A q \in p + 1 .. Len(t) : q \in Agreed PROVE p \in Agreed
  BY <1>2, ListReads, DictIsRead, OnlyDictIsRead DEF Agrees
<1>3. \A p \in 0 .. Len(t) : p \in Agreed
  <2>. HIDE DEF Agreed
  <2>. QED
    BY <1>1, <1>2, Downward
<1>4. ASSUME NEW p \in 0 .. Len(t) PROVE ValueAgrees(t, p)
  <2>1. p < Len(t) => p + 1 \in 0 .. Len(t)
    BY <1>1
  <2>. QED
    BY <1>3, <2>1, ValueReads
<1>. QED
  BY <1>3, <1>4

------------------------------------------------------------------------------
(* What follows for the readers of a text                                      *)

LEMMA BodiesBegin ==
    ASSUME NEW t, NEW u, Begins(t, u)
    PROVE  \A p \in 0 .. Len(t), b \in 0 .. Len(t) :
              Bodies(t)[<<"dict", p, b>>] = Bodies(u)[<<"dict", p, b>>]
<1>. DEFINE f == Bodies(t)
            g == Bodies(u)
            Same == {p \in 0 .. Len(t) : \A b \in 0 .. Len(t), kind \in Kinds : f[<<kind, p, b>>] = g[<<kind, p, b>>]}
<1>1. Len(t) \in Nat /\ t \in Seq(Alphabet) /\ u \in Seq(Alphabet) /\ 0 .. Len(t) \subseteq 0 .. Len(u)
  BY Characters DEF Begins
<1>2. ASSUME NEW p \in 0 .. Len(t), \A q \in p + 1 .. Len(t) : q \in Same PROVE p \in Same
  <2>1. SamePast(t, p, f, g)
    BY <1>2 DEF SamePast
  <2>2. ASSUME NEW b \in 0 .. Len(t)
        PROVE  f[<<"list", p, b>>] = g[<<"list", p, b>>] /\ f[<<"dict", p, b>>] = g[<<"dict", p, b>>]
    <3>1. /\ f[<<"list", p, b>>] = Lists(t, p, b, f)
          /\ f[<<"dict", p, b>>] = Dicts(t, p, b, f)
      BY <1>1, BodiesAre
    <3>2. p \in 0 .. Len(u) /\ b \in 0 .. Len(u)
      BY <1>1
    <3>3. /\ g[<<"list", p, b>>] = Lists(u, p, b, g)
          /\ g[<<"dict", p, b>>] = Dicts(u, p, b, g)
      BY <1>1, <3>2, BodiesAre
    <3>. HIDE DEF f, g
    <3>4. Lists(t, p, b, f) = Lists(u, p, b, g) /\ Dicts(t, p, b, f) = Dicts(u, p, b, g)
      BY <2>1, ListsSame, DictsSame
    <3>. QED
      BY <3>1, <3>3, <3>4
  <2>. HIDE DEF f, g
  <2>. QED
    BY <2>2 DEF Kinds
<1>3. \A p \in 0 .. Len(t) : p \in Same
  <2>. HIDE DEF Same
  <2>. QED
    BY <1>1, <1>2, Downward
<1>. HIDE DEF f, g
<1>4. \A p \in 0 .. Len(t), b \in 0 .. Len(t) : f[<<"dict", p, b>>] = g[<<"dict", p, b>>]
  BY <1>3 DEF Kinds
<1>. QED
  BY <1>4 DEF f, g

LEMMA OneMore ==
    ASSUME NEW t \in Seq(Alphabet)
    PROVE  LET u == Append(t, "e")
           IN  Begins(t, u) /\ Len(u) = Len(t) + 1 /\ u[Len(t) + 1] = "e"
<1>1. "e" \in Alphabet
  BY DEF Alphabet
<1>. QED
  BY <1>1, Characters DEF Begins

\* What a text begins with is what is read from its beginning.
LEMMA BeginningIs ==
    ASSUME NEW t \in Seq(Alphabet)
    PROVE  LET x == Value(t, 0)
           IN  /\ \A v \in Beginnings(t) : x.status = "good" /\ x.node = v /\ v # NULL
               /\ x.status = "good" /\ x.node # NULL => x.node \in Beginnings(t)
<1>. DEFINE x == Value(t, 0)
<1>1. Len(t) \in Nat /\ 0 \in 0 .. Len(t) /\ 0 + 1 .. Len(t) = 1 .. Len(t)
  BY Characters
<1>2. ValueAgrees(t, 0)
  BY <1>1, Agreement
<1>3. \A v : v \in Beginnings(t) <=> \E b \in 1 .. Len(t) : v \in Means(t, 0, b)
  BY DEF Beginnings, Means
<1>4. ASSUME NEW v \in Beginnings(t) PROVE x.status = "good" /\ x.node = v /\ v # NULL
  <2>1. PICK b \in 1 .. Len(t) : v \in Means(t, 0, b)
    BY <1>3
  <2>2. x = Good(v, b) /\ v # NULL
    BY <1>1, <1>2, <2>1 DEF ValueAgrees
  <2>. HIDE DEF x
  <2>. QED
    BY <2>2, Fields
<1>5. x.status = "good" /\ x.node # NULL => x.node \in Beginnings(t)
  BY <1>1, <1>2, <1>3 DEF ValueAgrees
<1>. QED
  BY <1>4, <1>5

\* Where a dictionary is read there is one.
LEMMA DictThere ==
    ASSUME NEW t \in Seq(Alphabet), NEW p \in 0 .. Len(t), Value(t, p).node.type = "dict"
    PROVE  LET d == Loops(t)[<<"dict", p + 1>>]
           IN  /\ At(t, p) = "d" /\ p + 1 \in 0 .. Len(t)
               /\ d.node # NULL
               /\ Value(t, p).status = d.status
               /\ Value(t, p).node.value = d.node.value
<1>. DEFINE x == Value(t, p)
            d == Loops(t)[<<"dict", p + 1>>]
<1>1. At(t, p) # EOF => p + 1 \in 0 .. Len(t)
  BY Characters
<1>2. \A made, kind :
         (made.node = NULL \/ (made.node.type = kind /\ kind # "dict")) => x # Spanned(p, made)
  <2>1. SUFFICES ASSUME NEW made, NEW kind, x = Spanned(p, made),
                        made.node = NULL \/ (made.node.type = kind /\ kind # "dict")
                 PROVE  FALSE
    OBVIOUS
  <2>2. CASE made.node = NULL
    <3>1. x.node = NULL
      BY <2>1, <2>2 DEF Spanned
    <3>. QED
      BY <3>1, Fields
  <2>3. CASE made.node # NULL
    <3>1. x.node = Placed(made.node, p, made.at)
      BY <2>1, <2>3, SpannedParts
    <3>2. x.node.type = made.node.type
      BY <3>1, Fields
    <3>. QED
      BY <2>1, <2>3, <3>2
  <2>. QED
    BY <2>2, <2>3
<1>3. \A kind : \A v : Node(kind, v).type = kind
  BY Fields
<1>4. ASSUME At(t, p) = "l" PROVE FALSE
  <2>1. x = Spanned(p, Loops(t)[<<"list", p + 1>>])
    BY <1>4, ValueIs DEF Value
  <2>2. Shaped(t, p + 1, "list", Loops(t)[<<"list", p + 1>>])
    BY <1>1, <1>4, LoopsAre DEF EOF
  <2>3. Loops(t)[<<"list", p + 1>>].node = NULL \/ Loops(t)[<<"list", p + 1>>].node.type = "list"
    BY <1>3, <2>2 DEF Shaped
  <2>. QED
    BY <1>2, <2>1, <2>3
<1>5. ASSUME At(t, p) = "i" PROVE FALSE
  <2>1. x = Spanned(p, parseInt(t, p))
    BY <1>5, ValueIs DEF Value
  <2>2. parseInt(t, p).node.type = "int"
    BY <1>5, IntRead, Fields
  <2>. QED
    BY <1>2, <2>1, <2>2
<1>6. ASSUME At(t, p) \in Digits PROVE FALSE
  <2>1. x = Spanned(p, parseString(t, p))
    BY <1>6, ValueIs DEF Value
  <2>2. parseString(t, p).node = NULL \/ parseString(t, p).node.type = "str"
    <3>. DEFINE made == parseString(t, p)
    <3>1. made = Bad(made.at) \/ made = Good(Node("str", made.node.value), made.at)
      BY <1>6, StringRead
    <3>2. made = Bad(made.at) => made.node = NULL
      BY Fields
    <3>3. made = Good(Node("str", made.node.value), made.at) => made.node.type = "str"
      BY Fields
    <3>. QED
      BY <3>1, <3>2, <3>3
  <2>. QED
    BY <1>2, <2>1, <2>2
<1>7. ASSUME At(t, p) \notin Digits \cup {"l", "d", "i"} PROVE FALSE
  <2>1. x = Good(NULL, p)
    BY <1>7, ValueIs DEF Value
  <2>2. x.node = NULL
    BY <2>1, Fields
  <2>. QED
    BY <2>2, Fields
<1>8. At(t, p) = "d" /\ p + 1 \in 0 .. Len(t)
  BY <1>1, <1>4, <1>5, <1>6, <1>7 DEF EOF
<1>9. x = Spanned(p, d)
  BY <1>8, ValueIs DEF Value
<1>10. d.node # NULL
  <2>. HIDE DEF d, x
  <2>. QED
    BY <1>2, <1>9
<1>11. x.status = d.status /\ x.node = Placed(d.node, p, d.at)
  <2>. HIDE DEF d, x
  <2>. QED
    BY <1>9, <1>10, SpannedParts
<1>12. x.node.value = d.node.value
  <2>. HIDE DEF d, x
  <2>. QED
    BY <1>11, Fields
<1>. QED
  BY <1>8, <1>10, <1>11, <1>12

IsDict(x) == x.node.type = "dict" /\ x.status # "never returns"

\* Every dictionary that comes out has whole items, up to an end or to the end
\* of the text.
LEMMA WholeItems ==
    ASSUME NEW t \in Seq(Alphabet), NEW p \in 0 .. Len(t), IsDict(Value(t, p))
    PROVE  \E b \in p + 1 .. Len(t) : /\ b = Len(t) \/ t[b + 1] = "e"
                                      /\ t[p + 1] = "d"
                                      /\ Value(t, p).node.value \in Bodies(t)[<<"dict", p + 1, b>>]
<1>. DEFINE d == Loops(t)[<<"dict", p + 1>>]
            value == Value(t, p).node.value
<1>0. p + 1 \in 0 .. Len(t) /\ Len(t) \in Nat
  <2>1. p + 1 \in 0 .. Len(t)
    BY DictThere DEF IsDict
  <2>. QED
    BY <2>1, Characters
<1>1. /\ At(t, p) = "d" /\ p + 1 \in 0 .. Len(t)
      /\ d.node # NULL /\ d.status # "never returns" /\ value = d.node.value
  BY DictThere DEF IsDict
<1>2. Len(t) \in Nat /\ p \in 0 .. Len(t) - 1 /\ t[p + 1] = "d"
  <2>1. p \in 0 .. Len(t) - 1
    BY <1>0
  <2>. QED
    BY <1>0, <1>1, <2>1, Characters
<1>3. Agrees(t, p + 1) /\ Shaped(t, p + 1, "dict", d)
  BY <1>1, Agreement, LoopsAre
<1>4. \A s, b : Good(Node("dict", s), b).node.value = s /\ Node("dict", s).value = s
  BY DEF Good, Result, Node
<1>5. CASE d.status = "good"
  <2>1. PICK b \in p + 1 .. Len(t) - 1 : /\ At(t, b) = "e"
                                         /\ \E s \in Bodies(t)[<<"dict", p + 1, b>>] : d = Good(Node("dict", s), b + 1)
    BY <1>3, <1>5 DEF Agrees, ReadsOnly
  <2>2. PICK s \in Bodies(t)[<<"dict", p + 1, b>>] : d = Good(Node("dict", s), b + 1)
    BY <2>1
  <2>3. value = s
    <3>. HIDE DEF d, value
    <3>. QED
      BY <1>1, <1>4, <2>2
  <2>4. b \in p + 1 .. Len(t) /\ b \in 0 .. Len(t) - 1
    BY <1>2
  <2>5. t[b + 1] = "e"
    BY <2>1, <2>4, Characters
  <2>. HIDE DEF value
  <2>. QED
    BY <1>2, <2>3, <2>4, <2>5 DEF value
<1>6. CASE d.status = "error"
  <2>1. PICK s \in Bodies(t)[<<"dict", p + 1, Len(t)>>] : d.node = Node("dict", s)
    BY <1>1, <1>3, <1>6 DEF Agrees, ReadsRest
  <2>2. value = s
    <3>. HIDE DEF d, value
    <3>. QED
      BY <1>1, <1>4, <2>1
  <2>3. Len(t) \in p + 1 .. Len(t)
    BY <1>0
  <2>. HIDE DEF value
  <2>. QED
    BY <1>2, <2>2, <2>3 DEF value
<1>. QED
  BY <1>1, <1>3, <1>5, <1>6 DEF Shaped

LEMMA PlacedAs ==
    ASSUME NEW t, NEW a \in Int, NEW b \in Int, NEW f, NEW v \in Denoted(t, a, b, f)
    PROVE  \/ \E s : v = Placed(Node("str", s), a, b)
           \/ \E s : v = Placed(Node("int", s), a, b)
           \/ \E s : v = Placed(Node("list", s), a, b)
           \/ t[a + 1] = "d" /\ \E s : v = Placed(Node("dict", s), a, b)
<1>1. a < b
  BY InDenoted
<1>2. CASE t[a + 1] \in Digits
  <2>1. Denoted(t, a, b, f) = Nodes("str", StringsIn(t, a, b), a, b)
    BY <1>1, <1>2 DEF Denoted
  <2>. QED
    BY <2>1 DEF Nodes
<1>3. CASE t[a + 1] \notin Digits
  <2>1. CASE t[a + 1] = "i"
    <3>1. v \in Denoted(t, a, b, f) =>
             \E s \in Numbers(t, a + 1, b - 1) : v = Placed(Node("int", s), a, b)
      <4>1. Denoted(t, a, b, f) = IF t[b] # "e" \/ a + 1 = b THEN {} ELSE Nodes("int", Numbers(t, a + 1, b - 1), a, b)
        BY <1>1, <2>1 DEF Denoted, Digits
      <4>. QED
        BY <4>1 DEF Nodes
    <3>. QED
      BY <2>1, <3>1
  <2>2. CASE t[a + 1] = "l"
    <3>1. v \in Denoted(t, a, b, f) =>
             \E s \in f[<<"list", a + 1, b - 1>>] : v = Placed(Node("list", s), a, b)
      BY <1>1, <2>2, InList
    <3>. QED
      BY <2>2, <3>1
  <2>3. CASE t[a + 1] = "d"
    <3>1. v \in Denoted(t, a, b, f) =>
             \E s \in f[<<"dict", a + 1, b - 1>>] : v = Placed(Node("dict", s), a, b)
      BY <1>1, <2>3, InDict
    <3>. QED
      BY <2>3, <3>1
  <2>4. CASE t[a + 1] \notin {"i", "l", "d"}
    <3>1. Denoted(t, a, b, f) = {}
      BY <1>1, <1>3, <2>4 DEF Denoted
    <3>. QED
      BY <3>1
  <2>. QED
    BY <2>1, <2>2, <2>3, <2>4
<1>. QED
  BY <1>2, <1>3

\* The place of what the grammar has.
LEMMA MeansPlace ==
    ASSUME NEW t \in Seq(Alphabet), NEW a \in 0 .. Len(t), NEW b \in 0 .. Len(t), NEW v \in Means(t, a, b)
    PROVE  a < b /\ v.start = a /\ v.end = b /\ (v.type = "dict" => At(t, a) = "d")
<1>0. Len(t) \in Nat /\ a \in Int /\ b \in Int
  BY Characters
<1>1. a < b
  BY <1>0, InDenoted DEF Means
<1>2. t[a + 1] = At(t, a)
  <2>1. a \in 0 .. Len(t) - 1
    BY <1>0, <1>1
  <2>. QED
    BY <2>1, Characters
<1>3. \/ \E s : v = Placed(Node("str", s), a, b)
      \/ \E s : v = Placed(Node("int", s), a, b)
      \/ \E s : v = Placed(Node("list", s), a, b)
      \/ t[a + 1] = "d" /\ \E s : v = Placed(Node("dict", s), a, b)
  <2>. DEFINE f == Bodies(t)
  <2>1. v \in Denoted(t, a, b, f)
    BY DEF Means
  <2>. HIDE DEF f
  <2>. QED
    BY <1>0, <2>1, PlacedAs
<1>4. \A kind, s : /\ Placed(Node(kind, s), a, b).start = a
                   /\ Placed(Node(kind, s), a, b).end = b
                   /\ Placed(Node(kind, s), a, b).type = kind
  BY DEF Placed, Node
<1>5. v.start = a /\ v.end = b
  BY <1>3, <1>4
<1>6. v.type = "dict" => t[a + 1] = "d"
  BY <1>3, <1>4
<1>. QED
  BY <1>1, <1>2, <1>5, <1>6

\* A dictionary in the grammar.
LEMMA MeansDict ==
    ASSUME NEW t \in Seq(Alphabet), NEW a \in 0 .. Len(t), NEW b \in 0 .. Len(t),
           a + 1 < b, t[a + 1] = "d", t[b] = "e", NEW s \in Bodies(t)[<<"dict", a + 1, b - 1>>]
    PROVE  Placed(Node("dict", s), a, b) \in Means(t, a, b)
<1>1. Len(t) \in Nat /\ a \in Int /\ b \in Int
  BY Characters
<1>2. a < b /\ a + 1 # b
  BY <1>1
<1>. QED
  BY <1>1, <1>2, InDict DEF Means

Held(t, v) == v = NULL \/ \E a \in 0 .. Len(t) : \E b \in a + 1 .. Len(t) : v \in Means(t, a, b)

Items(t, s) == (\E T : s \in Seq(T)) /\ \A k \in 1 .. Len(s) : Held(t, s[k].value)

LEMMA ItemsGrow ==
    ASSUME NEW t, NEW item, Held(t, item.value), NEW s, Items(t, s)
    PROVE  Items(t, Cons(item, s))
<1>1. PICK T : s \in Seq(T)
  BY DEF Items
<1>. DEFINE U == T \cup {item}
            whole == Cons(item, s)
<1>2. <<item>> \in Seq(U) /\ Len(<<item>>) = 1 /\ <<item>>[1] = item
  OBVIOUS
<1>3. s \in Seq(U) /\ Len(s) \in Nat
  BY <1>1
<1>4. /\ whole \in Seq(U)
      /\ Len(whole) = 1 + Len(s)
      /\ \A k \in 1 .. 1 + Len(s) : whole[k] = IF k <= 1 THEN <<item>>[k] ELSE s[k - 1]
  <2>. HIDE DEF U
  <2>. QED
    BY <1>2, <1>3, ConcatProperties DEF Cons
<1>. HIDE DEF U, whole
<1>5. ASSUME NEW k \in 1 .. Len(whole) PROVE Held(t, whole[k].value)
  <2>1. k \in 1 .. 1 + Len(s)
    BY <1>4
  <2>2. CASE k <= 1
    <3>1. k = 1
      BY <1>3, <2>1, <2>2
    <3>2. whole[k] = item
      BY <1>2, <1>4, <2>1, <3>1
    <3>. QED
      BY <3>2
  <2>3. CASE ~(k <= 1)
    <3>1. whole[k] = s[k - 1]
      BY <1>4, <2>1, <2>3
    <3>2. k - 1 \in 1 .. Len(s)
      BY <1>3, <2>1, <2>3
    <3>3. Held(t, s[k - 1].value)
      BY <3>2 DEF Items
    <3>. QED
      BY <3>1, <3>3
  <2>. QED
    BY <2>2, <2>3
<1>. QED
  BY <1>4, <1>5 DEF Items, whole

LEMMA NoItems == ASSUME NEW t PROVE Items(t, <<>>)
<1>1. <<>> \in Seq({}) /\ Len(<<>>) = 0
  OBVIOUS
<1>. QED
  BY <1>1 DEF Items

\* The values in a dictionary are parts of the text.
LEMMA DictValues ==
    ASSUME NEW t \in Seq(Alphabet)
    PROVE  \A p \in 0 .. Len(t), b \in 0 .. Len(t) : \A s \in Bodies(t)[<<"dict", p, b>>] : Items(t, s)
<1>. DEFINE Fine == {p \in 0 .. Len(t) : \A b \in 0 .. Len(t) : \A s \in Bodies(t)[<<"dict", p, b>>] : Items(t, s)}
<1>1. Len(t) \in Nat
  BY Characters
<1>2. ASSUME NEW p \in 0 .. Len(t), \A q \in p + 1 .. Len(t) : q \in Fine PROVE p \in Fine
  <2>1. SUFFICES ASSUME NEW b \in 0 .. Len(t), NEW s \in Bodies(t)[<<"dict", p, b>>] PROVE Items(t, s)
    OBVIOUS
  <2>2. CASE s = <<>>
    BY <2>2, NoItems
  <2>3. CASE \E k \in StringsIn(t, p, b) : s = <<[key |-> k, value |-> NULL]>>
    <3>1. PICK k \in StringsIn(t, p, b) : s = <<[key |-> k, value |-> NULL]>>
      BY <2>3
    <3>. DEFINE item == [key |-> k, value |-> NULL]
    <3>2. Held(t, item.value)
      BY DEF Held
    <3>. HIDE DEF item
    <3>3. Items(t, Cons(item, <<>>))
      BY <3>2, NoItems, ItemsGrow
    <3>. QED
      BY <3>1, <3>3, ConsNothing DEF item
  <2>4. CASE Longer(t, p, b, Bodies(t), s)
    <3>1. PICK m \in p + 1 .. b : \E n \in m + 1 .. b :
               \E k \in StringsIn(t, p, m), v \in Denoted(t, m, n, Bodies(t)), rest \in Bodies(t)[<<"dict", n, b>>] :
                  s = Cons([key |-> k, value |-> v], rest)
      BY <2>4 DEF Longer
    <3>2. PICK n \in m + 1 .. b :
               \E k \in StringsIn(t, p, m), v \in Denoted(t, m, n, Bodies(t)), rest \in Bodies(t)[<<"dict", n, b>>] :
                  s = Cons([key |-> k, value |-> v], rest)
      BY <3>1
    <3>3. PICK k \in StringsIn(t, p, m), v \in Denoted(t, m, n, Bodies(t)), rest \in Bodies(t)[<<"dict", n, b>>] :
                  s = Cons([key |-> k, value |-> v], rest)
      BY <3>2
    <3>4. m \in 0 .. Len(t) /\ n \in m + 1 .. Len(t) /\ n \in p + 1 .. Len(t)
      BY <1>1
    <3>. DEFINE item == [key |-> k, value |-> v]
    <3>5. Held(t, v)
      BY <3>4 DEF Held, Means
    <3>6. Held(t, item.value)
      BY <3>5
    <3>7. Items(t, rest)
      BY <1>2, <3>4
    <3>. HIDE DEF item
    <3>8. Items(t, Cons(item, rest))
      BY <3>6, <3>7, ItemsGrow
    <3>. QED
      BY <3>3, <3>8 DEF item
  <2>. QED
    BY <2>2, <2>3, <2>4, InDictBodies
<1>3. \A p \in 0 .. Len(t) : p \in Fine
  <2>. HIDE DEF Fine
  <2>. QED
    BY <1>1, <1>2, Downward
<1>. QED
  BY <1>3

------------------------------------------------------------------------------
(* The readers *)

\* What torrentContents makes of a result.
Accepted(x) == IF x.status = "error" THEN NULL ELSE x.node

Returns(x) == x.status # "never returns"

Statuses == {"good", "error", "never returns"}

Dictionaries(t) == {m \in Beginnings(t) : m.type = "dict"}

LEMMA TextStart ==
    ASSUME NEW t \in Seq(Alphabet)
    PROVE  Len(t) \in Nat /\ 0 \in 0 .. Len(t) /\ 0 + 1 = 1 /\ (At(t, 0) # EOF => 1 \in 0 .. Len(t))
<1>1. Len(t) \in Nat /\ 0 \in 0 .. Len(t)
  BY Characters
<1>2. At(t, 0) # EOF => Len(t) # 0
  BY <1>1, Characters
<1>. QED
  BY <1>1, <1>2

LEMMA ValueStatus ==
    ASSUME NEW t \in Seq(Alphabet)
    PROVE  Value(t, 0).status \in Statuses
<1>1. 0 \in 0 .. Len(t)
  BY TextStart
<1>2. ShapedBeyond(t, 0, Loops(t))
  BY <1>1, LoopsAre
<1>3. ValueShaped(t, 0, Value(t, 0))
  BY <1>1, <1>2, ValueShape DEF Value
<1>. QED
  BY <1>3 DEF ValueShaped, Statuses

LEMMA AcceptedIs ==
    ASSUME NEW x
    PROVE  /\ x.status = "good" => Accepted(x) = x.node
           /\ x.status = "error" => Accepted(x) = NULL
           /\ Returns(x) /\ x.status \in Statuses => x.status = "good" \/ x.status = "error"
BY DEF Accepted, Returns, Statuses

LEMMA ContentsExact ==
    ASSUME NEW t \in Seq(Alphabet), Returns(Value(t, 0))
    PROVE  {Accepted(Value(t, 0))} \ {NULL} = Beginnings(t)
<1>. DEFINE x == Value(t, 0)
<1>1. x.status \in Statuses
  BY ValueStatus
<1>2. \A v \in Beginnings(t) : x.status = "good" /\ x.node = v /\ v # NULL
  BY BeginningIs
<1>3. x.status = "good" /\ x.node # NULL => x.node \in Beginnings(t)
  BY BeginningIs
<1>4. Returns(x)
  OBVIOUS
<1>. HIDE DEF x
<1>5. CASE x.status = "good"
  <2>1. Accepted(x) = x.node
    BY <1>5, AcceptedIs
  <2>. QED
    BY <1>2, <1>3, <1>5, <2>1 DEF x
<1>6. CASE x.status = "error"
  <2>1. Accepted(x) = NULL
    BY <1>6, AcceptedIs
  <2>. QED
    BY <1>2, <1>6, <2>1 DEF x
<1>. QED
  BY <1>1, <1>4, <1>5, <1>6, AcceptedIs

\* A text that begins with a dictionary, read by the loop of parseDict.
LEMMA TrackerGood ==
    ASSUME NEW t \in Seq(Alphabet), NEW x, NEW d, NEW at,
           \A v \in Beginnings(t) : x.status = "good" /\ x.node = v /\ v # NULL,
           x.status = "good" /\ x.node # NULL => x.node \in Beginnings(t),
           x = Spanned(0, d), d.node = Node("dict", d.node.value), d.node # NULL, d.status = "good"
    PROVE  /\ Dictionaries(t) = {x.node}
           /\ x.node.value = d.node.value
<1>1. x.status = "good" /\ x.node = Placed(d.node, 0, d.at)
  BY SpannedParts
<1>2. d.node.type = "dict"
  BY Fields
<1>3. x.node.type = "dict" /\ x.node.value = d.node.value
  BY <1>1, <1>2, Fields
<1>4. x.node # NULL
  BY <1>3 DEF NULL
<1>. QED
  BY <1>1, <1>3, <1>4 DEF Dictionaries

LEMMA TrackerExact ==
    ASSUME NEW t \in Seq(Alphabet), Returns(parseDict(t, 0, Loops(t)))
    PROVE  {r.value : r \in {Accepted(parseDict(t, 0, Loops(t)))} \ {NULL}}
              = {n.value : n \in Dictionaries(t)}
<1>. DEFINE x == Value(t, 0)
            d == parseDict(t, 0, Loops(t))
<1>1. Returns(d)
  OBVIOUS
<1>2. \A v \in Beginnings(t) : x.status = "good" /\ x.node = v /\ v # NULL
  BY BeginningIs
<1>3. x.status = "good" /\ x.node # NULL => x.node \in Beginnings(t)
  BY BeginningIs
<1>4. CASE At(t, 0) = "d"
  <2>1. d = Loops(t)[<<"dict", 1>>]
    BY <1>4, TextStart DEF parseDict
  <2>2. x = Spanned(0, d)
    <3>1. x = Spanned(0, Loops(t)[<<"dict", 0 + 1>>])
      BY <1>4, ValueIs DEF Value
    <3>. QED
      BY <2>1, <3>1, TextStart
  <2>3. Shaped(t, 1, "dict", d)
    <3>1. 1 \in 0 .. Len(t)
      BY <1>4, TextStart DEF EOF
    <3>. QED
      BY <2>1, <3>1, LoopsAre
  <2>. HIDE DEF x, d
  <2>4. d.status \in Statuses
    BY <2>3 DEF Shaped, Statuses
  <2>5. CASE d.status = "good"
    <3>1. d.node # NULL /\ d.node = Node("dict", d.node.value)
      BY <2>3, <2>5 DEF Shaped
    <3>2. Dictionaries(t) = {x.node} /\ x.node.value = d.node.value
      BY <1>2, <1>3, <2>2, <2>5, <3>1, TrackerGood
    <3>3. {Accepted(d)} \ {NULL} = {d.node}
      BY <2>5, <3>1, AcceptedIs
    <3>. QED
      BY <3>2, <3>3 DEF d
  <2>6. CASE d.status = "error"
    <3>1. x.status = "error"
      <4>1. CASE d.node = NULL
        BY <2>2, <2>6, <4>1 DEF Spanned
      <4>2. CASE d.node # NULL
        BY <2>2, <2>6, <4>2, SpannedParts
      <4>. QED
        BY <4>1, <4>2
    <3>2. Dictionaries(t) = {}
      BY <1>2, <3>1 DEF Dictionaries
    <3>3. {Accepted(d)} \ {NULL} = {}
      BY <2>6, AcceptedIs
    <3>. QED
      BY <3>2, <3>3 DEF d
  <2>. QED
    BY <1>1, <2>4, <2>5, <2>6, AcceptedIs
<1>5. CASE At(t, 0) # "d"
  <2>1. d = Bad(0 + 1)
    BY <1>5 DEF parseDict
  <2>2. {Accepted(d)} \ {NULL} = {}
    <3>. HIDE DEF d
    <3>1. d.status = "error"
      BY <2>1, Fields
    <3>. QED
      BY <3>1, AcceptedIs
  <2>3. ASSUME NEW v \in Beginnings(t) PROVE v.type # "dict"
    <3>1. PICK b \in 1 .. Len(t) : v \in Means(t, 0, b)
      BY DEF Beginnings, Means
    <3>2. b \in 0 .. Len(t) /\ 0 \in 0 .. Len(t)
      BY TextStart
    <3>3. v.type = "dict" => At(t, 0) = "d"
      BY <3>1, <3>2, MeansPlace
    <3>. QED
      BY <1>5, <3>1, <3>3
  <2>4. Dictionaries(t) = {}
    BY <2>3 DEF Dictionaries
  <2>. QED
    BY <2>2, <2>4
<1>. QED
  BY <1>4, <1>5

LEMMA TorrentWhole ==
    ASSUME NEW t \in Seq(Alphabet), IsDict(Value(t, 0))
    PROVE  Value(t, 0).node.value \in {n.value : n \in Dictionaries(Append(t, "e"))}
<1>. DEFINE u == Append(t, "e")
            s == Value(t, 0).node.value
<1>1. Len(t) \in Nat /\ 0 \in 0 .. Len(t) /\ 0 + 1 = 1
  BY TextStart
<1>2. Begins(t, u) /\ Len(u) = Len(t) + 1 /\ u[Len(t) + 1] = "e"
  BY OneMore
<1>3. PICK b \in 1 .. Len(t) : /\ b = Len(t) \/ t[b + 1] = "e"
                               /\ t[1] = "d"
                               /\ s \in Bodies(t)[<<"dict", 1, b>>]
  BY <1>1, WholeItems
<1>. HIDE DEF u, s
<1>4. u \in Seq(Alphabet) /\ u[1] = "d" /\ u[b + 1] = "e"
  <2>1. b # Len(t) => b + 1 \in 1 .. Len(t)
    BY <1>1
  <2>. QED
    BY <1>1, <1>2, <1>3, <2>1 DEF Begins
<1>5. s \in Bodies(u)[<<"dict", 1, b>>]
  <2>1. 1 \in 0 .. Len(t) /\ b \in 0 .. Len(t)
    BY <1>1
  <2>. QED
    BY <1>2, <1>3, <2>1, BodiesBegin
<1>. DEFINE n == Placed(Node("dict", s), 0, b + 1)
<1>6. n \in Means(u, 0, b + 1)
  <2>1. 0 \in 0 .. Len(u) /\ b + 1 \in 0 .. Len(u) /\ 0 + 1 < b + 1 /\ (b + 1) - 1 = b /\ 0 + 1 = 1
    BY <1>1, <1>2
  <2>. QED
    BY <1>4, <1>5, <2>1, MeansDict
<1>7. n.type = "dict" /\ n.value = s
  BY DEF Placed, Node
<1>. HIDE DEF n
<1>8. n \in Beginnings(u)
  <2>1. b + 1 \in 1 .. Len(u)
    BY <1>1, <1>2
  <2>. QED
    BY <1>6, <2>1 DEF Beginnings, Means
<1>9. n \in Dictionaries(u)
  BY <1>7, <1>8 DEF Dictionaries
<1>10. s \in {m.value : m \in Dictionaries(u)}
  BY <1>7, <1>9
<1>. QED
  BY <1>10 DEF u, s

\* What getDictValue finds is one of the values.
LEMMA ValueFound ==
    ASSUME NEW t, NEW node, NEW key, Items(t, node.value),
           getDictValue(node, key) # NULL
    PROVE  Held(t, getDictValue(node, key))
<1>. DEFINE found == {k \in DOMAIN node.value : node.value[k].key = key}
            info == getDictValue(node, key)
<1>1. node.type = "dict" /\ found # {} /\ info = node.value[Min(found)].value
  BY DEF getDictValue
<1>2. DOMAIN node.value = 1 .. Len(node.value) /\ Len(node.value) \in Nat
  <2>1. PICK T : node.value \in Seq(T)
    BY DEF Items
  <2>. QED
    BY <2>1
<1>3. found \subseteq 1 .. Len(node.value) /\ found \subseteq Nat
  BY <1>2
<1>. HIDE DEF found, info
<1>4. Min(found) \in found
  <2>1. Min(found) = CHOOSE x \in found : \A y \in found : x <= y
    BY DEF Min
  <2>2. \E x \in found : \A y \in found : x <= y
    BY <1>1, <1>3, Least
  <2>. QED
    BY <2>1, <2>2
<1>5. Min(found) \in 1 .. Len(node.value)
  BY <1>3, <1>4
<1>6. Held(t, node.value[Min(found)].value)
  BY <1>5 DEF Items
<1>. QED
  BY <1>1, <1>6 DEF info

HasInfo(node) == getDictValue(node, InfoKey).type = "dict"

LEMMA WithInfo ==
    ASSUME NEW node, HasInfo(node)
    PROVE  node.type = "dict" /\ getDictValue(node, InfoKey) # NULL
<1>1. getDictValue(node, InfoKey) # NULL
  BY Fields DEF HasInfo
<1>. QED
  BY <1>1 DEF getDictValue

LEMMA InfoIsThere ==
    ASSUME NEW t \in Seq(Alphabet), Returns(Value(t, 0)), HasInfo(Value(t, 0).node)
    PROVE  LET info == getDictValue(Value(t, 0).node, InfoKey)
           IN  \E a \in 0 .. Len(t) : \E b \in a + 1 .. Len(t) :
                  info.start = a /\ info.end = b /\ info \in Means(t, a, b)
<1>. DEFINE node == Value(t, 0).node
            info == getDictValue(node, InfoKey)
<1>1. node.type = "dict" /\ info # NULL
  BY WithInfo
<1>2. Items(t, node.value)
  <2>1. IsDict(Value(t, 0))
    BY <1>1 DEF IsDict, Returns
  <2>. HIDE DEF node
  <2>2. PICK b \in 1 .. Len(t) : node.value \in Bodies(t)[<<"dict", 1, b>>]
    BY <2>1, TextStart, WholeItems DEF node
  <2>3. 1 \in 0 .. Len(t) /\ b \in 0 .. Len(t)
    BY TextStart
  <2>. QED
    BY <2>2, <2>3, DictValues
<1>. HIDE DEF node
<1>3. Held(t, info)
  BY <1>1, <1>2, ValueFound
<1>. HIDE DEF info
<1>4. PICK a \in 0 .. Len(t) : \E b \in a + 1 .. Len(t) : info \in Means(t, a, b)
  BY <1>1, <1>3 DEF Held
<1>5. PICK b \in a + 1 .. Len(t) : info \in Means(t, a, b)
  BY <1>4
<1>6. b \in 0 .. Len(t)
  BY TextStart
<1>7. info.start = a /\ info.end = b
  BY <1>5, <1>6, MeansPlace
<1>. QED
  BY <1>5, <1>7 DEF info, node

------------------------------------------------------------------------------
(* The three properties.  Each reader keeps the text, and its node is one of *)
(* the results above.                                                        *)

Unread == read = "nobody" => root = NULL /\ hashed = <<>>

BInv ==
    /\ text \in Seq(Alphabet)
    /\ Unread
    /\ ExactlyTheGrammar
    /\ OnlyWholeItems
    /\ HashedIsTheInfo

\* What a hash is of, when the info is where it was read.
LEMMA HashedAt ==
    ASSUME NEW t \in Seq(Alphabet), NEW a \in 0 .. Len(t), NEW b \in a + 1 .. Len(t)
    PROVE  /\ SubSeq(t, a + 1, b) # <<>>
           /\ a \in 0 .. Len(t) - Len(SubSeq(t, a + 1, b))
           /\ a + Len(SubSeq(t, a + 1, b)) = b
<1>1. Len(t) \in Nat /\ a + 1 \in 1 .. Len(t) + 1 /\ b \in a .. Len(t)
  BY Characters
<1>2. Len(SubSeq(t, a + 1, b)) = b - a
  <2>1. b - (a + 1) + 1 = b - a /\ a + 1 \in 1 .. Len(t) + 1 /\ b \in (a + 1) - 1 .. Len(t)
    BY <1>1
  <2>. QED
    BY <2>1, SubSeqProperties
<1>. DEFINE s == SubSeq(t, a + 1, b)
<1>. HIDE DEF s
<1>3. s # <<>>
  <2>1. Len(s) # 0
    BY <1>1, <1>2 DEF s
  <2>. QED
    BY <2>1
<1>4. a \in 0 .. Len(t) - Len(s) /\ a + Len(s) = b
  BY <1>1, <1>2 DEF s
<1>. QED
  BY <1>3, <1>4 DEF s

LEMMA InitBInv == Init => BInv
<1>1. SUFFICES ASSUME Init PROVE BInv
  OBVIOUS
<1>2. text \in Seq(Alphabet)
  BY <1>1, BencodeAssumption DEF Init
<1>. QED
  BY <1>1, <1>2 DEF Init, BInv, Unread, ExactlyTheGrammar, OnlyWholeItems, HashedIsTheInfo

\* What is hashed is the text of a dictionary "info".
LEMMA TorrentHashed ==
    ASSUME NEW t \in Seq(Alphabet), NEW h, NEW node,
           \E info \in {getDictValue(node, InfoKey)} :
              h = IF info.type = "dict" THEN SubSeq(t, info.start + 1, info.end) ELSE <<>>,
           node = Value(t, 0).node, Returns(Value(t, 0))
    PROVE  h # <<>> =>
             \E a \in 0 .. Len(t) - Len(h) :
                /\ h = SubSeq(t, a + 1, a + Len(h))
                /\ getDictValue(node, InfoKey).value
                      \in {n.value : n \in Means(t, a, a + Len(h))}
<1>. DEFINE info == getDictValue(node, InfoKey)
<1>1. h = IF info.type = "dict" THEN SubSeq(t, info.start + 1, info.end) ELSE <<>>
  OBVIOUS
<1>2. CASE info.type # "dict"
  BY <1>1, <1>2
<1>3. CASE info.type = "dict"
  <2>1. HasInfo(node)
    BY <1>3 DEF HasInfo
  <2>2. PICK a \in 0 .. Len(t) : \E b \in a + 1 .. Len(t) :
               info.start = a /\ info.end = b /\ info \in Means(t, a, b)
    BY <2>1, InfoIsThere
  <2>3. PICK b \in a + 1 .. Len(t) : info.start = a /\ info.end = b /\ info \in Means(t, a, b)
    BY <2>2
  <2>4. h = SubSeq(t, a + 1, b)
    BY <1>1, <1>3, <2>3
  <2>5. a \in 0 .. Len(t) - Len(h) /\ a + Len(h) = b
    BY <2>4, HashedAt
  <2>6. info.value \in {n.value : n \in Means(t, a, b)}
    BY <2>3
  <2>. HIDE DEF info
  <2>. QED
    BY <2>4, <2>5, <2>6 DEF info
<1>. QED
  BY <1>2, <1>3

LEMMA StepBInv ==
    ASSUME BInv, [Next]_vars
    PROVE  BInv'
<1>. DEFINE x == Value(text, 0)
            d == parseDict(text, 0, Loops(text))
<1>1. text \in Seq(Alphabet)
  BY DEF BInv
<1>2. CASE ts_add_torrent
  <2>1. /\ read = "nobody" /\ Returns(x)
        /\ read' = "torrent" /\ root' = x.node /\ text' = text
        /\ \E info \in {getDictValue(x.node, InfoKey)} :
              hashed' = IF info.type = "dict" THEN SubSeq(text, info.start + 1, info.end) ELSE <<>>
    BY <1>2 DEF ts_add_torrent, info_buf, Value, Returns
  <2>2. root'.type = "dict" => root'.value \in {n.value : n \in Dictionaries(Append(text, "e"))}
    <3>1. x.node.type = "dict" => IsDict(x)
      BY <2>1 DEF IsDict, Returns
    <3>2. IsDict(x) => x.node.value \in {n.value : n \in Dictionaries(Append(text, "e"))}
      BY <1>1, TorrentWhole
    <3>. HIDE DEF x
    <3>. QED
      BY <2>1, <3>1, <3>2
  <2>3. OnlyWholeItems'
    BY <2>1, <2>2 DEF OnlyWholeItems, Dictionaries
  <2>4. HashedIsTheInfo'
    <3>. DEFINE h == hashed'
                node == root'
    <3>1. h # <<>> =>
             \E a \in 0 .. Len(text) - Len(h) :
                /\ h = SubSeq(text, a + 1, a + Len(h))
                /\ getDictValue(node, InfoKey).value
                      \in {n.value : n \in Means(text, a, a + Len(h))}
      <4>1. \E info \in {getDictValue(node, InfoKey)} :
               h = IF info.type = "dict" THEN SubSeq(text, info.start + 1, info.end) ELSE <<>>
        BY <2>1
      <4>2. node = Value(text, 0).node /\ Returns(Value(text, 0))
        BY <2>1
      <4>. HIDE DEF h, node, x
      <4>. QED
        BY <1>1, <4>1, <4>2, TorrentHashed
    <3>. QED
      BY <2>1, <3>1 DEF HashedIsTheInfo, Means
  <2>5. text' \in Seq(Alphabet) /\ Unread' /\ ExactlyTheGrammar'
    BY <1>1, <2>1 DEF Unread, ExactlyTheGrammar
  <2>. QED
    BY <2>3, <2>4, <2>5 DEF BInv
<1>3. CASE parse_peers_from_http_body
  <2>1. /\ read = "nobody" /\ Returns(d)
        /\ read' = "tracker" /\ root' = Accepted(d) /\ text' = text /\ hashed' = hashed
    BY <1>3 DEF parse_peers_from_http_body, Returns, Accepted
  <2>2. {r.value : r \in {root'} \ {NULL}} = {n.value : n \in Dictionaries(text)}
    BY <1>1, <2>1, TrackerExact
  <2>3. ExactlyTheGrammar'
    BY <2>1, <2>2 DEF ExactlyTheGrammar, Dictionaries
  <2>4. hashed' = <<>>
    BY <2>1 DEF BInv, Unread
  <2>. QED
    BY <1>1, <2>1, <2>3, <2>4 DEF BInv, Unread, OnlyWholeItems, HashedIsTheInfo
<1>4. CASE torrentContents
  <2>1. /\ read = "nobody" /\ Returns(x)
        /\ read' = "contents" /\ root' = Accepted(x) /\ text' = text /\ hashed' = hashed
    BY <1>4 DEF torrentContents, Returns, Accepted, Value
  <2>2. {root'} \ {NULL} = Beginnings(text)
    BY <1>1, <2>1, ContentsExact
  <2>3. ExactlyTheGrammar'
    BY <2>1, <2>2 DEF ExactlyTheGrammar
  <2>4. hashed' = <<>>
    BY <2>1 DEF BInv, Unread
  <2>. QED
    BY <1>1, <2>1, <2>3, <2>4 DEF BInv, Unread, OnlyWholeItems, HashedIsTheInfo
<1>5. CASE UNCHANGED vars
  BY <1>5 DEF vars, BInv, Unread, ExactlyTheGrammar, OnlyWholeItems, HashedIsTheInfo
<1>. QED
  BY <1>2, <1>3, <1>4, <1>5 DEF Next

LEMMA BInvAlways == Spec => []BInv
BY InitBInv, StepBInv, PTL DEF Spec

\* What is read without an error is the one value of the grammar that the text
\* begins with, and nothing comes of a text that begins with none: for a text
\* of any length, numbers of any limit and collections of any depth.
THEOREM OnlyTheGrammarIsRead == Spec => []ExactlyTheGrammar
<1>1. BInv => ExactlyTheGrammar
  BY DEF BInv
<1>. QED
  BY <1>1, BInvAlways, PTL

\* A torrent that is added from a text with an error, at which its reader does
\* not look, has exactly the items up to the end of the text, and no part of a
\* key or of a value.
THEOREM ItemsAreWhole == Spec => []OnlyWholeItems
<1>1. BInv => OnlyWholeItems
  BY DEF BInv
<1>. QED
  BY <1>1, BInvAlways, PTL

\* The hash that identifies a torrent is that of the text of its dictionary
\* "info", from the first character to the last.
THEOREM TheInfoIsHashed == Spec => []HashedIsTheInfo
<1>1. BInv => HashedIsTheInfo
  BY DEF BInv
<1>. QED
  BY <1>1, BInvAlways, PTL

------------------------------------------------------------------------------
(* Types *)

Types == {"NULL", "int", "str", "list", "dict"}

\* A place in the text does not change the type of a node.
LEMMA SpannedType ==
    ASSUME NEW p, NEW made, NEW kind \in Types, made.node = NULL \/ made.node = Node(kind, made.node.value)
    PROVE  /\ made.node.type \in Types
           /\ Spanned(p, made).node.type \in Types
<1>1. CASE made.node = NULL
  <2>1. made.node.type = "NULL"
    BY <1>1, Fields
  <2>2. Spanned(p, made) = made
    BY <1>1 DEF Spanned
  <2>. QED
    BY <2>1, <2>2 DEF Types
<1>2. CASE made.node # NULL
  <2>1. made.node.type = kind
    <3>1. \A v : Node(kind, v).type = kind
      BY Fields
    <3>. QED
      BY <1>2, <3>1
  <2>2. Spanned(p, made).node.type = made.node.type
    <3>1. Spanned(p, made).node = Placed(made.node, p, made.at)
      BY <1>2, SpannedParts
    <3>. QED
      BY <3>1, Fields
  <2>. QED
    BY <2>1, <2>2
<1>. QED
  BY <1>1, <1>2

\* What is read is a node of a known type, or NULL.
LEMMA ReadTypes ==
    ASSUME NEW t \in Seq(Alphabet)
    PROVE  /\ Value(t, 0).node.type \in Types
           /\ parseDict(t, 0, Loops(t)).node.type \in Types
<1>. DEFINE x == Value(t, 0)
            d == parseDict(t, 0, Loops(t))
            list == Loops(t)[<<"list", 1>>]
            dict == Loops(t)[<<"dict", 1>>]
            number == parseInt(t, 0)
            string == parseString(t, 0)
<1>1. Len(t) \in Nat /\ 0 \in 0 .. Len(t) /\ 0 + 1 = 1 /\ (At(t, 0) # EOF => 1 \in 0 .. Len(t))
  BY TextStart
<1>2. ASSUME At(t, 0) # EOF
      PROVE  /\ list.node = NULL \/ list.node = Node("list", list.node.value)
             /\ dict.node = NULL \/ dict.node = Node("dict", dict.node.value)
  <2>1. Shaped(t, 1, "list", list) /\ Shaped(t, 1, "dict", dict)
    BY <1>1, <1>2, LoopsAre
  <2>. QED
    BY <2>1 DEF Shaped
<1>3. /\ At(t, 0) = "l" => x = Spanned(0, list)
      /\ At(t, 0) = "d" => x = Spanned(0, dict)
      /\ At(t, 0) = "i" => x = Spanned(0, number)
      /\ At(t, 0) \in Digits => x = Spanned(0, string)
      /\ At(t, 0) \notin Digits \cup {"l", "d", "i"} => x = Good(NULL, 0)
  BY <1>1, ValueIs DEF Value
<1>4. number.node = NULL \/ number.node = Node("int", number.node.value)
  <2>. DEFINE value == extractNumber(t, 0 + 1).node
              at == extractNumber(t, 0 + 1).at
  <2>1. \/ number = Good(Node("int", value), at + 1)
        \/ number = Result(Node("int", value), at, "error")
    BY DEF parseInt
  <2>. HIDE DEF number, value, at
  <2>2. number.node = Node("int", value)
    BY <2>1, Fields
  <2>. QED
    BY <2>2, Fields
<1>5. string.node = NULL \/ string.node = Node("str", string.node.value)
  <2>. DEFINE length == extractNumber(t, 0)
              end == length.at + 1 + length.node
              value == SubSeq(t, length.at + 1 + 1, end)
  <2>1. \/ string = Bad(0)
        \/ string = Bad(Len(t))
        \/ string = Good(Node("str", value), end)
    BY DEF parseString
  <2>. HIDE DEF string, value, end
  <2>2. string.node = NULL \/ string.node = Node("str", value)
    BY <2>1, Fields
  <2>. QED
    BY <2>2, Fields
<1>6. /\ At(t, 0) = "d" => d = dict
      /\ At(t, 0) # "d" => d = Bad(1)
  BY <1>1 DEF parseDict
<1>7. "NULL" \in Types /\ "int" \in Types /\ "str" \in Types /\ "list" \in Types /\ "dict" \in Types
  BY DEF Types
<1>. HIDE DEF x, d, list, dict, number, string
<1>8. x.node.type \in Types
  <2>1. CASE At(t, 0) \in {"l", "d"}
    <3>1. At(t, 0) # EOF
      BY <2>1 DEF EOF
    <3>2. CASE At(t, 0) = "l"
      BY <1>2, <1>3, <1>7, <3>1, <3>2, SpannedType
    <3>3. CASE At(t, 0) = "d"
      BY <1>2, <1>3, <1>7, <3>1, <3>3, SpannedType
    <3>. QED
      BY <2>1, <3>2, <3>3
  <2>2. CASE At(t, 0) = "i"
    BY <1>3, <1>4, <1>7, <2>2, SpannedType
  <2>3. CASE At(t, 0) \in Digits
    BY <1>3, <1>5, <1>7, <2>3, SpannedType
  <2>4. CASE At(t, 0) \notin Digits \cup {"l", "d", "i"}
    <3>1. x.node = NULL
      BY <1>3, <2>4, Fields
    <3>. QED
      BY <1>7, <3>1, Fields
  <2>. QED
    BY <2>1, <2>2, <2>3, <2>4
<1>9. d.node.type \in Types
  <2>1. CASE At(t, 0) = "d"
    <3>1. At(t, 0) # EOF
      BY <2>1 DEF EOF
    <3>. QED
      BY <1>2, <1>6, <1>7, <2>1, <3>1, SpannedType
  <2>2. CASE At(t, 0) # "d"
    <3>1. d.node = NULL
      BY <1>6, <2>2, Fields
    <3>. QED
      BY <1>7, <3>1, Fields
  <2>. QED
    BY <2>1, <2>2
<1>. QED
  BY <1>8, <1>9 DEF x, d

LEMMA AcceptedType ==
    ASSUME NEW x, x.node.type \in Types
    PROVE  Accepted(x).type \in Types
<1>1. NULL.type \in Types
  BY Fields DEF Types
<1>. QED
  BY <1>1 DEF Accepted

\* What is hashed is a part of the text.
LEMMA HashedType ==
    ASSUME NEW t \in Seq(Alphabet), Returns(Value(t, 0))
    PROVE  \A info \in {getDictValue(Value(t, 0).node, InfoKey)} :
              info.type = "dict" => SubSeq(t, info.start + 1, info.end) \in Seq(Alphabet)
<1>. DEFINE info == getDictValue(Value(t, 0).node, InfoKey)
<1>1. SUFFICES ASSUME info.type = "dict"
               PROVE  SubSeq(t, info.start + 1, info.end) \in Seq(Alphabet)
  OBVIOUS
<1>2. HasInfo(Value(t, 0).node)
  BY <1>1 DEF HasInfo
<1>3. PICK a \in 0 .. Len(t) : \E b \in a + 1 .. Len(t) :
               info.start = a /\ info.end = b /\ info \in Means(t, a, b)
  BY <1>2, InfoIsThere
<1>4. PICK b \in a + 1 .. Len(t) : info.start = a /\ info.end = b
  BY <1>3
<1>5. Len(t) \in Nat /\ a + 1 \in 1 .. Len(t) + 1 /\ b \in (a + 1) - 1 .. Len(t)
  BY Characters
<1>6. SubSeq(t, a + 1, b) \in Seq(Alphabet)
  BY <1>5, SubSeqProperties
<1>. HIDE DEF info
<1>. QED
  BY <1>4, <1>6

\* The variables keep their types: whatever the text, the reader goes on with
\* NULL or a node of a known type, and hashes a sequence of characters.
THEOREM TypeCorrect == Spec => []TypeOK
<1>1. Init => TypeOK
  <2>1. NULL.type = "NULL" /\ <<>> \in Seq(Alphabet)
    BY Fields
  <2>. QED
    BY <2>1, BencodeAssumption DEF Init, TypeOK
<1>2. ASSUME TypeOK, [Next]_vars PROVE TypeOK'
  <2>. DEFINE x == Value(text, 0)
              d == parseDict(text, 0, Loops(text))
  <2>1. text \in Seq(Alphabet)
    BY <1>2 DEF TypeOK
  <2>2. x.node.type \in Types /\ d.node.type \in Types
    BY <2>1, ReadTypes
  <2>3. CASE ts_add_torrent
    <3>1. /\ Returns(x) /\ read' = "torrent" /\ root' = x.node /\ text' = text
          /\ \E info \in {getDictValue(x.node, InfoKey)} :
                hashed' = IF info.type = "dict" THEN SubSeq(text, info.start + 1, info.end) ELSE <<>>
      BY <2>3 DEF ts_add_torrent, info_buf, Value, Returns
    <3>2. hashed' \in Seq(Alphabet)
      <4>1. <<>> \in Seq(Alphabet)
        OBVIOUS
      <4>. QED
        BY <2>1, <3>1, <4>1, HashedType
    <3>. HIDE DEF x
    <3>. QED
      BY <1>2, <2>2, <3>1, <3>2 DEF TypeOK, Types
  <2>4. CASE parse_peers_from_http_body
    <3>1. read' = "tracker" /\ root' = Accepted(d) /\ text' = text /\ hashed' = hashed
      BY <2>4 DEF parse_peers_from_http_body, Accepted
    <3>. HIDE DEF d
    <3>. QED
      BY <1>2, <2>2, <3>1, AcceptedType DEF TypeOK, Types
  <2>5. CASE torrentContents
    <3>1. read' = "contents" /\ root' = Accepted(x) /\ text' = text /\ hashed' = hashed
      BY <2>5 DEF torrentContents, Accepted, Value
    <3>. HIDE DEF x
    <3>. QED
      BY <1>2, <2>2, <3>1, AcceptedType DEF TypeOK, Types
  <2>6. CASE UNCHANGED vars
    BY <1>2, <2>6 DEF vars, TypeOK
  <2>. QED
    BY <1>2, <2>3, <2>4, <2>5, <2>6 DEF Next
<1>. QED
  BY <1>1, <1>2, PTL DEF Spec

==============================================================================
