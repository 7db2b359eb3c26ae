---------------------------- MODULE DncListProofs ----------------------------
(***************************************************************************)
(* Proofs about DncList for every stream of draws, every target and any    *)
(* number of runs of the generator.                                        *)
(***************************************************************************)
EXTENDS DncList, FiniteSetTheorems, SequenceTheorems, WellFoundedInduction,
        TLAPS

Digit == 0..9
Char  == 0..12

\* What one round of the generator's loop may draw: area code and exchange, subscriber.
Exchanges == 200..999

Subscribers == 0..9999

Draws == Exchanges \X Exchanges \X Subscribers

\* What three and four digits can say.
ThreeDigits == {n \in Nat : n < 1000}
FourDigits  == {n \in Nat : n < 10000}

\* A row of the file, its NewLine left out.
Columns == 1..12
Rows    == [Columns -> Char]

-----------------------------------------------------------------------------
(***************************************************************************)
(* Sequences.                                                              *)
(***************************************************************************)
LEMMA FunctionIsSeq ==
    ASSUME NEW S, NEW n \in Nat, NEW f \in [1..n -> S]
    PROVE  f \in Seq(S) /\ Len(f) = n
  OBVIOUS

LEMMA NonEmpty ==
    ASSUME NEW s, Len(s) # 0
    PROVE  s # <<>>
  <1>1. Len(<<>>) = 0
    BY EmptySeq
  <1>. QED
    BY <1>1

LEMMA Concat ==
    ASSUME NEW S, NEW s \in Seq(S), NEW t \in Seq(S)
    PROVE  /\ s \o t \in Seq(S)
           /\ Len(s \o t) = Len(s) + Len(t)
           /\ \A i \in 1..Len(s) : (s \o t)[i] = s[i]
           /\ \A i \in 1..Len(t) : (s \o t)[i + Len(s)] = t[i]
  <1>1. /\ s \o t \in Seq(S)
        /\ Len(s \o t) = Len(s) + Len(t)
        /\ \A i \in 1..(Len(s) + Len(t)) :
              (s \o t)[i] = IF i <= Len(s) THEN s[i] ELSE t[i - Len(s)]
    BY ConcatProperties
  <1>2. Len(s) \in Nat /\ Len(t) \in Nat
    OBVIOUS
  <1>3. \A i \in 1..Len(s) : i \in 1..(Len(s) + Len(t)) /\ i <= Len(s)
    BY <1>2
  <1>4. \A i \in 1..Len(t) : /\ i + Len(s) \in 1..(Len(s) + Len(t))
                             /\ ~(i + Len(s) <= Len(s))
                             /\ (i + Len(s)) - Len(s) = i
    BY <1>2
  <1>. QED
    BY <1>1, <1>3, <1>4

-----------------------------------------------------------------------------
(***************************************************************************)
(* The digits of a number.                                                 *)
(***************************************************************************)
LEMMA Tenths ==
    ASSUME NEW m \in Nat, NEW n \in Nat, m \div 10 = n \div 10, m % 10 = n % 10
    PROVE  m = n
  OBVIOUS

LEMMA Hundredths ==
    ASSUME NEW m \in Nat
    PROVE  /\ m \div 10 \in Nat /\ m \div 100 \in Nat
           /\ (m \div 10) \div 10 = m \div 100
           /\ (m \div 100) \div 10 = m \div 1000
           /\ m % 10 \in 0..9
  <1>1. m \div 10 \in Nat
    OBVIOUS
  <1>2. m \div 100 \in Nat
    OBVIOUS
  <1>3. (m \div 10) \div 10 = m \div 100
    OBVIOUS
  <1>4. (m \div 100) \div 10 = m \div 1000
    OBVIOUS
  <1>. QED
    BY <1>1, <1>2, <1>3, <1>4

LEMMA PaddedThree ==
    ASSUME NEW n \in Nat, n < 1000
    PROVE  /\ Padded(n, 3) \in Seq(Digit)
           /\ Len(Padded(n, 3)) = 3
           /\ Padded(n, 3)[1] = n \div 100
           /\ Padded(n, 3)[2] = (n \div 10) % 10
           /\ Padded(n, 3)[3] = n % 10
  <1> DEFINE p == Padded(n, 3)
             I == 1..3
  <1>1. 10^0 = 1 /\ 10^1 = 10 /\ 10^2 = 100
    BY SMT
  <1>2. p = [i \in I |-> (n \div 10^(3 - i)) % 10]
    BY DEF Padded
  <1>3. p[1] = (n \div 100) % 10 /\ p[2] = (n \div 10) % 10 /\ p[3] = (n \div 1) % 10
    <2>1. 3 - 1 = 2 /\ 3 - 2 = 1 /\ 3 - 3 = 0
      OBVIOUS
    <2>. QED
      BY <1>1, <1>2, <2>1
  <1> HIDE DEF p
  <1>4. p[1] = n \div 100 /\ p[2] = (n \div 10) % 10 /\ p[3] = n % 10
    <2>1. (n \div 100) % 10 = n \div 100 /\ n \div 1 = n
      OBVIOUS
    <2>. QED
      BY <1>3, <2>1
  <1>5. \A i \in I : p[i] \in Digit
    <2>1. n \div 100 \in Digit
      BY DEF Digit
    <2>2. (n \div 10) % 10 \in Digit
      BY DEF Digit
    <2>3. n % 10 \in Digit
      BY DEF Digit
    <2>4. p[1] \in Digit /\ p[2] \in Digit /\ p[3] \in Digit
      BY <1>4, <2>1, <2>2, <2>3
    <2>. QED
      BY <2>4
  <1> HIDE DEF I
  <1>6. p \in [I -> Digit]
    BY <1>2, <1>5
  <1>7. p \in Seq(Digit) /\ Len(p) = 3
    <2>. DEFINE w == 3
    <2>1. w \in Nat /\ I = 1..w
      BY DEF I
    <2>. HIDE DEF w
    <2>2. p \in Seq(Digit) /\ Len(p) = w
      BY <1>6, <2>1, FunctionIsSeq
    <2>. QED
      BY <2>2 DEF w
  <1>. QED
    BY <1>4, <1>7 DEF p

LEMMA PaddedFour ==
    ASSUME NEW n \in Nat, n < 10000
    PROVE  /\ Padded(n, 4) \in Seq(Digit)
           /\ Len(Padded(n, 4)) = 4
           /\ Padded(n, 4)[1] = n \div 1000
           /\ Padded(n, 4)[2] = (n \div 100) % 10
           /\ Padded(n, 4)[3] = (n \div 10) % 10
           /\ Padded(n, 4)[4] = n % 10
  <1> DEFINE p == Padded(n, 4)
             I == 1..4
  <1>1. 10^0 = 1 /\ 10^1 = 10 /\ 10^2 = 100 /\ 10^3 = 1000
    BY SMT
  <1>2. p = [i \in I |-> (n \div 10^(4 - i)) % 10]
    BY DEF Padded
  <1>3. /\ p[1] = (n \div 1000) % 10 /\ p[2] = (n \div 100) % 10
        /\ p[3] = (n \div 10) % 10   /\ p[4] = (n \div 1) % 10
    <2>1. 4 - 1 = 3 /\ 4 - 2 = 2 /\ 4 - 3 = 1 /\ 4 - 4 = 0
      OBVIOUS
    <2>. QED
      BY <1>1, <1>2, <2>1
  <1> HIDE DEF p
  <1>4. /\ p[1] = n \div 1000 /\ p[2] = (n \div 100) % 10
        /\ p[3] = (n \div 10) % 10 /\ p[4] = n % 10
    <2>1. (n \div 1000) % 10 = n \div 1000 /\ n \div 1 = n
      OBVIOUS
    <2>. QED
      BY <1>3, <2>1
  <1>5. \A i \in I : p[i] \in Digit
    <2>1. n \div 1000 \in Digit
      BY DEF Digit
    <2>2. (n \div 100) % 10 \in Digit
      BY DEF Digit
    <2>3. (n \div 10) % 10 \in Digit
      BY DEF Digit
    <2>4. n % 10 \in Digit
      BY DEF Digit
    <2>5. p[1] \in Digit /\ p[2] \in Digit /\ p[3] \in Digit /\ p[4] \in Digit
      BY <1>4, <2>1, <2>2, <2>3, <2>4
    <2>. QED
      BY <2>5
  <1> HIDE DEF I
  <1>6. p \in [I -> Digit]
    BY <1>2, <1>5
  <1>7. p \in Seq(Digit) /\ Len(p) = 4
    <2>. DEFINE w == 4
    <2>1. w \in Nat /\ I = 1..w
      BY DEF I
    <2>. HIDE DEF w
    <2>2. p \in Seq(Digit) /\ Len(p) = w
      BY <1>6, <2>1, FunctionIsSeq
    <2>. QED
      BY <2>2 DEF w
  <1>. QED
    BY <1>4, <1>7 DEF p

LEMMA PaddedIsSeq ==
    /\ \A n \in ThreeDigits : Padded(n, 3) \in Seq(Digit) /\ Len(Padded(n, 3)) = 3
    /\ \A n \in FourDigits : Padded(n, 4) \in Seq(Digit) /\ Len(Padded(n, 4)) = 4
  BY PaddedThree, PaddedFour DEF ThreeDigits, FourDigits

LEMMA PaddedThreeInjective ==
    ASSUME NEW m \in ThreeDigits, NEW n \in ThreeDigits,
           \A k \in 1..3 : Padded(m, 3)[k] = Padded(n, 3)[k]
    PROVE  m = n
  <1>1. m \in Nat /\ n \in Nat /\ m < 1000 /\ n < 1000
    BY DEF ThreeDigits
  <1>2. /\ Padded(m, 3)[1] = Padded(n, 3)[1]
        /\ Padded(m, 3)[2] = Padded(n, 3)[2]
        /\ Padded(m, 3)[3] = Padded(n, 3)[3]
    OBVIOUS
  <1>3. /\ m \div 100 = n \div 100
        /\ (m \div 10) % 10 = (n \div 10) % 10
        /\ m % 10 = n % 10
    <2>1. /\ Padded(m, 3)[1] = m \div 100
          /\ Padded(m, 3)[2] = (m \div 10) % 10
          /\ Padded(m, 3)[3] = m % 10
      BY <1>1, PaddedThree
    <2>2. /\ Padded(n, 3)[1] = n \div 100
          /\ Padded(n, 3)[2] = (n \div 10) % 10
          /\ Padded(n, 3)[3] = n % 10
      BY <1>1, PaddedThree
    <2>. QED
      BY <1>2, <2>1, <2>2
  <1>4. m \div 10 = n \div 10
    BY <1>1, <1>3, Hundredths, Tenths
  <1>. QED
    BY <1>1, <1>3, <1>4, Tenths

LEMMA PaddedFourInjective ==
    ASSUME NEW m \in FourDigits, NEW n \in FourDigits,
           \A k \in 1..4 : Padded(m, 4)[k] = Padded(n, 4)[k]
    PROVE  m = n
  <1>1. m \in Nat /\ n \in Nat /\ m < 10000 /\ n < 10000
    BY DEF FourDigits
  <1>2. /\ Padded(m, 4)[1] = Padded(n, 4)[1]
        /\ Padded(m, 4)[2] = Padded(n, 4)[2]
        /\ Padded(m, 4)[3] = Padded(n, 4)[3]
        /\ Padded(m, 4)[4] = Padded(n, 4)[4]
    OBVIOUS
  <1>3. /\ m \div 1000 = n \div 1000
        /\ (m \div 100) % 10 = (n \div 100) % 10
        /\ (m \div 10) % 10 = (n \div 10) % 10
        /\ m % 10 = n % 10
    <2>1. /\ Padded(m, 4)[1] = m \div 1000
          /\ Padded(m, 4)[2] = (m \div 100) % 10
          /\ Padded(m, 4)[3] = (m \div 10) % 10
          /\ Padded(m, 4)[4] = m % 10
      BY <1>1, PaddedFour
    <2>2. /\ Padded(n, 4)[1] = n \div 1000
          /\ Padded(n, 4)[2] = (n \div 100) % 10
          /\ Padded(n, 4)[3] = (n \div 10) % 10
          /\ Padded(n, 4)[4] = n % 10
      BY <1>1, PaddedFour
    <2>. QED
      BY <1>2, <2>1, <2>2
  <1>4. m \div 100 = n \div 100
    BY <1>1, <1>3, Hundredths, Tenths
  <1>5. m \div 10 = n \div 10
    BY <1>1, <1>3, <1>4, Hundredths, Tenths
  <1>. QED
    BY <1>1, <1>3, <1>5, Tenths

LEMMA Triple ==
    ASSUME NEW A, NEW B, NEW C, NEW d \in A \X B \X C
    PROVE  d[1] \in A /\ d[2] \in B /\ d[3] \in C /\ d = <<d[1], d[2], d[3]>>
  OBVIOUS

LEMMA DrawParts ==
    ASSUME NEW d \in Draws
    PROVE  /\ d[1] \in ThreeDigits /\ d[2] \in ThreeDigits /\ d[3] \in FourDigits
           /\ d = <<d[1], d[2], d[3]>>
  <1>1. /\ d[1] \in Exchanges /\ d[2] \in Exchanges /\ d[3] \in Subscribers
        /\ d = <<d[1], d[2], d[3]>>
    BY Triple DEF Draws
  <1>2. Exchanges \subseteq ThreeDigits
    BY DEF Exchanges, ThreeDigits
  <1>3. Subscribers \subseteq FourDigits
    BY DEF Subscribers, FourDigits
  <1>. QED
    BY <1>1, <1>2, <1>3

LEMMA NationalDigits ==
    ASSUME NEW d \in Draws
    PROVE  /\ National(d) \in Seq(Digit)
           /\ Len(National(d)) = 10
           /\ \A k \in 1..3 : National(d)[k] = Padded(d[1], 3)[k]
           /\ \A k \in 1..3 : National(d)[k + 3] = Padded(d[2], 3)[k]
           /\ \A k \in 1..4 : National(d)[k + 6] = Padded(d[3], 4)[k]
  <1> DEFINE p == Padded(d[1], 3)
             q == Padded(d[2], 3)
             r == Padded(d[3], 4)
             pq == p \o q
             n == pq \o r
  <1>1. d[1] \in ThreeDigits /\ d[2] \in ThreeDigits /\ d[3] \in FourDigits
    BY DrawParts
  <1>2. p \in Seq(Digit) /\ Len(p) = 3
    BY <1>1, PaddedIsSeq
  <1>3. q \in Seq(Digit) /\ Len(q) = 3
    BY <1>1, PaddedIsSeq
  <1>4. r \in Seq(Digit) /\ Len(r) = 4
    BY <1>1, PaddedIsSeq
  <1> HIDE DEF p, q, r
  <1>5. /\ pq \in Seq(Digit) /\ Len(pq) = 6
        /\ \A i \in 1..3 : pq[i] = p[i]
        /\ \A i \in 1..3 : pq[i + 3] = q[i]
    <2>1. /\ pq \in Seq(Digit) /\ Len(pq) = Len(p) + Len(q)
          /\ \A i \in 1..Len(p) : pq[i] = p[i]
          /\ \A i \in 1..Len(q) : pq[i + Len(p)] = q[i]
      <3>1. p \in Seq(Digit) /\ q \in Seq(Digit)
        BY <1>2, <1>3
      <3>. QED
        BY <3>1, Concat
    <2>. HIDE DEF pq
    <2>. QED
      BY <1>2, <1>3, <2>1
  <1> HIDE DEF pq
  <1>6. /\ n \in Seq(Digit) /\ Len(n) = 10
        /\ \A i \in 1..6 : n[i] = pq[i]
        /\ \A i \in 1..4 : n[i + 6] = r[i]
    <2>1. /\ n \in Seq(Digit) /\ Len(n) = Len(pq) + Len(r)
          /\ \A i \in 1..Len(pq) : n[i] = pq[i]
          /\ \A i \in 1..Len(r) : n[i + Len(pq)] = r[i]
      <3>1. pq \in Seq(Digit) /\ r \in Seq(Digit)
        BY <1>4, <1>5
      <3>. QED
        BY <3>1, Concat
    <2>. HIDE DEF n
    <2>. QED
      BY <1>4, <1>5, <2>1
  <1>7. National(d) = n
    <2>1. National(d) = p \o (q \o r)
      BY DEF National, p, q, r
    <2>2. (p \o q) \o r = p \o (q \o r)
      BY <1>2, <1>3, <1>4, ConcatAssociative
    <2>. QED
      BY <2>1, <2>2 DEF pq
  <1> HIDE DEF n
  <1>8. \A k \in 1..3 : n[k] = p[k] /\ n[k + 3] = q[k]
    <2>1. \A k \in 1..3 : k \in 1..6 /\ k + 3 \in 1..6
      OBVIOUS
    <2>. QED
      BY <1>5, <1>6, <2>1
  <1>. QED
    BY <1>6, <1>7, <1>8 DEF p, q, r

LEMMA E164Digits ==
    ASSUME NEW d \in Draws
    PROVE  /\ E164(d) \in Rows
           /\ E164(d)[1] = Plus
           /\ E164(d)[2] = 1
           /\ \A k \in 1..10 : E164(d)[k + 2] = National(d)[k]
           /\ \A k \in 2..12 : E164(d)[k] \in Digit
  <1> DEFINE n == National(d)
             h == <<Plus, 1>>
             e == h \o n
  <1>1. n \in Seq(Digit) /\ Len(n) = 10
    BY NationalDigits
  <1>2. \A k \in 1..10 : n[k] \in Digit
    BY <1>1, ElementOfSeq
  <1>3. h \in Seq(Char) /\ Len(h) = 2 /\ h[1] = Plus /\ h[2] = 1
    <2>1. Plus \in Char /\ 1 \in Char
      BY DEF Plus, Char
    <2>. QED
      BY <2>1
  <1>4. n \in Seq(Char)
    <2>1. Digit \subseteq Char
      BY DEF Digit, Char
    <2>. QED
      BY <1>1, <2>1, SeqMonotonic
  <1> HIDE DEF n, h
  <1>5. /\ e \in Seq(Char) /\ Len(e) = 12
        /\ \A i \in 1..2 : e[i] = h[i]
        /\ \A i \in 1..10 : e[i + 2] = n[i]
    <2>1. /\ e \in Seq(Char) /\ Len(e) = Len(h) + Len(n)
          /\ \A i \in 1..Len(h) : e[i] = h[i]
          /\ \A i \in 1..Len(n) : e[i + Len(h)] = n[i]
      <3>1. h \in Seq(Char) /\ n \in Seq(Char)
        BY <1>3, <1>4
      <3>. QED
        BY <3>1, Concat
    <2>. HIDE DEF e
    <2>. QED
      BY <1>1, <1>3, <2>1
  <1>6. E164(d) = e
    BY DEF E164, h, n
  <1> HIDE DEF e
  <1>7. e \in Rows
    <2>1. e \in [1..Len(e) -> Char]
      BY <1>5, LenProperties
    <2>. QED
      BY <1>5, <2>1 DEF Rows, Columns
  <1>8. e[1] = Plus /\ e[2] = 1
    BY <1>3, <1>5
  <1>9. \A k \in 2..12 : e[k] \in Digit
    <2>1. e[2] \in Digit
      BY <1>8 DEF Digit
    <2>2. \A k \in 3..12 : k - 2 \in 1..10 /\ (k - 2) + 2 = k
      OBVIOUS
    <2>3. \A k \in 3..12 : e[k] \in Digit
      BY <1>2, <1>5, <2>2
    <2>4. \A k \in 2..12 : k = 2 \/ k \in 3..12
      OBVIOUS
    <2>. QED
      BY <2>1, <2>3, <2>4
  <1>. QED
    BY <1>5, <1>6, <1>7, <1>8, <1>9 DEF n

\* Different draws are different rows: no number is lost to formatting.
LEMMA E164Injective ==
    ASSUME NEW d \in Draws, NEW e \in Draws, E164(d) = E164(e)
    PROVE  d = e
  <1>1. \A k \in 1..10 : National(d)[k] = National(e)[k]
    BY E164Digits
  <1>2. /\ d[1] \in ThreeDigits /\ d[2] \in ThreeDigits /\ d[3] \in FourDigits
        /\ e[1] \in ThreeDigits /\ e[2] \in ThreeDigits /\ e[3] \in FourDigits
        /\ d = <<d[1], d[2], d[3]>> /\ e = <<e[1], e[2], e[3]>>
    BY DrawParts
  <1>3. /\ \A k \in 1..3 : Padded(d[1], 3)[k] = Padded(e[1], 3)[k]
        /\ \A k \in 1..3 : Padded(d[2], 3)[k] = Padded(e[2], 3)[k]
        /\ \A k \in 1..4 : Padded(d[3], 4)[k] = Padded(e[3], 4)[k]
    <2>1. \A k \in 1..3 : k \in 1..10 /\ k + 3 \in 1..10
      OBVIOUS
    <2>2. \A k \in 1..4 : k + 6 \in 1..10
      OBVIOUS
    <2>. QED
      BY <1>1, <2>1, <2>2, NationalDigits
  <1>4. d[1] = e[1] /\ d[2] = e[2]
    BY <1>2, <1>3, PaddedThreeInjective
  <1>5. d[3] = e[3]
    BY <1>2, <1>3, PaddedFourInjective
  <1>. QED
    BY <1>2, <1>4, <1>5

-----------------------------------------------------------------------------
(***************************************************************************)
(* Sorting.                                                                *)
(***************************************************************************)
LEMMA Least ==
    ASSUME NEW I \in SUBSET Nat, I # {}
    PROVE  \E x \in I : \A y \in I : x <= y
  <1>1. PICK x \in I : \A y \in I : ~(<<y, x>> \in OpToRel(<, Nat))
    BY NatLessThanWellFounded, WFMin
  <1>2. \A y, z \in Nat : <<y, z>> \in OpToRel(<, Nat) <=> y < z
    BY DEF OpToRel
  <1>3. ASSUME NEW y \in I PROVE x <= y
    <2>1. x \in Nat /\ y \in Nat
      OBVIOUS
    <2>2. ~(y < x)
      BY <1>1, <1>2, <2>1
    <2>. QED
      BY <2>1, <2>2
  <1>. QED
    BY <1>3

LEMMA RowPrecedes ==
    ASSUME NEW s \in Rows, NEW t \in Rows
    PROVE  Precedes(s, t) <=>
              \E i \in Columns : s[i] < t[i] /\ \A j \in 1..(i - 1) : s[j] = t[j]
  <1>1. DOMAIN s \cap DOMAIN t = Columns
    BY DEF Rows
  <1>. QED
    BY <1>1 DEF Precedes

\* Rows are totally ordered.
LEMMA RowOrder ==
    /\ \A s \in Rows : ~Precedes(s, s)
    /\ \A s, t, u \in Rows : Precedes(s, t) /\ Precedes(t, u) => Precedes(s, u)
    /\ \A s, t \in Rows : s # t => Precedes(s, t) \/ Precedes(t, s)
  <1>0. /\ Columns \subseteq Nat
        /\ \A i \in Columns : \A j \in 1..(i - 1) : j \in Columns
        /\ \A s \in Rows : \A i \in Columns : s[i] \in Int
    <2>1. Char \subseteq Int
      BY DEF Char
    <2>2. \A s \in Rows : \A i \in Columns : s[i] \in Char
      BY DEF Rows
    <2>3. Columns \subseteq Nat
      BY DEF Columns
    <2>4. \A i \in Columns : \A j \in 1..(i - 1) : j \in Columns
      BY DEF Columns
    <2>. QED
      BY <2>1, <2>2, <2>3, <2>4
  <1>1. ASSUME NEW s \in Rows PROVE ~Precedes(s, s)
    BY <1>0, RowPrecedes
  <1>2. ASSUME NEW s \in Rows, NEW t \in Rows, NEW u \in Rows,
               Precedes(s, t), Precedes(t, u)
        PROVE  Precedes(s, u)
    <2>1. PICK i \in Columns : s[i] < t[i] /\ \A j \in 1..(i - 1) : s[j] = t[j]
      BY <1>2, RowPrecedes
    <2>2. PICK k \in Columns : t[k] < u[k] /\ \A j \in 1..(k - 1) : t[j] = u[j]
      BY <1>2, RowPrecedes
    <2>3. i \in Nat /\ k \in Nat /\ i >= 1 /\ k >= 1
      BY DEF Columns
    <2>4. CASE i <= k
      <3>1. s[i] < u[i]
        <4>1. t[i] < u[i] \/ t[i] = u[i]
          BY <2>2, <2>3, <2>4
        <4>. QED
          BY <1>0, <2>1, <4>1
      <3>2. \A j \in 1..(i - 1) : s[j] = u[j]
        BY <2>1, <2>2, <2>3, <2>4
      <3>. QED
        BY <3>1, <3>2, RowPrecedes
    <2>5. CASE k < i
      <3>1. s[k] < u[k]
        BY <2>1, <2>2, <2>3, <2>5
      <3>2. \A j \in 1..(k - 1) : s[j] = u[j]
        BY <2>1, <2>2, <2>3, <2>5
      <3>. QED
        BY <3>1, <3>2, RowPrecedes
    <2>. QED
      BY <2>3, <2>4, <2>5
  <1>3. ASSUME NEW s \in Rows, NEW t \in Rows, s # t
        PROVE  Precedes(s, t) \/ Precedes(t, s)
    <2> DEFINE I == {i \in Columns : s[i] # t[i]}
    <2>1. I # {}
      BY <1>3 DEF Rows
    <2>2. I \in SUBSET Nat
      BY <1>0
    <2>3. PICK i \in I : \A y \in I : i <= y
      BY <2>1, <2>2, Least
    <2>4. i \in Nat /\ i \in Columns /\ s[i] # t[i]
      BY <2>2
    <2>5. ASSUME NEW j \in 1..(i - 1) PROVE s[j] = t[j]
      <3>1. j \in Columns /\ ~(i <= j)
        BY <1>0, <2>4
      <3>. QED
        BY <2>3, <3>1
    <2>6. s[i] < t[i] \/ t[i] < s[i]
      BY <1>0, <2>4
    <2>. QED
      BY <2>4, <2>5, <2>6, RowPrecedes
  <1>. QED
    BY <1>1, <1>2, <1>3

\* Sorting is possible, and keeps every row.
LEMMA SortedRows ==
    ASSUME NEW ns \in SUBSET Rows, IsFiniteSet(ns)
    PROVE  /\ Cardinality(ns) \in Nat
           /\ Sorted(ns) \in [1..Cardinality(ns) -> ns]
           /\ \A x \in ns : \E i \in 1..Cardinality(ns) : Sorted(ns)[i] = x
  <1> DEFINE n == Cardinality(ns)
             Below(x) == {y \in ns : Precedes(y, x)}
             r == [x \in ns |-> Cardinality(Below(x)) + 1]
             Ordered(s) == \A i, j \in DOMAIN s : i < j => Precedes(s[i], s[j])
             t == [i \in 1..n |-> CHOOSE x \in ns : r[x] = i]
             s == Sorted(ns)
  <1>1. n \in Nat
    BY FS_CardinalityType
  <1>2. ASSUME NEW x \in ns
        PROVE  IsFiniteSet(Below(x)) /\ Cardinality(Below(x)) \in 0..(n - 1)
    <2>1. Below(x) \in SUBSET ns /\ x \notin Below(x)
      BY RowOrder
    <2>2. /\ IsFiniteSet(Below(x))
          /\ Cardinality(Below(x)) <= n
          /\ n = Cardinality(Below(x)) => ns = Below(x)
      BY <2>1, FS_Subset
    <2>3. Cardinality(Below(x)) \in Nat
      BY <2>2, FS_CardinalityType
    <2>. QED
      BY <1>1, <2>1, <2>2, <2>3
  <1>3. r \in [ns -> 1..n]
    <2>1. ASSUME NEW x \in ns PROVE Cardinality(Below(x)) + 1 \in 1..n
      <3>. DEFINE b == Cardinality(Below(x))
      <3>1. b \in 0..(n - 1)
        BY <1>2
      <3>. HIDE DEF b, n
      <3>2. b + 1 \in 1..n
        BY <1>1, <3>1
      <3>. QED
        BY <3>2 DEF b
    <2>. QED
      BY <2>1
  <1>4. ASSUME NEW x \in ns, NEW y \in ns, Precedes(x, y)
        PROVE  r[x] < r[y]
    <2>1. Below(x) \in SUBSET Below(y)
      BY <1>4, RowOrder
    <2>2. x \in Below(y) /\ x \notin Below(x)
      BY <1>4, RowOrder
    <2>3. /\ Cardinality(Below(x)) <= Cardinality(Below(y))
          /\ Cardinality(Below(y)) = Cardinality(Below(x)) => Below(y) = Below(x)
      BY <1>2, <2>1, FS_Subset
    <2>4. Below(y) # Below(x)
      BY <2>2
    <2>5. r[x] = Cardinality(Below(x)) + 1 /\ r[y] = Cardinality(Below(y)) + 1
      OBVIOUS
    <2>. DEFINE b == Cardinality(Below(x))
                c == Cardinality(Below(y))
    <2>6. b \in 0..(n - 1) /\ c \in 0..(n - 1) /\ b <= c /\ b # c
      BY <1>2, <2>3, <2>4
    <2>. HIDE DEF b, c, n, r
    <2>7. b + 1 < c + 1
      BY <1>1, <2>6
    <2>. QED
      BY <2>5, <2>7 DEF b, c
  <1> HIDE DEF r
  <1>5. \A x, y \in ns : r[x] = r[y] => x = y
    <2> SUFFICES ASSUME NEW x \in ns, NEW y \in ns, r[x] = r[y] PROVE x = y
      OBVIOUS
    <2>1. r[x] \in Int /\ r[y] \in Int
      BY <1>3
    <2>2. ~Precedes(x, y) /\ ~Precedes(y, x)
      BY <1>4, <2>1
    <2>. QED
      BY <2>2, RowOrder
  <1>6. \A i \in 1..n : \E x \in ns : r[x] = i
    <2>1. r \in Injection(ns, 1..n)
      BY <1>3, <1>5 DEF Injection, IsInjective
    <2>2. IsFiniteSet(1..n) /\ Cardinality(1..n) = n
      BY <1>1, FS_Interval
    <2>3. r \in Surjection(ns, 1..n)
      BY <2>1, <2>2, FS_Injection
    <2>. QED
      BY <2>3 DEF Surjection
  <1>7. \A i \in 1..n : t[i] \in ns /\ r[t[i]] = i
    BY <1>6
  <1>8. t \in [1..n -> ns] /\ Ordered(t)
    <2>1. t \in [1..n -> ns]
      BY <1>7
    <2> HIDE DEF t
    <2>2. ASSUME NEW i \in 1..n, NEW j \in 1..n, i < j
          PROVE  Precedes(t[i], t[j])
      <3>1. t[i] # t[j]
        BY <1>7, <2>2
      <3>2. ~Precedes(t[j], t[i])
        BY <1>4, <1>7, <2>2
      <3>. QED
        BY <1>7, <3>1, <3>2, RowOrder
    <2>. QED
      BY <2>1, <2>2
  <1> HIDE DEF t
  <1>9. s \in [1..n -> ns] /\ Ordered(s)
    <2>1. \E f \in [1..n -> ns] : Ordered(f)
      BY <1>8
    <2>2. s = CHOOSE f \in [1..n -> ns] : Ordered(f)
      BY DEF Sorted
    <2>. QED
      BY <2>1, <2>2
  <1> HIDE DEF s
  <1>10. \A i, j \in 1..n : s[i] = s[j] => i = j
    <2> SUFFICES ASSUME NEW i \in 1..n, NEW j \in 1..n, s[i] = s[j] PROVE i = j
      OBVIOUS
    <2>1. s[i] \in Rows /\ s[j] \in Rows
      BY <1>9
    <2>2. ~Precedes(s[i], s[j]) /\ ~Precedes(s[j], s[i])
      BY <2>1, RowOrder
    <2>. QED
      BY <1>1, <1>9, <2>2
  <1>11. \A x \in ns : \E i \in 1..n : s[i] = x
    <2>1. s \in Injection(1..n, ns)
      BY <1>9, <1>10 DEF Injection, IsInjective
    <2>2. IsFiniteSet(1..n) /\ Cardinality(1..n) = n
      BY <1>1, FS_Interval
    <2>3. s \in Surjection(1..n, ns)
      BY <2>1, <2>2, FS_Injection
    <2>. QED
      BY <2>3 DEF Surjection
  <1>. QED
    BY <1>1, <1>9, <1>11 DEF s

-----------------------------------------------------------------------------
(***************************************************************************)
(* The layout of the file: a header of two characters, then lines of 13.   *)
(***************************************************************************)
\* The line that holds the k-th character of the rows, and its place there.
RowAt(k)    == ((k - 1) \div 13) + 1
ColumnAt(k) == ((k - 1) % 13) + 1

LEMMA Places ==
    /\ \A k \in Nat : k >= 1 =>
          /\ RowAt(k) \in Nat /\ RowAt(k) >= 1
          /\ ColumnAt(k) \in 1..13
          /\ k = 13 * (RowAt(k) - 1) + ColumnAt(k)
    /\ \A i \in Nat : \A m \in 1..13 : i >= 1 =>
          RowAt(13 * (i - 1) + m) = i /\ ColumnAt(13 * (i - 1) + m) = m
  BY DEF RowAt, ColumnAt

\* The function by which FlattenSeq is defined.
Flattens(f, t, n) ==
    f = [i \in 1..n |-> IF i = 1 THEN t[i] ELSE f[i - 1] \o t[i]]

LEMMA OneRecursion ==
    ASSUME NEW n \in Nat, NEW f, NEW g, NEW t, Flattens(f, t, n), Flattens(g, t, n)
    PROVE  f = g
  <1> DEFINE I == {i \in 1..n : f[i] # g[i]}
  <1>1. DOMAIN f = 1..n /\ DOMAIN g = 1..n
    BY DEF Flattens
  <1>2. \A i \in 1..n : i # 1 => f[i] = f[i - 1] \o t[i] /\ g[i] = g[i - 1] \o t[i]
    BY DEF Flattens
  <1>3. \A i \in 1..n : i = 1 => f[i] = g[i]
    BY DEF Flattens
  <1>4. ASSUME I # {} PROVE FALSE
    <2>1. I \in SUBSET Nat
      <3>1. 1..n \subseteq Nat
        OBVIOUS
      <3>. QED
        BY <3>1
    <2>2. PICK i \in I : \A y \in I : i <= y
      BY <1>4, <2>1, Least
    <2>3. i \in 1..n /\ f[i] # g[i] /\ i # 1
      BY <1>3
    <2>4. i - 1 \in 1..n /\ ~(i <= i - 1)
      BY <2>3
    <2>5. f[i - 1] = g[i - 1]
      BY <2>2, <2>4
    <2>. QED
      BY <1>2, <2>3, <2>5
  <1>5. f = [i \in 1..n |-> f[i]] /\ g = [i \in 1..n |-> g[i]]
    BY <1>1 DEF Flattens
  <1>. QED
    BY <1>1, <1>4, <1>5

LEMMA FlattenSeqIs ==
    ASSUME NEW t, NEW n \in Nat, Len(t) = n, n # 0, NEW g, Flattens(g, t, n)
    PROVE  FlattenSeq(t) = g[n]
  <1> DEFINE h == CHOOSE f : Flattens(f, t, n)
  <1>1. FlattenSeq(t) = h[n]
    BY DEF FlattenSeq, Flattens
  <1>2. Flattens(h, t, n)
    OBVIOUS
  <1> HIDE DEF h
  <1>3. h = g
    BY <1>2, OneRecursion
  <1>. QED
    BY <1>1, <1>3

\* Lines of 13 characters, one after the other.
LEMMA Lines ==
    ASSUME NEW n \in Nat, n # 0, NEW t, Len(t) = n,
           \A i \in 1..n : t[i] \in Seq(Char) /\ Len(t[i]) = 13
    PROVE  /\ FlattenSeq(t) \in Seq(Char)
           /\ Len(FlattenSeq(t)) = 13 * n
           /\ \A k \in 1..(13 * n) : FlattenSeq(t)[k] = t[RowAt(k)][ColumnAt(k)]
  <1> DEFINE At(k) == t[RowAt(k)][ColumnAt(k)]
             Upto(i) == [k \in 1..(13 * i) |-> At(k)]
             g == [i \in 1..n |-> Upto(i)]
  <1>1. ASSUME NEW i \in 1..n, NEW k \in 1..(13 * i) PROVE At(k) \in Char
    <2>1. RowAt(k) \in 1..n /\ ColumnAt(k) \in 1..13
      <3>. DEFINE row == RowAt(k)
                  col == ColumnAt(k)
      <3>1. k \in Nat /\ k >= 1 /\ k <= 13 * i
        OBVIOUS
      <3>2. row \in Nat /\ row >= 1 /\ col \in 1..13 /\ k = 13 * (row - 1) + col
        BY <3>1, Places
      <3>. HIDE DEF row, col
      <3>3. row <= i
        BY <3>1, <3>2
      <3>. QED
        BY <3>2, <3>3 DEF row, col
    <2>2. t[RowAt(k)] \in Seq(Char) /\ ColumnAt(k) \in 1..Len(t[RowAt(k)])
      BY <2>1
    <2>. QED
      BY <2>2, ElementOfSeq
  <1> HIDE DEF At
  <1>2. \A i \in 1..n : Upto(i) \in Seq(Char) /\ Len(Upto(i)) = 13 * i
    <2> SUFFICES ASSUME NEW i \in 1..n
                 PROVE  Upto(i) \in Seq(Char) /\ Len(Upto(i)) = 13 * i
      OBVIOUS
    <2>1. Upto(i) \in [1..(13 * i) -> Char]
      BY <1>1
    <2>2. 13 * i \in Nat
      OBVIOUS
    <2>. QED
      BY <2>1, <2>2, FunctionIsSeq
  <1>3. \A i \in 1..n : \A m \in 1..13 : At(13 * (i - 1) + m) = t[i][m]
    <2> SUFFICES ASSUME NEW i \in 1..n, NEW m \in 1..13
                 PROVE  At(13 * (i - 1) + m) = t[i][m]
      OBVIOUS
    <2>1. i \in Nat /\ i >= 1
      OBVIOUS
    <2>2. RowAt(13 * (i - 1) + m) = i /\ ColumnAt(13 * (i - 1) + m) = m
      BY <2>1, Places
    <2>. QED
      BY <2>2 DEF At
  <1>4. \A i \in Nat : \A k \in 1..(13 * i) : Upto(i)[k] = At(k)
    OBVIOUS
  <1> HIDE DEF Upto
  <1>5. Upto(1) = t[1]
    <2>1. 1 \in 1..n /\ 1 \in Nat
      OBVIOUS
    <2>2. Upto(1) \in Seq(Char) /\ Len(Upto(1)) = 13 * 1
      BY <1>2, <2>1
    <2>3. t[1] \in Seq(Char) /\ Len(t[1]) = 13
      BY <2>1
    <2>4. ASSUME NEW k \in 1..Len(Upto(1)) PROVE Upto(1)[k] = t[1][k]
      <3>. DEFINE l == Len(Upto(1))
      <3>0. l = 13 /\ k \in 1..l
        BY <2>2
      <3>. HIDE DEF l
      <3>1. 13 * (1 - 1) + k = k /\ k \in 1..(13 * 1) /\ k \in 1..13
        BY <3>0
      <3>2. Upto(1)[k] = At(k)
        BY <1>4, <2>1, <3>1
      <3>3. At(13 * (1 - 1) + k) = t[1][k]
        BY <1>3, <2>1, <3>1
      <3>. QED
        BY <3>1, <3>2, <3>3
    <2>5. Len(Upto(1)) = Len(t[1])
      BY <2>2, <2>3
    <2>. QED
      BY <2>2, <2>3, <2>4, <2>5, SeqEqual
  <1>6. ASSUME NEW i \in 1..n, i # 1 PROVE Upto(i) = Upto(i - 1) \o t[i]
    <2> DEFINE u == Upto(i - 1)
               v == t[i]
               w == Upto(i)
    <2>1. i - 1 \in 1..n /\ i \in Nat /\ i - 1 \in Nat
      BY <1>6
    <2>2. /\ u \in Seq(Char) /\ Len(u) = 13 * (i - 1)
          /\ v \in Seq(Char) /\ Len(v) = 13
          /\ w \in Seq(Char) /\ Len(w) = 13 * i
      BY <1>2, <2>1
    <2>3. \A k \in 1..Len(u) : u[k] = At(k)
      BY <1>4, <2>1, <2>2
    <2>4. \A k \in 1..Len(w) : w[k] = At(k)
      BY <1>4, <2>1, <2>2
    <2>5. \A m \in 1..Len(v) : v[m] = At(m + Len(u))
      <3>1. \A m \in 1..13 : 13 * (i - 1) + m = m + Len(u)
        BY <2>2
      <3>2. \A m \in 1..Len(v) : m \in 1..13
        BY <2>2
      <3>. QED
        BY <1>3, <3>1, <3>2
    <2> HIDE DEF u, v, w
    <2>6. /\ u \o v \in Seq(Char)
          /\ Len(u \o v) = Len(u) + Len(v)
          /\ \A k \in 1..Len(u) : (u \o v)[k] = u[k]
          /\ \A m \in 1..Len(v) : (u \o v)[m + Len(u)] = v[m]
      <3>1. u \in Seq(Char) /\ v \in Seq(Char)
        BY <2>2
      <3>. QED
        BY <3>1, Concat
    <2>7. Len(w) = Len(u \o v)
      BY <2>1, <2>2, <2>6
    <2>8. \A k \in 1..Len(w) : w[k] = (u \o v)[k]
      <3> SUFFICES ASSUME NEW k \in 1..Len(w) PROVE w[k] = (u \o v)[k]
        OBVIOUS
      <3>1. CASE k <= Len(u)
        <4>1. k \in 1..Len(u)
          BY <2>2, <3>1
        <4>. QED
          BY <2>3, <2>4, <2>6, <4>1
      <3>2. CASE ~(k <= Len(u))
        <4>1. k - Len(u) \in 1..Len(v) /\ (k - Len(u)) + Len(u) = k
          BY <2>2, <2>6, <2>7, <3>2
        <4>2. (u \o v)[k] = v[k - Len(u)] /\ v[k - Len(u)] = At(k)
          BY <2>5, <2>6, <4>1
        <4>. QED
          BY <2>4, <4>2
      <3>. QED
        BY <3>1, <3>2
    <2>9. w = u \o v
      BY <2>2, <2>6, <2>7, <2>8, SeqEqual
    <2>. QED
      BY <2>9 DEF u, v, w
  <1>7. Flattens(g, t, n)
    <2>1. \A i \in 1..n : g[i] = Upto(i)
      OBVIOUS
    <2>2. \A i \in 1..n : i # 1 => i - 1 \in 1..n
      OBVIOUS
    <2>3. \A i \in 1..n : Upto(i) = IF i = 1 THEN t[i] ELSE g[i - 1] \o t[i]
      BY <1>5, <1>6, <2>1, <2>2
    <2>. QED
      BY <2>3 DEF Flattens
  <1>8. FlattenSeq(t) = g[n] /\ g[n] = Upto(n)
    <2>1. FlattenSeq(t) = g[n]
      <3> HIDE DEF g
      <3>. QED
        BY <1>7, FlattenSeqIs
    <2>. QED
      BY <2>1
  <1>9. /\ Upto(n) \in Seq(Char) /\ Len(Upto(n)) = 13 * n
        /\ \A k \in 1..(13 * n) : Upto(n)[k] = At(k)
    BY <1>2, <1>4
  <1>. QED
    BY <1>8, <1>9 DEF At

LEMMA RowIsSeq ==
    ASSUME NEW s \in Rows
    PROVE  s \in Seq(Char) /\ Len(s) = 12 /\ \A k \in 1..12 : s[k] \in Char
  <1> DEFINE w == 12
  <1>1. w \in Nat /\ s \in [1..w -> Char]
    BY DEF Rows, Columns
  <1> HIDE DEF w
  <1>2. s \in Seq(Char) /\ Len(s) = w
    BY <1>1, FunctionIsSeq
  <1>3. s \in Seq(Char) /\ Len(s) = 12
    BY <1>2 DEF w
  <1>. QED
    BY <1>3, ElementOfSeq

LEMMA LineIs ==
    ASSUME NEW s \in Rows
    PROVE  /\ Line(s) \in Seq(Char) /\ Len(Line(s)) = 13
           /\ \A k \in 1..13 : Line(s)[k] = IF k = 13 THEN NewLine ELSE s[k]
  <1> DEFINE e == <<NewLine>>
             l == s \o e
  <1>1. s \in Seq(Char) /\ Len(s) = 12
    BY RowIsSeq
  <1>2. e \in Seq(Char) /\ Len(e) = 1 /\ e[1] = NewLine
    <2>1. NewLine \in Char
      BY DEF NewLine, Char
    <2>. QED
      BY <2>1
  <1> HIDE DEF e
  <1>3. /\ l \in Seq(Char) /\ Len(l) = Len(s) + Len(e)
        /\ \A i \in 1..Len(s) : l[i] = s[i]
        /\ \A i \in 1..Len(e) : l[i + Len(s)] = e[i]
    <2>1. s \in Seq(Char) /\ e \in Seq(Char)
      BY <1>1, <1>2
    <2>. QED
      BY <2>1, Concat
  <1> HIDE DEF l
  <1>4. Len(l) = 13 /\ l[13] = NewLine /\ \A i \in 1..12 : l[i] = s[i]
    BY <1>1, <1>2, <1>3
  <1>5. \A k \in 1..13 : k = 13 \/ (k # 13 /\ k \in 1..12)
    OBVIOUS
  <1>6. Line(s) = l
    BY DEF Line, l, e
  <1>. QED
    BY <1>3, <1>4, <1>5, <1>6

LEMMA RowInside ==
    ASSUME NEW n \in Nat, NEW k \in 1..(13 * n)
    PROVE  RowAt(k) \in 1..n /\ ColumnAt(k) \in 1..13
  <1> DEFINE row == RowAt(k)
             col == ColumnAt(k)
  <1>1. k \in Nat /\ k >= 1 /\ k <= 13 * n
    OBVIOUS
  <1>2. row \in Nat /\ row >= 1 /\ col \in 1..13 /\ k = 13 * (row - 1) + col
    BY <1>1, Places
  <1> HIDE DEF row, col
  <1>3. row <= n
    BY <1>1, <1>2
  <1>. QED
    BY <1>2, <1>3 DEF row, col

\* Where every character of a finished file comes from.
LEMMA Layout ==
    ASSUME NEW ns \in SUBSET Rows, IsFiniteSet(ns)
    PROVE  /\ Contents(ns) \in Seq(Char)
           /\ Len(Contents(ns)) = 2 + 13 * Cardinality(ns)
           /\ Contents(ns)[1] = Letter
           /\ Contents(ns)[2] = NewLine
           /\ \A k \in 1..(13 * Cardinality(ns)) :
                 Contents(ns)[k + 2] = IF ColumnAt(k) = 13 THEN NewLine
                                       ELSE Sorted(ns)[RowAt(k)][ColumnAt(k)]
  <1> DEFINE n == Cardinality(ns)
             s == Sorted(ns)
             t == [i \in DOMAIN s |-> Line(s[i])]
             h == <<Letter, NewLine>>
             b == FlattenSeq(t)
             c == h \o b
  <1>1. n \in Nat /\ s \in [1..n -> ns]
    BY SortedRows
  <1>2. Contents(ns) = c
    BY DEF Contents
  <1>3. h \in Seq(Char) /\ Len(h) = 2 /\ h[1] = Letter /\ h[2] = NewLine
    <2>1. Letter \in Char /\ NewLine \in Char
      BY DEF Letter, NewLine, Char
    <2>. QED
      BY <2>1
  <1> HIDE DEF n, s, h
  <1>4. t = [i \in 1..n |-> Line(s[i])] /\ \A i \in 1..n : s[i] \in Rows
    BY <1>1
  <1> HIDE DEF t
  <1>5. \A i \in 1..n : /\ t[i] \in Seq(Char) /\ Len(t[i]) = 13
                        /\ \A k \in 1..13 :
                              t[i][k] = IF k = 13 THEN NewLine ELSE s[i][k]
    BY <1>4, LineIs
  <1>6. Len(t) = n
    <2>1. t \in [1..n -> Seq(Char)]
      BY <1>4, <1>5
    <2>. QED
      BY <1>1, <2>1, FunctionIsSeq
  <1>7. /\ b \in Seq(Char) /\ Len(b) = 13 * n
        /\ \A k \in 1..(13 * n) : b[k] = t[RowAt(k)][ColumnAt(k)]
    <2>1. CASE n = 0
      <3>1. b = t
        BY <1>6, <2>1 DEF FlattenSeq
      <3>2. t \in [1..n -> Char]
        BY <1>4, <2>1
      <3>3. t \in Seq(Char) /\ Len(t) = n
        BY <1>1, <3>2, FunctionIsSeq
      <3> HIDE DEF b
      <3>4. 13 * n = 0 /\ 1..(13 * n) = {}
        BY <2>1
      <3>. QED
        BY <2>1, <3>1, <3>3, <3>4
    <2>2. CASE n # 0
      <3>1. \A i \in 1..n : t[i] \in Seq(Char) /\ Len(t[i]) = 13
        BY <1>5
      <3>. QED
        BY <1>1, <1>6, <2>2, <3>1, Lines
    <2>. QED
      BY <2>1, <2>2
  <1> HIDE DEF b
  <1>8. /\ c \in Seq(Char) /\ Len(c) = Len(h) + Len(b)
        /\ \A i \in 1..Len(h) : c[i] = h[i]
        /\ \A i \in 1..Len(b) : c[i + Len(h)] = b[i]
    <2>1. h \in Seq(Char) /\ b \in Seq(Char)
      BY <1>3, <1>7
    <2>. QED
      BY <2>1, Concat
  <1> HIDE DEF c
  <1>9. Len(c) = 2 + 13 * n /\ c[1] = Letter /\ c[2] = NewLine
    BY <1>1, <1>3, <1>7, <1>8
  <1>10. ASSUME NEW k \in 1..(13 * n)
         PROVE  c[k + 2] = IF ColumnAt(k) = 13 THEN NewLine
                           ELSE s[RowAt(k)][ColumnAt(k)]
    <2>1. c[k + 2] = b[k]
      BY <1>3, <1>7, <1>8
    <2>2. b[k] = t[RowAt(k)][ColumnAt(k)]
      BY <1>7
    <2>3. RowAt(k) \in 1..n /\ ColumnAt(k) \in 1..13
      BY <1>1, RowInside
    <2>. QED
      BY <1>5, <2>1, <2>2, <2>3
  <1>. QED
    BY <1>2, <1>8, <1>9, <1>10 DEF n, s

-----------------------------------------------------------------------------
(***************************************************************************)
(* What a line is normalized to.                                           *)
(***************************************************************************)
\* The function by which Digits is defined.
Filters(f, t, n) ==
    f = [i \in 0..n |-> IF i = 0 THEN <<>>
                        ELSE IF IsDigit(t[i]) THEN Append(f[i - 1], t[i])
                        ELSE f[i - 1]]

LEMMA FilterStep ==
    ASSUME NEW t, NEW n \in Nat, NEW f, Filters(f, t, n)
    PROVE  /\ DOMAIN f = 0..n
           /\ f[0] = <<>>
           /\ \A i \in 1..n : f[i] = IF IsDigit(t[i]) THEN Append(f[i - 1], t[i])
                                     ELSE f[i - 1]
  <1>1. DOMAIN f = 0..n
    BY DEF Filters
  <1>2. 0 \in 0..n /\ \A i \in 1..n : i \in 0..n /\ i # 0
    OBVIOUS
  <1>3. \A i \in 0..n : f[i] = IF i = 0 THEN <<>>
                               ELSE IF IsDigit(t[i]) THEN Append(f[i - 1], t[i])
                               ELSE f[i - 1]
    BY DEF Filters
  <1>. QED
    BY <1>1, <1>2, <1>3

LEMMA FilterExists ==
    ASSUME NEW t, NEW n \in Nat
    PROVE  \E f : Filters(f, t, n)
  <1> DEFINE I == {m \in Nat : ~\E f : Filters(f, t, m)}
  <1>1. ASSUME I # {} PROVE FALSE
    <2>1. I \in SUBSET Nat
      OBVIOUS
    <2>2. PICK m \in I : \A y \in I : m <= y
      BY <1>1, <2>1, Least
    <2>3. m \in Nat /\ ~\E f : Filters(f, t, m)
      OBVIOUS
    <2>4. m # 0
      <3>1. Filters([i \in 0..0 |-> <<>>], t, 0)
        BY DEF Filters
      <3>. QED
        BY <2>3, <3>1
    <2>5. m - 1 \in Nat /\ ~(m <= m - 1)
      BY <2>3, <2>4
    <2>6. PICK f : Filters(f, t, m - 1)
      BY <2>2, <2>5
    <2> DEFINE last == IF IsDigit(t[m]) THEN Append(f[m - 1], t[m]) ELSE f[m - 1]
               g == [i \in 0..m |-> IF i = m THEN last ELSE f[i]]
               Value(i) == IF i = 0 THEN <<>>
                          ELSE IF IsDigit(t[i]) THEN Append(g[i - 1], t[i])
                          ELSE g[i - 1]
    <2>7. \A i \in 0..m : g[i] = Value(i)
      <3> SUFFICES ASSUME NEW i \in 0..m PROVE g[i] = Value(i)
        OBVIOUS
      <3>1. /\ f[0] = <<>>
            /\ \A j \in 1..(m - 1) :
                  f[j] = IF IsDigit(t[j]) THEN Append(f[j - 1], t[j]) ELSE f[j - 1]
        BY <2>5, <2>6, FilterStep
      <3>2. CASE i = 0
        <4>1. g[i] = f[0]
          BY <2>4, <3>2
        <4>. QED
          BY <3>1, <3>2, <4>1
      <3>3. CASE i = m
        <4>1. m \in 0..m /\ m - 1 \in 0..m /\ m - 1 # m
          BY <2>3, <2>5
        <4>2. g[i] = last /\ g[i - 1] = f[m - 1]
          BY <3>3, <4>1
        <4>. QED
          BY <2>4, <3>3, <4>2
      <3>4. CASE i # 0 /\ i # m
        <4>1. i \in 1..(m - 1) /\ i - 1 \in 0..m /\ i - 1 # m
          BY <2>3, <3>4
        <4>2. g[i] = f[i] /\ g[i - 1] = f[i - 1]
          BY <3>4, <4>1
        <4>. QED
          BY <3>1, <3>4, <4>1, <4>2
      <3>. QED
        BY <3>2, <3>3, <3>4
    <2> HIDE DEF last
    <2>8. g = [i \in 0..m |-> Value(i)]
      <3> DEFINE e == [i \in 0..m |-> g[i]]
      <3>1. g = e
        OBVIOUS
      <3> HIDE DEF g
      <3>2. e = [i \in 0..m |-> Value(i)]
        BY <2>7
      <3>. QED
        BY <3>1, <3>2
    <2>9. Filters(g, t, m)
      <3> HIDE DEF g
      <3>. QED
        BY <2>8 DEF Filters
    <2>. QED
      BY <2>3, <2>9
  <1>. QED
    BY <1>1

LEMMA DigitsIs ==
    ASSUME NEW t, Len(t) \in Nat
    PROVE  \E f : Filters(f, t, Len(t)) /\ Digits(t) = f[Len(t)]
  <1> DEFINE f == CHOOSE g : Filters(g, t, Len(t))
  <1>1. Filters(f, t, Len(t))
    BY FilterExists
  <1>2. Digits(t) = f[Len(t)]
    BY DEF Digits, Filters
  <1>. QED
    BY <1>1, <1>2


LEMMA DigitsType ==
    ASSUME NEW t \in Seq(Char)
    PROVE  Digits(t) \in Seq(Digit)
  <1> DEFINE n == Len(t)
  <1>1. n \in Nat
    OBVIOUS
  <1>2. PICK f : Filters(f, t, n) /\ Digits(t) = f[n]
    BY <1>1, DigitsIs
  <1> HIDE DEF n
  <1>3. /\ f[0] = <<>>
        /\ \A i \in 1..n : f[i] = IF IsDigit(t[i]) THEN Append(f[i - 1], t[i])
                                  ELSE f[i - 1]
    BY <1>1, <1>2, FilterStep
  <1> DEFINE I == {i \in 0..n : f[i] \notin Seq(Digit)}
  <1>4. ASSUME I # {} PROVE FALSE
    <2>1. I \in SUBSET Nat
      <3>1. 0..n \subseteq Nat
        BY <1>1
      <3>. QED
        BY <3>1
    <2>2. PICK i \in I : \A y \in I : i <= y
      BY <1>4, <2>1, Least
    <2>3. i \in 0..n /\ f[i] \notin Seq(Digit)
      OBVIOUS
    <2>4. i # 0
      <3>1. <<>> \in Seq(Digit)
        BY EmptySeq
      <3>. QED
        BY <1>3, <2>3, <3>1
    <2>5. i \in 1..n /\ i - 1 \in 0..n /\ ~(i <= i - 1)
      BY <1>1, <2>3, <2>4
    <2>6. f[i - 1] \in Seq(Digit)
      BY <2>2, <2>5
    <2>7. IsDigit(t[i]) => t[i] \in Digit
      BY DEF IsDigit, Digit
    <2>8. IsDigit(t[i]) => Append(f[i - 1], t[i]) \in Seq(Digit)
      BY <2>6, <2>7
    <2>. QED
      BY <1>3, <2>3, <2>5, <2>6, <2>8
  <1>5. n \in 0..n
    BY <1>1
  <1>. QED
    BY <1>2, <1>4, <1>5

\* Digits that stand together, with none before and none after them, are kept
\* as they stand.
LEMMA DigitsAre ==
    ASSUME NEW t \in Seq(Char), NEW lo \in Nat, NEW hi \in Nat,
           lo >= 1, lo <= hi + 1, hi <= Len(t),
           \A i \in 1..Len(t) : IsDigit(t[i]) <=> lo <= i /\ i <= hi
    PROVE  /\ Len(Digits(t)) = hi + 1 - lo
           /\ \A k \in 1..(hi + 1 - lo) : Digits(t)[k] = t[lo + k - 1]
  <1> DEFINE n == Len(t)
             Size(i) == IF i < lo THEN 0 ELSE IF i <= hi THEN i + 1 - lo ELSE hi + 1 - lo
             Good(f, i) == /\ f[i] \in Seq(Digit)
                           /\ Len(f[i]) = Size(i)
                           /\ \A k \in 1..Size(i) : f[i][k] = t[lo + k - 1]
  <1>1. n \in Nat /\ hi <= n
    OBVIOUS
  <1>2. PICK f : Filters(f, t, n) /\ Digits(t) = f[n]
    BY <1>1, DigitsIs
  <1>3. \A i \in 1..n : IsDigit(t[i]) <=> lo <= i /\ i <= hi
    OBVIOUS
  <1> HIDE DEF n
  <1>4. /\ f[0] = <<>>
        /\ \A i \in 1..n : f[i] = IF IsDigit(t[i]) THEN Append(f[i - 1], t[i])
                                  ELSE f[i - 1]
    BY <1>1, <1>2, FilterStep
  <1> DEFINE I == {i \in 0..n : ~Good(f, i)}
  <1>5. ASSUME I # {} PROVE FALSE
    <2>1. I \in SUBSET Nat
      <3>1. 0..n \subseteq Nat
        BY <1>1
      <3>. QED
        BY <3>1
    <2>2. PICK i \in I : \A y \in I : i <= y
      BY <1>5, <2>1, Least
    <2>3. i \in 0..n /\ ~Good(f, i)
      OBVIOUS
    <2>4. i # 0
      <3>1. Size(0) = 0
        OBVIOUS
      <3>2. f[0] \in Seq(Digit) /\ Len(f[0]) = 0
        BY <1>4
      <3>3. Good(f, 0)
        BY <3>1, <3>2
      <3>. QED
        BY <2>3, <3>3
    <2>5. i \in 1..n /\ i - 1 \in 0..n /\ ~(i <= i - 1) /\ i \in Nat
      BY <1>1, <2>3, <2>4
    <2>6. Good(f, i - 1)
      BY <2>2, <2>5
    <2>7. CASE ~IsDigit(t[i])
      <3>1. f[i] = f[i - 1]
        BY <1>4, <2>5, <2>7
      <3>2. ~(lo <= i /\ i <= hi)
        BY <1>3, <2>5, <2>7
      <3>3. Size(i) = Size(i - 1)
        BY <2>5, <3>2
      <3> HIDE DEF Size
      <3>. QED
        BY <2>3, <2>6, <3>1, <3>3
    <2>8. CASE IsDigit(t[i])
      <3> DEFINE s == f[i - 1]
                 u == Append(s, t[i])
                 m == i - lo
      <3>1. f[i] = u
        BY <1>4, <2>5, <2>8
      <3>2. lo <= i /\ i <= hi
        BY <1>3, <2>5, <2>8
      <3>3. m \in Nat /\ Size(i) = m + 1 /\ Size(i - 1) = m /\ lo + (m + 1) - 1 = i
        BY <2>5, <3>2
      <3> HIDE DEF Size, m
      <3>4. s \in Seq(Digit) /\ Len(s) = m /\ \A k \in 1..m : s[k] = t[lo + k - 1]
        BY <2>6, <3>3
      <3>5. t[i] \in Digit
        BY <2>8 DEF IsDigit, Digit
      <3> HIDE DEF s
      <3>6. /\ u \in Seq(Digit) /\ Len(u) = m + 1 /\ u[m + 1] = t[i]
            /\ \A k \in 1..m : u[k] = s[k]
        BY <3>3, <3>4, <3>5
      <3> HIDE DEF u
      <3>7. \A k \in 1..(m + 1) : u[k] = t[lo + k - 1]
        <4>1. \A k \in 1..(m + 1) : k \in 1..m \/ k = m + 1
          BY <3>3
        <4>. QED
          BY <3>3, <3>4, <3>6, <4>1
      <3>8. Good(f, i)
        BY <3>1, <3>3, <3>6, <3>7
      <3>. QED
        BY <2>3, <3>8
    <2>. QED
      BY <2>7, <2>8
  <1>6. Good(f, n)
    <2>1. n \in 0..n
      BY <1>1
    <2>. QED
      BY <1>5, <2>1
  <1>7. Size(n) = hi + 1 - lo
    BY <1>1
  <1> HIDE DEF Size
  <1>. QED
    BY <1>2, <1>6, <1>7


\* t is what stands from column a on in the line of the draw d.
Piece(t, d, a) ==
    /\ a \in 1..13
    /\ Len(t) \in 1..(14 - a)
    /\ \A k \in 1..Len(t) :
          t[k] = IF a + k - 1 = 13 THEN NewLine ELSE E164(d)[a + k - 1]

LEMMA PieceDigits ==
    ASSUME NEW t \in Seq(Char), NEW d \in Draws, NEW a, Piece(t, d, a)
    PROVE  \E c \in 2..13 : \E l \in 0..(13 - c) :
              /\ Len(Digits(t)) = l
              /\ \A k \in 1..l : Digits(t)[k] = E164(d)[c + k - 1]
              /\ a = 1 /\ Len(t) = 13 => c = 2 /\ l = 11
  <1> DEFINE n == Len(t)
             lo == IF a = 1 THEN 2 ELSE 1
             hi == IF a + n - 1 = 13 THEN n - 1 ELSE n
             c == a + lo - 1
             l == hi + 1 - lo
             e == E164(d)
  <1>1. /\ a \in 1..13 /\ n \in 1..(14 - a)
        /\ \A k \in 1..n : t[k] = IF a + k - 1 = 13 THEN NewLine ELSE e[a + k - 1]
    BY DEF Piece
  <1>2. e[1] = Plus /\ \A k \in 2..12 : e[k] \in Digit
    BY E164Digits
  <1>3. ~IsDigit(NewLine) /\ ~IsDigit(Plus) /\ \A x \in Digit : IsDigit(x)
    BY DEF IsDigit, NewLine, Plus, Digit
  <1> HIDE DEF e, n
  <1>4. \A i \in 1..n : IsDigit(t[i]) <=> lo <= i /\ i <= hi
    <2> SUFFICES ASSUME NEW i \in 1..n PROVE IsDigit(t[i]) <=> lo <= i /\ i <= hi
      OBVIOUS
    <2>1. CASE a + i - 1 = 13
      <3>1. ~IsDigit(t[i])
        BY <1>1, <1>3, <2>1
      <3>2. a \in 1..13 /\ n \in 1..(14 - a)
        BY <1>1
      <3>3. i = n /\ a + n - 1 = 13
        BY <2>1, <3>2
      <3>4. ~(i <= hi)
        BY <3>2, <3>3
      <3>. QED
        BY <3>1, <3>4
    <2>2. CASE a + i - 1 = 1
      <3>1. t[i] = e[1]
        BY <1>1, <2>2
      <3>2. ~IsDigit(t[i])
        BY <1>2, <1>3, <3>1
      <3>3. ~(lo <= i)
        BY <1>1, <2>2
      <3>. QED
        BY <3>2, <3>3
    <2>3. CASE a + i - 1 # 13 /\ a + i - 1 # 1
      <3>1. a + i - 1 \in 2..12
        BY <1>1, <2>3
      <3>2. t[i] = e[a + i - 1]
        BY <1>1, <2>3
      <3>3. IsDigit(t[i])
        BY <1>2, <1>3, <3>1, <3>2
      <3>4. lo <= i /\ i <= hi
        BY <1>1, <2>3
      <3>. QED
        BY <3>3, <3>4
    <2>. QED
      BY <2>1, <2>2, <2>3
  <1>5. /\ lo \in Nat /\ hi \in Nat /\ lo >= 1 /\ lo <= hi + 1 /\ hi <= n
        /\ c \in 2..13 /\ l \in 0..(13 - c)
        /\ a = 1 /\ n = 13 => c = 2 /\ l = 11
    BY <1>1
  <1>6. /\ Len(Digits(t)) = l
        /\ \A k \in 1..l : Digits(t)[k] = t[lo + k - 1]
    <2> HIDE DEF lo, hi
    <2>. QED
      BY <1>4, <1>5, DigitsAre DEF n
  <1>7. \A k \in 1..l : t[lo + k - 1] = e[c + k - 1]
    <2> SUFFICES ASSUME NEW k \in 1..l PROVE t[lo + k - 1] = e[c + k - 1]
      OBVIOUS
    <2>1. lo + k - 1 \in 1..n /\ a + (lo + k - 1) - 1 # 13
      BY <1>1, <1>5
    <2>2. t[lo + k - 1] = e[a + (lo + k - 1) - 1]
      BY <1>1, <2>1
    <2>3. a + (lo + k - 1) - 1 = c + k - 1
      BY <1>1, <1>5
    <2>. QED
      BY <2>2, <2>3
  <1> HIDE DEF lo, hi, c, l
  <1>. QED
    BY <1>5, <1>6, <1>7 DEF e, n

\* A whole line is normalized to its number; a part of a line to its number
\* or to what no subscriber can have.
LEMMA PieceNormalized ==
    ASSUME NEW t \in Seq(Char), NEW d \in Draws, NEW a, Piece(t, d, a)
    PROVE  /\ Dialable(NormalizeForDnc(t)) => NormalizeForDnc(t) = National(d)
           /\ a = 1 /\ Len(t) = 13 => NormalizeForDnc(t) = National(d)
  <1> DEFINE s == Digits(t)
             n == National(d)
             e == E164(d)
             r == NormalizeForDnc(t)
  <1>0. PICK c \in 2..13 : \E m \in 0..(13 - c) :
              /\ Len(s) = m
              /\ \A k \in 1..m : s[k] = e[c + k - 1]
              /\ a = 1 /\ Len(t) = 13 => c = 2 /\ m = 11
    BY PieceDigits
  <1>1. PICK l \in 0..(13 - c) :
              /\ Len(s) = l
              /\ \A k \in 1..l : s[k] = e[c + k - 1]
              /\ a = 1 /\ Len(t) = 13 => c = 2 /\ l = 11
    BY <1>0
  <1>2. s \in Seq(Digit)
    BY DigitsType
  <1>3. n \in Seq(Digit) /\ Len(n) = 10
    BY NationalDigits
  <1>4. e[2] = 1 /\ \A k \in 1..10 : e[k + 2] = n[k]
    BY E164Digits
  <1>5. r = IF Len(s) = 11 /\ s[1] = 1 THEN Tail(s) ELSE s
    BY DEF NormalizeForDnc
  <1> HIDE DEF s, n, e, r
  <1>6. c = 2 /\ l >= 1 => s[1] = 1
    BY <1>1, <1>4
  <1>7. CASE l = 11
    <2>0. c = 2
      BY <1>7
    <2>1. c = 2 /\ s[1] = 1 /\ Len(s) = 11
      BY <1>1, <1>6, <1>7, <2>0
    <2>2. r = Tail(s)
      BY <1>5, <2>1
    <2>3. /\ Tail(s) \in Seq(Digit) /\ Len(Tail(s)) = Len(s) - 1
          /\ \A k \in 1..Len(Tail(s)) : Tail(s)[k] = s[k + 1]
      <3>1. s # <<>>
        BY <2>1, NonEmpty
      <3>. QED
        BY <1>2, <3>1, HeadTailProperties
    <2>4. Len(Tail(s)) = 10
      BY <2>1, <2>3
    <2>5. \A k \in 1..10 : Tail(s)[k] = n[k]
      <3> SUFFICES ASSUME NEW k \in 1..10 PROVE Tail(s)[k] = n[k]
        OBVIOUS
      <3>1. Tail(s)[k] = s[k + 1]
        BY <2>3, <2>4
      <3>2. s[k + 1] = e[2 + (k + 1) - 1]
        BY <1>1, <1>7, <2>1
      <3>3. 2 + (k + 1) - 1 = k + 2
        OBVIOUS
      <3>. QED
        BY <1>4, <3>1, <3>2, <3>3
    <2>6. Tail(s) = n
      <3> DEFINE u == Tail(s)
      <3>1. u \in Seq(Digit) /\ Len(u) = Len(n) /\ \A k \in 1..Len(u) : u[k] = n[k]
        BY <1>3, <2>3, <2>4, <2>5
      <3> HIDE DEF u
      <3>2. u = n
        BY <1>3, <3>1, SeqEqual
      <3>. QED
        BY <3>2 DEF u
    <2>. QED
      BY <2>2, <2>6 DEF r, n
  <1>8. CASE l # 11
    <2>1. r = s /\ ~(a = 1 /\ Len(t) = 13)
      BY <1>1, <1>5, <1>8
    <2>2. ASSUME Dialable(r) PROVE r = n
      <3>1. Len(s) = 10 /\ s[1] \notin {0, 1}
        BY <2>1, <2>2 DEF Dialable
      <3>2. l = 10 /\ c = 3
        BY <1>1, <1>6, <3>1
      <3>3. \A k \in 1..10 : s[k] = n[k]
        <4> SUFFICES ASSUME NEW k \in 1..10 PROVE s[k] = n[k]
          OBVIOUS
        <4>1. s[k] = e[3 + k - 1] /\ 3 + k - 1 = k + 2
          BY <1>1, <3>2
        <4>. QED
          BY <1>4, <4>1
      <3>4. Len(s) = Len(n) /\ \A k \in 1..Len(s) : s[k] = n[k]
        BY <1>3, <3>1, <3>3
      <3>. QED
        BY <1>2, <1>3, <2>1, <3>4, SeqEqual
    <2>. QED
      BY <2>1, <2>2 DEF r, n
  <1>. QED
    BY <1>7, <1>8

-----------------------------------------------------------------------------
(***************************************************************************)
(* The numbers of the list.                                                *)
(***************************************************************************)
\* What n draws collect, and the numbers of a set of draws.
Drawn(n)  == {Stream[i] : i \in 1..n}
Dialled(D) == {E164(d) : d \in D}

\* The file that every run that ends leaves behind.
Want == Dialled(Listed)
Full == Contents(Want)

LEMMA Parameters ==
    /\ Stream \in Seq(Draws)
    /\ Target \in Nat /\ Target >= 1
    /\ MaxRuns \in Nat
    /\ IsFiniteSet(Drawn(Len(Stream))) => Target <= Cardinality(Drawn(Len(Stream)))
  <1>1. Stream \in Seq(Draws)
    BY DncListAssumption DEF Draws, Exchanges, Subscribers
  <1>2. Target \in 1..Cardinality(Range(Stream)) /\ MaxRuns \in Nat
    BY DncListAssumption
  <1>3. Range(Stream) = Drawn(Len(Stream))
    BY <1>1, LenProperties DEF Range, Drawn
  <1> DEFINE c == Cardinality(Drawn(Len(Stream)))
  <1>4. Target \in 1..c
    BY <1>2, <1>3
  <1>5. IsFiniteSet(Drawn(Len(Stream))) => c \in Nat
    BY FS_CardinalityType
  <1> HIDE DEF c
  <1>6. Target \in Nat /\ Target >= 1 /\ Target <= c
    BY <1>4
  <1>. QED
    BY <1>1, <1>2, <1>6 DEF c

LEMMA DrawnIs ==
    ASSUME NEW n \in 0..Len(Stream)
    PROVE  /\ Drawn(n) \in SUBSET Draws
           /\ IsFiniteSet(Drawn(n))
           /\ Cardinality(Drawn(n)) \in Nat
  <1>1. n \in Nat /\ n <= Len(Stream) /\ Stream \in Seq(Draws)
    BY Parameters
  <1>2. Drawn(n) \in SUBSET Draws
    <2>1. \A i \in 1..n : i \in 1..Len(Stream)
      BY <1>1
    <2>. QED
      BY <1>1, <2>1, ElementOfSeq DEF Drawn
  <1>3. IsFiniteSet(Drawn(n))
    <2> DEFINE f == [i \in 1..n |-> Stream[i]]
    <2>1. f \in Surjection(1..n, Drawn(n))
      BY DEF Surjection, Drawn
    <2>2. IsFiniteSet(1..n)
      BY <1>1, FS_Interval
    <2> HIDE DEF f
    <2>. QED
      BY <2>1, <2>2, FS_Surjection
  <1>. QED
    BY <1>2, <1>3, FS_CardinalityType

LEMMA DrawnGrows ==
    /\ Drawn(0) = {} /\ Cardinality(Drawn(0)) = 0
    /\ \A m, n \in 0..Len(Stream) :
          m <= n => Cardinality(Drawn(m)) <= Cardinality(Drawn(n))
    /\ \A n \in 1..Len(Stream) :
          /\ Drawn(n) = Drawn(n - 1) \cup {Stream[n]}
          /\ Cardinality(Drawn(n)) <= Cardinality(Drawn(n - 1)) + 1
  <1>0. Len(Stream) \in Nat
    BY Parameters
  <1>1. Drawn(0) = {} /\ Cardinality(Drawn(0)) = 0
    <2>1. Drawn(0) = {}
      BY DEF Drawn
    <2>. QED
      BY <2>1, FS_EmptySet
  <1>2. ASSUME NEW m \in 0..Len(Stream), NEW n \in 0..Len(Stream), m <= n
        PROVE  Cardinality(Drawn(m)) <= Cardinality(Drawn(n))
    <2>1. \A i \in 1..m : i \in 1..n
      BY <1>0, <1>2
    <2>2. Drawn(m) \in SUBSET Drawn(n)
      BY <2>1 DEF Drawn
    <2>. QED
      BY <2>2, DrawnIs, FS_Subset
  <1>3. ASSUME NEW n \in 1..Len(Stream)
        PROVE  /\ Drawn(n) = Drawn(n - 1) \cup {Stream[n]}
               /\ Cardinality(Drawn(n)) <= Cardinality(Drawn(n - 1)) + 1
    <2>1. n - 1 \in 0..Len(Stream) /\ n \in 1..n
      BY <1>0
    <2>2. \A i \in 1..n : i \in 1..(n - 1) \/ i = n
      BY <1>0
    <2>3. \A i \in 1..(n - 1) : i \in 1..n
      BY <1>0
    <2>4. Drawn(n) = Drawn(n - 1) \cup {Stream[n]}
      BY <2>1, <2>2, <2>3 DEF Drawn
    <2> DEFINE D == Drawn(n - 1)
               c == Cardinality(D)
    <2>5. IsFiniteSet(D) /\ c \in Nat
      BY <2>1, DrawnIs
    <2>6. Cardinality(D \cup {Stream[n]}) = IF Stream[n] \in D THEN c ELSE c + 1
      BY <2>5, FS_AddElement
    <2>7. Cardinality(Drawn(n)) = IF Stream[n] \in D THEN c ELSE c + 1
      BY <2>4, <2>6
    <2> HIDE DEF D, c
    <2>8. Cardinality(Drawn(n)) <= c + 1
      BY <2>5, <2>7
    <2>. QED
      BY <2>4, <2>8 DEF D, c
  <1>. QED
    BY <1>1, <1>2, <1>3

\* The stream holds a first draw that completes the list.
LEMMA EnoughDraws ==
    \E n \in 1..Len(Stream) : /\ Cardinality(Drawn(n)) = Target
                              /\ Cardinality(Drawn(n - 1)) < Target
  <1> DEFINE top == Len(Stream)
             I == {n \in 0..top : Cardinality(Drawn(n)) >= Target}
  <1>0. top \in Nat /\ Target \in Nat /\ Target >= 1
    BY Parameters
  <1>1. \A n \in 0..top : Cardinality(Drawn(n)) \in Nat
    BY DrawnIs
  <1>2. top \in I
    <2>1. top \in 0..top
      BY <1>0
    <2>2. Target <= Cardinality(Drawn(top))
      BY <2>1, DrawnIs, Parameters
    <2>. QED
      BY <1>0, <1>1, <2>1, <2>2
  <1>3. I \in SUBSET Nat
    <2>1. 0..top \subseteq Nat
      BY <1>0
    <2>. QED
      BY <2>1
  <1>4. PICK n \in I : \A y \in I : n <= y
    BY <1>2, <1>3, Least
  <1>5. n \in 0..top /\ Cardinality(Drawn(n)) >= Target
    OBVIOUS
  <1>6. n # 0
    BY <1>0, <1>5, DrawnGrows
  <1>7. n \in 1..top /\ n - 1 \in 0..top /\ ~(n <= n - 1)
    BY <1>0, <1>5, <1>6
  <1>8. ~(Cardinality(Drawn(n - 1)) >= Target)
    BY <1>4, <1>7
  <1>9. Cardinality(Drawn(n)) <= Cardinality(Drawn(n - 1)) + 1
    BY <1>7, DrawnGrows
  <1>10. Cardinality(Drawn(n)) \in Nat /\ Cardinality(Drawn(n - 1)) \in Nat
    BY <1>1, <1>7
  <1>11. Cardinality(Drawn(n)) = Target /\ Cardinality(Drawn(n - 1)) < Target
    BY <1>0, <1>5, <1>8, <1>9, <1>10
  <1>. QED
    BY <1>7, <1>11

\* Wherever a run stops drawing, it has drawn the list.
LEMMA ListedIs ==
    ASSUME NEW n \in 1..Len(Stream), Cardinality(Drawn(n)) >= Target,
           Cardinality(Drawn(n - 1)) < Target
    PROVE  Listed = Drawn(n)
  <1> DEFINE P(m) == Cardinality(Drawn(m)) = Target /\ Cardinality(Drawn(m - 1)) < Target
             m == CHOOSE k \in 1..Len(Stream) : P(k)
  <1>0. Len(Stream) \in Nat /\ Target \in Nat /\ DOMAIN Stream = 1..Len(Stream)
    BY Parameters
  <1>1. m \in 1..Len(Stream) /\ P(m)
    BY EnoughDraws
  <1>2. Listed = Drawn(m)
    BY <1>0 DEF Listed, Drawn
  <1> HIDE DEF m
  <1>3. /\ m - 1 \in 0..Len(Stream) /\ m \in 0..Len(Stream)
        /\ n - 1 \in 0..Len(Stream) /\ n \in 0..Len(Stream)
    BY <1>0, <1>1
  <1>4. /\ Cardinality(Drawn(m)) \in Nat /\ Cardinality(Drawn(m - 1)) \in Nat
        /\ Cardinality(Drawn(n)) \in Nat /\ Cardinality(Drawn(n - 1)) \in Nat
    BY <1>3, DrawnIs
  <1>5. ~(m <= n - 1)
    <2>1. m <= n - 1 => Cardinality(Drawn(m)) <= Cardinality(Drawn(n - 1))
      BY <1>3, DrawnGrows
    <2>. QED
      BY <1>0, <1>1, <1>4, <2>1
  <1>6. ~(n <= m - 1)
    <2>1. n <= m - 1 => Cardinality(Drawn(n)) <= Cardinality(Drawn(m - 1))
      BY <1>3, DrawnGrows
    <2>. QED
      BY <1>0, <1>1, <1>4, <2>1
  <1>7. m = n
    BY <1>0, <1>1, <1>5, <1>6
  <1>. QED
    BY <1>2, <1>7

LEMMA DialledIs ==
    ASSUME NEW D \in SUBSET Draws, IsFiniteSet(D)
    PROVE  /\ Dialled(D) \in SUBSET Rows
           /\ IsFiniteSet(Dialled(D))
           /\ Cardinality(Dialled(D)) = Cardinality(D)
  <1> DEFINE f == [d \in D |-> E164(d)]
  <1>1. f \in Bijection(D, Dialled(D))
    <2>1. f \in [D -> Dialled(D)] /\ \A r \in Dialled(D) : \E d \in D : f[d] = r
      BY DEF Dialled
    <2>2. \A d, e \in D : f[d] = f[e] => d = e
      BY E164Injective
    <2> HIDE DEF f
    <2>. QED
      BY <2>1, <2>2 DEF Bijection, Injection, Surjection, IsInjective
  <1>2. ExistsBijection(D, Dialled(D))
    BY <1>1 DEF ExistsBijection
  <1>3. Dialled(D) \in SUBSET Rows
    BY E164Digits DEF Dialled
  <1>. QED
    BY <1>2, <1>3, FS_Bijection

-----------------------------------------------------------------------------
(***************************************************************************)
(* The inductive invariant.  The file is at every moment a prefix of the   *)
(* one file Full; where the loader stands in it, and that nothing was      *)
(* written since, decide what it can have collected.                       *)
(***************************************************************************)
Nationals(D) == {National(d) : d \in D}

\* The numbers in the first k rows of the finished file.
Loaded(k) ==
    Nationals({d \in Listed : \E i \in 1..k : Sorted(Want)[i] = E164(d)})

GeneratorType ==
    /\ gen \in {"idle", "drawing", "writing", "done"}
    /\ drawn \in 0..Len(Stream)
    /\ runs \in 0..MaxRuns

\* What a run has collected; it stops at the draw that completes the list.
Collected ==
    /\ gen \in {"idle", "done"} => numbers = {}
    /\ gen = "drawing" => /\ numbers = Dialled(Drawn(drawn))
                          /\ drawn > 0 => Cardinality(Drawn(drawn - 1)) < Target
    /\ gen = "writing" => numbers = Want

FileIsPrefix ==
    /\ file \in Seq(Char)
    /\ Len(file) <= Len(Full)
    /\ \A i \in 1..Len(file) : file[i] = Full[i]

FileWhole ==
    /\ gen = "done" => file = Full
    /\ quiet => gen # "writing" /\ file = Full

LoaderType ==
    /\ reader \in {"down", "reading", "serving"}
    /\ pos \in Nat
    /\ header \in BOOLEAN
    /\ fresh \subseteq Seq(Digit)
    /\ cache \subseteq Seq(Digit)
    /\ quiet \in BOOLEAN

Positioned ==
    reader = "reading" => IF header THEN pos >= 1 ELSE pos = 0 /\ fresh = {}

Genuine ==
    \A digits \in fresh \cup cache : Dialable(digits) => digits \in Nationals(Listed)

\* Undisturbed, the loader stands between two rows and has those before it.
Undisturbed ==
    /\ quiet /\ reader = "reading" /\ header =>
          \E k \in 0..Cardinality(Want) : pos = 2 + 13 * k /\ fresh = Loaded(k)
    /\ quiet /\ reader = "serving" => cache = Nationals(Listed)

WriterInv == GeneratorType /\ Collected /\ FileIsPrefix /\ FileWhole

ReaderInv == LoaderType /\ Positioned /\ Genuine /\ Undisturbed

LEMMA ListIs ==
    /\ Listed \in SUBSET Draws
    /\ \A d \in Listed : \E i \in 1..Len(Stream) : d = Stream[i]
    /\ Want \in SUBSET Rows /\ IsFiniteSet(Want)
    /\ Cardinality(Want) = Target /\ Cardinality(Want) \in Nat
    /\ Full \in Seq(Char) /\ Len(Full) = 2 + 13 * Cardinality(Want)
    /\ Len(Full) \in Nat
  <1>1. PICK n \in 1..Len(Stream) : /\ Cardinality(Drawn(n)) = Target
                                    /\ Cardinality(Drawn(n - 1)) < Target
    BY EnoughDraws
  <1>2. n \in 0..Len(Stream) /\ Target \in Nat
    BY Parameters
  <1>3. Listed = Drawn(n)
    <2>1. Cardinality(Drawn(n)) >= Target
      BY <1>1, <1>2
    <2>. QED
      BY <1>1, <2>1, ListedIs
  <1>4. Listed \in SUBSET Draws /\ IsFiniteSet(Listed)
    BY <1>2, <1>3, DrawnIs
  <1>5. Want \in SUBSET Rows /\ IsFiniteSet(Want) /\ Cardinality(Want) = Target
    BY <1>1, <1>3, <1>4, DialledIs DEF Want
  <1>6. Cardinality(Want) \in Nat
    BY <1>2, <1>5
  <1>7. Full \in Seq(Char) /\ Len(Full) = 2 + 13 * Cardinality(Want)
    BY <1>5, Layout DEF Full
  <1>8. Len(Full) \in Nat
    BY <1>7
  <1>9. \A d \in Listed : \E i \in 1..Len(Stream) : d = Stream[i]
    <2>1. \A i \in 1..n : i \in 1..Len(Stream)
      BY Parameters
    <2>. QED
      BY <1>3, <2>1 DEF Drawn
  <1>. QED
    BY <1>4, <1>5, <1>6, <1>7, <1>8, <1>9

-----------------------------------------------------------------------------
(***************************************************************************)
(* The generator keeps its part.                                           *)
(***************************************************************************)
LEMMA WriterInit == Init => WriterInv
  <1> SUFFICES ASSUME Init PROVE WriterInv
    OBVIOUS
  <1>1. GeneratorType
    BY Parameters DEF Init, GeneratorType
  <1>2. Collected
    BY DEF Init, Collected
  <1>3. FileIsPrefix
    <2>1. file \in Seq(Char) /\ Len(file) = 0
      BY EmptySeq DEF Init
    <2>. QED
      BY <2>1, ListIs DEF FileIsPrefix
  <1>4. FileWhole
    BY DEF Init, FileWhole
  <1>. QED
    BY <1>1, <1>2, <1>3, <1>4 DEF WriterInv

LEMMA DrawStep ==
    ASSUME WriterInv, Draw
    PROVE  drawn + 1 \in 0..Len(Stream) /\ numbers' = Dialled(Drawn(drawn + 1))
           /\ Cardinality(Drawn(drawn)) < Target
  <1> USE DEF WriterInv
  <1>1. gen = "drawing" /\ Cardinality(numbers) < Target
    BY DEF Draw
  <1>2. drawn \in 0..Len(Stream) /\ Len(Stream) \in Nat /\ Target \in Nat
    BY Parameters DEF GeneratorType
  <1>3. numbers = Dialled(Drawn(drawn))
    BY <1>1 DEF Collected
  <1>4. Cardinality(Drawn(drawn)) \in Nat /\ Cardinality(Drawn(drawn)) < Target
    BY <1>1, <1>2, <1>3, DrawnIs, DialledIs
  <1>5. drawn # Len(Stream)
    BY <1>2, <1>4, DrawnIs, Parameters
  <1>6. drawn % Len(Stream) = drawn
    BY <1>2, <1>5
  <1>7. numbers' = numbers \cup {E164(Stream[drawn + 1])}
    BY <1>6 DEF Draw
  <1>8. drawn + 1 \in 1..Len(Stream) /\ (drawn + 1) - 1 = drawn
    BY <1>2, <1>5
  <1>9. Drawn(drawn + 1) = Drawn(drawn) \cup {Stream[drawn + 1]}
    BY <1>8, DrawnGrows
  <1>10. numbers' = Dialled(Drawn(drawn + 1))
    BY <1>3, <1>7, <1>9 DEF Dialled
  <1>11. drawn + 1 \in 0..Len(Stream)
    BY <1>2, <1>8
  <1>. QED
    BY <1>4, <1>10, <1>11

LEMMA TruncateStep ==
    ASSUME WriterInv, Truncate
    PROVE  numbers = Want
  <1>1. gen = "drawing" /\ Cardinality(numbers) >= Target
    BY DEF Truncate
  <1>2. drawn \in 0..Len(Stream) /\ Len(Stream) \in Nat /\ Target \in Nat /\ Target >= 1
    BY Parameters DEF WriterInv, GeneratorType
  <1>3. /\ numbers = Dialled(Drawn(drawn))
        /\ drawn > 0 => Cardinality(Drawn(drawn - 1)) < Target
    BY <1>1 DEF WriterInv, Collected
  <1>4. Cardinality(Drawn(drawn)) >= Target
    BY <1>1, <1>2, <1>3, DrawnIs, DialledIs
  <1>5. drawn # 0
    BY <1>2, <1>4, DrawnGrows
  <1>6. drawn \in 1..Len(Stream) /\ drawn > 0
    BY <1>2, <1>5
  <1>7. Listed = Drawn(drawn)
    BY <1>3, <1>4, <1>6, ListedIs
  <1>. QED
    BY <1>3, <1>7 DEF Want

LEMMA FlushStep ==
    ASSUME WriterInv, Flush
    PROVE  FileIsPrefix'
  <1> DEFINE n == Len(Full)
  <1>1. numbers = Want
    BY DEF WriterInv, Flush, Collected
  <1>2. PICK k \in FlushEnds(n) : file' = SubSeq(Full, 1, k)
    BY <1>1 DEF Flush, Full
  <1>3. Full \in Seq(Char) /\ n \in Nat
    BY ListIs
  <1>4. file # Full
    BY <1>1 DEF Flush, Full
  <1>5. k \in 0..n
    BY <1>2, <1>3 DEF FlushEnds
  <1>6. \A i \in 1..k : Full[i] \in Char
    BY <1>3, <1>5, ElementOfSeq
  <1> HIDE DEF n
  <1>7. /\ SubSeq(Full, 1, k) \in Seq(Char)
        /\ Len(SubSeq(Full, 1, k)) = IF 1 <= k THEN k - 1 + 1 ELSE 0
        /\ \A i \in 1..(k - 1 + 1) : SubSeq(Full, 1, k)[i] = Full[1 + i - 1]
    <2>1. 1 \in Int /\ k \in Int
      BY <1>5
    <2>. QED
      BY <1>6, <2>1, SubSeqProperties
  <1> DEFINE f == SubSeq(Full, 1, k)
  <1>8. f \in Seq(Char) /\ Len(f) = k
    BY <1>3, <1>5, <1>7
  <1>9. \A i \in 1..k : f[i] = Full[i]
    <2>1. \A i \in 1..k : i \in 1..(k - 1 + 1) /\ 1 + i - 1 = i
      BY <1>3, <1>5
    <2>. QED
      BY <1>7, <2>1
  <1> HIDE DEF f
  <1>10. Len(f) <= n
    BY <1>3, <1>5, <1>8
  <1>11. file' = f
    BY <1>2 DEF f
  <1>. QED
    BY <1>8, <1>9, <1>10, <1>11 DEF FileIsPrefix, n

LEMMA WriterNext == WriterInv /\ [Next]_vars => WriterInv'
  <1> SUFFICES ASSUME WriterInv, [Next]_vars PROVE WriterInv'
    OBVIOUS
  <1>1. Next \/ UNCHANGED vars
    OBVIOUS
  <1>2. CASE Generate
    <2>1. UNCHANGED <<file, quiet>> /\ gen' = "drawing" /\ drawn' = 0 /\ numbers' = {}
          /\ runs < MaxRuns /\ runs' = runs + 1 /\ gen # "writing"
      BY <1>2 DEF Generate, loader
    <2>2. GeneratorType'
      BY <2>1, Parameters DEF WriterInv, GeneratorType
    <2>3. Collected'
      <3>1. Dialled(Drawn(0)) = {}
        BY DrawnGrows DEF Dialled
      <3>. QED
        BY <2>1, <3>1 DEF Collected
    <2>4. FileIsPrefix' /\ FileWhole'
      BY <2>1 DEF WriterInv, FileIsPrefix, FileWhole
    <2>. QED
      BY <2>2, <2>3, <2>4 DEF WriterInv
  <1>3. CASE Draw
    <2>1. UNCHANGED <<gen, file, runs, quiet>> /\ drawn' = drawn + 1 /\ gen = "drawing"
      BY <1>3 DEF Draw, loader
    <2>2. /\ drawn' \in 0..Len(Stream) /\ numbers' = Dialled(Drawn(drawn'))
          /\ Cardinality(Drawn(drawn)) < Target
      BY <1>3, <2>1, DrawStep
    <2>3. GeneratorType'
      BY <2>1, <2>2 DEF WriterInv, GeneratorType
    <2>4. Collected'
      <3>1. drawn' - 1 = drawn
        BY <2>1 DEF WriterInv, GeneratorType
      <3>. QED
        BY <2>1, <2>2, <3>1 DEF Collected
    <2>5. FileIsPrefix' /\ FileWhole'
      BY <2>1 DEF WriterInv, FileIsPrefix, FileWhole
    <2>. QED
      BY <2>3, <2>4, <2>5 DEF WriterInv
  <1>4. CASE Truncate
    <2>1. UNCHANGED <<drawn, numbers, runs>> /\ gen' = "writing" /\ file' = <<>>
          /\ quiet' = FALSE
      BY <1>4 DEF Truncate
    <2>2. GeneratorType'
      BY <2>1 DEF WriterInv, GeneratorType
    <2>3. Collected'
      BY <1>4, <2>1, TruncateStep DEF Collected
    <2>4. FileIsPrefix'
      <3>1. file' \in Seq(Char) /\ Len(file') = 0
        BY <2>1, EmptySeq
      <3>. QED
        BY <3>1, ListIs DEF FileIsPrefix
    <2>5. FileWhole'
      BY <2>1 DEF FileWhole
    <2>. QED
      BY <2>2, <2>3, <2>4, <2>5 DEF WriterInv
  <1>5. CASE Flush
    <2>1. UNCHANGED <<gen, drawn, numbers, runs, quiet>> /\ gen = "writing"
      BY <1>5 DEF Flush, loader
    <2>2. GeneratorType' /\ Collected' /\ FileWhole'
      BY <2>1 DEF WriterInv, GeneratorType, Collected, FileWhole
    <2>. QED
      BY <1>5, <2>2, FlushStep DEF WriterInv
  <1>6. CASE Close
    <2>1. UNCHANGED <<file, runs, quiet>> /\ gen' = "done" /\ drawn' = 0
          /\ numbers' = {} /\ gen = "writing" /\ file = Contents(numbers)
      BY <1>6 DEF Close, loader
    <2>2. file = Full
      BY <2>1 DEF WriterInv, Collected, Full
    <2>3. GeneratorType'
      BY <2>1, Parameters DEF WriterInv, GeneratorType
    <2>4. Collected'
      BY <2>1 DEF Collected
    <2>5. FileIsPrefix' /\ FileWhole'
      BY <2>1, <2>2 DEF WriterInv, FileIsPrefix, FileWhole
    <2>. QED
      BY <2>3, <2>4, <2>5 DEF WriterInv
  <1>7. CASE GeneratorDies
    <2>1. UNCHANGED <<file, runs, quiet>> /\ gen' = "idle" /\ drawn' = 0
          /\ numbers' = {}
      BY <1>7 DEF GeneratorDies, loader
    <2>2. GeneratorType'
      BY <2>1, Parameters DEF WriterInv, GeneratorType
    <2>3. Collected'
      BY <2>1 DEF Collected
    <2>4. FileIsPrefix' /\ FileWhole'
      BY <2>1 DEF WriterInv, FileIsPrefix, FileWhole
    <2>. QED
      BY <2>2, <2>3, <2>4 DEF WriterInv
  <1>8. CASE StartLoading
    <2>1. UNCHANGED generator /\ quiet' = (gen = "done")
      BY <1>8 DEF StartLoading
    <2>2. GeneratorType' /\ Collected' /\ FileIsPrefix' /\ FileWhole'
      BY <2>1 DEF WriterInv, GeneratorType, Collected, FileIsPrefix, FileWhole, generator
    <2>. QED
      BY <2>2 DEF WriterInv
  <1>9. CASE ReadLine \/ PublishCache \/ UNCHANGED vars
    <2>1. UNCHANGED <<generator, quiet>>
      BY <1>9 DEF ReadLine, PublishCache, vars
    <2>2. GeneratorType' /\ Collected' /\ FileIsPrefix' /\ FileWhole'
      BY <2>1 DEF WriterInv, GeneratorType, Collected, FileIsPrefix, FileWhole, generator
    <2>. QED
      BY <2>2 DEF WriterInv
  <1>10. CASE AppStops
    <2>1. UNCHANGED generator /\ quiet' = FALSE
      BY <1>10 DEF AppStops
    <2>2. GeneratorType' /\ Collected' /\ FileIsPrefix' /\ FileWhole'
      BY <2>1 DEF WriterInv, GeneratorType, Collected, FileIsPrefix, FileWhole, generator
    <2>. QED
      BY <2>2 DEF WriterInv
  <1>. QED
    BY <1>1, <1>2, <1>3, <1>4, <1>5, <1>6, <1>7, <1>8, <1>9, <1>10
    DEF Next, GeneratorStep

LEMMA WriterCorrect == Spec => []WriterInv
  BY WriterInit, WriterNext, PTL DEF Spec

\* Every run of the generator that ends leaves the same file, with the Target
\* numbers that its seed determines, however many runs were killed before and
\* whatever they had left (generate(), main()).
THEOREM SameFile == Spec => []FileReproducible
  <1>1. WriterInv => FileReproducible
    BY DEF WriterInv, FileWhole, FileReproducible, Full, Want, Dialled
  <1>. QED
    BY <1>1, WriterCorrect, PTL

\* It holds as many rows as numbers were asked for, none lost to a repeated
\* draw or to formatting (generate()).
THEOREM AsManyAsAskedFor == Spec => [](gen = "done" => Len(file) = 2 + 13 * Target)
  <1>1. WriterInv => (gen = "done" => Len(file) = 2 + 13 * Target)
    BY ListIs DEF WriterInv, FileWhole
  <1>. QED
    BY <1>1, WriterCorrect, PTL

-----------------------------------------------------------------------------
(***************************************************************************)
(* What the loader reads at a time.                                        *)
(***************************************************************************)
LEMMA NormalizeType ==
    ASSUME NEW t \in Seq(Char)
    PROVE  NormalizeForDnc(t) \in Seq(Digit)
  <1> DEFINE s == Digits(t)
  <1>1. s \in Seq(Digit)
    BY DigitsType
  <1> HIDE DEF s
  <1>2. Len(s) = 11 => Tail(s) \in Seq(Digit)
    <2>1. Len(s) = 11 => Len(s) # 0
      OBVIOUS
    <2>. QED
      BY <1>1, <2>1, NonEmpty, HeadTailProperties
  <1>3. NormalizeForDnc(t) = IF Len(s) = 11 /\ s[1] = 1 THEN Tail(s) ELSE s
    BY DEF NormalizeForDnc, s
  <1>. QED
    BY <1>1, <1>2, <1>3

\* The line the loader reads next, or what there is of it.
Chunk == SubSeq(file, pos + 1, LineEnd)

LEMMA ChunkIs ==
    ASSUME FileIsPrefix, pos \in Nat, pos < Len(file)
    PROVE  /\ LineEnd \in (pos + 1)..Len(file)
           /\ \A j \in (pos + 1)..(LineEnd - 1) : Full[j] # NewLine
           /\ Full[LineEnd] = NewLine \/ LineEnd = Len(file)
           /\ Chunk \in Seq(Char) /\ Len(Chunk) = LineEnd - pos
           /\ \A k \in 1..(LineEnd - pos) : Chunk[k] = Full[pos + k]
  <1> DEFINE n == Len(file)
             ends == {i \in (pos + 1)..n : file[i] = NewLine}
             e == LineEnd
  <1>1. file \in Seq(Char) /\ n \in Nat /\ \A i \in 1..n : file[i] = Full[i]
    BY DEF FileIsPrefix
  <1>2. e = IF ends = {} THEN n ELSE CHOOSE i \in ends : \A j \in ends : i <= j
    BY DEF LineEnd
  <1> HIDE DEF e, n
  <1>3. /\ e \in (pos + 1)..n
        /\ \A j \in (pos + 1)..(e - 1) : file[j] # NewLine
        /\ file[e] = NewLine \/ e = n
    <2>1. CASE ends = {}
      <3>1. e = n
        BY <1>2, <2>1
      <3>2. pos + 1 <= n
        BY <1>1 DEF n
      <3>3. \A j \in (pos + 1)..(e - 1) : j \in (pos + 1)..n
        BY <1>1, <3>1
      <3>. QED
        BY <1>1, <2>1, <3>1, <3>2, <3>3
    <2>2. CASE ends # {}
      <3>1. ends \in SUBSET Nat
        <4>1. (pos + 1)..n \subseteq Nat
          BY <1>1
        <4>. QED
          BY <4>1
      <3>2. \E i \in ends : \A j \in ends : i <= j
        BY <2>2, <3>1, Least
      <3>3. e \in ends /\ \A j \in ends : e <= j
        <4> HIDE DEF ends
        <4>. QED
          BY <1>2, <2>2, <3>2
      <3>4. e \in (pos + 1)..n /\ file[e] = NewLine
        BY <3>3
      <3>5. ASSUME NEW j \in (pos + 1)..(e - 1) PROVE file[j] # NewLine
        <4>1. j \in (pos + 1)..n /\ ~(e <= j)
          BY <1>1, <3>4
        <4>. QED
          BY <3>3, <4>1
      <3>. QED
        BY <3>4, <3>5
    <2>. QED
      BY <2>1, <2>2
  <1>4. \A j \in (pos + 1)..e : j \in 1..n
    BY <1>1, <1>3
  <1>5. \A j \in (pos + 1)..e : file[j] = Full[j] /\ file[j] \in Char
    BY <1>1, <1>4, ElementOfSeq DEF n
  <1>6. \A j \in (pos + 1)..(e - 1) : Full[j] # NewLine
    <2>1. \A j \in (pos + 1)..(e - 1) : j \in (pos + 1)..e
      BY <1>1, <1>3
    <2>. QED
      BY <1>3, <1>5, <2>1
  <1>7. Full[e] = NewLine \/ e = n
    <2>1. e \in (pos + 1)..e
      BY <1>1, <1>3
    <2>. QED
      BY <1>3, <1>5, <2>1
  <1> DEFINE c == SubSeq(file, pos + 1, e)
  <1>8. /\ c \in Seq(Char)
        /\ Len(c) = IF pos + 1 <= e THEN e - (pos + 1) + 1 ELSE 0
        /\ \A k \in 1..(e - (pos + 1) + 1) : c[k] = file[pos + 1 + k - 1]
    <2>1. pos + 1 \in Int /\ e \in Int /\ \A j \in (pos + 1)..e : file[j] \in Char
      BY <1>1, <1>3, <1>5
    <2> HIDE DEF c
    <2>. QED
      BY <2>1, SubSeqProperties DEF c
  <1> HIDE DEF c
  <1>9. Len(c) = e - pos
    BY <1>1, <1>3, <1>8
  <1>10. ASSUME NEW k \in 1..(e - pos) PROVE c[k] = Full[pos + k]
    <2>0. pos \in Nat /\ e \in Nat /\ k \in Nat /\ k >= 1 /\ k <= e - pos
      BY <1>1, <1>3
    <2>1. k \in 1..(e - (pos + 1) + 1)
      BY <2>0
    <2>2. pos + 1 + k - 1 = pos + k /\ pos + k \in (pos + 1)..e
      BY <2>0
    <2>. QED
      BY <1>5, <1>8, <2>1, <2>2
  <1>11. Chunk = c
    BY DEF Chunk, c, e
  <1>. QED
    BY <1>3, <1>6, <1>7, <1>8, <1>9, <1>10, <1>11 DEF e, n


LEMMA RowsAreListed ==
    /\ Sorted(Want) \in [1..Cardinality(Want) -> Want]
    /\ \A i \in 1..Cardinality(Want) : \E d \in Listed : Sorted(Want)[i] = E164(d)
    /\ \A d \in Listed : \E i \in 1..Cardinality(Want) : Sorted(Want)[i] = E164(d)
  <1> DEFINE s == Sorted(Want)
             n == Cardinality(Want)
  <1>1. /\ s \in [1..n -> Want]
        /\ \A x \in Want : \E i \in 1..n : s[i] = x
    BY ListIs, SortedRows
  <1> HIDE DEF s, n
  <1>2. /\ \A x \in Want : \E d \in Listed : x = E164(d)
        /\ \A d \in Listed : E164(d) \in Want
    BY DEF Want, Dialled
  <1>3. /\ \A i \in 1..n : \E d \in Listed : s[i] = E164(d)
        /\ \A d \in Listed : \E i \in 1..n : s[i] = E164(d)
    BY <1>1, <1>2
  <1>. QED
    BY <1>1, <1>3 DEF s, n

LEMMA FullAt ==
    /\ Full[1] = Letter /\ Full[2] = NewLine
    /\ \A q \in 1..(13 * Cardinality(Want)) :
          Full[q + 2] = IF ColumnAt(q) = 13 THEN NewLine
                        ELSE Sorted(Want)[RowAt(q)][ColumnAt(q)]
  BY ListIs, Layout DEF Full

\* What is read after the header lies within one row, and is the whole row
\* when the reading began with it and the file is complete.
LEMMA ChunkInRow ==
    ASSUME FileIsPrefix, pos \in Nat, pos < Len(file), pos >= 2,
           NEW d \in Listed, Sorted(Want)[RowAt(pos - 1)] = E164(d)
    PROVE  /\ Piece(Chunk, d, ColumnAt(pos - 1))
           /\ file = Full /\ ColumnAt(pos - 1) = 1 => Len(Chunk) = 13
  <1> DEFINE q == pos - 1
             n == Cardinality(Want)
             r == RowAt(q)
             a == ColumnAt(q)
             e == LineEnd
             x == E164(d)
  <1>1. n \in Nat /\ Len(Full) = 2 + 13 * n /\ Len(file) <= Len(Full)
    BY ListIs DEF FileIsPrefix
  <1>2. Len(file) \in Nat
    BY DEF FileIsPrefix
  <1>3. q \in 1..(13 * n) /\ q \in Nat /\ q >= 1 /\ pos = q + 1
    BY <1>1, <1>2
  <1>4. r \in 1..n /\ a \in 1..13
    <2> HIDE DEF q, n
    <2>. QED
      BY <1>1, <1>3, RowInside
  <1>5. q = 13 * (r - 1) + a
    <2> HIDE DEF q
    <2>. QED
      BY <1>3, Places
  <1>6. /\ e \in (pos + 1)..Len(file)
        /\ \A j \in (pos + 1)..(e - 1) : Full[j] # NewLine
        /\ Full[e] = NewLine \/ e = Len(file)
        /\ Len(Chunk) = e - pos
        /\ \A k \in 1..(e - pos) : Chunk[k] = Full[pos + k]
    BY ChunkIs
  <1>7. Sorted(Want)[r] = x
    OBVIOUS
  <1>8. x[1] = Plus /\ \A k \in 2..12 : x[k] \in Digit
    BY ListIs, E164Digits
  <1> HIDE DEF x
  <1>9. ASSUME NEW m \in 1..(14 - a)
        PROVE  Full[pos + m] = IF a + m - 1 = 13 THEN NewLine ELSE x[a + m - 1]
    <2> DEFINE c == a + m - 1
               p == 13 * (r - 1) + c
    <2> HIDE DEF r, a, q
    <2>1. c \in 1..13 /\ r \in Nat /\ r >= 1
      BY <1>1, <1>4
    <2>2. p + 2 = pos + m
      BY <1>3, <1>4, <1>5
    <2>3. p \in 1..(13 * n)
      BY <1>1, <1>4, <2>1
    <2> HIDE DEF c
    <2>4. RowAt(p) = r /\ ColumnAt(p) = c
      BY <2>1, Places
    <2> HIDE DEF p, n
    <2>5. Full[p + 2] = IF ColumnAt(p) = 13 THEN NewLine
                        ELSE Sorted(Want)[RowAt(p)][ColumnAt(p)]
      BY <2>3, FullAt DEF n
    <2>. QED
      BY <1>7, <2>2, <2>4, <2>5 DEF c
  <1> HIDE DEF r, a, q, e, n
  <1>10. Full[pos + (14 - a)] = NewLine
    <2>1. 14 - a \in 1..(14 - a) /\ a + (14 - a) - 1 = 13
      BY <1>4
    <2>. QED
      BY <1>9, <2>1
  <1>11. e <= pos + (14 - a)
    <2>1. ~(pos + (14 - a) \in (pos + 1)..(e - 1))
      BY <1>6, <1>10
    <2>2. e \in Nat /\ a \in Nat /\ a <= 13
      BY <1>2, <1>4, <1>6
    <2>. QED
      BY <2>1, <2>2
  <1>12. e - pos \in 1..(14 - a)
    BY <1>2, <1>4, <1>6, <1>11
  <1>13. Piece(Chunk, d, a)
    <2>1. \A k \in 1..(e - pos) : k \in 1..(14 - a)
      BY <1>4, <1>12
    <2>2. \A k \in 1..Len(Chunk) :
             Chunk[k] = IF a + k - 1 = 13 THEN NewLine ELSE x[a + k - 1]
      BY <1>6, <1>9, <2>1
    <2>. QED
      BY <1>4, <1>6, <1>12, <2>2 DEF Piece, x
  <1>14. ASSUME file = Full, a = 1 PROVE Len(Chunk) = 13
    <2> DEFINE m == e - pos
    <2>1. m \in 1..13 /\ pos + m = e
      BY <1>2, <1>6, <1>12, <1>14
    <2>2. CASE e = Len(file)
      <3>1. e = 2 + 13 * n /\ pos = 13 * (r - 1) + 1 + 1
        BY <1>1, <1>3, <1>5, <1>14, <2>2
      <3>2. m >= 13
        BY <1>1, <1>4, <3>1
      <3>3. m = 13
        BY <2>1, <3>2
      <3>. QED
        BY <1>6, <3>3
    <2>3. CASE Full[e] = NewLine
      <3>1. m \in 1..(14 - a) /\ a + m - 1 = m
        BY <1>14, <2>1
      <3> HIDE DEF m
      <3>2. Full[e] = IF m = 13 THEN NewLine ELSE x[m]
        BY <1>9, <2>1, <3>1
      <3>3. ~(NewLine \in Digit) /\ NewLine # Plus
        BY DEF NewLine, Plus, Digit
      <3>4. m # 13 => m = 1 \/ m \in 2..12
        BY <2>1
      <3>5. m = 13
        BY <1>8, <2>3, <3>2, <3>3, <3>4
      <3>. QED
        BY <1>6, <3>5 DEF m
    <2>. QED
      BY <1>6, <2>2, <2>3
  <1>. QED
    BY <1>13, <1>14 DEF a, q

\* A chunk that could be somebody's number is the number of a listed draw.
LEMMA ChunkGenuine ==
    ASSUME FileIsPrefix, pos \in Nat, pos < Len(file), pos >= 1
    PROVE  Dialable(NormalizeForDnc(Chunk)) =>
              NormalizeForDnc(Chunk) \in Nationals(Listed)
  <1> DEFINE e == LineEnd
  <1>1. /\ e \in (pos + 1)..Len(file)
        /\ \A j \in (pos + 1)..(e - 1) : Full[j] # NewLine
        /\ Chunk \in Seq(Char) /\ Len(Chunk) = e - pos
        /\ \A k \in 1..(e - pos) : Chunk[k] = Full[pos + k]
    BY ChunkIs
  <1> HIDE DEF e
  <1>2. Len(file) \in Nat
    BY DEF FileIsPrefix
  <1>3. CASE pos = 1
    <2>1. ~(2 \in (pos + 1)..(e - 1))
      BY <1>1, FullAt
    <2>2. e - pos = 1
      BY <1>1, <1>2, <1>3, <2>1
    <2>3. Len(Chunk) = 1 /\ Chunk[1] = NewLine
      <3>1. 1 \in 1..(e - pos) /\ pos + 1 = 2
        BY <1>3, <2>2
      <3>2. Chunk[1] = Full[pos + 1]
        BY <1>1, <3>1
      <3>. QED
        BY <1>1, <2>2, <3>1, <3>2, FullAt
    <2>4. \A i \in 1..Len(Chunk) : IsDigit(Chunk[i]) <=> 1 <= i /\ i <= 0
      <3>1. ~IsDigit(NewLine)
        BY DEF IsDigit, NewLine
      <3>. QED
        BY <2>3, <3>1
    <2>5. Len(Digits(Chunk)) = 0
      <3> DEFINE lo == 1
                 hi == 0
      <3>1. lo \in Nat /\ hi \in Nat /\ lo >= 1 /\ lo <= hi + 1 /\ hi <= Len(Chunk)
        BY <2>3
      <3>2. \A i \in 1..Len(Chunk) : IsDigit(Chunk[i]) <=> lo <= i /\ i <= hi
        BY <2>4
      <3> HIDE DEF lo, hi
      <3>3. Len(Digits(Chunk)) = hi + 1 - lo
        BY <1>1, <3>1, <3>2, DigitsAre
      <3>. QED
        BY <3>3 DEF lo, hi
    <2>6. NormalizeForDnc(Chunk) = Digits(Chunk)
      BY <2>5 DEF NormalizeForDnc
    <2>. QED
      BY <2>5, <2>6 DEF Dialable
  <1>4. CASE pos # 1
    <2>1. pos >= 2
      BY <1>4
    <2>2. pos - 1 \in 1..(13 * Cardinality(Want))
      BY <1>2, <2>1, ListIs DEF FileIsPrefix
    <2>3. RowAt(pos - 1) \in 1..Cardinality(Want)
      BY <2>2, ListIs, RowInside
    <2>4. PICK d \in Listed : Sorted(Want)[RowAt(pos - 1)] = E164(d)
      BY <2>3, RowsAreListed
    <2>5. d \in Draws /\ Piece(Chunk, d, ColumnAt(pos - 1))
      BY <2>1, <2>4, ChunkInRow, ListIs
    <2>6. Dialable(NormalizeForDnc(Chunk)) => NormalizeForDnc(Chunk) = National(d)
      BY <1>1, <2>5, PieceNormalized
    <2>. QED
      BY <2>6 DEF Nationals
  <1>. QED
    BY <1>3, <1>4


-----------------------------------------------------------------------------
(***************************************************************************)
(* The loader keeps its part.                                              *)
(***************************************************************************)
LEMMA LoadedEnds ==
    /\ Loaded(0) = {}
    /\ Loaded(Cardinality(Want)) = Nationals(Listed)
  <1> DEFINE n == Cardinality(Want)
             s == Sorted(Want)
  <1>1. \A d \in Listed : \E i \in 1..n : s[i] = E164(d)
    BY RowsAreListed
  <1> HIDE DEF n, s
  <1>2. Loaded(n) = Nationals(Listed)
    <2>1. {d \in Listed : \E i \in 1..n : s[i] = E164(d)} = Listed
      BY <1>1
    <2>. QED
      BY <2>1 DEF Loaded, s
  <1>3. Loaded(0) = {}
    <2>1. 1..0 = {}
      OBVIOUS
    <2>. QED
      BY <2>1 DEF Loaded, Nationals
  <1>. QED
    BY <1>2, <1>3 DEF n

\* Undisturbed, the loader reads a row at a time.
LEMMA RowStep ==
    ASSUME FileIsPrefix, file = Full, pos \in Nat, pos < Len(file),
           NEW k \in 0..Cardinality(Want), pos = 2 + 13 * k
    PROVE  /\ k + 1 \in 0..Cardinality(Want)
           /\ LineEnd = 2 + 13 * (k + 1)
           /\ Loaded(k + 1) = Loaded(k) \cup ({NormalizeForDnc(Chunk)} \ {<<>>})
  <1> DEFINE n == Cardinality(Want)
             s == Sorted(Want)
             e == LineEnd
  <1>1. n \in Nat /\ Len(file) = 2 + 13 * n
    BY ListIs
  <1>2. k \in Nat /\ k + 1 \in 1..n /\ pos >= 2
    BY <1>1
  <1>3. RowAt(pos - 1) = k + 1 /\ ColumnAt(pos - 1) = 1
    <2>1. pos - 1 = 13 * ((k + 1) - 1) + 1
      BY <1>2
    <2>2. k + 1 \in Nat /\ k + 1 >= 1 /\ 1 \in 1..13
      BY <1>2
    <2>. QED
      BY <2>1, <2>2, Places
  <1>4. PICK d \in Listed : s[k + 1] = E164(d)
    BY <1>2, RowsAreListed
  <1>5. d \in Draws /\ Piece(Chunk, d, 1) /\ Len(Chunk) = 13
    BY <1>2, <1>3, <1>4, ChunkInRow, ListIs
  <1>6. e \in (pos + 1)..Len(file) /\ Len(Chunk) = e - pos /\ Chunk \in Seq(Char)
    BY ChunkIs
  <1> HIDE DEF e, n, s
  <1>7. e = 2 + 13 * (k + 1)
    <2>1. e \in Int
      BY <1>1, <1>2, <1>6
    <2>2. e - pos = 13
      BY <1>5, <1>6
    <2>. QED
      BY <1>2, <2>1, <2>2
  <1>8. NormalizeForDnc(Chunk) = National(d)
    <2> DEFINE a == 1
    <2>1. Piece(Chunk, d, a) /\ a = 1
      BY <1>5
    <2> HIDE DEF a
    <2>. QED
      BY <1>5, <1>6, <2>1, PieceNormalized
  <1>9. National(d) # <<>>
    <2> DEFINE x == National(d)
    <2>1. x \in Seq(Digit) /\ Len(x) = 10
      BY <1>5, NationalDigits
    <2> HIDE DEF x
    <2>2. Len(x) # 0
      BY <2>1
    <2>3. x # <<>>
      BY <2>2, NonEmpty
    <2>. QED
      BY <2>3 DEF x
  <1>10. Loaded(k + 1) = Loaded(k) \cup {National(d)}
    <2> DEFINE A(m) == {x \in Listed : \E i \in 1..m : s[i] = E164(x)}
    <2>1. A(k + 1) = A(k) \cup {d}
      <3>1. \A i \in 1..(k + 1) : i \in 1..k \/ i = k + 1
        BY <1>2
      <3>2. (\A i \in 1..k : i \in 1..(k + 1)) /\ k + 1 \in 1..(k + 1)
        BY <1>2
      <3>3. \A x \in Listed : s[k + 1] = E164(x) => x = d
        BY <1>4, <1>5, E164Injective, ListIs
      <3>. QED
        BY <1>4, <3>1, <3>2, <3>3
    <2>2. \A m : Loaded(m) = Nationals(A(m))
      BY DEF Loaded, s
    <2> HIDE DEF A
    <2>3. Loaded(k + 1) = Nationals(A(k) \cup {d}) /\ Loaded(k) = Nationals(A(k))
      BY <2>1, <2>2
    <2>. QED
      BY <2>3 DEF Nationals
  <1>11. k + 1 \in 0..n
    BY <1>1, <1>2
  <1>. QED
    BY <1>7, <1>8, <1>9, <1>10, <1>11 DEF e, n

\* Undisturbed, the loader's first line is the header.
LEMMA HeaderStep ==
    ASSUME FileIsPrefix, file = Full, pos = 0
    PROVE  pos < Len(file) /\ LineEnd = 2
  <1>1. Len(file) \in Nat /\ Len(file) >= 2
    BY ListIs
  <1>2. pos \in Nat /\ pos < Len(file)
    BY <1>1
  <1> DEFINE e == LineEnd
  <1>3. /\ e \in (pos + 1)..Len(file)
        /\ \A j \in (pos + 1)..(e - 1) : Full[j] # NewLine
        /\ Full[e] = NewLine \/ e = Len(file)
    BY <1>2, ChunkIs
  <1> HIDE DEF e
  <1>4. Full[1] # NewLine /\ Full[2] = NewLine
    BY FullAt DEF Letter, NewLine
  <1>5. ~(2 \in (pos + 1)..(e - 1))
    BY <1>3, <1>4
  <1>6. e # 1 \/ Len(file) = 1
    BY <1>3, <1>4
  <1>7. e = 2
    <2>1. e \in 1..Len(file)
      BY <1>3
    <2>2. ~(2 \in 1..(e - 1))
      BY <1>5
    <2>3. e # 1
      BY <1>1, <1>6
    <2>. QED
      BY <1>1, <2>1, <2>2, <2>3
  <1>. QED
    BY <1>2, <1>7 DEF e

LEMMA ReaderInit == Init => ReaderInv
  <1> SUFFICES ASSUME Init PROVE ReaderInv
    OBVIOUS
  <1>1. /\ reader = "down" /\ pos = 0 /\ header = FALSE /\ fresh = {} /\ cache = {}
        /\ quiet = FALSE
    BY DEF Init
  <1>2. LoaderType
    BY <1>1 DEF LoaderType
  <1>3. Positioned /\ Genuine /\ Undisturbed
    BY <1>1 DEF Positioned, Genuine, Undisturbed
  <1>. QED
    BY <1>2, <1>3 DEF ReaderInv

LEMMA ReadLineStep ==
    ASSUME WriterInv, ReaderInv, ReadLine
    PROVE  ReaderInv'
  <1>0. /\ FileIsPrefix
        /\ quiet => file = Full
    BY DEF WriterInv, FileWhole
  <1>1. /\ reader = "reading" /\ pos < Len(file) /\ pos' = LineEnd /\ header' = TRUE
        /\ fresh' = IF header THEN fresh \cup ({NormalizeForDnc(Chunk)} \ {<<>>})
                    ELSE fresh
        /\ UNCHANGED <<reader, cache, quiet>>
    BY DEF ReadLine, Chunk
  <1>2. /\ pos \in Nat /\ header \in BOOLEAN /\ fresh \subseteq Seq(Digit)
        /\ cache \subseteq Seq(Digit) /\ quiet \in BOOLEAN
        /\ reader \in {"down", "reading", "serving"}
    BY DEF ReaderInv, LoaderType
  <1>3. /\ LineEnd \in (pos + 1)..Len(file) /\ Len(file) \in Nat
        /\ Chunk \in Seq(Char)
    BY <1>0, <1>1, <1>2, ChunkIs DEF FileIsPrefix
  <1>4. LineEnd \in Nat /\ LineEnd >= 1
    BY <1>2, <1>3
  <1>5. LoaderType'
    <2>1. NormalizeForDnc(Chunk) \in Seq(Digit)
      BY <1>3, NormalizeType
    <2>. QED
      BY <1>1, <1>2, <1>4, <2>1 DEF LoaderType
  <1>6. Positioned'
    BY <1>1, <1>4 DEF Positioned
  <1>7. Genuine'
    <2>1. header => pos >= 1
      BY <1>1 DEF ReaderInv, Positioned
    <2>2. header => (Dialable(NormalizeForDnc(Chunk)) =>
                        NormalizeForDnc(Chunk) \in Nationals(Listed))
      BY <1>0, <1>1, <1>2, <2>1, ChunkGenuine
    <2>3. \A x \in fresh' \cup cache' :
             x \in fresh \cup cache \/ (header /\ x = NormalizeForDnc(Chunk))
      BY <1>1
    <2>. QED
      BY <2>2, <2>3 DEF ReaderInv, Genuine
  <1>8. Undisturbed'
    <2> SUFFICES ASSUME quiet
                 PROVE  \E k \in 0..Cardinality(Want) :
                           pos' = 2 + 13 * k /\ fresh' = Loaded(k)
      BY <1>1 DEF Undisturbed
    <2>1. CASE header
      <3>1. PICK k \in 0..Cardinality(Want) : pos = 2 + 13 * k /\ fresh = Loaded(k)
        BY <1>1, <2>1 DEF ReaderInv, Undisturbed
      <3>2. /\ k + 1 \in 0..Cardinality(Want)
            /\ LineEnd = 2 + 13 * (k + 1)
            /\ Loaded(k + 1) = Loaded(k) \cup ({NormalizeForDnc(Chunk)} \ {<<>>})
        BY <1>0, <1>1, <1>2, <3>1, RowStep
      <3>. QED
        BY <1>1, <2>1, <3>1, <3>2
    <2>2. CASE ~header
      <3>1. pos = 0 /\ fresh = {}
        BY <1>1, <2>2 DEF ReaderInv, Positioned
      <3>2. LineEnd = 2
        BY <1>0, <3>1, HeaderStep
      <3>3. 0 \in 0..Cardinality(Want) /\ 2 = 2 + 13 * 0
        BY ListIs
      <3>. QED
        BY <1>1, <2>2, <3>1, <3>2, <3>3, LoadedEnds
    <2>. QED
      BY <1>2, <2>1, <2>2
  <1>. QED
    BY <1>5, <1>6, <1>7, <1>8 DEF ReaderInv

LEMMA PublishStep ==
    ASSUME WriterInv, ReaderInv, PublishCache
    PROVE  ReaderInv'
  <1>0. /\ FileIsPrefix
        /\ quiet => file = Full
    BY DEF WriterInv, FileWhole
  <1>1. /\ reader = "reading" /\ pos >= Len(file) /\ reader' = "serving"
        /\ cache' = fresh /\ pos' = 0 /\ fresh' = {} /\ UNCHANGED <<header, quiet>>
    BY DEF PublishCache
  <1>2. LoaderType /\ Genuine /\ pos \in Nat
    BY DEF ReaderInv, LoaderType
  <1>3. LoaderType' /\ Positioned' /\ Genuine'
    BY <1>1, <1>2 DEF LoaderType, Positioned, Genuine
  <1>4. Undisturbed'
    <2> SUFFICES ASSUME quiet PROVE fresh = Nationals(Listed)
      BY <1>1 DEF Undisturbed
    <2>1. header
      <3> SUFFICES ASSUME ~header PROVE FALSE
        OBVIOUS
      <3>1. pos = 0
        BY <1>1 DEF ReaderInv, Positioned
      <3>2. pos < Len(file) /\ Len(file) \in Nat
        BY <1>0, <3>1, HeaderStep DEF FileIsPrefix
      <3>. QED
        BY <1>1, <1>2, <3>2
    <2>2. PICK k \in 0..Cardinality(Want) : pos = 2 + 13 * k /\ fresh = Loaded(k)
      BY <1>1, <2>1 DEF ReaderInv, Undisturbed
    <2>3. k = Cardinality(Want)
      <3>1. Cardinality(Want) \in Nat /\ Len(file) = 2 + 13 * Cardinality(Want)
        BY <1>0, ListIs
      <3>. QED
        BY <1>1, <2>2, <3>1
    <2>. QED
      BY <2>2, <2>3, LoadedEnds
  <1>. QED
    BY <1>3, <1>4 DEF ReaderInv

LEMMA ReaderNext == WriterInv /\ ReaderInv /\ [Next]_vars => ReaderInv'
  <1> SUFFICES ASSUME WriterInv, ReaderInv, [Next]_vars PROVE ReaderInv'
    OBVIOUS
  <1>1. Next \/ UNCHANGED vars
    OBVIOUS
  <1>2. CASE Generate \/ GeneratorStep \/ GeneratorDies \/ UNCHANGED vars
    <2>1. UNCHANGED loader /\ (quiet' = quiet \/ quiet' = FALSE)
      BY <1>2 DEF Generate, GeneratorStep, Draw, Truncate, Flush, Close,
                  GeneratorDies, vars
    <2>2. UNCHANGED <<reader, pos, header, fresh, cache>>
      BY <2>1 DEF loader
    <2>3. LoaderType'
      BY <2>1, <2>2 DEF ReaderInv, LoaderType
    <2>4. Positioned' /\ Genuine'
      BY <2>2 DEF ReaderInv, Positioned, Genuine
    <2>5. Undisturbed'
      BY <2>1, <2>2 DEF ReaderInv, Undisturbed
    <2>. QED
      BY <2>3, <2>4, <2>5 DEF ReaderInv
  <1>3. CASE StartLoading
    <2>1. /\ reader' = "reading" /\ pos' = 0 /\ header' = FALSE /\ fresh' = {}
          /\ quiet' \in BOOLEAN /\ UNCHANGED cache
      BY <1>3 DEF StartLoading
    <2>. QED
      BY <2>1 DEF ReaderInv, LoaderType, Positioned, Genuine, Undisturbed
  <1>4. CASE ReadLine
    BY <1>4, ReadLineStep
  <1>5. CASE PublishCache
    BY <1>5, PublishStep
  <1>6. CASE AppStops
    <2>1. /\ reader' = "down" /\ pos' = 0 /\ header' = FALSE /\ fresh' = {}
          /\ cache' = {} /\ quiet' = FALSE
      BY <1>6 DEF AppStops
    <2>. QED
      BY <2>1 DEF ReaderInv, LoaderType, Positioned, Genuine, Undisturbed
  <1>. QED
    BY <1>1, <1>2, <1>3, <1>4, <1>5, <1>6 DEF Next

LEMMA Correct == Spec => [](WriterInv /\ ReaderInv)
  BY WriterInit, WriterNext, ReaderInit, ReaderNext, PTL DEF Spec

\* Every variable of the generator and the loader keeps its type.
THEOREM TypeCorrect == Spec => []TypeOK
  <1>1. WriterInv /\ ReaderInv => TypeOK
    <2> SUFFICES ASSUME WriterInv, ReaderInv PROVE TypeOK
      OBVIOUS
    <2> DEFINE All == {E164(Stream[i]) : i \in DOMAIN Stream}
    <2>0. DOMAIN Stream = 1..Len(Stream) /\ Len(Stream) \in Nat
      BY Parameters
    <2>1. Want \subseteq All
      BY <2>0, ListIs DEF Want, Dialled
    <2>2. ASSUME gen = "drawing" PROVE numbers \subseteq All
      <3>1. \A i \in 1..drawn : i \in 1..Len(Stream)
        BY <2>0 DEF WriterInv, GeneratorType
      <3>. QED
        BY <2>0, <2>2, <3>1 DEF WriterInv, Collected, Dialled, Drawn
    <2>3. numbers \subseteq All
      BY <2>1, <2>2 DEF WriterInv, GeneratorType, Collected
    <2>4. drawn \in Nat
      BY <2>0 DEF WriterInv, GeneratorType
    <2>5. file \in Seq(0..12) /\ fresh \subseteq Seq(0..9) /\ cache \subseteq Seq(0..9)
      BY DEF WriterInv, FileIsPrefix, ReaderInv, LoaderType, Char, Digit
    <2>. QED
      BY <2>3, <2>4, <2>5
      DEF TypeOK, WriterInv, GeneratorType, ReaderInv, LoaderType
  <1>. QED
    BY <1>1, Correct, PTL

\* Whatever prefix of the file a load finds, and however often the generator
\* truncates and rewrites it meanwhile, no number is enforced or collected that
\* a subscriber could have and the generator did not draw (load_dnc_cache).
THEOREM NobodyElse == Spec => []CacheIsGenuine
  <1>1. ReaderInv => CacheIsGenuine
    BY DEF ReaderInv, Genuine, CacheIsGenuine, Nationals
  <1>. QED
    BY <1>1, Correct, PTL

\* A list that was complete when loading began, and was left alone since, is
\* enforced to the last row and nothing else is (load_dnc_cache).
THEOREM AllOfIt == Spec => []FinishedListEnforced
  <1>1. ReaderInv => FinishedListEnforced
    BY DEF ReaderInv, Undisturbed, FinishedListEnforced, Nationals
  <1>. QED
    BY <1>1, Correct, PTL

-----------------------------------------------------------------------------
(***************************************************************************)
(* Both loops end: every step of one brings its end nearer, and no step of *)
(* the other puts it off.                                                  *)
(***************************************************************************)
\* A bound on the steps the generator's run has left: draws, then the
\* truncation, two flushes and the close.
StepsLeft ==
    CASE gen = "drawing" -> (Len(Stream) - drawn) + 4
      [] gen = "writing" -> IF file = Full THEN 1 ELSE IF file = <<>> THEN 3 ELSE 2
      [] OTHER -> 0

\* What each step does to it.
GeneratorSteps ==
    /\ StepsLeft \in 0..(Len(Stream) + 4)
    /\ GeneratorStep => StepsLeft' < StepsLeft
    /\ ~Generate => StepsLeft' <= StepsLeft

\* What each step does to the loader's place in the file.
LoaderSteps ==
    /\ pos \in 0..(2 + 13 * Target)
    /\ ReadLine => pos' > pos /\ pos' <= 2 + 13 * Target
    /\ ~(StartLoading \/ PublishCache \/ AppStops) => pos' >= pos

LEMMA StepsLeftIs ==
    ASSUME WriterInv
    PROVE  /\ StepsLeft \in 0..(Len(Stream) + 4)
           /\ gen = "drawing" => StepsLeft >= 4
  <1>1. drawn \in 0..Len(Stream) /\ Len(Stream) \in Nat
    BY Parameters DEF WriterInv, GeneratorType
  <1>2. CASE gen = "drawing"
    <2>1. StepsLeft = (Len(Stream) - drawn) + 4
      BY <1>2 DEF StepsLeft
    <2>. QED
      BY <1>1, <2>1
  <1>3. CASE gen = "writing"
    <2>1. StepsLeft \in {1, 2, 3}
      BY <1>3 DEF StepsLeft
    <2>. QED
      BY <1>1, <1>3, <2>1
  <1>4. CASE gen \notin {"drawing", "writing"}
    <2>1. StepsLeft = 0
      BY <1>4 DEF StepsLeft
    <2>. QED
      BY <1>1, <1>4, <2>1
  <1>. QED
    BY <1>2, <1>3, <1>4

LEMMA FlushLeft ==
    ASSUME WriterInv, Flush
    PROVE  StepsLeft' < StepsLeft
  <1> DEFINE n == Len(Full)
  <1>1. gen = "writing" /\ gen' = gen
    BY DEF Flush
  <1>2. numbers = Want
    BY <1>1 DEF WriterInv, Collected
  <1>3. file # Full
    BY <1>2 DEF Flush, Full
  <1>4. PICK k \in FlushEnds(n) : file' = SubSeq(Full, 1, k)
    BY <1>2 DEF Flush, Full
  <1>5. Full \in Seq(Char) /\ n \in Nat /\ n >= 2
    BY ListIs
  <1>6. \A m \in 1..n : /\ SubSeq(Full, 1, m) \in Seq(Char)
                        /\ Len(SubSeq(Full, 1, m)) = m
                        /\ \A i \in 1..m : SubSeq(Full, 1, m)[i] = Full[i]
    <2> TAKE m \in 1..n
    <2>1. m \in Int /\ 1 \in Int /\ 1 <= m /\ m <= n /\ m - 1 + 1 = m
      BY <1>5
    <2>2. \A i \in 1..m : Full[i] \in Char
      BY <1>5, <2>1, ElementOfSeq
    <2>3. /\ SubSeq(Full, 1, m) \in Seq(Char)
          /\ Len(SubSeq(Full, 1, m)) = IF 1 <= m THEN m - 1 + 1 ELSE 0
          /\ \A i \in 1..(m - 1 + 1) : SubSeq(Full, 1, m)[i] = Full[1 + i - 1]
      BY <2>1, <2>2, SubSeqProperties
    <2>4. \A i \in 1..m : i \in 1..(m - 1 + 1) /\ 1 + i - 1 = i
      BY <2>1
    <2>. QED
      BY <2>1, <2>3, <2>4
  <1>7. k \in 1..n
    BY <1>4, <1>5 DEF FlushEnds
  <1>8. file' # <<>>
    <2>1. Len(file') # 0
      BY <1>4, <1>5, <1>6, <1>7
    <2>. QED
      BY <2>1, NonEmpty
  <1>9. CASE file = <<>>
    <2>1. StepsLeft = 3
      BY <1>1, <1>3, <1>9 DEF StepsLeft
    <2>2. StepsLeft' \in {1, 2}
      BY <1>1, <1>8 DEF StepsLeft
    <2>. QED
      BY <2>1, <2>2
  <1>10. CASE file # <<>>
    <2>1. StepsLeft = 2
      BY <1>1, <1>3, <1>10 DEF StepsLeft
    <2>2. k = n
      BY <1>4, <1>10 DEF FlushEnds
    <2>3. file' = Full
      <3> DEFINE f == SubSeq(Full, 1, n)
      <3>1. n \in 1..n
        BY <1>5
      <3>2. f \in Seq(Char) /\ Len(f) = n /\ \A i \in 1..n : f[i] = Full[i]
        BY <1>6, <3>1
      <3>3. file' = f
        BY <1>4, <2>2
      <3> HIDE DEF f
      <3>4. Len(f) = Len(Full) /\ \A i \in 1..Len(f) : f[i] = Full[i]
        BY <3>2
      <3>5. f = Full
        BY <1>5, <3>2, <3>4, SeqEqual
      <3>. QED
        BY <3>3, <3>5
    <2>4. StepsLeft' = 1
      BY <1>1, <2>3 DEF StepsLeft
    <2>. QED
      BY <2>1, <2>4
  <1>. QED
    BY <1>9, <1>10

LEMMA GeneratorStepsHold == WriterInv /\ [Next]_vars => GeneratorSteps \/ UNCHANGED vars
  <1> SUFFICES ASSUME WriterInv, Next PROVE GeneratorSteps
    OBVIOUS
  <1>1. drawn \in 0..Len(Stream) /\ Len(Stream) \in Nat
    BY Parameters DEF WriterInv, GeneratorType
  <1>2. /\ StepsLeft \in 0..(Len(Stream) + 4)
        /\ gen = "drawing" => StepsLeft >= 4
    BY StepsLeftIs
  <1>3. GeneratorStep => StepsLeft' < StepsLeft
    <2>1. CASE Draw
      <3>1. gen = "drawing" /\ gen' = "drawing" /\ drawn' = drawn + 1
        BY <2>1 DEF Draw
      <3>2. /\ StepsLeft = (Len(Stream) - drawn) + 4
            /\ StepsLeft' = (Len(Stream) - (drawn + 1)) + 4
        BY <3>1 DEF StepsLeft
      <3>. QED
        BY <1>1, <3>2
    <2>2. CASE Truncate
      <3>1. gen = "drawing" /\ gen' = "writing"
        BY <2>2 DEF Truncate
      <3>2. StepsLeft' \in {1, 2, 3}
        BY <3>1 DEF StepsLeft
      <3>. QED
        BY <1>1, <1>2, <3>1, <3>2
    <2>3. CASE Flush
      BY <2>3, FlushLeft
    <2>4. CASE Close
      <3>1. gen = "writing" /\ gen' = "done"
        BY <2>4 DEF Close
      <3>2. StepsLeft \in {1, 2, 3} /\ StepsLeft' = 0
        BY <3>1 DEF StepsLeft
      <3>. QED
        BY <3>2
    <2>. QED
      BY <2>1, <2>2, <2>3, <2>4 DEF GeneratorStep
  <1>4. ~Generate => StepsLeft' <= StepsLeft
    <2>1. CASE GeneratorStep
      <3>1. StepsLeft' < StepsLeft
        BY <1>3, <2>1
      <3>2. StepsLeft' \in Int
        <4>1. drawn' \in Int
          BY <1>1, <2>1 DEF GeneratorStep, Draw, Truncate, Flush, Close
        <4>2. StepsLeft' \in {0, 1, 2, 3} \/ StepsLeft' = (Len(Stream) - drawn') + 4
          BY DEF StepsLeft
        <4>. QED
          BY <1>1, <4>1, <4>2
      <3>. QED
        BY <1>1, <1>2, <3>1, <3>2
    <2>2. CASE GeneratorDies
      <3>1. StepsLeft' = 0
        BY <2>2 DEF GeneratorDies, StepsLeft
      <3>. QED
        BY <1>1, <1>2, <3>1
    <2>3. CASE StartLoading \/ ReadLine \/ PublishCache \/ AppStops
      <3>1. UNCHANGED <<gen, drawn, numbers, file, runs>>
        BY <2>3 DEF StartLoading, ReadLine, PublishCache, AppStops, generator
      <3>2. StepsLeft' = StepsLeft
        BY <3>1 DEF StepsLeft
      <3>. QED
        BY <1>1, <1>2, <3>2
    <2>. QED
      BY <2>1, <2>2, <2>3 DEF Next
  <1>. QED
    BY <1>2, <1>3, <1>4 DEF GeneratorSteps

LEMMA LoaderStepsHold ==
    ASSUME WriterInv, ReaderInv, Next, pos <= 2 + 13 * Target
    PROVE  LoaderSteps /\ (pos <= 2 + 13 * Target)'
  <1> DEFINE n == 2 + 13 * Target
  <1>1. n \in Nat /\ pos \in Nat /\ Len(file) \in Nat /\ Len(file) <= n
    BY Parameters, ListIs DEF WriterInv, FileIsPrefix, ReaderInv, LoaderType
  <1>2. ReadLine => pos' > pos /\ pos' <= n
    <2> SUFFICES ASSUME ReadLine PROVE pos' > pos /\ pos' <= n
      OBVIOUS
    <2> DEFINE e == LineEnd
    <2>1. pos < Len(file) /\ pos' = e
      BY DEF ReadLine
    <2>2. e \in (pos + 1)..Len(file)
      BY <1>1, <2>1, ChunkIs DEF WriterInv
    <2> HIDE DEF e, n
    <2>. QED
      BY <1>1, <2>1, <2>2
  <1>3. CASE ReadLine
    <2>1. pos' > pos /\ pos' <= n
      BY <1>2, <1>3
    <2>2. pos' \in Int
      <3> DEFINE e == LineEnd
      <3>1. pos < Len(file) /\ pos' = e
        BY <1>3 DEF ReadLine
      <3>2. e \in (pos + 1)..Len(file)
        BY <1>1, <3>1, ChunkIs DEF WriterInv
      <3> HIDE DEF e
      <3>. QED
        BY <1>1, <3>1, <3>2
    <2>3. pos' >= pos
      BY <1>1, <2>1, <2>2
    <2>. QED
      BY <1>1, <2>1, <2>3 DEF LoaderSteps
  <1>4. CASE StartLoading \/ PublishCache \/ AppStops
    <2>1. ~ReadLine
      BY <1>4 DEF StartLoading, PublishCache, AppStops, ReadLine
    <2>2. pos' = 0
      BY <1>4 DEF StartLoading, PublishCache, AppStops
    <2>. QED
      BY <1>1, <1>2, <1>4, <2>2 DEF LoaderSteps
  <1>5. CASE Generate \/ GeneratorStep \/ GeneratorDies
    <2>1. pos' = pos
      BY <1>5 DEF Generate, GeneratorStep, Draw, Truncate, Flush, Close,
                  GeneratorDies, loader
    <2>. QED
      BY <1>1, <1>2, <2>1 DEF LoaderSteps
  <1>. QED
    BY <1>3, <1>4, <1>5 DEF Next

\* A run of generate() that nobody kills is over after at most
\* Len(Stream) + 4 steps: each draw, write or close is one less to go, and the
\* application, which reads the file meanwhile, adds none.
THEOREM GeneratorAdvances == Spec => [][GeneratorSteps]_vars
  BY WriterCorrect, GeneratorStepsHold, PTL DEF Spec

\* load_dnc_cache never reads a line twice and ends: every line it reads moves
\* it forward, never past the end of a whole list, even while the file is
\* emptied and written again under it.
THEOREM LoaderAdvances == Spec => [][LoaderSteps]_vars
  <1> DEFINE Inside == pos <= 2 + 13 * Target
  <1>1. Init => Inside
    BY Parameters DEF Init
  <1>2. WriterInv /\ ReaderInv /\ Inside /\ [Next]_vars
           => Inside' /\ [LoaderSteps]_vars
    <2>1. CASE Next
      BY <2>1, LoaderStepsHold
    <2>2. CASE UNCHANGED vars
      BY <2>2 DEF vars, loader
    <2>. QED
      BY <2>1, <2>2
  <1> HIDE DEF Inside
  <1>. QED
    BY <1>1, <1>2, Correct, PTL DEF Spec

=============================================================================
