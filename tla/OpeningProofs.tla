------------------------- MODULE OpeningProofs -------------------------
(***************************************************************************)
(* What holds of the requests that open payments and read them back, for   *)
(* any clients, credentials, accounts, bodies and bounds.                  *)
(***************************************************************************)
EXTENDS Opening, FiniteSetTheorems, SequenceTheorems, WellFoundedInduction, TLAPS

(***************************************************************************)
(* Amounts: what digits read to, and how a number is written.              *)
(***************************************************************************)
\* Numbers that are some have a least one.
LEMMA LeastIs ==
    ASSUME NEW B \in SUBSET Nat, B # {}
    PROVE  \E m \in B : \A k \in B : m <= k
  <1>1. PICK m \in B : \A k \in B : ~ (<<k, m>> \in OpToRel(<, Nat))
    BY WFMin, NatLessThanWellFounded
  <1>2. ASSUME NEW k \in B
        PROVE  m <= k
    <2>1. ~ (k < m)
      BY <1>1 DEF OpToRel
    <2>. QED BY <2>1
  <1>. QED BY <1>2

\* Sequences that are some have a shortest one.
LEMMA ShortestIs ==
    ASSUME NEW S, NEW B \in SUBSET Seq(S), B # {}
    PROVE  \E s \in B : \A t \in B : Len(s) <= Len(t)
  <1>. DEFINE Lens == {Len(s) : s \in B}
  <1>1. \A s \in B : Len(s) \in Nat
    BY LenProperties
  <1>2. Lens \in SUBSET Nat /\ Lens # {}
    BY <1>1
  <1>3. PICK m \in Lens : \A k \in Lens : m <= k
    <2>. HIDE DEF Lens
    <2>. QED BY <1>2, LeastIs
  <1>. QED BY <1>3

\* Digits that end in a digit.
LEMMA EndsIn ==
    ASSUME NEW s \in Seq(Digit), s # << >>
    PROVE  \E u \in Seq(Digit), d \in Digit : s = Append(u, d) /\ Len(u) = Len(s) - 1
  <1>1. PICK u \in Seq(Digit), d \in Digit : s = Append(u, d)
    BY SequenceEmptyOrAppend
  <1>2. Len(s) = Len(u) + 1 /\ Len(u) \in Nat
    BY <1>1, AppendProperties
  <1>. QED BY <1>1, <1>2

\* v says what the first digits of a read to, for each number of them.
Reads(a, v, n) ==
    v = [i \in 0 .. n |-> IF i = 0 THEN 0 ELSE 10 * v[i - 1] + a[i]]

LEMMA ReadsExists ==
    ASSUME NEW a, NEW n \in Nat
    PROVE  \E v : Reads(a, v, n)
  <1>. DEFINE Bad == {k \in Nat : ~ \E v : Reads(a, v, k)}
  <1>1. SUFFICES ASSUME Bad # {} PROVE FALSE
    OBVIOUS
  <1>2. PICK m \in Bad : \A k \in Bad : m <= k
    <2>1. Bad \in SUBSET Nat
      OBVIOUS
    <2>. HIDE DEF Bad
    <2>. QED BY <1>1, <2>1, LeastIs
  <1>3. m \in Nat /\ ~ \E v : Reads(a, v, m)
    BY <1>2
  <1>4. m # 0
    <2>. DEFINE v == [i \in 0 .. 0 |-> 0]
    <2>1. v = [i \in 0 .. 0 |-> IF i = 0 THEN 0 ELSE 10 * v[i - 1] + a[i]]
      OBVIOUS
    <2>. QED BY <1>3, <2>1 DEF Reads
  <1>5. PICK v : Reads(a, v, m - 1)
    <2>1. m - 1 \in Nat /\ ~ (m <= m - 1)
      BY <1>3, <1>4
    <2>2. m - 1 \notin Bad
      BY <1>2, <2>1
    <2>. QED BY <2>1, <2>2
  <1>. DEFINE w == [i \in 0 .. m |-> IF i = m THEN 10 * v[m - 1] + a[m] ELSE v[i]]
  <1>6. ASSUME NEW i \in 0 .. m
        PROVE  w[i] = IF i = 0 THEN 0 ELSE 10 * w[i - 1] + a[i]
    <2>1. CASE i = m
      <3>1. w[m - 1] = v[m - 1] /\ w[m] = 10 * v[m - 1] + a[m]
        BY <1>3, <1>4
      <3>. QED BY <1>4, <2>1, <3>1
    <2>2. CASE i # m
      <3>1. i \in 0 .. m - 1 /\ w[i] = v[i]
        BY <1>3, <2>2
      <3>2. v[i] = IF i = 0 THEN 0 ELSE 10 * v[i - 1] + a[i]
        BY <1>5, <3>1 DEF Reads
      <3>3. i # 0 => w[i - 1] = v[i - 1]
        BY <1>3, <2>2
      <3>. QED BY <3>1, <3>2, <3>3
    <2>. QED BY <2>1, <2>2
  <1>7. Reads(a, w, m)
    <2>1. w = [i \in 0 .. m |-> w[i]]
      OBVIOUS
    <2>. HIDE DEF w
    <2>. QED BY <1>6, <2>1 DEF Reads
  <1>. QED BY <1>3, <1>7

LEMMA ReadsAt ==
    ASSUME NEW a, NEW v, NEW n \in Nat, Reads(a, v, n)
    PROVE  v[0] = 0 /\ \A i \in 1 .. n : v[i] = 10 * v[i - 1] + a[i]
  BY DEF Reads

LEMMA ReadsAgree ==
    ASSUME NEW a, NEW b, NEW v, NEW w, NEW m \in Nat, NEW n \in Nat,
           Reads(a, v, m), Reads(b, w, n), NEW k \in Nat, k <= m, k <= n,
           \A i \in 1 .. k : a[i] = b[i]
    PROVE  v[k] = w[k]
  <1>. DEFINE Bad == {i \in 0 .. k : v[i] # w[i]}
  <1>1. SUFFICES ASSUME Bad # {} PROVE FALSE
    OBVIOUS
  <1>2. PICK i \in Bad : \A j \in Bad : i <= j
    <2>1. Bad \in SUBSET Nat
      OBVIOUS
    <2>. HIDE DEF Bad
    <2>. QED BY <1>1, <2>1, LeastIs
  <1>3. i \in 0 .. k /\ v[i] # w[i]
    BY <1>2
  <1>4. i # 0
    BY <1>3, ReadsAt
  <1>5. v[i] = 10 * v[i - 1] + a[i] /\ w[i] = 10 * w[i - 1] + b[i] /\ a[i] = b[i]
    BY <1>3, <1>4, ReadsAt
  <1>6. v[i - 1] = w[i - 1]
    <2>1. i - 1 \in 0 .. k /\ ~ (i <= i - 1)
      BY <1>3, <1>4
    <2>. QED BY <1>2, <2>1
  <1>. QED BY <1>3, <1>5, <1>6

LEMMA ValueIs ==
    ASSUME NEW s \in Seq(Digit)
    PROVE  \E v : Reads(s, v, Len(s)) /\ Value(s) = v[Len(s)]
  <1>1. Value(s) = (CHOOSE v : Reads(s, v, Len(s)))[Len(s)]
    BY DEF Value, Reads
  <1>2. \E v : Reads(s, v, Len(s))
    BY ReadsExists, LenProperties
  <1>. QED BY <1>1, <1>2

\* The number of some digits, and of one more.
LEMMA ValueAppend ==
    ASSUME NEW s \in Seq(Digit), NEW d \in Digit
    PROVE  Value(Append(s, d)) = 10 * Value(s) + d
  <1>. DEFINE t == Append(s, d)
              n == Len(s)
  <1>1. /\ t \in Seq(Digit) /\ Len(t) = n + 1 /\ t[n + 1] = d /\ n \in Nat
        /\ \A i \in 1 .. n : t[i] = s[i]
    BY AppendProperties, LenProperties
  <1>. HIDE DEF t, n
  <1>2. PICK v : Reads(s, v, n) /\ Value(s) = v[n]
    BY ValueIs DEF n
  <1>3. PICK w : Reads(t, w, n + 1) /\ Value(t) = w[n + 1]
    BY <1>1, ValueIs
  <1>4. w[n] = v[n]
    BY <1>1, <1>2, <1>3, ReadsAgree
  <1>5. w[n + 1] = 10 * w[n] + t[n + 1]
    <2>1. n + 1 \in Nat /\ n + 1 \in 1 .. n + 1 /\ (n + 1) - 1 = n
      BY <1>1
    <2>. QED BY <1>3, <2>1, ReadsAt
  <1>. QED BY <1>1, <1>2, <1>3, <1>4, <1>5 DEF t

LEMMA ValueNone == Value(<< >>) = 0
  <1>1. PICK v : Reads(<< >>, v, 0) /\ Value(<< >>) = v[0]
    BY ValueIs, EmptySeq
  <1>. QED BY <1>1, ReadsAt

LEMMA ValueType ==
    ASSUME NEW s \in Seq(Digit)
    PROVE  Value(s) \in Nat
  <1>. DEFINE Bad == {t \in Seq(Digit) : Value(t) \notin Nat}
  <1>1. SUFFICES ASSUME Bad # {} PROVE FALSE
    OBVIOUS
  <1>2. PICK t \in Bad : \A u \in Bad : Len(t) <= Len(u)
    <2>1. Bad \in SUBSET Seq(Digit)
      OBVIOUS
    <2>. HIDE DEF Bad
    <2>. QED BY <1>1, <2>1, ShortestIs
  <1>3. t # << >>
    BY <1>2, ValueNone
  <1>4. PICK u \in Seq(Digit), d \in Digit : t = Append(u, d) /\ Len(u) = Len(t) - 1
    BY <1>2, <1>3, EndsIn
  <1>5. Value(u) \in Nat
    <2>1. ~ (Len(t) <= Len(u))
      BY <1>4, LenProperties
    <2>. QED BY <1>2, <2>1
  <1>6. Value(t) = 10 * Value(u) + d
    BY <1>4, ValueAppend
  <1>. QED BY <1>2, <1>5, <1>6 DEF Digit

\* g says how every number up to n is written.
Writes(g, n) ==
    g = [m \in 0 .. n |-> IF m < 10 THEN <<m>> ELSE Append(g[m \div 10], m % 10)]

LEMMA Tenth ==
    ASSUME NEW n \in Nat
    PROVE  /\ n \div 10 \in Nat /\ n % 10 \in Digit
           /\ n = 10 * (n \div 10) + (n % 10)
           /\ n >= 10 => n \div 10 < n /\ n \div 10 >= 1
  <1>1. n \div 10 \in Nat /\ n % 10 \in 0 .. 9 /\ n = 10 * (n \div 10) + (n % 10)
    OBVIOUS
  <1>2. n >= 10 => n \div 10 < n /\ n \div 10 >= 1
    BY <1>1
  <1>. QED BY <1>1, <1>2 DEF Digit

\* What is ten times a number and a digit is that number and that digit.
LEMMA TenthIs ==
    ASSUME NEW q \in Nat, NEW d \in Digit
    PROVE  (10 * q + d) \div 10 = q /\ (10 * q + d) % 10 = d
  <1>. DEFINE n == 10 * q + d
              p == n \div 10
              r == n % 10
  <1>1. n \in Nat /\ d \in 0 .. 9
    BY DEF Digit
  <1>. HIDE DEF n
  <1>2. p \in Nat /\ r \in 0 .. 9 /\ n = 10 * p + r
    BY <1>1, Tenth DEF Digit
  <1>. HIDE DEF p, r
  <1>3. p = q /\ r = d
    BY <1>1, <1>2 DEF n
  <1>. QED BY <1>3 DEF n, p, r

LEMMA WritesExists ==
    ASSUME NEW n \in Nat
    PROVE  \E g : Writes(g, n)
  <1>. DEFINE Bad == {k \in Nat : ~ \E g : Writes(g, k)}
  <1>1. SUFFICES ASSUME Bad # {} PROVE FALSE
    OBVIOUS
  <1>2. PICK m \in Bad : \A k \in Bad : m <= k
    <2>1. Bad \in SUBSET Nat
      OBVIOUS
    <2>. HIDE DEF Bad
    <2>. QED BY <1>1, <2>1, LeastIs
  <1>3. m \in Nat /\ ~ \E g : Writes(g, m)
    BY <1>2
  <1>4. m # 0
    <2>. DEFINE g == [i \in 0 .. 0 |-> <<i>>]
    <2>1. g = [i \in 0 .. 0 |-> IF i < 10 THEN <<i>> ELSE Append(g[i \div 10], i % 10)]
      OBVIOUS
    <2>. QED BY <1>3, <2>1 DEF Writes
  <1>5. PICK g : Writes(g, m - 1)
    <2>1. m - 1 \in Nat /\ ~ (m <= m - 1)
      BY <1>3, <1>4
    <2>2. m - 1 \notin Bad
      BY <1>2, <2>1
    <2>. QED BY <2>1, <2>2
  <1>. DEFINE How(i) == IF i < 10 THEN <<i>> ELSE Append(g[i \div 10], i % 10)
              h == [i \in 0 .. m |-> How(i)]
  <1>6. ASSUME NEW i \in 0 .. m - 1
        PROVE  h[i] = g[i]
    <2>1. i \in 0 .. m /\ h[i] = How(i)
      BY <1>3
    <2>2. g[i] = How(i)
      BY <1>5 DEF Writes
    <2>. QED BY <2>1, <2>2
  <1>7. ASSUME NEW i \in 0 .. m, i >= 10
        PROVE  h[i \div 10] = g[i \div 10]
    <2>1. i \div 10 \in 0 .. m - 1
      BY <1>3, <1>7, Tenth
    <2>. QED BY <1>6, <2>1
  <1>8. Writes(h, m)
    <2>1. ASSUME NEW i \in 0 .. m
          PROVE  h[i] = IF i < 10 THEN <<i>> ELSE Append(h[i \div 10], i % 10)
      <3>1. CASE i < 10
        BY <3>1
      <3>2. CASE i >= 10
        <4>1. h[i] = Append(g[i \div 10], i % 10)
          BY <3>2
        <4>. QED BY <1>7, <3>2, <4>1
      <3>. QED BY <3>1, <3>2
    <2>2. h = [i \in 0 .. m |-> h[i]]
      OBVIOUS
    <2>. HIDE DEF h
    <2>. QED BY <2>1, <2>2 DEF Writes
  <1>. QED BY <1>3, <1>8

LEMMA WritesAt ==
    ASSUME NEW n \in Nat, NEW g, Writes(g, n), NEW m \in 0 .. n
    PROVE  g[m] = IF m < 10 THEN <<m>> ELSE Append(g[m \div 10], m % 10)
  BY DEF Writes

LEMMA WritesAgree ==
    ASSUME NEW g, NEW h, NEW m \in Nat, NEW n \in Nat, Writes(g, m), Writes(h, n),
           NEW k \in Nat, k <= m, k <= n
    PROVE  g[k] = h[k]
  <1>. DEFINE Bad == {i \in 0 .. k : g[i] # h[i]}
  <1>1. SUFFICES ASSUME Bad # {} PROVE FALSE
    OBVIOUS
  <1>2. PICK i \in Bad : \A j \in Bad : i <= j
    <2>1. Bad \in SUBSET Nat
      OBVIOUS
    <2>. HIDE DEF Bad
    <2>. QED BY <1>1, <2>1, LeastIs
  <1>3. i \in 0 .. k /\ g[i] # h[i] /\ i \in 0 .. m /\ i \in 0 .. n
    BY <1>2
  <1>4. /\ g[i] = IF i < 10 THEN <<i>> ELSE Append(g[i \div 10], i % 10)
        /\ h[i] = IF i < 10 THEN <<i>> ELSE Append(h[i \div 10], i % 10)
    BY <1>3, WritesAt
  <1>5. i >= 10
    BY <1>3, <1>4
  <1>6. g[i \div 10] = h[i \div 10]
    <2>1. i \div 10 \in 0 .. k /\ ~ (i <= i \div 10)
      BY <1>3, <1>5, Tenth
    <2>. QED BY <1>2, <2>1
  <1>. QED BY <1>3, <1>4, <1>5, <1>6

LEMMA DigitsAt ==
    ASSUME NEW n \in Nat
    PROVE  \E g : Writes(g, n) /\ Digits(n) = g[n]
  <1>1. Digits(n) = (CHOOSE g : Writes(g, n))[n]
    BY DEF Digits, Writes
  <1>. QED BY <1>1, WritesExists

\* The digits of a number are those of its tenth and one more.
LEMMA DigitsIs ==
    ASSUME NEW n \in Nat
    PROVE  Digits(n) = IF n < 10 THEN <<n>> ELSE Append(Digits(n \div 10), n % 10)
  <1>1. PICK g : Writes(g, n) /\ Digits(n) = g[n]
    BY DigitsAt
  <1>2. g[n] = IF n < 10 THEN <<n>> ELSE Append(g[n \div 10], n % 10)
    BY <1>1, WritesAt
  <1>3. CASE n < 10
    BY <1>1, <1>2, <1>3
  <1>4. CASE n >= 10
    <2>1. n \div 10 \in Nat /\ n \div 10 <= n
      BY <1>4, Tenth
    <2>2. PICK h : Writes(h, n \div 10) /\ Digits(n \div 10) = h[n \div 10]
      BY <2>1, DigitsAt
    <2>3. g[n \div 10] = h[n \div 10]
      BY <1>1, <2>1, <2>2, WritesAgree
    <2>. QED BY <1>1, <1>2, <1>4, <2>2, <2>3
  <1>. QED BY <1>3, <1>4

\* Digits with no zero before them that says nothing.
Plain(s) == s \in Seq(Digit) /\ s # << >> /\ (Len(s) = 1 \/ s[1] # 0)

LEMMA OneDigit ==
    ASSUME NEW d \in Digit
    PROVE  /\ <<d>> \in Seq(Digit) /\ <<d>> # << >> /\ Len(<<d>>) = 1 /\ <<d>>[1] = d
           /\ <<d>> = Append(<< >>, d) /\ Value(<<d>>) = d
  <1>1. /\ <<d>> \in Seq(Digit) /\ <<d>> # << >> /\ Len(<<d>>) = 1 /\ <<d>>[1] = d
        /\ <<d>> = Append(<< >>, d) /\ << >> \in Seq(Digit)
    OBVIOUS
  <1>2. Value(Append(<< >>, d)) = 10 * Value(<< >>) + d
    BY <1>1, ValueAppend
  <1>3. Value(<< >>) = 0 /\ d \in Nat
    BY ValueNone DEF Digit
  <1>. QED BY <1>1, <1>2, <1>3

\* A number is written with the digits that read back to it.
LEMMA WrittenIs ==
    ASSUME NEW n \in Nat
    PROVE  Plain(Digits(n)) /\ Value(Digits(n)) = n
  <1>. DEFINE Good(k) == Plain(Digits(k)) /\ Value(Digits(k)) = k
              Bad == {k \in Nat : ~Good(k)}
  <1>1. SUFFICES ASSUME Bad # {} PROVE FALSE
    OBVIOUS
  <1>2. PICK m \in Bad : \A k \in Bad : m <= k
    <2>1. Bad \in SUBSET Nat
      OBVIOUS
    <2>. HIDE DEF Bad
    <2>. QED BY <1>1, <2>1, LeastIs
  <1>3. m \in Nat /\ ~Good(m)
    BY <1>2
  <1>4. m >= 10
    <2>1. SUFFICES ASSUME m < 10 PROVE FALSE
      BY <1>3
    <2>2. Digits(m) = <<m>> /\ m \in Digit
      BY <1>3, <2>1, DigitsIs DEF Digit
    <2>3. Good(m)
      BY <2>2, OneDigit DEF Plain
    <2>. QED BY <1>3, <2>3
  <1>. DEFINE t == m \div 10
              d == m % 10
  <1>5. t \in Nat /\ d \in Digit /\ m = 10 * t + d /\ ~ (m <= t)
    BY <1>3, <1>4, Tenth
  <1>6. Digits(m) = Append(Digits(t), d)
    BY <1>3, <1>4, DigitsIs
  <1>. HIDE DEF t, d
  <1>7. Plain(Digits(t)) /\ Value(Digits(t)) = t
    BY <1>2, <1>5
  <1>8. Value(Digits(m)) = m
    BY <1>5, <1>6, <1>7, ValueAppend DEF Plain
  <1>9. t # 0
    BY <1>3, <1>4, <1>5 DEF Digit
  <1>10. Digits(t)[1] # 0
    <2>1. CASE Len(Digits(t)) = 1
      <3>1. PICK u \in Seq(Digit), e \in Digit : Digits(t) = Append(u, e) /\ Len(u) = 0
        BY <1>7, <2>1, EndsIn DEF Plain
      <3>2. u = << >>
        BY <3>1, EmptySeq
      <3>3. Digits(t) = <<e>>
        BY <3>1, <3>2
      <3>4. Value(Digits(t)) = e /\ Digits(t)[1] = e
        BY <3>3, OneDigit
      <3>. QED BY <1>7, <1>9, <3>4
    <2>. QED BY <1>7, <2>1 DEF Plain
  <1>11. Plain(Digits(m))
    <2>1. /\ Digits(t) \in Seq(Digit) /\ Len(Digits(t)) \in Nat /\ Len(Digits(t)) # 0
      BY <1>7, EmptySeq DEF Plain
    <2>2. /\ Digits(m) \in Seq(Digit) /\ Digits(m) # << >>
          /\ Digits(m)[1] = Digits(t)[1]
      BY <1>5, <1>6, <2>1, AppendProperties
    <2>. QED BY <1>10, <2>2 DEF Plain
  <1>. QED BY <1>3, <1>8, <1>11

\* Digits with no zero before them are the ones their number is written with.
LEMMA PlainIsWritten ==
    ASSUME NEW s, Plain(s)
    PROVE  Digits(Value(s)) = s
  <1>. DEFINE Bad == {t \in Seq(Digit) : Plain(t) /\ Digits(Value(t)) # t}
  <1>1. SUFFICES ASSUME Bad # {} PROVE FALSE
    BY DEF Plain
  <1>2. PICK t \in Bad : \A u \in Bad : Len(t) <= Len(u)
    <2>1. Bad \in SUBSET Seq(Digit)
      OBVIOUS
    <2>. HIDE DEF Bad
    <2>. QED BY <1>1, <2>1, ShortestIs
  <1>3. t \in Seq(Digit) /\ Plain(t) /\ Digits(Value(t)) # t
    BY <1>2
  <1>4. PICK u \in Seq(Digit), d \in Digit : t = Append(u, d) /\ Len(u) = Len(t) - 1
    BY <1>3, EndsIn DEF Plain
  <1>5. d \in 0 .. 9
    BY DEF Digit
  <1>6. CASE u = << >>
    <2>1. t = <<d>> /\ Value(t) = d
      BY <1>4, <1>6, OneDigit
    <2>2. Digits(d) = <<d>>
      BY <1>5, DigitsIs
    <2>. QED BY <1>3, <2>1, <2>2
  <1>7. CASE u # << >>
    <2>1. Len(u) \in Nat /\ Len(u) # 0 /\ Len(t) # 1 /\ u[1] = t[1] /\ ~ (Len(t) <= Len(u))
      BY <1>4, <1>7, EmptySeq, AppendProperties
    <2>2. Plain(u) /\ u[1] # 0
      BY <1>3, <1>7, <2>1 DEF Plain
    <2>3. Digits(Value(u)) = u
      BY <1>2, <2>1, <2>2
    <2>4. Value(u) \in Nat
      BY ValueType
    <2>5. Value(u) # 0
      <3>1. Digits(0) = <<0>>
        BY DigitsIs
      <3>2. <<0>>[1] = 0
        OBVIOUS
      <3>. QED BY <2>2, <2>3, <3>1, <3>2
    <2>. DEFINE n == Value(t)
    <2>6. n = 10 * Value(u) + d
      BY <1>4, ValueAppend
    <2>7. n \in Nat /\ n >= 10 /\ n \div 10 = Value(u) /\ n % 10 = d
      <3>1. n \in Nat /\ n >= 10
        BY <1>5, <2>4, <2>5, <2>6
      <3>. QED BY <2>4, <2>6, <3>1, TenthIs
    <2>8. Digits(n) = Append(Digits(Value(u)), d)
      BY <2>7, DigitsIs
    <2>. QED BY <1>3, <1>4, <2>3, <2>8
  <1>. QED BY <1>6, <1>7

LEMMA ZerosAre ==
    ASSUME NEW k \in Nat
    PROVE  Zeros(k) \in Seq(Digit) /\ Len(Zeros(k)) = k /\ \A i \in 1 .. k : Zeros(k)[i] = 0
  BY DEF Zeros, Digit

LEMMA ZerosNext ==
    ASSUME NEW k \in Nat
    PROVE  Zeros(k + 1) = Append(Zeros(k), 0)
  <1>1. 0 \in Digit
    BY DEF Digit
  <1>2. /\ Zeros(k) \in Seq(Digit) /\ Len(Zeros(k)) = k /\ \A i \in 1 .. k : Zeros(k)[i] = 0
        /\ Zeros(k + 1) \in Seq(Digit) /\ Len(Zeros(k + 1)) = k + 1
        /\ \A i \in 1 .. k + 1 : Zeros(k + 1)[i] = 0
    BY ZerosAre
  <1>. DEFINE s == Append(Zeros(k), 0)
  <1>3. /\ s \in Seq(Digit) /\ Len(s) = k + 1
        /\ \A i \in 1 .. k : s[i] = Zeros(k)[i]
        /\ s[k + 1] = 0
    BY <1>1, <1>2, AppendProperties
  <1>. HIDE DEF s
  <1>4. ASSUME NEW i \in 1 .. k + 1
        PROVE  Zeros(k + 1)[i] = s[i]
    <2>1. i \in 1 .. k \/ i = k + 1
      OBVIOUS
    <2>. QED BY <1>2, <1>3, <2>1
  <1>5. Zeros(k + 1) = s
    BY <1>2, <1>3, <1>4, SeqEqual
  <1>. QED BY <1>5 DEF s

\* Zeros write nothing.
LEMMA ValueZeros ==
    ASSUME NEW k \in Nat
    PROVE  Value(Zeros(k)) = 0
  <1>. DEFINE Bad == {i \in Nat : Value(Zeros(i)) # 0}
  <1>1. SUFFICES ASSUME Bad # {} PROVE FALSE
    OBVIOUS
  <1>2. PICK m \in Bad : \A i \in Bad : m <= i
    <2>1. Bad \in SUBSET Nat
      OBVIOUS
    <2>. HIDE DEF Bad
    <2>. QED BY <1>1, <2>1, LeastIs
  <1>3. m \in Nat /\ Value(Zeros(m)) # 0
    BY <1>2
  <1>4. m # 0
    <2>1. Zeros(0) = << >>
      BY DEF Zeros
    <2>. QED BY <1>3, <2>1, ValueNone
  <1>. DEFINE l == m - 1
  <1>5. l \in Nat /\ m = l + 1 /\ ~ (m <= l)
    BY <1>3, <1>4
  <1>. HIDE DEF l
  <1>6. Value(Zeros(l)) = 0
    BY <1>2, <1>5
  <1>7. 0 \in Digit
    BY DEF Digit
  <1>8. Value(Append(Zeros(l), 0)) = 10 * Value(Zeros(l)) + 0
    BY <1>5, <1>7, ZerosAre, ValueAppend
  <1>9. Zeros(l + 1) = Append(Zeros(l), 0)
    BY <1>5, ZerosNext
  <1>10. Value(Zeros(m)) = 10 * Value(Zeros(l)) + 0
    BY <1>5, <1>8, <1>9
  <1>. QED BY <1>3, <1>6, <1>10

\* Zeros before digits change nothing of the number they write.
LEMMA ValueZerosBefore ==
    ASSUME NEW k \in Nat, NEW s \in Seq(Digit)
    PROVE  Value(Zeros(k) \o s) = Value(s)
  <1>. DEFINE z == Zeros(k)
              Bad == {t \in Seq(Digit) : Value(z \o t) # Value(t)}
  <1>0. z \in Seq(Digit) /\ Value(z) = 0
    BY ZerosAre, ValueZeros
  <1>. HIDE DEF z
  <1>1. SUFFICES ASSUME Bad # {} PROVE FALSE
    BY DEF z
  <1>2. PICK t \in Bad : \A u \in Bad : Len(t) <= Len(u)
    <2>1. Bad \in SUBSET Seq(Digit)
      OBVIOUS
    <2>. HIDE DEF Bad
    <2>. QED BY <1>1, <2>1, ShortestIs
  <1>3. t \in Seq(Digit) /\ Value(z \o t) # Value(t)
    BY <1>2
  <1>4. t # << >>
    BY <1>0, <1>3, ConcatEmptySeq, ValueNone
  <1>5. PICK u \in Seq(Digit), d \in Digit : t = Append(u, d) /\ Len(u) = Len(t) - 1
    BY <1>3, <1>4, EndsIn
  <1>6. Value(z \o u) = Value(u)
    <2>1. ~ (Len(t) <= Len(u))
      BY <1>5, LenProperties
    <2>. QED BY <1>2, <2>1
  <1>7. z \o t = Append(z \o u, d)
    <2>1. <<d>> \in Seq(Digit) /\ z \o u \in Seq(Digit)
      BY <1>0, ConcatProperties
    <2>2. t = u \o <<d>> /\ Append(z \o u, d) = (z \o u) \o <<d>>
      BY <1>5, <2>1, AppendIsConcat
    <2>. QED BY <1>0, <2>1, <2>2, ConcatAssociative
  <1>8. Value(Append(z \o u, d)) = 10 * Value(z \o u) + d
    <2>1. z \o u \in Seq(Digit)
      BY <1>0, ConcatProperties
    <2>. QED BY <2>1, ValueAppend
  <1>9. Value(t) = 10 * Value(u) + d
    BY <1>5, ValueAppend
  <1>. QED BY <1>3, <1>6, <1>7, <1>8, <1>9

LEMMA TenthOne ==
    ASSUME NEW p \in Nat, NEW q \in Nat, NEW d \in 0 .. 9, NEW e \in 0 .. 9,
           10 * p + d = 10 * q + e
    PROVE  p = q /\ d = e
  OBVIOUS

\* As many digits as write the same number are the same digits.
LEMMA SameDigits ==
    ASSUME NEW s \in Seq(Digit), NEW t \in Seq(Digit), Len(s) = Len(t), Value(s) = Value(t)
    PROVE  s = t
  <1>. DEFINE Bad == {x \in Seq(Digit) : \E y \in Seq(Digit) :
                         Len(x) = Len(y) /\ Value(x) = Value(y) /\ x # y}
  <1>1. SUFFICES ASSUME Bad # {} PROVE FALSE
    OBVIOUS
  <1>2. PICK x \in Bad : \A z \in Bad : Len(x) <= Len(z)
    <2>1. Bad \in SUBSET Seq(Digit)
      OBVIOUS
    <2>. HIDE DEF Bad
    <2>. QED BY <1>1, <2>1, ShortestIs
  <1>3. x \in Seq(Digit)
    BY <1>2
  <1>4. PICK y \in Seq(Digit) : Len(x) = Len(y) /\ Value(x) = Value(y) /\ x # y
    BY <1>2
  <1>5. x # << >> /\ y # << >>
    BY <1>3, <1>4, EmptySeq
  <1>6. PICK u \in Seq(Digit), d \in Digit : x = Append(u, d) /\ Len(u) = Len(x) - 1
    BY <1>3, <1>5, EndsIn
  <1>7. PICK v \in Seq(Digit), e \in Digit : y = Append(v, e) /\ Len(v) = Len(y) - 1
    BY <1>5, EndsIn
  <1>8. Value(x) = 10 * Value(u) + d /\ Value(y) = 10 * Value(v) + e
    BY <1>6, <1>7, ValueAppend
  <1>9. Value(u) = Value(v) /\ d = e
    <2>. DEFINE p == Value(u)
                q == Value(v)
    <2>1. p \in Nat /\ q \in Nat /\ d \in 0 .. 9 /\ e \in 0 .. 9
      BY ValueType DEF Digit
    <2>2. 10 * p + d = 10 * q + e
      BY <1>4, <1>8
    <2>. HIDE DEF p, q
    <2>3. p = q /\ d = e
      BY <2>1, <2>2, TenthOne, Zenon
    <2>. QED BY <2>3 DEF p, q
  <1>10. u = v
    <2>1. Len(u) = Len(v) /\ ~ (Len(x) <= Len(u))
      BY <1>3, <1>4, <1>6, <1>7, LenProperties
    <2>. QED BY <1>2, <1>9, <2>1
  <1>. QED BY <1>4, <1>6, <1>7, <1>9, <1>10

\* The digits of a number are no more than any that write it.
LEMMA FewestDigits ==
    ASSUME NEW s \in Seq(Digit), s # << >>
    PROVE  Len(Digits(Value(s))) <= Len(s)
  <1>. DEFINE Bad == {t \in Seq(Digit) : t # << >> /\ ~ (Len(Digits(Value(t))) <= Len(t))}
  <1>1. SUFFICES ASSUME Bad # {} PROVE FALSE
    OBVIOUS
  <1>2. PICK t \in Bad : \A u \in Bad : Len(t) <= Len(u)
    <2>1. Bad \in SUBSET Seq(Digit)
      OBVIOUS
    <2>. HIDE DEF Bad
    <2>. QED BY <1>1, <2>1, ShortestIs
  <1>3. t \in Seq(Digit) /\ t # << >> /\ ~ (Len(Digits(Value(t))) <= Len(t))
    BY <1>2
  <1>4. PICK u \in Seq(Digit), d \in Digit : t = Append(u, d) /\ Len(u) = Len(t) - 1
    BY <1>3, EndsIn
  <1>. DEFINE n == Value(t)
              m == Value(u)
  <1>5. n \in Nat /\ m \in Nat /\ n = 10 * m + d /\ d \in 0 .. 9
    BY <1>3, <1>4, ValueType, ValueAppend DEF Digit
  <1>6. Len(t) \in Nat /\ Len(u) \in Nat /\ Len(t) # 0
    BY <1>3, EmptySeq, LenProperties
  <1>7. n \div 10 = m /\ n % 10 = d
    BY <1>5, TenthIs
  <1>. HIDE DEF n, m
  <1>8. CASE n < 10
    <2>1. Digits(n) = <<n>> /\ n \in Digit
      BY <1>5, <1>8, DigitsIs DEF Digit
    <2>2. Len(Digits(n)) = 1
      BY <2>1, OneDigit
    <2>. QED BY <1>3, <1>6, <2>2 DEF n
  <1>9. CASE n >= 10
    <2>1. Digits(n) = Append(Digits(m), d)
      <3>1. Digits(n) = IF n < 10 THEN <<n>> ELSE Append(Digits(n \div 10), n % 10)
        BY <1>5, DigitsIs
      <3>2. ~ (n < 10)
        BY <1>5, <1>9
      <3>. QED BY <1>7, <3>1, <3>2
    <2>2. Digits(m) \in Seq(Digit) /\ Len(Digits(m)) \in Nat
      BY <1>5, WrittenIs, LenProperties DEF Plain
    <2>3. Len(Digits(n)) = Len(Digits(m)) + 1
      BY <2>1, <2>2, AppendProperties
    <2>4. u # << >>
      <3>1. m # 0
        BY <1>5, <1>9
      <3>. QED BY <3>1, ValueNone DEF m
    <2>5. Len(Digits(m)) <= Len(u)
      <3>1. ~ (Len(t) <= Len(u))
        BY <1>4, <1>6
      <3>. QED BY <1>2, <2>4, <3>1 DEF m
    <2>6. Len(Digits(n)) <= Len(t)
      BY <1>4, <1>6, <2>2, <2>3, <2>5
    <2>. QED BY <1>3, <2>6 DEF n
  <1>. QED BY <1>5, <1>8, <1>9

Nines(k) == [i \in 1 .. k |-> 9]

LEMMA NinesAre ==
    ASSUME NEW k \in Nat
    PROVE  /\ Nines(k) \in Seq(Digit) /\ Value(Nines(k)) \in Nat
           /\ Value(Nines(k + 1)) = 10 * Value(Nines(k)) + 9
  <1>1. \A n \in Nat : /\ Nines(n) \in Seq(Digit) /\ Len(Nines(n)) = n
                       /\ \A i \in 1 .. n : Nines(n)[i] = 9
    BY DEF Nines, Digit
  <1>2. 9 \in Digit /\ k + 1 \in Nat
    BY DEF Digit
  <1>. DEFINE s == Append(Nines(k), 9)
  <1>3. /\ s \in Seq(Digit) /\ Len(s) = k + 1
        /\ \A i \in 1 .. k : s[i] = Nines(k)[i]
        /\ s[k + 1] = 9
    BY <1>1, <1>2, AppendProperties
  <1>. HIDE DEF s
  <1>4. ASSUME NEW i \in 1 .. k + 1
        PROVE  Nines(k + 1)[i] = s[i]
    <2>1. i \in 1 .. k \/ i = k + 1
      OBVIOUS
    <2>. QED BY <1>1, <1>2, <1>3, <2>1
  <1>5. Nines(k + 1) = s
    BY <1>1, <1>2, <1>3, <1>4, SeqEqual
  <1>6. Value(s) = 10 * Value(Nines(k)) + 9
    BY <1>1, <1>2, ValueAppend DEF s
  <1>. QED BY <1>1, <1>5, <1>6, ValueType

LEMMA NoMoreTenths ==
    ASSUME NEW m \in Nat, NEW t \in Nat, NEW d \in 0 .. 9, NEW v \in Nat,
           m = 10 * t + d, m <= 10 * v + 9
    PROVE  t <= v
  OBVIOUS

\* A number no greater than k nines has k digits at the most.
LEMMA DigitsFit ==
    ASSUME NEW k \in Nat \ {0}, NEW n \in Nat, n <= Value(Nines(k))
    PROVE  Len(Digits(n)) <= k
  <1>. DEFINE Fits(j) == \A m \in Nat : m <= Value(Nines(j)) => Len(Digits(m)) <= j
              Bad == {j \in Nat \ {0} : ~Fits(j)}
  <1>1. SUFFICES ASSUME Bad # {} PROVE FALSE
    OBVIOUS
  <1>2. PICK j \in Bad : \A i \in Bad : j <= i
    <2>1. Bad \in SUBSET Nat
      OBVIOUS
    <2>. HIDE DEF Bad
    <2>. QED BY <1>1, <2>1, LeastIs
  <1>3. j \in Nat \ {0} /\ ~Fits(j)
    BY <1>2
  <1>4. PICK m \in Nat : m <= Value(Nines(j)) /\ ~ (Len(Digits(m)) <= j)
    BY <1>3
  <1>. DEFINE i == j - 1
              t == m \div 10
              d == m % 10
  <1>5. i \in Nat /\ j = i + 1 /\ ~ (j <= i)
    BY <1>3
  <1>. HIDE DEF i
  <1>6. Value(Nines(i)) \in Nat /\ Value(Nines(j)) = 10 * Value(Nines(i)) + 9
    BY <1>5, NinesAre
  <1>7. m >= 10
    <2>1. SUFFICES ASSUME m < 10 PROVE FALSE
      OBVIOUS
    <2>2. Digits(m) = <<m>> /\ m \in Digit
      BY <2>1, DigitsIs DEF Digit
    <2>3. Len(Digits(m)) = 1
      BY <2>2, OneDigit
    <2>. QED BY <1>3, <1>4, <2>3
  <1>8. t \in Nat /\ d \in 0 .. 9 /\ m = 10 * t + d /\ t >= 1
    BY <1>7, Tenth DEF Digit
  <1>. HIDE DEF t, d
  <1>9. t <= Value(Nines(i))
    BY <1>4, <1>6, <1>8, NoMoreTenths
  <1>10. Digits(m) = Append(Digits(t), d)
    <2>1. Digits(m) = IF m < 10 THEN <<m>> ELSE Append(Digits(m \div 10), m % 10)
      BY DigitsIs
    <2>2. ~ (m < 10)
      BY <1>7
    <2>. QED BY <2>1, <2>2 DEF t, d
  <1>11. i # 0
    <2>1. Nines(0) = << >>
      BY DEF Nines
    <2>. QED BY <1>8, <1>9, <2>1, ValueNone
  <1>12. Len(Digits(t)) <= i
    <2>1. i \in Nat \ {0} /\ i \notin Bad
      BY <1>2, <1>5, <1>11
    <2>2. Fits(i)
      BY <2>1
    <2>. QED BY <1>8, <1>9, <2>2
  <1>13. Len(Digits(m)) = Len(Digits(t)) + 1 /\ Len(Digits(t)) \in Nat
    <2>1. Digits(t) \in Seq(Digit) /\ d \in Digit
      BY <1>8, WrittenIs DEF Plain, Digit
    <2>. QED BY <1>10, <2>1, AppendProperties, LenProperties
  <1>. QED BY <1>4, <1>5, <1>12, <1>13

\* Digits padded to stand for places behind the point, and one before it.
LEMMA PaddedIs ==
    ASSUME NEW s \in Seq(Digit), NEW d \in Nat
    PROVE  /\ Padded(s, d) \in Seq(Digit) /\ Value(Padded(s, d)) = Value(s)
           /\ Len(s) <= d => Len(Padded(s, d)) = d + 1
           /\ Len(s) > d => Padded(s, d) = s
  <1>. DEFINE k == IF Len(s) <= d THEN d - Len(s) + 1 ELSE 0
  <1>1. Len(s) \in Nat
    BY LenProperties
  <1>2. k \in Nat
    BY <1>1
  <1>3. Padded(s, d) = Zeros(k) \o s
    BY DEF Padded
  <1>4. Len(s) > d => k = 0
    BY <1>1
  <1>5. Len(s) <= d => k + Len(s) = d + 1
    BY <1>1
  <1>. HIDE DEF k
  <1>6. Zeros(k) \in Seq(Digit) /\ Len(Zeros(k)) = k
    BY <1>2, ZerosAre
  <1>7. Zeros(k) \o s \in Seq(Digit) /\ Len(Zeros(k) \o s) = k + Len(s)
    BY <1>6, ConcatProperties
  <1>8. Value(Zeros(k) \o s) = Value(s)
    BY <1>2, ValueZerosBefore
  <1>9. k = 0 => Zeros(k) \o s = s
    <2>1. Zeros(0) = << >>
      BY DEF Zeros
    <2>. QED BY <2>1, ConcatEmptySeq
  <1>. QED BY <1>3, <1>4, <1>5, <1>7, <1>8, <1>9

\* Digits with none before them that says nothing, but for the one that stands before the
\* point, are what the digits of their number are padded to.
LEMMA PaddedBack ==
    ASSUME NEW s \in Seq(Digit), NEW d \in Nat, Len(s) >= d + 1,
           Len(s) = d + 1 \/ s[1] # 0
    PROVE  Padded(Digits(Value(s)), d) = s
  <1>. DEFINE n == Value(s)
              t == Digits(n)
              p == Padded(t, d)
  <1>1. Len(s) \in Nat /\ s # << >>
    BY EmptySeq, LenProperties
  <1>2. n \in Nat
    BY ValueType
  <1>3. t \in Seq(Digit) /\ Value(t) = n /\ Len(t) \in Nat
    BY <1>2, WrittenIs, LenProperties DEF Plain
  <1>4. p \in Seq(Digit) /\ Value(p) = n
    BY <1>3, PaddedIs
  <1>5. Len(p) = Len(s)
    <2>1. CASE Len(s) = d + 1
      <3>1. Len(t) <= Len(s)
        BY <1>1, FewestDigits
      <3>2. Len(t) <= d => Len(p) = d + 1
        BY <1>3, PaddedIs
      <3>3. Len(t) > d => p = t
        BY <1>3, PaddedIs
      <3>4. Len(t) <= d \/ (Len(t) > d /\ Len(t) = d + 1)
        BY <1>1, <1>3, <2>1, <3>1
      <3>. HIDE DEF p, t, n
      <3>. QED BY <2>1, <3>2, <3>3, <3>4
    <2>2. CASE s[1] # 0
      <3>1. Plain(s)
        BY <1>1, <2>2 DEF Plain
      <3>2. t = s
        BY <3>1, PlainIsWritten
      <3>3. Len(s) > d
        BY <1>1
      <3>. QED BY <3>2, <3>3, PaddedIs
    <2>. QED BY <2>1, <2>2
  <1>. HIDE DEF p, n
  <1>6. Value(p) = Value(s)
    BY <1>4 DEF n
  <1>7. p = s
    BY <1>4, <1>5, <1>6, SameDigits
  <1>. QED BY <1>7 DEF p, n

\* The digits up to k end in one that is not zero, and all of s after them are zeros.
Ends(s, k) ==
    /\ k \in 0 .. Len(s)
    /\ k = 0 \/ s[k] # 0
    /\ \A i \in k + 1 .. Len(s) : s[i] = 0

LEMMA EndsSome ==
    ASSUME NEW s \in Seq(Digit)
    PROVE  \E k : Ends(s, k)
  <1>. DEFINE n == Len(s)
              B == {k \in 0 .. n : \A i \in k + 1 .. n : s[i] = 0}
  <1>1. n \in Nat
    BY LenProperties
  <1>. HIDE DEF n
  <1>2. n \in B
    BY <1>1
  <1>3. PICK k \in B : \A j \in B : k <= j
    <2>1. B \in SUBSET Nat
      BY <1>1
    <2>. HIDE DEF B
    <2>. QED BY <1>2, <2>1, LeastIs
  <1>4. k \in 0 .. n /\ k \in Nat /\ \A i \in k + 1 .. n : s[i] = 0
    BY <1>1, <1>3
  <1>5. k = 0 \/ s[k] # 0
    <2>1. SUFFICES ASSUME k # 0, s[k] = 0 PROVE FALSE
      OBVIOUS
    <2>. DEFINE j == k - 1
    <2>2. j \in 0 .. n /\ k = j + 1 /\ ~ (k <= j)
      BY <1>1, <1>4, <2>1
    <2>. HIDE DEF j
    <2>3. ASSUME NEW i \in j + 1 .. n
          PROVE  s[i] = 0
      <3>1. i = k \/ i \in k + 1 .. n
        BY <1>1, <1>4, <2>2
      <3>. QED BY <1>4, <2>1, <3>1
    <2>4. j \in B
      BY <2>2, <2>3
    <2>. QED BY <1>3, <2>2, <2>4
  <1>. QED BY <1>4, <1>5 DEF Ends, n

LEMMA TrimIs ==
    ASSUME NEW s \in Seq(Digit), NEW k, Ends(s, k)
    PROVE  TrimZeros(s) = SubSeq(s, 1, k)
  <1>. DEFINE One(j) == Ends(s, j)
              c == CHOOSE j \in 0 .. Len(s) : (j = 0 \/ s[j] # 0)
                                              /\ \A i \in j + 1 .. Len(s) : s[i] = 0
  <1>1. TrimZeros(s) = SubSeq(s, 1, c)
    BY DEF TrimZeros
  <1>2. Ends(s, c)
    BY DEF Ends
  <1>. HIDE DEF c
  <1>3. Len(s) \in Nat
    BY LenProperties
  <1>4. c = k
    <2>1. c \in 0 .. Len(s) /\ k \in 0 .. Len(s)
      BY <1>2 DEF Ends
    <2>2. ~ (c < k)
      <3>1. SUFFICES ASSUME c < k PROVE FALSE
        OBVIOUS
      <3>2. k \in c + 1 .. Len(s) /\ k # 0
        BY <1>3, <2>1, <3>1
      <3>. QED BY <1>2, <3>2 DEF Ends
    <2>3. ~ (k < c)
      <3>1. SUFFICES ASSUME k < c PROVE FALSE
        OBVIOUS
      <3>2. c \in k + 1 .. Len(s) /\ c # 0
        BY <1>3, <2>1, <3>1
      <3>. QED BY <1>2, <3>2 DEF Ends
    <2>. QED BY <2>1, <2>2, <2>3
  <1>. QED BY <1>1, <1>4

\* What is trimmed off is zeros.
LEMMA TrimFills ==
    ASSUME NEW s \in Seq(Digit)
    PROVE  /\ TrimZeros(s) \in Seq(Digit) /\ Len(TrimZeros(s)) <= Len(s)
           /\ TrimZeros(s) \o Zeros(Len(s) - Len(TrimZeros(s))) = s
  <1>1. PICK k : Ends(s, k)
    BY EndsSome
  <1>2. Len(s) \in Nat /\ k \in 0 .. Len(s) /\ \A i \in k + 1 .. Len(s) : s[i] = 0
    BY <1>1, LenProperties DEF Ends
  <1>. DEFINE t == SubSeq(s, 1, k)
              z == Zeros(Len(s) - k)
              w == t \o z
  <1>3. TrimZeros(s) = t
    BY <1>1, TrimIs
  <1>4. t \in Seq(Digit) /\ Len(t) = k /\ \A i \in 1 .. k : t[i] = s[i]
    <2>1. \A i \in 1 .. k : s[i] \in Digit
      BY <1>2, ElementOfSeq
    <2>2. /\ t \in Seq(Digit) /\ Len(t) = IF 1 <= k THEN k - 1 + 1 ELSE 0
          /\ \A i \in 1 .. k - 1 + 1 : t[i] = s[1 + i - 1]
      BY <1>2, <2>1, SubSeqProperties
    <2>. HIDE DEF t
    <2>. QED BY <1>2, <2>2
  <1>5. z \in Seq(Digit) /\ Len(z) = Len(s) - k /\ \A i \in 1 .. Len(s) - k : z[i] = 0
    <2>1. Len(s) - k \in Nat
      BY <1>2
    <2>. QED BY <2>1, ZerosAre
  <1>. HIDE DEF t, z
  <1>6. /\ w \in Seq(Digit) /\ Len(w) = Len(t) + Len(z)
        /\ \A i \in 1 .. Len(t) + Len(z) : w[i] = IF i <= Len(t) THEN t[i] ELSE z[i - Len(t)]
    BY <1>4, <1>5, ConcatProperties
  <1>. HIDE DEF w
  <1>7. Len(w) = Len(s)
    BY <1>2, <1>4, <1>5, <1>6
  <1>8. ASSUME NEW i \in 1 .. Len(s)
        PROVE  w[i] = s[i]
    <2>1. w[i] = IF i <= k THEN t[i] ELSE z[i - k]
      BY <1>2, <1>4, <1>5, <1>6
    <2>2. CASE i <= k
      <3>1. i \in 1 .. k
        BY <1>2, <2>2
      <3>. QED BY <1>4, <2>1, <2>2, <3>1
    <2>3. CASE i > k
      <3>1. i - k \in 1 .. Len(s) - k /\ i \in k + 1 .. Len(s)
        BY <1>2, <2>3
      <3>2. z[i - k] = 0 /\ s[i] = 0
        BY <1>2, <1>5, <3>1
      <3>3. ~ (i <= k)
        BY <1>2, <2>3
      <3>. QED BY <2>1, <3>2, <3>3
    <2>. QED BY <1>2, <2>2, <2>3
  <1>9. w = s
    BY <1>6, <1>7, <1>8, SeqEqual
  <1>10. Len(t) <= Len(s)
    BY <1>2, <1>4
  <1>. QED BY <1>3, <1>4, <1>9, <1>10 DEF w, z

LEMMA SubSeqSame ==
    ASSUME NEW s, NEW t, NEW k \in Nat, \A i \in 1 .. k : s[i] = t[i]
    PROVE  SubSeq(s, 1, k) = SubSeq(t, 1, k)
  OBVIOUS

\* Zeros after digits are trimmed off.
LEMMA TrimZerosAfter ==
    ASSUME NEW s \in Seq(Digit), NEW j \in Nat
    PROVE  TrimZeros(s \o Zeros(j)) = TrimZeros(s)
  <1>1. PICK k : Ends(s, k)
    BY EndsSome
  <1>2. Len(s) \in Nat /\ k \in 0 .. Len(s) /\ \A i \in k + 1 .. Len(s) : s[i] = 0
    BY <1>1, LenProperties DEF Ends
  <1>. DEFINE z == Zeros(j)
              w == s \o z
  <1>3. z \in Seq(Digit) /\ Len(z) = j /\ \A i \in 1 .. j : z[i] = 0
    BY ZerosAre
  <1>. HIDE DEF z
  <1>4. /\ w \in Seq(Digit) /\ Len(w) = Len(s) + j
        /\ \A i \in 1 .. Len(s) + j : w[i] = IF i <= Len(s) THEN s[i] ELSE z[i - Len(s)]
    BY <1>3, ConcatProperties
  <1>. HIDE DEF w
  <1>5. Ends(w, k)
    <2>1. k \in 0 .. Len(w)
      BY <1>2, <1>4
    <2>2. k = 0 \/ w[k] # 0
      <3>1. SUFFICES ASSUME k # 0 PROVE w[k] # 0
        OBVIOUS
      <3>2. k \in 1 .. Len(s) + j /\ k <= Len(s)
        BY <1>2, <3>1
      <3>. QED BY <1>1, <1>4, <3>1, <3>2 DEF Ends
    <2>3. ASSUME NEW i \in k + 1 .. Len(w)
          PROVE  w[i] = 0
      <3>1. i \in 1 .. Len(s) + j /\ i \in Int
        BY <1>2, <1>4
      <3>2. CASE i <= Len(s)
        <4>1. i \in k + 1 .. Len(s)
          BY <3>1, <3>2
        <4>. QED BY <1>2, <1>4, <3>1, <3>2, <4>1
      <3>3. CASE ~ (i <= Len(s))
        <4>1. i - Len(s) \in 1 .. j
          BY <1>2, <3>1, <3>3
        <4>. QED BY <1>3, <1>4, <3>1, <3>3, <4>1
      <3>. QED BY <3>2, <3>3
    <2>. QED BY <2>1, <2>2, <2>3 DEF Ends
  <1>6. SubSeq(w, 1, k) = SubSeq(s, 1, k)
    <2>1. ASSUME NEW i \in 1 .. k
          PROVE  w[i] = s[i]
      <3>1. i \in 1 .. Len(s) + j /\ i <= Len(s)
        BY <1>2
      <3>. QED BY <1>4, <3>1
    <2>2. k \in Nat
      BY <1>2
    <2>. QED BY <2>1, <2>2, SubSeqSame
  <1>7. TrimZeros(w) = SubSeq(w, 1, k) /\ TrimZeros(s) = SubSeq(s, 1, k)
    BY <1>1, <1>4, <1>5, TrimIs
  <1>. QED BY <1>6, <1>7 DEF w, z

LEMMA WholeCut ==
    ASSUME NEW w \in Seq(Digit)
    PROVE  ~HasPoint(w) /\ Cut(w) = [whole |-> w, fraction |-> << >>]
  <1>1. \A i \in DOMAIN w : w[i] \in 0 .. 9
    BY LenProperties, ElementOfSeq DEF Digit
  <1>2. ~HasPoint(w)
    BY <1>1 DEF HasPoint, Point
  <1>. QED BY <1>2 DEF Cut

\* The first point of a text is the only place Cut can choose.
LEMMA CutAt ==
    ASSUME NEW t \in Seq(Digit \cup {Point, Other}), NEW p \in 1 .. Len(t), t[p] = Point,
           \A j \in 1 .. p - 1 : t[j] # Point
    PROVE  /\ HasPoint(t)
           /\ Cut(t) = [whole |-> SubSeq(t, 1, p - 1), fraction |-> SubSeq(t, p + 1, Len(t))]
  <1>1. DOMAIN t = 1 .. Len(t) /\ Len(t) \in Nat
    BY LenProperties
  <1>. DEFINE First(i) == t[i] = Point /\ \A j \in 1 .. i - 1 : t[j] # Point
              c == CHOOSE i \in DOMAIN t : First(i)
  <1>2. HasPoint(t)
    BY <1>1 DEF HasPoint
  <1>3. Cut(t) = [whole |-> SubSeq(t, 1, c - 1), fraction |-> SubSeq(t, c + 1, Len(t))]
    BY <1>2 DEF Cut
  <1>4. p \in DOMAIN t /\ First(p)
    BY <1>1
  <1>5. c \in DOMAIN t /\ First(c)
    <2>. HIDE DEF First
    <2>. QED BY <1>4
  <1>. HIDE DEF c
  <1>6. c = p
    <2>1. c \in 1 .. Len(t)
      BY <1>1, <1>5
    <2>2. ~ (c < p)
      <3>1. c < p => c \in 1 .. p - 1
        BY <1>1, <2>1
      <3>. QED BY <1>5, <3>1
    <2>3. ~ (p < c)
      <3>1. p < c => p \in 1 .. c - 1
        BY <1>1, <2>1
      <3>. QED BY <1>5, <3>1
    <2>. QED BY <1>1, <2>1, <2>2, <2>3
  <1>. QED BY <1>2, <1>3, <1>6

LEMMA RestIs ==
    ASSUME NEW C, NEW t \in Seq(C), NEW f \in Seq(C), NEW p \in Nat,
           Len(t) = p + Len(f), \A i \in 1 .. Len(f) : t[p + i] = f[i]
    PROVE  SubSeq(t, p + 1, Len(t)) = f
  <1>. DEFINE a == p + 1
              n == Len(t)
              g == SubSeq(t, a, n)
  <1>1. n \in Nat /\ n = p + Len(f) /\ Len(f) \in Nat /\ a \in Nat
    BY LenProperties
  <1>2. \A i \in a .. n : t[i] \in C
    BY ElementOfSeq
  <1>. HIDE DEF a, n
  <1>3. /\ g \in Seq(C) /\ Len(g) = IF a <= n THEN n - a + 1 ELSE 0
        /\ \A i \in 1 .. n - a + 1 : g[i] = t[a + i - 1]
    BY <1>1, <1>2, SubSeqProperties
  <1>. HIDE DEF g
  <1>4. Len(g) = Len(f)
    BY <1>1, <1>3 DEF a
  <1>5. ASSUME NEW i \in 1 .. Len(g)
        PROVE  g[i] = f[i]
    <2>1. n - a + 1 = Len(f) /\ i \in 1 .. Len(f) /\ i \in Int
      BY <1>1, <1>4 DEF a
    <2>2. a + i - 1 = p + i
      BY <2>1 DEF a
    <2>3. g[i] = t[a + i - 1]
      BY <1>3, <2>1
    <2>. QED BY <2>1, <2>2, <2>3
  <1>6. g = f
    BY <1>3, <1>4, <1>5, SeqEqual
  <1>. QED BY <1>6 DEF g, a, n

LEMMA PointCut ==
    ASSUME NEW w \in Seq(Digit), NEW f \in Seq(Digit)
    PROVE  LET t == w \o <<Point>> \o f
           IN Len(t) = Len(w) + 1 + Len(f) /\ Cut(t) = [whole |-> w, fraction |-> f]
  <1>. DEFINE C == Digit \cup {Point, Other}
              v == w \o <<Point>>
              t == v \o f
              p == Len(w) + 1
  <1>1. w \in Seq(C) /\ f \in Seq(C) /\ <<Point>> \in Seq(C) /\ Len(<<Point>>) = 1
        /\ <<Point>>[1] = Point /\ Len(w) \in Nat /\ Len(f) \in Nat
    BY SeqMonotonic, LenProperties
  <1>. HIDE DEF C
  <1>2. /\ v \in Seq(C) /\ Len(v) = Len(w) + 1
        /\ \A i \in 1 .. Len(w) + 1 : v[i] = IF i <= Len(w) THEN w[i] ELSE <<Point>>[i - Len(w)]
    BY <1>1, ConcatProperties
  <1>. HIDE DEF v
  <1>3. /\ t \in Seq(C) /\ Len(t) = Len(v) + Len(f)
        /\ \A i \in 1 .. Len(v) + Len(f) : t[i] = IF i <= Len(v) THEN v[i] ELSE f[i - Len(v)]
    <2>1. v \in Seq(C) /\ f \in Seq(C)
      BY <1>1, <1>2
    <2>. QED BY <2>1, ConcatProperties, Zenon
  <1>. HIDE DEF t
  <1>4. Len(t) = Len(w) + 1 + Len(f)
    BY <1>2, <1>3
  <1>5. p \in 1 .. Len(t) /\ t[p] = Point
    <2>1. p \in 1 .. Len(t) /\ p <= Len(v) /\ p \in 1 .. Len(w) + 1 /\ p - Len(w) = 1
          /\ ~ (p <= Len(w)) /\ p \in 1 .. Len(v) + Len(f)
      BY <1>1, <1>2, <1>4
    <2>. HIDE DEF p
    <2>2. t[p] = v[p]
      BY <1>3, <2>1
    <2>3. v[p] = <<Point>>[1]
      BY <1>2, <2>1
    <2>. QED BY <1>1, <2>1, <2>2, <2>3
  <1>6. \A i \in 1 .. Len(w) : t[i] = w[i]
    <2>. SUFFICES ASSUME NEW i \in 1 .. Len(w) PROVE t[i] = w[i]
      OBVIOUS
    <2>1. i <= Len(v) /\ i \in 1 .. Len(w) + 1 /\ i <= Len(w) /\ i \in 1 .. Len(v) + Len(f)
      BY <1>1, <1>2
    <2>. QED BY <1>2, <1>3, <2>1
  <1>7. \A i \in 1 .. Len(f) : t[p + i] = f[i]
    <2>. SUFFICES ASSUME NEW i \in 1 .. Len(f) PROVE t[p + i] = f[i]
      OBVIOUS
    <2>. DEFINE j == p + i
    <2>1. j \in 1 .. Len(v) + Len(f) /\ ~ (j <= Len(v)) /\ j - Len(v) = i
      BY <1>1, <1>2
    <2>. HIDE DEF j
    <2>2. t[j] = f[j - Len(v)]
      BY <1>3, <2>1
    <2>. QED BY <2>1, <2>2 DEF j
  <1>8. \A j \in 1 .. p - 1 : t[j] # Point
    <2>. SUFFICES ASSUME NEW j \in 1 .. p - 1 PROVE t[j] # Point
      OBVIOUS
    <2>1. j \in 1 .. Len(w)
      BY <1>1
    <2>2. w[j] \in 0 .. 9
      BY <2>1, ElementOfSeq DEF Digit
    <2>. QED BY <1>6, <2>1, <2>2 DEF Point
  <1>9. Cut(t) = [whole |-> SubSeq(t, 1, p - 1), fraction |-> SubSeq(t, p + 1, Len(t))]
    <2>. HIDE DEF p
    <2>. QED BY <1>3, <1>5, <1>8, CutAt DEF C
  <1>10. SubSeq(t, 1, p - 1) = w
    <2>1. SubSeq(t, 1, Len(w)) = SubSeq(w, 1, Len(w))
      BY <1>1, <1>6, SubSeqSame
    <2>2. SubSeq(w, 1, Len(w)) = w
      BY SubSeqFull
    <2>3. p - 1 = Len(w)
      BY <1>1
    <2>. QED BY <2>1, <2>2, <2>3
  <1>11. SubSeq(t, p + 1, Len(t)) = f
    <2>1. p \in Nat /\ Len(t) = p + Len(f)
      BY <1>1, <1>4
    <2>. HIDE DEF p
    <2>. QED BY <1>1, <1>3, <1>7, <2>1, RestIs
  <1>12. Len(t) = Len(w) + 1 + Len(f) /\ Cut(t) = [whole |-> w, fraction |-> f]
    BY <1>4, <1>9, <1>10, <1>11
  <1>. QED BY <1>12 DEF t, v

\* The two sides of a text are texts.
LEMMA SidesAre ==
    ASSUME NEW t \in Seq(Digit \cup {Point, Other})
    PROVE  /\ Cut(t).whole \in Seq(Digit \cup {Point, Other})
           /\ Cut(t).fraction \in Seq(Digit \cup {Point, Other})
           /\ ~HasPoint(t) => Cut(t).fraction = << >>
  <1>. DEFINE C == Digit \cup {Point, Other}
  <1>. HIDE DEF C
  <1>0. t \in Seq(C) /\ Len(t) \in Nat /\ DOMAIN t = 1 .. Len(t)
    BY LenProperties DEF C
  <1>1. CASE HasPoint(t)
    <2>. DEFINE Points == {i \in 1 .. Len(t) : t[i] = Point}
    <2>1. Points \in SUBSET Nat /\ Points # {}
      BY <1>0, <1>1 DEF HasPoint
    <2>. HIDE DEF Points
    <2>2. PICK p \in Points : \A k \in Points : p <= k
      BY <2>1, LeastIs
    <2>3. p \in 1 .. Len(t) /\ t[p] = Point
      BY <2>2 DEF Points
    <2>4. ASSUME NEW j \in 1 .. p - 1
          PROVE  t[j] # Point
      <3>1. j \in 1 .. Len(t) /\ ~ (p <= j)
        BY <1>0, <2>3
      <3>. QED BY <2>2, <3>1 DEF Points
    <2>5. Cut(t) = [whole |-> SubSeq(t, 1, p - 1), fraction |-> SubSeq(t, p + 1, Len(t))]
      BY <2>3, <2>4, CutAt
    <2>6. SubSeq(t, 1, p - 1) \in Seq(C) /\ SubSeq(t, p + 1, Len(t)) \in Seq(C)
      <3>1. \A i \in 1 .. Len(t) : t[i] \in C
        BY <1>0, ElementOfSeq
      <3>2. \A i \in 1 .. p - 1 : t[i] \in C
        BY <1>0, <2>3, <3>1
      <3>3. \A i \in p + 1 .. Len(t) : t[i] \in C
        BY <1>0, <2>3, <3>1
      <3>. QED BY <1>0, <2>3, <3>2, <3>3, SubSeqProperties
    <2>. QED BY <1>1, <2>5, <2>6 DEF C
  <1>2. CASE ~HasPoint(t)
    <2>1. Cut(t) = [whole |-> t, fraction |-> << >>]
      BY <1>2 DEF Cut
    <2>2. << >> \in Seq(C)
      BY EmptySeq
    <2>. QED BY <1>0, <2>1, <2>2 DEF C
  <1>. QED BY <1>1, <1>2

LEMMA DigitsAre ==
    ASSUME NEW s \in Seq(Digit \cup {Point, Other}), IsDigits(s)
    PROVE  s \in Seq(Digit) /\ s # << >>
  <1>1. Len(s) \in Nat /\ s \in [1 .. Len(s) -> Digit \cup {Point, Other}]
        /\ DOMAIN s = 1 .. Len(s) /\ s # << >> /\ \A i \in DOMAIN s : s[i] \in Digit
    BY LenProperties DEF IsDigits
  <1>2. s \in [1 .. Len(s) -> Digit]
    BY <1>1
  <1>. QED BY <1>1, <1>2, SeqDef

\* What stands before and behind the point of a text that is taken for an amount.
LEMMA PartsAre ==
    ASSUME NEW t \in Seq(Digit \cup {Point, Other}), NEW d \in Nat, ParsesUnits(t, d)
    PROVE  LET parts == Cut(t)
           IN /\ parts.whole \in Seq(Digit) /\ parts.whole # << >> /\ parts.fraction \in Seq(Digit)
              /\ Len(parts.fraction) <= d
  <1>1. /\ IsDigits(Cut(t).whole) /\ (HasPoint(t) => IsDigits(Cut(t).fraction))
        /\ Len(Cut(t).fraction) <= d
    BY DEF ParsesUnits, SplitsUnits
  <1>2. Cut(t).fraction \in Seq(Digit)
    <2>1. CASE HasPoint(t)
      BY <1>1, <2>1, SidesAre, DigitsAre
    <2>2. CASE ~HasPoint(t)
      BY <2>2, SidesAre, EmptySeq
    <2>. QED BY <2>1, <2>2
  <1>. QED BY <1>1, <1>2, SidesAre, DigitsAre

LEMMA JoinThree == \A s, t, u \in Seq(Digit) : (s \o t) \o u = s \o (t \o u)
  BY ConcatAssociative

\* Digits in two parts.
LEMMA SplitAt ==
    ASSUME NEW s \in Seq(Digit), NEW k \in 1 .. Len(s)
    PROVE  /\ SubSeq(s, 1, k) \in Seq(Digit) /\ Len(SubSeq(s, 1, k)) = k
           /\ SubSeq(s, k + 1, Len(s)) \in Seq(Digit)
           /\ Len(SubSeq(s, k + 1, Len(s))) = Len(s) - k
           /\ SubSeq(s, 1, k) \o SubSeq(s, k + 1, Len(s)) = s
  <1>1. Len(s) \in Nat /\ k \in Nat /\ k <= Len(s) /\ 1 <= k
    BY LenProperties
  <1>. DEFINE n == Len(s)
              a == k + 1
  <1>2. \A i \in 1 .. n : s[i] \in Digit
    BY ElementOfSeq
  <1>3. (\A i \in 1 .. k : s[i] \in Digit) /\ (\A i \in a .. n : s[i] \in Digit)
    BY <1>1, <1>2
  <1>4. SubSeq(s, 1, k) \in Seq(Digit) /\ Len(SubSeq(s, 1, k)) = k
    BY <1>1, <1>3, SubSeqProperties
  <1>5. SubSeq(s, a, n) \in Seq(Digit) /\ Len(SubSeq(s, a, n)) = n - k
    <2>1. a \in Int /\ n \in Int
      BY <1>1
    <2>. HIDE DEF a, n
    <2>2. SubSeq(s, a, n) \in Seq(Digit) /\ Len(SubSeq(s, a, n)) = IF a <= n THEN n - a + 1 ELSE 0
      BY <1>3, <2>1, SubSeqProperties
    <2>. QED BY <1>1, <2>2 DEF a, n
  <1>6. SubSeq(s, 1, k) \o SubSeq(s, k + 1, n) = SubSeq(s, 1, n)
    <2>1. 1 \in 1 .. Len(s) + 1 /\ k \in 1 - 1 .. Len(s) /\ n \in k .. Len(s)
      BY <1>1
    <2>. QED BY <2>1, ConcatAdjacentSubSeq
  <1>. QED BY <1>4, <1>5, <1>6, SubSeqFull

\* An amount there are digits for is written so that it reads back.
LEMMA UnitsRead ==
    ASSUME NEW d \in 0 .. MaxAmountDigits - 1, NEW n \in 0 .. Greatest
    PROVE  ParsesUnits(Units(n, d), d) /\ ParseUnits(Units(n, d), d) = n
  <1>. DEFINE M == MaxAmountDigits
              s == Digits(n)
              p == Padded(s, d)
              l == Len(p) - d
              w == SubSeq(p, 1, l)
              b == SubSeq(p, l + 1, Len(p))
              f == TrimZeros(b)
              t == IF f = << >> THEN w ELSE w \o <<Point>> \o f
  <1>0. M \in Nat \ {0} /\ d \in Nat /\ d + 1 <= M
    BY MoneyAssumption
  <1>1. n \in Nat /\ n <= Value(Nines(M))
    <2>1. Greatest = Value(Nines(M))
      BY DEF Greatest, Nines
    <2>2. Value(Nines(M)) \in Nat
      BY <1>0, NinesAre
    <2>. QED BY <2>1, <2>2
  <1>2. s \in Seq(Digit) /\ Value(s) = n /\ Len(s) <= M /\ Len(s) \in Nat
    BY <1>0, <1>1, WrittenIs, DigitsFit, LenProperties DEF Plain
  <1>3. p \in Seq(Digit) /\ Value(p) = n /\ Len(p) \in Nat /\ d + 1 <= Len(p) /\ Len(p) <= M
    <2>1. p \in Seq(Digit) /\ Value(p) = n
      BY <1>0, <1>2, PaddedIs
    <2>2. Len(s) <= d => Len(p) = d + 1
      BY <1>0, <1>2, PaddedIs
    <2>3. Len(s) > d => p = s
      BY <1>0, <1>2, PaddedIs
    <2>4. CASE Len(s) <= d
      BY <1>0, <2>1, <2>2, <2>4
    <2>5. CASE Len(s) > d
      <3>1. Len(p) = Len(s)
        BY <2>3, <2>5
      <3>. HIDE DEF p, s
      <3>. QED BY <1>0, <1>2, <2>1, <2>5, <3>1
    <2>. QED BY <1>0, <1>2, <2>4, <2>5
  <1>4. Units(n, d) = t
    <2>1. l + 1 = Len(p) - d + 1
      BY <1>0, <1>3
    <2>. HIDE DEF p
    <2>. QED BY <2>1 DEF Units, p
  <1>. HIDE DEF s, p
  <1>5. l \in 1 .. Len(p) /\ Len(p) - l = d
    BY <1>0, <1>3
  <1>. HIDE DEF l
  <1>6. /\ w \in Seq(Digit) /\ Len(w) = l /\ w # << >>
        /\ b \in Seq(Digit) /\ Len(b) = d /\ w \o b = p
    <2>1. /\ w \in Seq(Digit) /\ Len(w) = l
          /\ b \in Seq(Digit) /\ Len(b) = Len(p) - l /\ w \o b = p
      BY <1>3, <1>5, SplitAt
    <2>. HIDE DEF w, b
    <2>2. w # << >>
      <3>1. Len(w) # 0
        BY <1>5, <2>1
      <3>. QED BY <3>1, EmptySeq
    <2>. QED BY <1>5, <2>1, <2>2
  <1>. HIDE DEF w, b
  <1>7. f \in Seq(Digit) /\ Len(f) <= d /\ Len(f) \in Nat /\ f \o Zeros(d - Len(f)) = b
    BY <1>6, TrimFills, LenProperties
  <1>. HIDE DEF f
  <1>8. Cut(t) = [whole |-> w, fraction |-> f]
    BY <1>6, <1>7, WholeCut, PointCut
  <1>9. Len(t) <= M + 1 /\ l + d = Len(p)
    <2>1. Len(t) = l \/ Len(t) = l + 1 + Len(f)
      BY <1>6, <1>7, PointCut
    <2>. HIDE DEF t
    <2>. QED BY <1>0, <1>3, <1>5, <1>7, <2>1
  <1>10. IsDigits(w) /\ (HasPoint(t) => IsDigits(f))
    <2>1. ASSUME NEW x \in Seq(Digit), x # << >>
          PROVE  IsDigits(x)
      BY <2>1, LenProperties, ElementOfSeq DEF IsDigits
    <2>2. f = << >> => ~HasPoint(t)
      BY <1>6, WholeCut
    <2>. HIDE DEF t
    <2>. QED BY <1>6, <1>7, <2>1, <2>2
  <1>. HIDE DEF t
  <1>11. ParsesUnits(t, d)
    <2>1. Cut(t).whole = w /\ Cut(t).fraction = f
      BY <1>8
    <2>2. SplitsUnits(t)
      BY <1>9, <1>10, <2>1 DEF SplitsUnits
    <2>3. l + d <= M
      BY <1>3, <1>9
    <2>. QED BY <1>6, <1>7, <2>1, <2>2, <2>3 DEF ParsesUnits
  <1>12. ParseUnits(t, d) = n
    <2>1. ParseUnits(t, d) = Value(w \o f \o Zeros(d - Len(f)))
      BY <1>8 DEF ParseUnits
    <2>2. Zeros(d - Len(f)) \in Seq(Digit)
      <3>1. d - Len(f) \in Nat
        BY <1>0, <1>7
      <3>. QED BY <3>1, ZerosAre
    <2>3. w \o f \o Zeros(d - Len(f)) = w \o (f \o Zeros(d - Len(f)))
      <3>. DEFINE z == Zeros(d - Len(f))
      <3>1. w \in Seq(Digit) /\ f \in Seq(Digit) /\ z \in Seq(Digit)
        BY <1>6, <1>7, <2>2
      <3>. HIDE DEF z
      <3>2. w \o f \o z = w \o (f \o z)
        BY <3>1, JoinThree, Zenon
      <3>. QED BY <3>2 DEF z
    <2>. QED BY <1>3, <1>6, <1>7, <2>1, <2>3
  <1>. QED BY <1>4, <1>11, <1>12

\* Digits with zeros before the place k are those zeros and what is from there on.
LEMMA ZerosBefore ==
    ASSUME NEW s \in Seq(Digit), NEW k \in 1 .. Len(s), \A i \in 1 .. k - 1 : s[i] = 0
    PROVE  LET r == SubSeq(s, k, Len(s))
           IN /\ r \in Seq(Digit) /\ Len(r) = Len(s) - k + 1 /\ r[1] = s[k]
              /\ s = Zeros(k - 1) \o r
  <1>. DEFINE n == Len(s)
              r == SubSeq(s, k, n)
              z == Zeros(k - 1)
  <1>1. n \in Nat /\ k \in 1 .. n /\ k - 1 \in Nat /\ k \in Int /\ n \in Int
    BY LenProperties
  <1>2. \A i \in k .. n : s[i] \in Digit
    BY <1>1, ElementOfSeq
  <1>. HIDE DEF n
  <1>3. /\ r \in Seq(Digit) /\ Len(r) = IF k <= n THEN n - k + 1 ELSE 0
        /\ \A i \in 1 .. n - k + 1 : r[i] = s[k + i - 1]
    BY <1>1, <1>2, SubSeqProperties
  <1>4. z \in Seq(Digit) /\ Len(z) = k - 1 /\ \A i \in 1 .. k - 1 : z[i] = 0
    BY <1>1, ZerosAre
  <1>. HIDE DEF r, z
  <1>. DEFINE w == z \o r
  <1>5. /\ w \in Seq(Digit) /\ Len(w) = Len(z) + Len(r)
        /\ \A i \in 1 .. Len(z) + Len(r) : w[i] = IF i <= Len(z) THEN z[i] ELSE r[i - Len(z)]
    BY <1>3, <1>4, ConcatProperties
  <1>. HIDE DEF w
  <1>6. Len(r) = n - k + 1 /\ Len(w) = n
    BY <1>1, <1>3, <1>4, <1>5
  <1>7. ASSUME NEW i \in 1 .. n
        PROVE  s[i] = w[i]
    <2>1. CASE i <= k - 1
      <3>1. i \in 1 .. k - 1 /\ i \in 1 .. Len(z) + Len(r) /\ i <= Len(z)
        BY <1>1, <1>4, <1>6, <2>1
      <3>. QED BY <1>4, <1>5, <3>1
    <2>2. CASE ~ (i <= k - 1)
      <3>. DEFINE j == i - (k - 1)
      <3>1. /\ j \in 1 .. n - k + 1 /\ k + j - 1 = i /\ i \in 1 .. Len(z) + Len(r)
            /\ ~ (i <= Len(z)) /\ i - Len(z) = j
        BY <1>1, <1>4, <1>6, <2>2
      <3>. HIDE DEF j
      <3>2. w[i] = r[j]
        BY <1>5, <3>1
      <3>3. r[j] = s[k + j - 1]
        BY <1>3, <3>1
      <3>. QED BY <3>1, <3>2, <3>3
    <2>. QED BY <2>1, <2>2
  <1>8. s = w
    BY <1>1, <1>5, <1>6, <1>7, SeqEqual DEF n
  <1>9. r[1] = s[k]
    <2>1. 1 \in 1 .. n - k + 1 /\ k + 1 - 1 = k
      BY <1>1
    <2>. QED BY <1>3, <2>1
  <1>. QED BY <1>3, <1>6, <1>8, <1>9 DEF w, z, r, n

\* Where the digits before the point begin to say something.
Begins(s, k) ==
    /\ k \in 1 .. Len(s)
    /\ k = Len(s) \/ s[k] # 0
    /\ \A i \in 1 .. k - 1 : s[i] = 0

LEMMA BeginsSome ==
    ASSUME NEW s \in Seq(Digit), s # << >>
    PROVE  \E k : Begins(s, k)
  <1>. DEFINE n == Len(s)
              B == {k \in 1 .. n : k = n \/ s[k] # 0}
  <1>1. n \in Nat \ {0}
    BY EmptySeq
  <1>. HIDE DEF n
  <1>2. n \in B
    BY <1>1
  <1>3. PICK k \in B : \A j \in B : k <= j
    <2>1. B \in SUBSET Nat
      BY <1>1
    <2>. HIDE DEF B
    <2>. QED BY <1>2, <2>1, LeastIs
  <1>4. k \in 1 .. n /\ (k = n \/ s[k] # 0)
    BY <1>3
  <1>5. ASSUME NEW i \in 1 .. k - 1
        PROVE  s[i] = 0
    <2>1. i \in 1 .. n /\ ~ (k <= i)
      BY <1>1, <1>4
    <2>2. i \notin B
      BY <1>3, <2>1
    <2>. QED BY <2>1, <2>2
  <1>. QED BY <1>4, <1>5 DEF Begins, n

\* A text that is taken for an amount is written back as it was but for zeros at either end.
LEMMA SpellingBack ==
    ASSUME NEW d \in Nat, NEW t \in Seq(Digit \cup {Point, Other}), ParsesUnits(t, d)
    PROVE  Units(ParseUnits(t, d), d) = Spelling(t)
  <1>. DEFINE w == Cut(t).whole
              f == Cut(t).fraction
              z == Zeros(d - Len(f))
              c == CHOOSE k \in 1 .. Len(w) :
                       (k = Len(w) \/ w[k] # 0) /\ \A i \in 1 .. k - 1 : w[i] = 0
              r == SubSeq(w, c, Len(w))
              b == f \o z
              q == r \o b
              n == ParseUnits(t, d)
              l == Len(q) - d
  <1>1. w \in Seq(Digit) /\ w # << >> /\ f \in Seq(Digit) /\ Len(f) <= d /\ Len(f) \in Nat
    BY PartsAre, LenProperties
  <1>2. n = Value(w \o f \o z)
    BY DEF ParseUnits
  <1>3. Spelling(t) = IF TrimZeros(f) = << >> THEN r ELSE r \o <<Point>> \o TrimZeros(f)
    BY DEF Spelling
  <1>. HIDE DEF w, f, n
  <1>4. z \in Seq(Digit) /\ Len(z) = d - Len(f) /\ d - Len(f) \in Nat
    <2>1. d - Len(f) \in Nat
      BY <1>1
    <2>. QED BY <2>1, ZerosAre
  <1>. HIDE DEF z
  <1>5. Begins(w, c)
    <2>1. \E k : Begins(w, k)
      BY <1>1, BeginsSome
    <2>. QED BY <2>1 DEF Begins
  <1>. HIDE DEF c
  <1>6. Len(w) \in Nat /\ c \in 1 .. Len(w) /\ c - 1 \in Nat
    BY <1>1, <1>5, LenProperties DEF Begins
  <1>7. /\ r \in Seq(Digit) /\ Len(r) = Len(w) - c + 1 /\ r[1] = w[c]
        /\ w = Zeros(c - 1) \o r
    BY <1>1, <1>5, ZerosBefore DEF Begins
  <1>. HIDE DEF r
  <1>8. b \in Seq(Digit) /\ Len(b) = d
    <2>1. b \in Seq(Digit) /\ Len(b) = Len(f) + Len(z)
      BY <1>1, <1>4, ConcatProperties
    <2>. HIDE DEF b
    <2>. QED BY <1>1, <1>4, <2>1
  <1>. HIDE DEF b
  <1>9. /\ q \in Seq(Digit) /\ Len(q) = Len(r) + d
        /\ \A i \in 1 .. Len(r) + d : q[i] = IF i <= Len(r) THEN r[i] ELSE b[i - Len(r)]
    BY <1>7, <1>8, ConcatProperties
  <1>. HIDE DEF q
  <1>10. n = Value(q)
    <2>1. w \o f \o z = w \o b
      BY <1>1, <1>4, JoinThree, Zenon DEF b
    <2>2. Zeros(c - 1) \in Seq(Digit)
      BY <1>6, ZerosAre
    <2>3. w \o b = Zeros(c - 1) \o q
      <3>. DEFINE y == Zeros(c - 1)
      <3>1. r \in Seq(Digit) /\ b \in Seq(Digit) /\ y \in Seq(Digit) /\ w = y \o r
        BY <1>7, <1>8, <2>2
      <3>. HIDE DEF y
      <3>2. (y \o r) \o b = y \o (r \o b)
        BY <3>1, JoinThree, Zenon
      <3>. QED BY <3>1, <3>2 DEF y, q
    <2>. QED BY <1>2, <1>6, <1>9, <2>1, <2>3, ValueZerosBefore
  <1>11. Len(q) >= d + 1 /\ (Len(q) = d + 1 \/ q[1] # 0)
    <2>1. Len(r) >= 1 /\ Len(r) \in Nat
      BY <1>6, <1>7
    <2>2. q[1] = w[c]
      <3>1. 1 \in 1 .. Len(r) + d /\ 1 <= Len(r)
        BY <2>1
      <3>. QED BY <1>7, <1>9, <3>1
    <2>3. c = Len(w) => Len(q) = d + 1
      <3>1. Len(r) = Len(w) - c + 1 /\ Len(q) = Len(r) + d
        BY <1>7, <1>9
      <3>. QED BY <1>6, <3>1
    <2>. QED BY <1>5, <1>9, <2>1, <2>2, <2>3 DEF Begins
  <1>12. Padded(Digits(n), d) = q
    BY <1>9, <1>10, <1>11, PaddedBack
  <1>13. SubSeq(q, 1, Len(q) - d) = r /\ SubSeq(q, Len(q) - d + 1, Len(q)) = b
    <2>1. Len(r) \in Nat /\ Len(q) - d = Len(r) /\ Len(q) = Len(r) + Len(b)
      <3>1. Len(r) \in Nat
        BY <1>7, LenProperties
      <3>2. Len(q) = Len(r) + d /\ Len(b) = d
        BY <1>8, <1>9
      <3>. QED BY <3>1, <3>2
    <2>2. SubSeq(q, 1, Len(r)) = r
      <3>1. \A i \in 1 .. Len(r) : q[i] = r[i]
        BY <1>9, <2>1
      <3>. QED BY <1>7, <2>1, <3>1, SubSeqSame, SubSeqFull
    <2>3. SubSeq(q, Len(r) + 1, Len(q)) = b
      <3>1. ASSUME NEW i \in 1 .. Len(b)
            PROVE  q[Len(r) + i] = b[i]
        <4>. DEFINE j == Len(r) + i
        <4>1. j \in 1 .. Len(r) + d /\ ~ (j <= Len(r)) /\ j - Len(r) = i
          BY <1>8, <2>1
        <4>. HIDE DEF j
        <4>2. q[j] = b[j - Len(r)]
          BY <1>9, <4>1
        <4>. QED BY <4>1, <4>2 DEF j
      <3>. QED BY <1>8, <1>9, <2>1, <3>1, RestIs
    <2>. QED BY <2>1, <2>2, <2>3
  <1>14. TrimZeros(b) = TrimZeros(f)
    BY <1>1, <1>4, TrimZerosAfter DEF b, z
  <1>15. Units(n, d) = IF TrimZeros(b) = << >> THEN r ELSE r \o <<Point>> \o TrimZeros(b)
    BY <1>12, <1>13 DEF Units
  <1>. QED BY <1>3, <1>14, <1>15 DEF n

\* Of any amount there are digits for and any text a body can hold, in any decimals.
THEOREM AmountsRead == UnitsReadBack
  <1>1. ASSUME NEW d \in 0 .. MaxAmountDigits - 1, NEW t \in Texts, ParsesUnits(t, d)
        PROVE  Units(ParseUnits(t, d), d) = Spelling(t)
    <2>1. d \in Nat /\ t \in Seq(Digit \cup {Point, Other})
      BY MoneyAssumption
    <2>. QED BY <1>1, <2>1, SpellingBack
  <1>. QED BY <1>1, UnitsRead DEF UnitsReadBack

\* The amount of a text that is taken for one is a number.
LEMMA AmountIs ==
    ASSUME NEW text \in Seq(Digit \cup {Point, Other}), NEW d \in Nat, ParsesUnits(text, d)
    PROVE  ParseUnits(text, d) \in Nat
  <1>. DEFINE w == Cut(text).whole
              f == Cut(text).fraction
              z == Zeros(d - Len(f))
  <1>1. w \in Seq(Digit) /\ f \in Seq(Digit) /\ Len(f) <= d /\ Len(f) \in Nat
    BY PartsAre, LenProperties
  <1>2. ParseUnits(text, d) = Value(w \o f \o z)
    BY DEF ParseUnits
  <1>. HIDE DEF w, f
  <1>3. z \in Seq(Digit)
    <2>1. d - Len(f) \in Nat
      BY <1>1
    <2>. QED BY <2>1, ZerosAre
  <1>. HIDE DEF z
  <1>4. w \o f \o z \in Seq(Digit)
    BY <1>1, <1>3, ConcatProperties
  <1>. QED BY <1>2, <1>4, ValueType

(***************************************************************************)
(* What requests and rows are.                                             *)
(***************************************************************************)
Asking == [at : Calls, cred : Credentials, key : Keys \cup {NoKey}, body : Bodies,
           id : 0 .. MaxPayments, stamp : 0 .. Horizon, destination : Destinations \cup {Nothing},
           expires : Nat]

\* The rows of payments ps that account a opened under key k.
Of(ps, a, k) == {i \in 1 .. Len(ps) : ps[i].account = a /\ ps[i].key = k}

\* What a request r has passed: it is of an account, what it is about to insert is of
\* something and paid to that account, and a key it found used is one ps has a row of.
PassedSo(r, ps) ==
    /\ r.at # "use" => Account(r) \in Accounts
    /\ r.at \in {"destination", "insert", "key"} => r.id = 0
    /\ r.at = "find" => r.id # 0
    /\ r.at \in {"insert", "key"} =>
          /\ Readable(r.body) /\ Amount(r.body) # 0
          /\ r.destination \in Destinations /\ Owner[r.destination] = Account(r)
    /\ r.at = "key" => r.key # NoKey /\ Of(ps, Account(r), r.key) # {}

Requested(r, ps) == r = Idle \/ (r \in Asking /\ PassedSo(r, ps))

\* The operator accepts an asset only at an address of the account.
AcceptedSo(table) ==
    \A a \in Accounts, s \in Assets : table[<<a, s>>] # Nothing => Owner[table[<<a, s>>]] = a

\* The rows ps are ones that read back, each of the amount its body names, and a key is of
\* one of them.
RowsKeep(ps) ==
    /\ \A i \in 1 .. Len(ps) : /\ ps[i].expires > ps[i].created
                               /\ ps[i].amount # 0
                               /\ Owner[ps[i].destination] = ps[i].account
                               /\ Readable(ps[i].body) /\ ps[i].amount = Amount(ps[i].body)
    /\ \A i, j \in 1 .. Len(ps) :
          ps[i].account = ps[j].account /\ ps[i].key = ps[j].key /\ ps[i].key # NoKey => i = j

ToldSo(t, ps) == t = Silence \/ (t.word \in Answers /\ t.payment \in 0 .. Len(ps))

Inv ==
    /\ now \in 0 .. Horizon
    /\ credential \in [Credentials -> States]
    /\ access \in [Credentials -> {"read", "write"}]
    /\ lastUsed \in [Credentials -> -1 .. Horizon]
    /\ accepted \in [Accounts \X Assets -> Destinations \cup {Nothing}]
    /\ AcceptedSo(accepted)
    /\ payments \in Seq(Payment) /\ Len(payments) <= MaxPayments
    /\ RowsKeep(payments)
    /\ DOMAIN request = Clients
    /\ \A cl \in Clients : Requested(request[cl], payments)
    /\ ToldSo(told, payments)

LEMMA OpeningHoldsRows ==
    ASSUME Inv
    PROVE  RowsHold /\ OneKeyOnePayment
  <1>1. TypeOK
    BY DEF Inv, Requested, Asking, ToldSo, TypeOK
  <1>2. RowsRestore /\ PaidToItsAccount
    BY DEF Inv, RowsKeep, RowsRestore, PaidToItsAccount
  <1>3. OneKeyOnePayment
    BY OpeningAssumptions DEF Inv, RowsKeep, OneKeyOnePayment, Under
  <1>. QED BY <1>1, <1>2, <1>3 DEF RowsHold

\* What a column keeps of a time is a time, and no later.
LEMMA ColumnIs ==
    ASSUME NEW t \in Nat
    PROVE  Column(t) \in 0 .. t
  <1>1. Unit \in Nat \ {0}
    BY OpeningAssumptions
  <1>2. t % Unit \in 0 .. Unit - 1
    BY <1>1
  <1>3. CASE t < Unit
    <2>1. t % Unit = t
      BY <1>1, <1>3
    <2>. QED BY <2>1 DEF Column
  <1>4. CASE t >= Unit
    BY <1>1, <1>2, <1>4 DEF Column
  <1>. QED BY <1>1, <1>3, <1>4

(***************************************************************************)
(* What a step makes of a request.                                         *)
(***************************************************************************)
\* The request of cl becomes one that is in order over rows ps, and so is what is answered.
Moves(cl, ps) ==
    /\ \E s : Requested(s, ps) /\ request' = [request EXCEPT ![cl] = s]
    /\ ToldSo(told', ps)

LEMMA IdleIs ==
    ASSUME NEW r \in Asking
    PROVE  r # Idle
  <1>1. r.at # "idle"
    BY DEF Asking, Calls
  <1>. QED BY <1>1 DEF Idle

LEMMA Becoming ==
    ASSUME NEW cl, NEW s, NEW ps, Becomes(cl, s), s \in Asking, PassedSo(s, ps)
    PROVE  Moves(cl, ps)
  BY DEF Becomes, Moves, Requested, ToldSo

LEMMA Saying ==
    ASSUME NEW cl, NEW ps, NEW word \in Answers, NEW i \in 0 .. Len(ps), Says(cl, word, i)
    PROVE  Moves(cl, ps)
  <1>1. told'.word = word /\ told'.payment = i
    BY DEF Says
  <1>2. request' = [request EXCEPT ![cl] = Idle]
    BY DEF Says
  <1>. QED BY <1>1, <1>2 DEF Moves, Requested, ToldSo

LEMMA Refusing ==
    ASSUME NEW cl, NEW ps \in Seq(Payment), NEW word \in Answers, Refuses(cl, word)
    PROVE  Moves(cl, ps)
  <1>1. 0 \in 0 .. Len(ps)
    OBVIOUS
  <1>. QED BY <1>1, Saying DEF Refuses

LEMMA Admitting ==
    ASSUME NEW cl, NEW ps \in Seq(Payment), NEW r \in Asking, Admitted(cl, r)
    PROVE  Moves(cl, ps)
  <1>1. CASE ~Admits(r)
    <2>1. Refuses(cl, "forbidden") /\ "forbidden" \in Answers
      BY <1>1 DEF Admitted, Answers
    <2>. QED BY <2>1, Refusing
  <1>2. CASE Admits(r)
    <2>. DEFINE call == IF r.id = 0 THEN "destination" ELSE "find"
                s == [r EXCEPT !.at = call, !.stamp = 0]
    <2>1. Becomes(cl, s)
      BY <1>2 DEF Admitted
    <2>2. call \in Calls /\ 0 \in 0 .. Horizon
      BY OpeningAssumptions DEF Calls
    <2>3. call = IF r.id = 0 THEN "destination" ELSE "find"
      OBVIOUS
    <2>. HIDE DEF call
    <2>4. s \in Asking /\ s.at = call /\ s.id = r.id /\ s.cred = r.cred
      BY <2>2 DEF Asking
    <2>5. Account(s) \in Accounts
      BY <1>2, <2>4, OpeningAssumptions DEF Admits, Account, Asking
    <2>6. PassedSo(s, ps)
      BY <2>3, <2>4, <2>5 DEF PassedSo
    <2>. HIDE DEF s
    <2>. QED BY <2>1, <2>4, <2>6, Becoming
  <1>. QED BY <1>1, <1>2

LEMMA RequestIs ==
    ASSUME NEW c \in Credentials, NEW k \in Keys \cup {NoKey}, NEW b \in Bodies,
           NEW i \in 0 .. MaxPayments
    PROVE  Request(c, k, b, i) \in Asking /\ Request(c, k, b, i).at = "use"
  <1>1. "use" \in Calls /\ 0 \in 0 .. Horizon /\ 0 \in Nat
    BY OpeningAssumptions DEF Calls
  <1>. QED BY <1>1 DEF Request, Asking

LEMMA FindByTokenMoves ==
    ASSUME Inv, NEW cl \in Clients, NEW r \in Asking, r.at = "use",
           FindByToken(cl, r)
    PROVE  Moves(cl, payments)
  <1>0. payments \in Seq(Payment) /\ now \in 0 .. Horizon
    BY DEF Inv
  <1>1. CASE Refuses(cl, "unauthorized")
    BY <1>0, <1>1, Refusing DEF Answers
  <1>2. CASE Admitted(cl, r)
    BY <1>0, <1>2, Admitting
  <1>3. CASE Becomes(cl, [r EXCEPT !.stamp = now])
    <2>. DEFINE s == [r EXCEPT !.stamp = now]
    <2>1. s \in Asking /\ s.at = "use"
      BY <1>0 DEF Asking
    <2>. HIDE DEF s
    <2>2. PassedSo(s, payments)
      BY <2>1 DEF PassedSo
    <2>. QED BY <1>3, <2>1, <2>2, Becoming DEF s
  <1>. QED BY <1>1, <1>2, <1>3 DEF FindByToken

LEMMA AsksMoves ==
    ASSUME Inv, NEW cl \in Clients, Asks(cl)
    PROVE  Moves(cl, payments) /\ Quiet
  <1>1. 0 \in 0 .. MaxPayments /\ NoKey \in Keys \cup {NoKey}
        /\ \A i \in 1 .. MaxPayments : i \in 0 .. MaxPayments
    BY OpeningAssumptions
  <1>2. (CHOOSE b \in Bodies : TRUE) \in Bodies
    BY OpeningAssumptions
  <1>3. PICK c \in Credentials :
           \/ \E s \in Sent : FindByToken(cl, Request(c, s[1], s[2], 0))
           \/ \E i \in 1 .. MaxPayments :
                  FindByToken(cl, Request(c, NoKey, CHOOSE b \in Bodies : TRUE, i))
    BY DEF Asks
  <1>4. CASE \E s \in Sent : FindByToken(cl, Request(c, s[1], s[2], 0))
    <2>1. PICK s \in Sent : FindByToken(cl, Request(c, s[1], s[2], 0))
      BY <1>4
    <2>2. s[1] \in Keys \cup {NoKey} /\ s[2] \in Bodies
      BY OpeningAssumptions
    <2>3. Request(c, s[1], s[2], 0) \in Asking /\ Request(c, s[1], s[2], 0).at = "use"
      BY <1>1, <2>2, RequestIs
    <2>. QED BY <2>1, <2>3, FindByTokenMoves DEF FindByToken
  <1>5. CASE \E i \in 1 .. MaxPayments :
                FindByToken(cl, Request(c, NoKey, CHOOSE b \in Bodies : TRUE, i))
    <2>1. PICK i \in 1 .. MaxPayments :
             FindByToken(cl, Request(c, NoKey, CHOOSE b \in Bodies : TRUE, i))
      BY <1>5
    <2>. DEFINE r == Request(c, NoKey, CHOOSE b \in Bodies : TRUE, i)
    <2>2. r \in Asking /\ r.at = "use"
      BY <1>1, <1>2, RequestIs
    <2>3. FindByToken(cl, r)
      BY <2>1
    <2>. HIDE DEF r
    <2>. QED BY <2>2, <2>3, FindByTokenMoves DEF FindByToken
  <1>. QED BY <1>3, <1>4, <1>5

\* A request that is being served is in order.
LEMMA ServedIs ==
    ASSUME Inv, NEW cl \in Clients, request[cl].at \in Calls
    PROVE  request[cl] \in Asking /\ PassedSo(request[cl], payments)
  <1>1. request[cl] # Idle
    <2>1. Idle.at = "idle" /\ "idle" \notin Calls
      BY DEF Idle, Calls
    <2>. QED BY <2>1
  <1>. QED BY <1>1 DEF Inv, Requested

LEMMA UseMoves ==
    ASSUME Inv, NEW cl \in Clients, RecordUse(cl) \/ Unrecorded(cl)
    PROVE  /\ Moves(cl, payments) /\ UNCHANGED <<now, credential, access, accepted, payments>>
           /\ lastUsed' \in [Credentials -> -1 .. Horizon]
  <1>. DEFINE r == request[cl]
  <1>1. r.at = "use" /\ Admitted(cl, r)
    BY DEF RecordUse, Unrecorded, At
  <1>2. r \in Asking
    BY <1>1, ServedIs DEF Calls
  <1>3. lastUsed \in [Credentials -> -1 .. Horizon] /\ payments \in Seq(Payment)
    BY DEF Inv
  <1>4. Column(r.stamp) \in -1 .. Horizon
    <2>1. r.stamp \in 0 .. Horizon /\ r.stamp \in Nat
      BY <1>2 DEF Asking
    <2>2. Horizon \in Nat
      BY OpeningAssumptions
    <2>. QED BY <2>1, <2>2, ColumnIs
  <1>. HIDE DEF r
  <1>5. Moves(cl, payments)
    BY <1>1, <1>2, <1>3, Admitting
  <1>6. /\ UNCHANGED <<now, credential, access, accepted, payments>>
        /\ lastUsed' = lastUsed \/ lastUsed' = [lastUsed EXCEPT ![r.cred] = Column(r.stamp)]
    BY DEF RecordUse, Unrecorded, Quiet, rows, operated, r
  <1>. QED BY <1>3, <1>4, <1>5, <1>6

LEMMA DestinationMoves ==
    ASSUME Inv, NEW cl \in Clients, Destination(cl)
    PROVE  Moves(cl, payments) /\ Quiet
  <1>. DEFINE r == request[cl]
              to == DestinationOf(r)
              late == Deadline(r.body)
              s == [r EXCEPT !.at = "insert", !.destination = to, !.stamp = now, !.expires = late]
  <1>1. r.at = "destination" /\ Quiet
    BY DEF Destination, At
  <1>2. r \in Asking /\ PassedSo(r, payments)
    BY <1>1, ServedIs DEF Calls
  <1>3. /\ payments \in Seq(Payment) /\ now \in 0 .. Horizon /\ now \in Nat
        /\ accepted \in [Accounts \X Assets -> Destinations \cup {Nothing}] /\ AcceptedSo(accepted)
    BY DEF Inv
  <1>4. CASE Refuses(cl, "invalid")
    BY <1>1, <1>3, <1>4, Refusing DEF Answers
  <1>5. CASE /\ Readable(r.body) /\ Accepts(r) /\ Builds(r.body)
             /\ Becomes(cl, s)
    <2>1. /\ Account(r) \in Accounts /\ r.body \in Bodies /\ r.body.asset \in Assets
          /\ r.body.expires \in Nat /\ DefaultExpiry \in Nat
      BY <1>1, <1>2, OpeningAssumptions DEF PassedSo, Asking
    <2>2. to \in Destinations /\ Owner[to] = Account(r)
      BY <1>3, <1>5, <2>1 DEF Accepts, DestinationOf, AcceptedSo
    <2>3. late \in Nat
      BY <1>3, <2>1 DEF Deadline
    <2>4. Amount(r.body) # 0 /\ r.id = 0
      BY <1>1, <1>2, <1>5 DEF Builds, PassedSo
    <2>5. Becomes(cl, s)
      BY <1>5
    <2>. HIDE DEF to, late
    <2>6. /\ s \in Asking /\ s.at = "insert" /\ s.id = r.id /\ s.cred = r.cred /\ s.body = r.body
          /\ s.destination = to
      BY <1>2, <1>3, <2>2, <2>3 DEF Asking, Calls
    <2>. HIDE DEF s
    <2>7. PassedSo(s, payments)
      BY <1>5, <2>1, <2>2, <2>4, <2>6 DEF PassedSo, Account
    <2>. QED BY <1>1, <2>5, <2>6, <2>7, Becoming
  <1>. QED BY <1>4, <1>5 DEF Destination

\* What is inserted is a row that reads back and the first of its key.
LEMMA RowInserted ==
    ASSUME Inv, NEW r \in Asking, PassedSo(r, payments), r.at = "insert",
           Keeps(r), ~Used(r)
    PROVE  LET ps == Append(payments, New(r)) IN
           /\ ps \in Seq(Payment) /\ Len(ps) = Len(payments) + 1
           /\ \A i \in 1 .. Len(payments) : ps[i] = payments[i]
           /\ ps[Len(payments) + 1] = New(r)
           /\ RowsKeep(ps)
  <1>. DEFINE n == Len(payments)
              ps == Append(payments, New(r))
  <1>0. payments \in Seq(Payment) /\ n \in Nat /\ RowsKeep(payments)
    BY DEF Inv
  <1>1. /\ r.body \in Bodies /\ r.key \in Keys \cup {NoKey} /\ r.destination \in Destinations
        /\ Account(r) \in Accounts /\ Amount(r.body) # 0
        /\ Owner[r.destination] = Account(r) /\ Readable(r.body)
    BY DEF PassedSo, Asking
  <1>2. Amount(r.body) \in Nat
    <2>1. Decimals[r.body.asset] \in Nat
      BY <1>1, OpeningAssumptions
    <2>2. r.body.amount \in Seq(Digit \cup {Point, Other})
      BY <1>1, OpeningAssumptions, MoneyAssumption
    <2>. QED BY <1>1, <2>1, <2>2, AmountIs DEF Amount, Readable
  <1>3. Column(r.stamp) \in Nat /\ Column(r.expires) \in Nat
    <2>1. r.stamp \in Nat /\ r.expires \in Nat
      BY OpeningAssumptions DEF Asking
    <2>. QED BY <2>1, ColumnIs
  <1>4. /\ New(r) \in Payment
        /\ New(r).account = Account(r) /\ New(r).key = r.key /\ New(r).amount # 0
        /\ New(r).destination = r.destination /\ New(r).expires > New(r).created
        /\ New(r).body = r.body /\ New(r).amount = Amount(r.body)
    BY <1>1, <1>2, <1>3 DEF New, Payment, Keeps
  <1>5. /\ ps \in Seq(Payment) /\ Len(ps) = n + 1 /\ ps[n + 1] = New(r)
        /\ \A i \in 1 .. n : ps[i] = payments[i]
    BY <1>0, <1>4
  <1>6. ASSUME NEW i \in 1 .. n + 1
        PROVE  i = n + 1 \/ i \in 1 .. n
    BY <1>0
  <1>. HIDE DEF ps
  <1>7. RowsKeep(ps)
    <2>1. ASSUME NEW i \in 1 .. n + 1
          PROVE  /\ ps[i].expires > ps[i].created
                 /\ ps[i].amount # 0
                 /\ Owner[ps[i].destination] = ps[i].account
                 /\ Readable(ps[i].body) /\ ps[i].amount = Amount(ps[i].body)
      <3>1. CASE i = n + 1
        BY <1>1, <1>4, <1>5, <3>1
      <3>2. CASE i \in 1 .. n
        BY <1>0, <1>5, <3>2 DEF RowsKeep
      <3>. QED BY <1>6, <3>1, <3>2
    <2>2. ASSUME NEW i \in 1 .. n, payments[i].account = Account(r), payments[i].key = r.key,
                 r.key # NoKey
          PROVE  FALSE
      BY <2>2 DEF Used, Under
    <2>3. ASSUME NEW i \in 1 .. n + 1, NEW j \in 1 .. n + 1, ps[i].account = ps[j].account,
                 ps[i].key = ps[j].key, ps[i].key # NoKey
          PROVE  i = j
      <3>1. CASE i \in 1 .. n /\ j \in 1 .. n
        BY <1>0, <1>5, <2>3, <3>1 DEF RowsKeep
      <3>2. CASE i = n + 1 /\ j \in 1 .. n
        BY <1>4, <1>5, <2>2, <2>3, <3>2
      <3>3. CASE j = n + 1 /\ i \in 1 .. n
        BY <1>4, <1>5, <2>2, <2>3, <3>3
      <3>. QED BY <1>6, <3>1, <3>2, <3>3
    <2>. QED BY <1>5, <2>1, <2>3 DEF RowsKeep
  <1>. QED BY <1>5, <1>7 DEF ps

\* The rows keep what they hold, and those there come to be read back.
Grew ==
    /\ payments' \in Seq(Payment) /\ Len(payments) <= Len(payments') /\ Len(payments') <= MaxPayments
    /\ \A i \in 1 .. Len(payments) : payments'[i] = payments[i]
    /\ RowsKeep(payments')

LEMMA SameGrew ==
    ASSUME Inv, payments' = payments
    PROVE  Grew
  BY DEF Inv, Grew

LEMMA InsertGrew ==
    ASSUME Inv, NEW r \in Asking, PassedSo(r, payments), r.at = "insert",
           Keeps(r), ~Used(r), Len(payments) < MaxPayments,
           payments' = Append(payments, New(r))
    PROVE  Grew /\ Len(payments') = Len(payments) + 1 /\ payments'[Len(payments) + 1] = New(r)
  <1>1. /\ payments' \in Seq(Payment) /\ Len(payments') = Len(payments) + 1
        /\ \A i \in 1 .. Len(payments) : payments'[i] = payments[i]
        /\ payments'[Len(payments) + 1] = New(r)
        /\ RowsKeep(payments')
    BY RowInserted
  <1>2. Len(payments) \in Nat /\ MaxPayments \in Nat
    BY OpeningAssumptions DEF Inv
  <1>. QED BY <1>1, <1>2 DEF Grew

LEMMA InsertMoves ==
    ASSUME Inv, NEW cl \in Clients, Insert(cl)
    PROVE  Moves(cl, payments') /\ Grew /\ UNCHANGED <<now, credential, access, accepted, lastUsed>>
  <1>. DEFINE r == request[cl]
  <1>1. r.at = "insert" /\ UNCHANGED <<now, credential, access, accepted, lastUsed>>
    BY DEF Insert, At, operated
  <1>2. r \in Asking /\ PassedSo(r, payments)
    BY <1>1, ServedIs DEF Calls
  <1>3. CASE Refuses(cl, "failed") /\ UNCHANGED payments
    <2>1. Grew
      BY <1>3, SameGrew
    <2>. QED BY <1>1, <1>3, <2>1, Refusing DEF Answers, Grew
  <1>4. CASE Used(r) /\ Becomes(cl, [r EXCEPT !.at = "key"]) /\ UNCHANGED payments
    <2>. DEFINE s == [r EXCEPT !.at = "key"]
    <2>1. Grew
      BY <1>4, SameGrew
    <2>2. /\ s \in Asking /\ s.at = "key" /\ s.id = r.id /\ s.cred = r.cred /\ s.body = r.body
          /\ s.destination = r.destination /\ s.key = r.key
      BY <1>2 DEF Asking, Calls
    <2>3. Becomes(cl, s)
      BY <1>4
    <2>. HIDE DEF s
    <2>4. s.key # NoKey /\ Of(payments, Account(s), s.key) # {}
      BY <1>4, <2>2 DEF Used, Under, Of, Account
    <2>5. PassedSo(s, payments)
      BY <1>1, <1>2, <2>2, <2>4 DEF PassedSo, Account
    <2>. QED BY <1>1, <1>4, <2>1, <2>2, <2>3, <2>5, Becoming
  <1>5. CASE /\ Keeps(r) /\ ~Used(r) /\ Len(payments) < MaxPayments
             /\ payments' = Append(payments, New(r)) /\ Says(cl, "opened", Len(payments) + 1)
    <2>1. Grew /\ Len(payments') = Len(payments) + 1
      BY <1>1, <1>2, <1>5, InsertGrew
    <2>2. Len(payments) + 1 \in 0 .. Len(payments')
      BY <2>1 DEF Inv
    <2>. QED BY <1>1, <1>5, <2>1, <2>2, Saying DEF Answers
  <1>. QED BY <1>3, <1>4, <1>5 DEF Insert

\* A key that was found used is of a row still.
LEMMA FoundIs ==
    ASSUME Inv, NEW cl \in Clients, request[cl].at = "key"
    PROVE  LET r == request[cl] IN
           /\ FoundUnder(r) \in 1 .. Len(payments)
           /\ payments[FoundUnder(r)].account = Account(r)
           /\ payments[FoundUnder(r)].key = r.key
  <1>. DEFINE r == request[cl]
  <1>1. Of(payments, Account(r), r.key) # {}
    BY ServedIs DEF Calls, PassedSo
  <1>2. FoundUnder(r) \in Of(payments, Account(r), r.key)
    BY <1>1 DEF FoundUnder, Under, Of
  <1>. QED BY <1>2 DEF Of

LEMMA FindByKeyMoves ==
    ASSUME Inv, NEW cl \in Clients, FindByKey(cl)
    PROVE  Moves(cl, payments) /\ Quiet
  <1>1. request[cl].at = "key" /\ Quiet /\ payments \in Seq(Payment) /\ Len(payments) \in Nat
    BY DEF FindByKey, At, Inv
  <1>2. FoundUnder(request[cl]) \in 0 .. Len(payments)
    BY <1>1, FoundIs
  <1>3. \/ Says(cl, "replayed", FoundUnder(request[cl])) \/ Refuses(cl, "invalid")
    BY DEF FindByKey
  <1>. QED BY <1>1, <1>2, <1>3, Saying, Refusing DEF Answers

LEMMA FindMoves ==
    ASSUME Inv, NEW cl \in Clients, Find(cl)
    PROVE  Moves(cl, payments) /\ Quiet
  <1>. DEFINE r == request[cl]
  <1>1. r.at = "find" /\ Quiet /\ payments \in Seq(Payment) /\ Len(payments) \in Nat
    BY DEF Find, At, Inv
  <1>2. r.id \in Nat
    BY <1>1, ServedIs DEF Calls, Asking
  <1>3. CASE Refuses(cl, "missing")
    BY <1>1, <1>3, Refusing DEF Answers
  <1>4. CASE r.id <= Len(payments) /\ Says(cl, "shown", r.id)
    BY <1>1, <1>2, <1>4, Saying DEF Answers
  <1>. QED BY <1>3, <1>4 DEF Find

LEMMA FailsMoves ==
    ASSUME Inv, NEW cl \in Clients, Fails(cl)
    PROVE  Moves(cl, payments') /\ Grew /\ UNCHANGED <<now, credential, access, accepted, lastUsed>>
  <1>. DEFINE r == request[cl]
  <1>1. /\ Refuses(cl, "failed") /\ UNCHANGED <<now, credential, access, accepted, lastUsed>>
        /\ r \in Asking /\ PassedSo(r, payments)
    BY DEF Fails, operated, Inv, Requested
  <1>2. ASSUME UNCHANGED payments
        PROVE  Grew
    BY <1>2, SameGrew
  <1>3. ASSUME r.at = "insert", ~Used(r), Keeps(r), Len(payments) < MaxPayments,
               payments' = Append(payments, New(r))
        PROVE  Grew
    BY <1>1, <1>3, InsertGrew
  <1>4. Grew
    BY <1>2, <1>3 DEF Fails, At
  <1>. QED BY <1>1, <1>4, Refusing DEF Answers, Grew

\* A client's step moves its own request and what it writes.
LEMMA ClientMoves ==
    ASSUME Inv, NEW cl \in Clients, Asks(cl) \/ Step(cl)
    PROVE  /\ Moves(cl, payments') /\ Grew /\ UNCHANGED <<now, credential, access, accepted>>
           /\ lastUsed' \in [Credentials -> -1 .. Horizon]
  <1>0. lastUsed \in [Credentials -> -1 .. Horizon]
    BY DEF Inv
  <1>1. CASE Moves(cl, payments) /\ Quiet
    <2>1. UNCHANGED <<now, credential, access, accepted, lastUsed, payments>>
      BY <1>1 DEF Quiet, rows, operated
    <2>2. Moves(cl, payments')
      BY <1>1, <2>1
    <2>. QED BY <1>0, <2>1, <2>2, SameGrew
  <1>2. CASE RecordUse(cl) \/ Unrecorded(cl)
    <2>1. /\ Moves(cl, payments) /\ UNCHANGED <<now, credential, access, accepted, payments>>
          /\ lastUsed' \in [Credentials -> -1 .. Horizon]
      BY <1>2, UseMoves
    <2>2. Moves(cl, payments')
      BY <2>1
    <2>. QED BY <2>1, <2>2, SameGrew
  <1>3. CASE Insert(cl)
    BY <1>0, <1>3, InsertMoves
  <1>4. CASE Fails(cl)
    BY <1>0, <1>4, FailsMoves
  <1>5. CASE Asks(cl) \/ Destination(cl) \/ FindByKey(cl) \/ Find(cl)
    <2>1. Moves(cl, payments) /\ Quiet
      BY <1>5, AsksMoves, DestinationMoves, FindByKeyMoves, FindMoves
    <2>. QED BY <1>1, <2>1
  <1>. QED BY <1>2, <1>3, <1>4, <1>5 DEF Step

(***************************************************************************)
(* What holds.                                                             *)
(***************************************************************************)
LEMMA InitInv ==
    ASSUME Init
    PROVE  Inv
  <1>1. 0 \in 0 .. Horizon /\ -1 \in -1 .. Horizon /\ 0 <= MaxPayments
    BY OpeningAssumptions
  <1>2. /\ credential \in [Credentials -> States] /\ access \in [Credentials -> {"read", "write"}]
        /\ accepted \in [Accounts \X Assets -> Destinations \cup {Nothing}]
        /\ now = 0 /\ lastUsed = [c \in Credentials |-> -1] /\ payments = << >>
        /\ request = [c \in Clients |-> Idle] /\ told = Silence
    <2>1. credential \in [Credentials -> States]
      <3>1. {"none", "in force"} \subseteq States
        BY DEF States
      <3>2. credential \in [Credentials -> {"none", "in force"}]
        BY DEF Init
      <3>. HIDE DEF States
      <3>. QED BY <3>1, <3>2
    <2>. QED BY <2>1 DEF Init
  <1>3. AcceptedSo(accepted)
    <2>1. ASSUME NEW a \in Accounts, NEW s \in Assets, accepted[<<a, s>>] # Nothing
          PROVE  Owner[accepted[<<a, s>>]] = a
      <3>1. <<a, s>> \in Accounts \X Assets /\ <<a, s>>[1] = a
        OBVIOUS
      <3>. QED BY <2>1, <3>1 DEF Init
    <2>. QED BY <2>1 DEF AcceptedSo
  <1>4. RowsKeep(payments) /\ payments \in Seq(Payment) /\ Len(payments) <= MaxPayments
    BY <1>1, <1>2 DEF RowsKeep
  <1>. QED BY <1>1, <1>2, <1>3, <1>4 DEF Inv, Requested, ToldSo

\* The operator accepts an asset for an account at the account's own address, and a credential
\* goes from state to state.
LEMMA OperatorKeeps ==
    ASSUME Inv, Operator
    PROVE  /\ credential' \in [Credentials -> States] /\ UNCHANGED <<now, access, lastUsed, payments>>
           /\ accepted' \in [Accounts \X Assets -> Destinations \cup {Nothing}] /\ AcceptedSo(accepted')
  <1>0. /\ credential \in [Credentials -> States] /\ AcceptedSo(accepted)
        /\ accepted \in [Accounts \X Assets -> Destinations \cup {Nothing}]
    BY DEF Inv
  <1>1. ASSUME NEW c \in Credentials, NEW s \in States, Set(c, s)
        PROVE  /\ credential' \in [Credentials -> States] /\ UNCHANGED <<now, access, lastUsed, payments>>
               /\ accepted' = accepted
    BY <1>0, <1>1 DEF Set
  <1>2. CASE \E c \in Credentials : Mint(c) \/ Written(c) \/ Unwritable(c) \/ Revoke(c)
    <2>1. \E c \in Credentials, s \in States : Set(c, s)
      BY <1>2 DEF Mint, Written, Unwritable, Revoke, States
    <2>. QED BY <1>0, <1>1, <2>1
  <1>3. ASSUME NEW a \in Accounts, NEW s \in Assets, NEW d \in Destinations, Accept(a, s, d)
        PROVE  /\ credential' \in [Credentials -> States] /\ UNCHANGED <<now, access, lastUsed, payments>>
               /\ accepted' \in [Accounts \X Assets -> Destinations \cup {Nothing}]
               /\ AcceptedSo(accepted')
    <2>1. Owner[d] = a /\ accepted' = [accepted EXCEPT ![<<a, s>>] = d]
          /\ UNCHANGED <<now, credential, access, lastUsed, payments>>
      BY <1>3 DEF Accept
    <2>2. ASSUME NEW b \in Accounts, NEW t \in Assets, accepted'[<<b, t>>] # Nothing
          PROVE  Owner[accepted'[<<b, t>>]] = b
      <3>1. CASE <<b, t>> = <<a, s>>
        BY <1>0, <2>1, <3>1
      <3>2. CASE <<b, t>> # <<a, s>>
        BY <1>0, <2>1, <2>2, <3>2 DEF AcceptedSo
      <3>. QED BY <3>1, <3>2
    <2>. QED BY <1>0, <2>1, <2>2 DEF AcceptedSo
  <1>. QED BY <1>2, <1>3 DEF Operator

LEMMA RequestedGrew ==
    ASSUME Inv, Grew, NEW r, Requested(r, payments)
    PROVE  Requested(r, payments')
  <1>1. ASSUME NEW a, NEW k, Of(payments, a, k) # {}
        PROVE  Of(payments', a, k) # {}
    <2>1. PICK i \in 1 .. Len(payments) : payments[i].account = a /\ payments[i].key = k
      BY <1>1 DEF Of
    <2>2. i \in 1 .. Len(payments') /\ payments'[i] = payments[i]
      BY DEF Grew, Inv
    <2>. QED BY <2>1, <2>2 DEF Of
  <1>. QED BY <1>1 DEF Requested, PassedSo

LEMMA NextInv ==
    ASSUME Inv, [Next]_vars
    PROVE  Inv'
  <1>1. CASE UNCHANGED vars
    BY <1>1 DEF vars, rows, operated, Inv
  <1>2. CASE Around
    <2>1. request' = request /\ told' = Silence
      BY <1>2 DEF Around
    <2>2. CASE Tick
      <3>1. UNCHANGED <<credential, access, accepted, lastUsed, payments>> /\ now' \in 0 .. Horizon
        BY <2>2, OpeningAssumptions DEF Tick, rows, operated, Inv
      <3>. QED BY <2>1, <3>1 DEF Inv, ToldSo
    <2>3. CASE Operator
      <3>1. /\ credential' \in [Credentials -> States] /\ UNCHANGED <<now, access, lastUsed, payments>>
            /\ accepted' \in [Accounts \X Assets -> Destinations \cup {Nothing}]
            /\ AcceptedSo(accepted')
        BY <2>3, OperatorKeeps
      <3>. QED BY <2>1, <3>1 DEF Inv, ToldSo
    <2>. QED BY <1>2, <2>2, <2>3 DEF Around
  <1>3. ASSUME NEW cl \in Clients, Asks(cl) \/ Step(cl)
        PROVE  Inv'
    <2>1. /\ Moves(cl, payments') /\ Grew /\ UNCHANGED <<now, credential, access, accepted>>
          /\ lastUsed' \in [Credentials -> -1 .. Horizon]
      BY <1>3, ClientMoves
    <2>2. PICK s : Requested(s, payments') /\ request' = [request EXCEPT ![cl] = s]
      BY <2>1 DEF Moves
    <2>3. DOMAIN request' = Clients
      BY <2>2 DEF Inv
    <2>4. ASSUME NEW c \in Clients
          PROVE  Requested(request'[c], payments')
      <3>1. request'[c] = IF c = cl THEN s ELSE request[c]
        BY <2>2 DEF Inv
      <3>2. Requested(request[c], payments')
        BY <2>1, RequestedGrew DEF Inv
      <3>. QED BY <2>2, <3>1, <3>2
    <2>5. ToldSo(told', payments')
      BY <2>1 DEF Moves
    <2>6. payments' \in Seq(Payment) /\ Len(payments') <= MaxPayments /\ RowsKeep(payments')
      BY <2>1 DEF Grew
    <2>. QED BY <2>1, <2>3, <2>4, <2>5, <2>6 DEF Inv
  <1>. QED BY <1>1, <1>2, <1>3 DEF Next

LEMMA InvHolds == Spec => []Inv
  <1>1. Init => Inv
    BY InitInv
  <1>2. Inv /\ [Next]_vars => Inv'
    BY NextInv
  <1>. QED BY <1>1, <1>2, PTL DEF Spec

\* Every payment stored reads back, with an amount of something, a deadline after the moment it was
\* opened and an address of its own account, whatever is lost below what a column keeps and whatever
\* the operator changes between a request's statements.
THEOREM RowsAlwaysHold == Spec => []RowsHold
  <1>1. Inv => RowsHold
    BY OpeningHoldsRows
  <1>. QED BY <1>1, InvHolds, PTL

\* However often a request is sent under its key, and whichever answers are lost, an account has
\* one payment under it (payments_by_idempotency_key).
THEOREM OneKeyAlwaysOnePayment == Spec => []OneKeyOnePayment
  <1>1. Inv => OneKeyOnePayment
    BY OpeningHoldsRows
  <1>. QED BY <1>1, InvHolds, PTL

\* Every amount of up to MaxAmountDigits digits is written so that it reads back, every text that is
\* taken for an amount has the one spelling but for zeros at either end, and every payment stored
\* shows the amount its body asked for, spelled so (money.go:65-69, 167-171).
THEOREM AmountsAlwaysReadBack == Spec => []AmountsReadBack
  <1>1. ASSUME Inv, NEW i \in 1 .. Len(payments)
        PROVE  LET p == payments[i]
               IN Units(p.amount, Decimals[p.body.asset]) = Spelling(p.body.amount)
    <2>. DEFINE p == payments[i]
                b == p.body
                d == Decimals[b.asset]
    <2>1. p \in Payment /\ Readable(b) /\ p.amount = Amount(b)
      BY <1>1, ElementOfSeq DEF Inv, RowsKeep
    <2>2. b \in Bodies
      BY <2>1 DEF Payment
    <2>3. d \in Nat
      BY <2>2, OpeningAssumptions
    <2>4. b.amount \in Seq(Digit \cup {Point, Other})
      BY <2>2, OpeningAssumptions, MoneyAssumption
    <2>5. ParsesUnits(b.amount, d) /\ p.amount = ParseUnits(b.amount, d)
      BY <2>1 DEF Readable, Amount
    <2>. HIDE DEF d
    <2>6. Units(ParseUnits(b.amount, d), d) = Spelling(b.amount)
      BY <2>3, <2>4, <2>5, SpellingBack
    <2>. QED BY <2>5, <2>6 DEF d
  <1>2. Inv => AmountsReadBack
    BY <1>1, AmountsRead DEF AmountsReadBack
  <1>. QED BY <1>2, InvHolds, PTL

\* What a step answers, if it answers with a payment, is of the account that asked.
Own(r) == LET p == payments'[told'.payment] IN
          p.account = Account(r) /\ (r.id = 0 => p.key = r.key /\ p.body = r.body)

LEMMA SaidIs ==
    ASSUME NEW cl, NEW word, NEW i, Says(cl, word, i)
    PROVE  told'.payment = i
  BY DEF Says

LEMMA OwnAnswered ==
    ASSUME Inv, NEW cl \in Clients, Step(cl), told'.payment # 0,
           request'[cl] = Idle
    PROVE  Own(request[cl])
  <1>. DEFINE r == request[cl]
  <1>0. ASSUME NEW s \in Asking, Becomes(cl, s) PROVE FALSE
    <2>1. request'[cl] = s
      BY <1>0 DEF Becomes, Inv
    <2>. QED BY <2>1, IdleIs
  <1>1. ASSUME NEW word, Refuses(cl, word) PROVE FALSE
    BY <1>1, SaidIs DEF Refuses
  <1>2. ASSUME RecordUse(cl) \/ Unrecorded(cl) PROVE FALSE
    <2>1. Admitted(cl, r) /\ r.at = "use"
      BY <1>2 DEF RecordUse, Unrecorded, At
    <2>2. r \in Asking
      BY <2>1, ServedIs DEF Calls
    <2>. DEFINE call == IF r.id = 0 THEN "destination" ELSE "find"
                s == [r EXCEPT !.at = call, !.stamp = 0]
    <2>3. call \in Calls /\ 0 \in 0 .. Horizon
      BY OpeningAssumptions DEF Calls
    <2>4. Becomes(cl, s) \/ Refuses(cl, "forbidden")
      BY <2>1 DEF Admitted
    <2>. HIDE DEF call
    <2>5. s \in Asking
      BY <2>2, <2>3 DEF Asking
    <2>. HIDE DEF s
    <2>. QED BY <1>0, <1>1, <2>4, <2>5
  <1>3. ASSUME Destination(cl) PROVE FALSE
    <2>1. ASSUME ~Refuses(cl, "invalid") PROVE request'[cl].at = "insert"
      <3>1. r.at = "destination" /\ request' =
               [request EXCEPT ![cl] = [r EXCEPT !.at = "insert", !.destination = DestinationOf(r),
                                                 !.stamp = now, !.expires = Deadline(r.body)]]
        BY <1>3, <2>1 DEF Destination, Becomes, At
      <3>2. r \in Asking
        BY <3>1, ServedIs DEF Calls
      <3>. QED BY <3>1, <3>2 DEF Inv, Asking
    <2>. QED BY <1>1, <2>1 DEF Idle
  <1>4. CASE Insert(cl)
    <2>1. r.at = "insert"
      BY <1>4 DEF Insert, At
    <2>2. r \in Asking /\ PassedSo(r, payments)
      BY <2>1, ServedIs DEF Calls
    <2>3. [r EXCEPT !.at = "key"] \in Asking
      BY <2>2 DEF Asking, Calls
    <2>4. /\ Keeps(r) /\ ~Used(r) /\ Len(payments) < MaxPayments
          /\ payments' = Append(payments, New(r)) /\ Says(cl, "opened", Len(payments) + 1)
      BY <1>0, <1>1, <1>4, <2>3 DEF Insert
    <2>5. payments'[told'.payment] = New(r)
      BY <2>1, <2>2, <2>4, InsertGrew, SaidIs
    <2>. QED BY <2>5 DEF Own, New
  <1>5. CASE FindByKey(cl)
    <2>1. r.at = "key" /\ payments' = payments
      BY <1>5 DEF FindByKey, At, Quiet, rows
    <2>2. payments[FoundUnder(r)].body = r.body /\ Says(cl, "replayed", FoundUnder(r))
      BY <1>1, <1>5 DEF FindByKey
    <2>3. told'.payment = FoundUnder(r)
      BY <2>2, SaidIs
    <2>. QED BY <2>1, <2>2, <2>3, FoundIs DEF Own
  <1>6. CASE Find(cl)
    <2>1. r.at = "find" /\ payments' = payments
      BY <1>6 DEF Find, At, Quiet, rows
    <2>2. payments[r.id].account = Account(r) /\ Says(cl, "shown", r.id)
      BY <1>1, <1>6 DEF Find
    <2>3. r.id # 0
      BY <2>1, ServedIs DEF Calls, PassedSo
    <2>4. told'.payment = r.id
      BY <2>2, SaidIs
    <2>. QED BY <2>1, <2>2, <2>3, <2>4 DEF Own
  <1>7. ASSUME Fails(cl) PROVE FALSE
    BY <1>1, <1>7 DEF Fails
  <1>. QED BY <1>2, <1>3, <1>4, <1>5, <1>6, <1>7 DEF Step

\* A request is answered with a payment of the account of its own credential, and a repeated key
\* with the payment that key and that body opened (http.go:276-278, service.go:100-107), however
\* the requests of the clients come between one another's.
THEOREM AnswersAlwaysItsOwn == Spec => AnswersItsOwn
  <1>1. Inv /\ [Next]_vars =>
           [\A cl \in Clients : (request[cl] # Idle /\ request'[cl] = Idle) /\ told'.payment # 0 =>
               LET r == request[cl] p == payments'[told'.payment] IN
               /\ p.account = Account(r)
               /\ r.id = 0 => p.key = r.key /\ p.body = r.body]_vars
    <2>1. SUFFICES ASSUME Inv, Next, NEW cl \in Clients, request[cl] # Idle,
                          request'[cl] = Idle, told'.payment # 0
                   PROVE  Own(request[cl])
      BY DEF Own
    <2>2. CASE Around
      BY <2>1, <2>2 DEF Around
    <2>3. ASSUME NEW c \in Clients, Asks(c) \/ Step(c)
          PROVE  Own(request[cl])
      <3>1. PICK s : request' = [request EXCEPT ![c] = s]
        BY <2>1, <2>3, ClientMoves DEF Moves
      <3>2. c = cl
        BY <2>1, <3>1 DEF Inv
      <3>3. ~Asks(cl)
        BY <2>1 DEF Asks, FindByToken
      <3>. QED BY <2>1, <2>3, <3>2, <3>3, OwnAnswered
    <2>. QED BY <2>1, <2>2, <2>3 DEF Next
  <1>. QED BY <1>1, InvHolds, PTL DEF Spec, AnswersItsOwn, Answered

=======================================================================
