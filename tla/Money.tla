----------------------------- MODULE Money -----------------------------
(***************************************************************************)
(* How an amount is written and read (payment/money.go): in the asset's    *)
(* units, as digits with a point, by whoever asks for a payment; in the    *)
(* smallest unit, as a whole number, everywhere else.  A text is a         *)
(* sequence of characters: 0 to 9 for the digits, Point, and Other for any *)
(* character an amount may not hold.                                       *)
(***************************************************************************)
EXTENDS Integers, SequencesExt

CONSTANTS MaxAmountDigits,  \* of an amount in the smallest unit
          Texts             \* what may be sent for an amount

Digit == 0 .. 9
Point == 10
Other == 11

ASSUME MoneyAssumption ==
    /\ MaxAmountDigits \in Nat \ {0}
    /\ Texts \subseteq Seq(Digit \cup {Point, Other})

Zeros(n) == [i \in 1 .. n |-> 0]

IsDigits(text) == text # <<>> /\ \A i \in DOMAIN text : text[i] \in Digit

HasPoint(text) == \E i \in DOMAIN text : text[i] = Point

\* The two sides of the first point.
Cut(text) ==
    IF HasPoint(text)
    THEN LET p == CHOOSE i \in DOMAIN text :
                      text[i] = Point /\ \A j \in 1 .. i - 1 : text[j] # Point
         IN [whole |-> SubSeq(text, 1, p - 1), fraction |-> SubSeq(text, p + 1, Len(text))]
    ELSE [whole |-> text, fraction |-> <<>>]

\* The number that digits write in base ten.
Value(digits) ==
    LET upto[i \in 0 .. Len(digits)] == IF i = 0 THEN 0 ELSE 10 * upto[i - 1] + digits[i]
    IN upto[Len(digits)]

\* A text splitUnits takes.
SplitsUnits(text) ==
    /\ Len(text) <= MaxAmountDigits + 1
    /\ IsDigits(Cut(text).whole)
    /\ HasPoint(text) => IsDigits(Cut(text).fraction)

\* A text parseUnits takes, and the count of the smallest unit it reads out of it.
ParsesUnits(text, decimals) ==
    /\ SplitsUnits(text)
    /\ Len(Cut(text).fraction) <= decimals
    /\ Len(Cut(text).whole) + decimals <= MaxAmountDigits

ParseUnits(text, decimals) ==
    LET parts == Cut(text)
    IN Value(parts.whole \o parts.fraction \o Zeros(decimals - Len(parts.fraction)))

\* n in base ten, with no zeros before it.
Digits(n) ==
    LET of[m \in 0 .. n] == IF m < 10 THEN <<m>> ELSE Append(of[m \div 10], m % 10)
    IN of[n]

TrimZeros(digits) ==
    LET k == CHOOSE k \in 0 .. Len(digits) :
                 /\ k = 0 \/ digits[k] # 0
                 /\ \A i \in k + 1 .. Len(digits) : digits[i] = 0
    IN SubSeq(digits, 1, k)

\* Zeros before the digits of an amount of less than one unit.
PaddedOneShort(digits, places) ==  \* a mutant: nothing stands before the point
    Zeros(IF Len(digits) <= places THEN places - Len(digits) ELSE 0) \o digits
Padded(digits, places) ==
    Zeros(IF Len(digits) <= places THEN places - Len(digits) + 1 ELSE 0) \o digits

\* n of the smallest unit in the asset's units.
Units(n, decimals) ==
    LET digits == Padded(Digits(n), decimals)
        whole == SubSeq(digits, 1, Len(digits) - decimals)
        fraction == TrimZeros(SubSeq(digits, Len(digits) - decimals + 1, Len(digits)))
    IN IF fraction = <<>> THEN whole ELSE whole \o <<Point>> \o fraction

\* A text without the zeros at either end that say nothing.
Spelling(text) ==
    LET parts == Cut(text)
        first == CHOOSE k \in 1 .. Len(parts.whole) :
                     /\ k = Len(parts.whole) \/ parts.whole[k] # 0
                     /\ \A i \in 1 .. k - 1 : parts.whole[i] = 0
        whole == SubSeq(parts.whole, first, Len(parts.whole))
        fraction == TrimZeros(parts.fraction)
    IN IF fraction = <<>> THEN whole ELSE whole \o <<Point>> \o fraction

\* The greatest amount there are digits for.
Greatest == Value([i \in 1 .. MaxAmountDigits |-> 9])

\* What Units writes, ParseUnits reads back, whatever the amount and the decimals;
\* and one amount has one spelling apart from zeros at either end (money.go:65-69,
\* 167-171).
UnitsReadBack ==
    \A d \in 0 .. MaxAmountDigits - 1 :
        /\ \A n \in 0 .. Greatest :
               ParsesUnits(Units(n, d), d) /\ ParseUnits(Units(n, d), d) = n
        /\ \A t \in Texts : ParsesUnits(t, d) => Units(ParseUnits(t, d), d) = Spelling(t)

=======================================================================
