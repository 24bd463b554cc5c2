------------------------------ MODULE Numerals ------------------------------
(***************************************************************************)
(* Whole numbers in texts, as the program's libraries read and write them:  *)
(* QString::toInt, toLong and number, and an int of a string stream.        *)
(***************************************************************************)
EXTENDS Integers, Sequences

CONSTANT IntMax     \* stands for 2^31 - 1

ASSUME IntAssumption == IntMax \in Nat

DIGITS == 48..57
SIGNS == {43, 45}

Decimals(w) ==
    LET read[i \in 0 .. Len(w)] == IF i = 0 THEN 0 ELSE 10 * read[i - 1] + (w[i] - 48)
    IN  read[Len(w)]

Unsigned(w) == IF w # <<>> /\ w[1] \in SIGNS THEN Tail(w) ELSE w

IsNumeral(w) ==
    LET u == Unsigned(w) IN u # <<>> /\ \A i \in DOMAIN u : u[i] \in DIGITS

ValueOf(w) == IF w[1] = 45 THEN -Decimals(Unsigned(w)) ELSE Decimals(Unsigned(w))

Within(w, max) == IsNumeral(w) /\ ValueOf(w) \in (-max - 1)..max

Digits(n) ==
    LET digits[k \in 0 .. n] ==
            IF k < 10 THEN <<k + 48>> ELSE Append(digits[k \div 10], (k % 10) + 48)
    IN  digits[n]

Numeral(n) == IF n < 0 THEN <<45>> \o Digits(-n) ELSE Digits(n)
=============================================================================
