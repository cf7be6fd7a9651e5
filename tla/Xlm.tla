--------------------------------- MODULE Xlm ---------------------------------
(***************************************************************************)
(* web/src/utils/xlm.ts: rewards as they are typed and shown, in XLM, and   *)
(* as they are stored, in stroops.  A text is the digits before its point   *)
(* and those after it; one that is no decimal number at all, or empty, is   *)
(* the text without digits.                                                 *)
(***************************************************************************)
EXTENDS Integers, Sequences, FiniteSets, SequencesExt

CONSTANTS
    DECIMAL_PLACES,     \* 7
    MAX_SAFE_INTEGER    \* Number.MAX_SAFE_INTEGER, 2^53 - 1

ASSUME XlmAssumption == DECIMAL_PLACES \in Nat /\ MAX_SAFE_INTEGER \in Nat

Digit == 0..9
Text == [whole: Seq(Digit), fraction: Seq(Digit)]

\* 10 to the power k.
PowerOfTen(k) ==
    LET power[i \in 0..k] == IF i = 0 THEN 1 ELSE 10 * power[i - 1]
    IN  power[k]

STROOPS_PER_XLM == PowerOfTen(DECIMAL_PLACES)

\* Number(...) of a string of digits.
Number(digits) ==
    LET number[i \in 0..Len(digits)] ==
            IF i = 0 THEN 0 ELSE 10 * number[i - 1] + digits[i]
    IN  number[Len(digits)]

\* The stroops a text stands for; it has at most DECIMAL_PLACES decimals.
Denoted(text) ==
    Number(text.whole) * STROOPS_PER_XLM
        + Number(text.fraction) * PowerOfTen(DECIMAL_PLACES - Len(text.fraction))

PadEnd(digits) == digits \o [i \in 1..(DECIMAL_PLACES - Len(digits)) |-> 0]

\* Mutant of xlmToStroops: the decimals are not filled up.
xlmToStroopsUnpadded(text) == Number(text.whole \o text.fraction)

\* The digits are concatenated, so no fraction is ever computed with.
xlmToStroops(text) == Number(text.whole \o PadEnd(text.fraction))

\* `ok` of xlmToStroops.
Parses(text) ==
    /\ text.whole # <<>>
    /\ Len(text.fraction) <= DECIMAL_PLACES
    /\ xlmToStroops(text) \in 1..MAX_SAFE_INTEGER

\* The digits of n, as many as it takes.
Digits(n) ==
    LET count == CHOOSE k \in 1..(n + 1) :
                    n < PowerOfTen(k) /\ (k = 1 \/ n >= PowerOfTen(k - 1))
    IN  [i \in 1..count |-> (n \div PowerOfTen(count - i)) % 10]

\* padStart(DECIMAL_PLACES, '0')
PadStart(digits) == [i \in 1..(DECIMAL_PLACES - Len(digits)) |-> 0] \o digits

\* replace(/0+$/, '')
StripEnd(digits) ==
    LET last == CHOOSE k \in 0..Len(digits) :
                    /\ k = 0 \/ digits[k] # 0
                    /\ \A i \in (k + 1)..Len(digits) : digits[i] = 0
    IN  SubSeq(digits, 1, last)

\* The grouping commas are left out.
formatXlm(stroops) ==
    LET fraction == stroops % STROOPS_PER_XLM
    IN  [whole |-> Digits(stroops \div STROOPS_PER_XLM),
         fraction |-> IF fraction = 0 THEN <<>> ELSE StripEnd(PadStart(Digits(fraction)))]
==============================================================================
