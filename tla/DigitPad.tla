------------------------------- MODULE DigitPad -------------------------------
(***************************************************************************)
(* What a numeric pad promises its user: a line of decimal digits without  *)
(* leading zeros, edited at its right end, that never names a number above *)
(* the maximum, and that is the number the caller is given.                *)
(***************************************************************************)
EXTENDS Integers, SequencesExt

CONSTANT MaxValues          \* the maxima pads are opened with

VARIABLES line, max, number, open

padVars == <<line, max, number, open>>

ValueOf(digits) == FoldLeft(LAMBDA n, d : 10 * n + d, 0, digits)

Zero == <<0>>

Typed(d) == IF line = Zero THEN <<d>> ELSE Append(line, d)

Init == /\ line = Zero /\ max \in MaxValues
        /\ number = 0 /\ open = FALSE

Open ==
    /\ ~open /\ open' = TRUE
    /\ max' \in MaxValues /\ ValueOf(line') <= max'
    /\ UNCHANGED number

Type(d) ==
    /\ open /\ ValueOf(Typed(d)) <= max
    /\ line' = Typed(d)
    /\ UNCHANGED <<max, number, open>>

Erase ==
    /\ open
    /\ line' = IF Len(line) = 1 THEN Zero ELSE Front(line)
    /\ UNCHANGED <<max, number, open>>

EraseAll ==
    /\ open /\ line' = Zero
    /\ UNCHANGED <<max, number, open>>

Confirm ==
    /\ open /\ open' = FALSE
    /\ number' = ValueOf(line)
    /\ UNCHANGED <<line, max>>

Cancel ==
    /\ open /\ open' = FALSE
    /\ UNCHANGED <<line, max, number>>

Next == \/ Open \/ Erase \/ EraseAll \/ Confirm \/ Cancel
        \/ \E d \in 0 .. 9 : Type(d)

Spec == Init /\ [][Next]_padVars
=============================================================================
