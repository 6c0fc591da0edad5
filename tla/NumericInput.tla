----------------------------- MODULE NumericInput -----------------------------
(***************************************************************************)
(* The numeric pad (NumericInputGui): a u64 edited digit by digit up to    *)
(* m_maxValue, shown in m_display and handed to the caller, which keeps it *)
(* as a u32 (MainGui::onPickSearchValue, and the poke of ResultsListGui).  *)
(***************************************************************************)
EXTENDS Integers, Sequences

CONSTANTS
    U64Max, U32Max,         \* the widths of the two integers
    MaxValues               \* the maxima pads are opened with

ASSUME WidthAssumption ==
    /\ U32Max \in Nat /\ U64Max \in Nat
    /\ 9 <= U32Max /\ U32Max <= U64Max
    /\ MaxValues \subseteq 0 .. U64Max

VARIABLES
    open,
    m_value, m_maxValue,
    m_display,              \* the digits on the screen
    given,                  \* what the last m_onConfirm was called with
    m_searchValue           \* what the caller keeps of it

vars == <<open, m_value, m_maxValue, m_display, given, m_searchValue>>

U64(n) == n % (U64Max + 1)

\* %PRIu64
Numeral[n \in 0 .. U64Max] ==
    IF n < 10 THEN <<n>> ELSE Append(Numeral[n \div 10], n % 10)

Init ==
    /\ open = FALSE
    /\ m_value = 0 /\ m_maxValue \in MaxValues /\ m_display = <<0>>
    /\ given = 0 /\ m_searchValue = 0

(* Mutant of Open: the initial value is taken as it is. *)
OpenUnclamped(initial, maxValue) ==
    /\ ~open /\ open' = TRUE
    /\ m_value' = initial
    /\ m_maxValue' = maxValue
    /\ m_display' = Numeral[m_value']
    /\ UNCHANGED <<given, m_searchValue>>

(* The constructor and createUI; the poke starts from 0. *)
Open(initial, maxValue) ==
    /\ ~open /\ open' = TRUE
    /\ m_value' = IF initial > maxValue THEN maxValue ELSE initial
    /\ m_maxValue' = maxValue
    /\ m_display' = Numeral[m_value']
    /\ UNCHANGED <<given, m_searchValue>>

(* Mutant of appendDigit: no test for the overflow of u64. *)
AppendWrapped(d) ==
    LET next == U64(m_value * 10 + d)
    IN  /\ open
        /\ next <= m_maxValue
        /\ m_value' = next /\ m_display' = Numeral[next]
        /\ UNCHANGED <<open, m_maxValue, given, m_searchValue>>

(* Mutant of appendDigit: no test against the maximum. *)
AppendUncapped(d) ==
    LET next == U64(m_value * 10 + d)
    IN  /\ open
        /\ m_value <= (U64Max - d) \div 10
        /\ m_value' = next /\ m_display' = Numeral[next]
        /\ UNCHANGED <<open, m_maxValue, given, m_searchValue>>

appendDigit(d) ==
    LET next == U64(m_value * 10 + d)
    IN  /\ open
        /\ m_value <= (U64Max - d) \div 10 /\ next <= m_maxValue
        /\ m_value' = next /\ m_display' = Numeral[next]
        /\ UNCHANGED <<open, m_maxValue, given, m_searchValue>>

backspace ==
    /\ open
    /\ m_value' = m_value \div 10 /\ m_display' = Numeral[m_value']
    /\ UNCHANGED <<open, m_maxValue, given, m_searchValue>>

clearAll ==
    /\ open
    /\ m_value' = 0 /\ m_display' = Numeral[0]
    /\ UNCHANGED <<open, m_maxValue, given, m_searchValue>>

(* m_onConfirm, which casts to u32, then goBack. *)
Confirm ==
    /\ open /\ open' = FALSE
    /\ given' = m_value /\ m_searchValue' = m_value % (U32Max + 1)
    /\ UNCHANGED <<m_value, m_maxValue, m_display>>

Cancel ==
    /\ open /\ open' = FALSE
    /\ UNCHANGED <<m_value, m_maxValue, m_display, given, m_searchValue>>

Next ==
    \/ \E initial \in {0, m_searchValue}, maxValue \in MaxValues : Open(initial, maxValue)
    \/ \E d \in 0 .. 9 : appendDigit(d)
    \/ backspace \/ clearAll \/ Confirm \/ Cancel

Spec == Init /\ [][Next]_vars

-----------------------------------------------------------------------------
(* Each variable has its type, and the value its bound. *)
TypeOK ==
    /\ open \in BOOLEAN
    /\ m_maxValue \in MaxValues /\ m_value \in 0 .. m_maxValue
    /\ given \in 0 .. U64Max /\ m_searchValue \in 0 .. U32Max

(* A caller that keeps 32 bits of the number, and says so when it opens the
   pad, keeps the number: nothing is cut off by the cast on confirmation. *)
CastExact ==
    [][(given' # given \/ m_searchValue' # m_searchValue) /\ m_maxValue <= U32Max
          => m_searchValue' = given' /\ given' = m_value]_vars

(* The pad is a line of digits: every key does to the number what it does to
   the digits on the screen, whatever the widths, and the caller is given the
   number on the screen. *)
Pad == INSTANCE DigitPad
         WITH line <- m_display, max <- m_maxValue, number <- given
IsADigitPad == Pad!Spec
=============================================================================
