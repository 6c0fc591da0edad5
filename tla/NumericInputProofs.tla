-------------------------- MODULE NumericInputProofs --------------------------
(***************************************************************************)
(* The numeric pad, for integers of every width: its value stays within    *)
(* the maximum, no digit overflows, the caller's 32 bits are enough, and   *)
(* it is the pad of DigitPad.                                              *)
(***************************************************************************)
EXTENDS NumericInput, SequenceTheorems, WellFoundedInduction, TLAPS

(* A digit that passes appendDigit's test of m_value fits in the u64: the
   multiplication and the addition do not wrap. *)
LEMMA DigitFits ==
    ASSUME NEW v \in 0 .. U64Max, NEW d \in 0 .. 9,
           v <= (U64Max - d) \div 10
    PROVE  U64(v * 10 + d) = v * 10 + d
<1>1. U64Max \in Nat /\ 9 <= U64Max
  BY WidthAssumption, SMT
<1>2. 10 * ((U64Max - d) \div 10) <= U64Max - d
  BY <1>1, SMT
<1>3. v * 10 + d \in 0 .. U64Max
  BY <1>1, <1>2, SMT
<1>4. \A n \in 0 .. U64Max : n % (U64Max + 1) = n
  BY <1>1, SMT
<1> QED
  BY <1>3, <1>4 DEF U64

(* One step of the pad keeps the type. *)
LEMMA TypeStep == TypeOK /\ [Next]_vars => TypeOK'
<1> SUFFICES ASSUME TypeOK, [Next]_vars PROVE TypeOK'
  OBVIOUS
<1> USE WidthAssumption
<1>0. U64Max \in Nat /\ U32Max \in Nat /\ m_maxValue \in 0 .. U64Max
  BY DEF TypeOK
<1>1. ASSUME NEW initial \in {0, m_searchValue}, NEW maxValue \in MaxValues,
             Open(initial, maxValue)
      PROVE  TypeOK'
  <2>1. maxValue \in Nat /\ initial \in Nat
    BY DEF TypeOK
  <2>2. m_value' \in 0 .. maxValue
    BY <1>1, <2>1, SMT DEF Open
  <2> QED
    BY <1>1, <2>2 DEF Open, TypeOK
<1>2. ASSUME NEW d \in 0 .. 9, appendDigit(d)
      PROVE  TypeOK'
  <2>1. m_value \in 0 .. U64Max
    BY <1>0, SMT DEF TypeOK
  <2>2. m_value' = m_value * 10 + d
    BY <1>2, <2>1, DigitFits DEF appendDigit
  <2>3. m_value' \in 0 .. m_maxValue
    BY <1>0, <1>2, <2>1, <2>2, SMT DEF appendDigit
  <2> QED
    BY <1>2, <2>3 DEF appendDigit, TypeOK
<1>3. CASE backspace
  <2>1. \A n \in Nat : n \div 10 \in 0 .. n
    BY SMT
  <2>2. m_value' \in 0 .. m_maxValue
    BY <1>0, <1>3, <2>1, SMT DEF backspace, TypeOK
  <2> QED
    BY <1>3, <2>2 DEF backspace, TypeOK
<1>4. CASE clearAll
  BY <1>0, <1>4, SMT DEF clearAll, TypeOK
<1>5. CASE Confirm
  <2>1. m_value \in 0 .. U64Max
    BY <1>0, SMT DEF TypeOK
  <2>2. \A n \in Nat : n % (U32Max + 1) \in 0 .. U32Max
    BY <1>0, SMT
  <2>3. m_searchValue' \in 0 .. U32Max
    BY <1>5, <2>1, <2>2, SMT DEF Confirm
  <2> QED
    BY <1>5, <2>1, <2>3 DEF Confirm, TypeOK
<1>6. CASE Cancel
  BY <1>6 DEF Cancel, TypeOK
<1>7. CASE UNCHANGED vars
  BY <1>7 DEF vars, TypeOK
<1> QED
  BY <1>1, <1>2, <1>3, <1>4, <1>5, <1>6, <1>7 DEF Next

(* The value of a pad is a number between zero and its maximum, and what it
   has given to its caller fits. *)
THEOREM PadTypeCorrect == Spec => []TypeOK
<1>1. ASSUME Init PROVE TypeOK
  <2>1. m_maxValue \in MaxValues /\ m_maxValue \in 0 .. U64Max
    BY <1>1, WidthAssumption DEF Init
  <2>2. 0 \in 0 .. m_maxValue /\ 0 \in 0 .. U64Max /\ 0 \in 0 .. U32Max
    BY <2>1, WidthAssumption, SMT
  <2> QED
    BY <1>1, <2>1, <2>2 DEF Init, TypeOK
<1> QED
  BY <1>1, TypeStep, PTL DEF Spec

(* What a caller keeps in 32 bits is the number of the pad, whenever it asked
   for one that fits. *)
THEOREM CastExactAlways == Spec => CastExact
<1>1. ASSUME TypeOK, [Next]_vars
      PROVE  [(given' # given \/ m_searchValue' # m_searchValue) /\ m_maxValue <= U32Max
                => m_searchValue' = given' /\ given' = m_value]_vars
  <2>1. CASE Confirm
    <3>1. m_maxValue \in Nat /\ U32Max \in Nat /\ m_value \in 0 .. m_maxValue
      BY <1>1, WidthAssumption, SMT DEF TypeOK
    <3>2. ASSUME m_maxValue <= U32Max PROVE m_value % (U32Max + 1) = m_value
      <4>1. \A n \in 0 .. U32Max : n % (U32Max + 1) = n
        BY <3>1, SMT
      <4>2. m_value \in 0 .. U32Max
        BY <3>1, <3>2, SMT
      <4> QED
        BY <4>1, <4>2
    <3> QED
      BY <2>1, <3>2 DEF Confirm
  <2>2. ASSUME ~Confirm PROVE UNCHANGED <<given, m_searchValue>>
    BY <1>1, <2>2 DEF Next, Open, appendDigit, backspace, clearAll, Cancel, vars
  <2> QED
    BY <2>1, <2>2
<1> QED
  BY <1>1, PadTypeCorrect, PTL DEF Spec, CastExact

-----------------------------------------------------------------------------
(* Numerals and what they name. Both are defined by recursion; that a
   recursion has a solution, and that two solutions agree, is shown by
   looking at a least place where it fails. *)

(* A set of numbers that is not empty has a least. *)
LEMMA LeastNumber ==
    ASSUME NEW T \in SUBSET Nat, T # {}
    PROVE  \E m \in T : \A k \in T : m <= k
  <1> DEFINE R == OpToRel(<, Nat)
  <1>1. IsWellFoundedOn(R, Nat)
    BY NatLessThanWellFounded
  <1> HIDE DEF R
  <1>2. PICK m \in T : \A k \in T : <<k, m>> \notin R
    BY <1>1, WFMin
  <1>3. \A k \in T : ~(k < m)
    BY <1>2 DEF R, OpToRel
  <1> QED
    BY <1>3

(* A set of places that is not empty has a last, and Max is it. *)
LEMMA LastPlace ==
    ASSUME NEW n \in Nat, NEW S \in SUBSET (1 .. n), S # {}
    PROVE  Pad!Max(S) \in S /\ \A y \in S : Pad!Max(S) >= y
  <1> DEFINE T == {n - x : x \in S}
  <1>1. PICK m \in T : \A k \in T : m <= k
    <2>1. \A x \in S : n - x \in Nat
      OBVIOUS
    <2>2. T \in SUBSET Nat /\ T # {}
      BY <2>1, Zenon
    <2> HIDE DEF T
    <2> QED
      BY <2>2, LeastNumber
  <1>2. PICK x \in S : m = n - x
    OBVIOUS
  <1>3. \A y \in S : x >= y
    <2> SUFFICES ASSUME NEW y \in S PROVE x >= y
      OBVIOUS
    <2>1. n - y \in T
      OBVIOUS
    <2>2. n - x <= n - y
      BY <1>1, <1>2, <2>1
    <2> QED
      BY <2>2
  <1> QED
    BY <1>3, Zenon DEF Pad!Max

(* What FoldLeft leaves at a set of the first k places of s. *)
Step(f, s, S) ==
    IF S = {} THEN 0 ELSE 10 * f[S \ {Pad!Max(S)}] + s[Pad!Max(S)]

Partial(f, s, k) == f = [S \in SUBSET (1 .. k) |-> Step(f, s, S)]

(* The recursion behind ValueOf has a solution. *)
LEMMA FoldExists ==
    ASSUME NEW s, NEW n \in Nat
    PROVE  \E f : Partial(f, s, n)
  <1> DEFINE T == {k \in Nat : ~ \E f : Partial(f, s, k)}
  <1> SUFFICES ASSUME T # {} PROVE FALSE
    OBVIOUS
  <1>1. PICK m \in T : \A k \in T : m <= k
    <2>1. T \in SUBSET Nat
      OBVIOUS
    <2> HIDE DEF T
    <2> QED
      BY <2>1, LeastNumber
  <1>2. CASE m = 0
    <2> DEFINE f == [S \in SUBSET (1 .. 0) |-> 0]
    <2>1. \A S \in SUBSET (1 .. 0) : S = {}
      OBVIOUS
    <2>2. f = [S \in SUBSET (1 .. 0) |-> Step(f, s, S)]
      BY <2>1 DEF Step
    <2> QED
      BY <1>2, <2>2 DEF Partial
  <1>3. CASE m # 0
    <2>1. m - 1 \in Nat /\ m - 1 \notin T
      BY <1>1, <1>3
    <2>2. PICK f : Partial(f, s, m - 1)
      BY <2>1
    <2> DEFINE g == [S \in SUBSET (1 .. m) |-> Step(f, s, S)]
    <2>3. \A S \in SUBSET (1 .. m - 1) : g[S] = f[S]
      <3>1. f = [S \in SUBSET (1 .. m - 1) |-> Step(f, s, S)]
        BY <2>2 DEF Partial
      <3>2. \A S \in SUBSET (1 .. m - 1) : f[S] = Step(f, s, S)
        BY <3>1
      <3> SUFFICES ASSUME NEW S \in SUBSET (1 .. m - 1) PROVE g[S] = f[S]
        OBVIOUS
      <3>3. S \in SUBSET (1 .. m)
        BY <1>1
      <3>4. g[S] = Step(f, s, S)
        BY <3>3, Zenon
      <3> QED
        BY <3>2, <3>4, Zenon
    <2>4. ASSUME NEW S \in SUBSET (1 .. m)
          PROVE  Step(f, s, S) = Step(g, s, S)
      <3>1. CASE S = {}
        BY <3>1 DEF Step
      <3>2. CASE S # {}
        <4>1. Pad!Max(S) \in S /\ \A y \in S : Pad!Max(S) >= y
          BY <3>2, LastPlace
        <4>2. S \ {Pad!Max(S)} \in SUBSET (1 .. m - 1)
          <5> DEFINE x == Pad!Max(S)
          <5>1. x \in 1 .. m /\ m \in Nat /\ \A y \in S : y \in 1 .. m /\ x >= y
            BY <4>1, <1>1
          <5> HIDE DEF x
          <5>2. \A y \in S : y # x => y \in 1 .. m - 1
            BY <5>1
          <5>3. S \ {x} \in SUBSET (1 .. m - 1)
            BY <5>2
          <5> QED
            BY <5>3 DEF x
        <4> HIDE DEF g
        <4>3. g[S \ {Pad!Max(S)}] = f[S \ {Pad!Max(S)}]
          BY <2>3, <4>2, Zenon
        <4> QED
          BY <3>2, <4>3, Zenon DEF Step
      <3> QED
        BY <3>1, <3>2
    <2>5. g = [S \in SUBSET (1 .. m) |-> Step(g, s, S)]
      <3> DEFINE h == [S \in SUBSET (1 .. m) |-> Step(g, s, S)]
      <3>1. \A S \in SUBSET (1 .. m) : g[S] = h[S]
        <4> SUFFICES ASSUME NEW S \in SUBSET (1 .. m) PROVE g[S] = h[S]
          OBVIOUS
        <4>1. Step(f, s, S) = Step(g, s, S)
          BY <2>4
        <4>2. g[S] = Step(f, s, S)
          OBVIOUS
        <4> HIDE DEF g
        <4> QED
          BY <4>1, <4>2
      <3>2. g = h
        BY <3>1, Zenon
      <3> QED
        BY <3>2
    <2> HIDE DEF g
    <2>6. Partial(g, s, m)
      BY <2>5 DEF Partial
    <2> QED
      BY <2>6
  <1> QED
    BY <1>2, <1>3

(* ValueOf is the recursion's value at all places. *)
LEMMA ValueSolves ==
    ASSUME NEW s \in Seq(Nat)
    PROVE  \E f : Partial(f, s, Len(s)) /\ Pad!ValueOf(s) = f[1 .. Len(s)]
  <1> DEFINE F == CHOOSE f : f = [S \in SUBSET (DOMAIN s) |->
                     IF S = {} THEN 0
                     ELSE 10 * f[S \ {Pad!Max(S)}] + s[Pad!Max(S)]]
  <1>1. Pad!ValueOf(s) = F[DOMAIN s]
    BY Zenon DEF Pad!ValueOf, Pad!FoldLeft, Pad!MapThenFoldSet
  <1>2. DOMAIN s = 1 .. Len(s) /\ Len(s) \in Nat
    OBVIOUS
  <1>3. \E f : f = [S \in SUBSET (1 .. Len(s)) |->
                     IF S = {} THEN 0
                     ELSE 10 * f[S \ {Pad!Max(S)}] + s[Pad!Max(S)]]
    <2>1. PICK f : Partial(f, s, Len(s))
      BY <1>2, FoldExists
    <2> QED
      BY <2>1, Zenon DEF Partial, Step
  <1>4. F = [S \in SUBSET (DOMAIN s) |->
               IF S = {} THEN 0
               ELSE 10 * F[S \ {Pad!Max(S)}] + s[Pad!Max(S)]]
    BY <1>2, <1>3, Zenon
  <1> HIDE DEF F
  <1>5. Partial(F, s, Len(s))
    BY <1>2, <1>4, Zenon DEF Partial, Step
  <1> QED
    BY <1>1, <1>2, <1>5, Zenon

(* The solution, place by place. *)
LEMMA PartialStep ==
    ASSUME NEW s, NEW n \in Nat, NEW f, Partial(f, s, n)
    PROVE  /\ f[1 .. 0] = 0
           /\ \A i \in 1 .. n : f[1 .. i] = 10 * f[1 .. i - 1] + s[i]
  <1>1. \A S \in SUBSET (1 .. n) : f[S] = Step(f, s, S)
    <2>1. f = [S \in SUBSET (1 .. n) |-> Step(f, s, S)]
      BY DEF Partial
    <2> QED
      BY <2>1
  <1>2. 1 .. 0 = {} /\ {} \in SUBSET (1 .. n)
    OBVIOUS
  <1>3. f[1 .. 0] = 0
    BY <1>1, <1>2, Zenon DEF Step
  <1>4. ASSUME NEW i \in 1 .. n
        PROVE  f[1 .. i] = 10 * f[1 .. i - 1] + s[i]
    <2>1. i \in Nat /\ i \in 1 .. i /\ 1 .. i \in SUBSET (1 .. n) /\ 1 .. i # {}
      OBVIOUS
    <2>2. 1 .. i \in SUBSET (1 .. i)
      OBVIOUS
    <2>3. Pad!Max(1 .. i) \in 1 .. i /\ \A y \in 1 .. i : Pad!Max(1 .. i) >= y
      BY <2>1, <2>2, LastPlace, Zenon
    <2>4. Pad!Max(1 .. i) = i
      BY <2>1, <2>3
    <2>5. (1 .. i) \ {i} = 1 .. i - 1
      OBVIOUS
    <2>6. f[1 .. i] = Step(f, s, 1 .. i)
      BY <1>1, <2>1
    <2> QED
      BY <2>1, <2>4, <2>5, <2>6, Zenon DEF Step
  <1> QED
    BY <1>3, <1>4

(* A digit more: ten times the number, and the digit. *)
LEMMA ValueAppend ==
    ASSUME NEW s \in Seq(Nat), NEW d \in Nat
    PROVE  Pad!ValueOf(Append(s, d)) = 10 * Pad!ValueOf(s) + d
  <1> DEFINE t == Append(s, d)
             n == Len(s)
  <1>1. /\ t \in Seq(Nat) /\ n \in Nat /\ Len(t) = n + 1 /\ t[n + 1] = d
        /\ \A i \in 1 .. n : t[i] = s[i]
    OBVIOUS
  <1> HIDE DEF t, n
  <1>2. PICK f : Partial(f, s, n) /\ Pad!ValueOf(s) = f[1 .. n]
    BY ValueSolves DEF n
  <1>3. PICK g : Partial(g, t, n + 1) /\ Pad!ValueOf(t) = g[1 .. n + 1]
    BY <1>1, ValueSolves
  <1>4. f[1 .. 0] = 0 /\ \A i \in 1 .. n : f[1 .. i] = 10 * f[1 .. i - 1] + s[i]
    BY <1>1, <1>2, PartialStep
  <1>5. g[1 .. 0] = 0 /\ \A i \in 1 .. n + 1 : g[1 .. i] = 10 * g[1 .. i - 1] + t[i]
    <2> DEFINE N == n + 1
    <2>1. N \in Nat /\ Partial(g, t, N)
      BY <1>1, <1>3
    <2> HIDE DEF N
    <2>2. g[1 .. 0] = 0 /\ \A i \in 1 .. N : g[1 .. i] = 10 * g[1 .. i - 1] + t[i]
      BY <2>1, PartialStep
    <2> QED
      BY <2>2 DEF N
  <1> DEFINE T == {i \in 0 .. n : f[1 .. i] # g[1 .. i]}
  <1>6. T = {}
    <2> SUFFICES ASSUME T # {} PROVE FALSE
      OBVIOUS
    <2>1. PICK m \in T : \A k \in T : m <= k
      <3>1. T \in SUBSET Nat
        BY <1>1
      <3> HIDE DEF T
      <3> QED
        BY <3>1, LeastNumber
    <2>2. m # 0
      BY <1>4, <1>5, <2>1
    <2>3. m \in 1 .. n /\ m \in 1 .. n + 1 /\ m - 1 \in 0 .. n
      BY <1>1, <2>2
    <2>4. m - 1 \notin T
      BY <1>1, <2>1, <2>3
    <2>5. f[1 .. m - 1] = g[1 .. m - 1]
      BY <2>3, <2>4, Zenon
    <2>6. f[1 .. m] = 10 * f[1 .. m - 1] + s[m]
      BY <1>4, <2>3, Zenon
    <2>7. g[1 .. m] = 10 * g[1 .. m - 1] + t[m]
      BY <1>5, <2>3, Zenon
    <2>8. t[m] = s[m]
      BY <1>1, <2>3, Zenon
    <2>9. f[1 .. m] # g[1 .. m]
      BY Zenon
    <2> QED
      BY <2>5, <2>6, <2>7, <2>8, <2>9, Zenon
  <1>7. f[1 .. n] = g[1 .. n]
    <2>1. n \in 0 .. n
      BY <1>1
    <2> QED
      BY <1>6, <2>1, Zenon
  <1>8. n + 1 \in 1 .. n + 1 /\ (n + 1) - 1 = n
    BY <1>1
  <1>9. g[1 .. n + 1] = 10 * g[1 .. (n + 1) - 1] + t[n + 1]
    BY <1>5, <1>8, Zenon
  <1> QED
    BY <1>1, <1>2, <1>3, <1>7, <1>8, <1>9, Zenon DEF t

(* A single digit is its own number. *)
LEMMA ValueOfDigit ==
    ASSUME NEW d \in Nat
    PROVE  Pad!ValueOf(<<d>>) = d
  <1>1. <<>> \in Seq(Nat) /\ Len(<<>>) = 0
    OBVIOUS
  <1>2. PICK f : Partial(f, <<>>, 0) /\ Pad!ValueOf(<<>>) = f[1 .. 0]
    BY <1>1, ValueSolves
  <1>3. 0 \in Nat
    OBVIOUS
  <1>4. f[1 .. 0] = 0
    BY <1>2, <1>3, PartialStep, Zenon
  <1>5. Pad!ValueOf(Append(<<>>, d)) = 10 * Pad!ValueOf(<<>>) + d
    BY <1>1, ValueAppend
  <1>6. Append(<<>>, d) = <<d>>
    OBVIOUS
  <1>7. Pad!ValueOf(<<>>) = 0
    BY <1>2, <1>4, Zenon
  <1> QED
    BY <1>5, <1>6, <1>7

(* The recursion of Numeral, on an initial part of the numbers. *)
Digit(f, n) == IF n < 10 THEN <<n>> ELSE Append(f[n \div 10], n % 10)

(* A number of two digits or more has a shorter one before its last. *)
LEMMA Shorter ==
    ASSUME NEW n \in Nat
    PROVE  /\ n \div 10 \in 0 .. n /\ n % 10 \in 0 .. 9
           /\ n = 10 * (n \div 10) + (n % 10)
           /\ n >= 10 => n \div 10 \in 1 .. n - 1
           /\ n < 10 => n \div 10 = 0
  <1>1. n \div 10 \in Nat /\ n % 10 \in 0 .. 9 /\ n = 10 * (n \div 10) + (n % 10)
    OBVIOUS
  <1>2. \A q \in Nat, r \in 0 .. 9 :
          n = 10 * q + r => /\ q \in 0 .. n /\ (n < 10 => q = 0)
                            /\ n >= 10 => q \in 1 .. n - 1
    OBVIOUS
  <1> QED
    BY <1>1, <1>2, Zenon

(* It has a solution. *)
LEMMA NumeralExists ==
    ASSUME NEW n \in Nat
    PROVE  \E f : f = [k \in 0 .. n |-> Digit(f, k)]
  <1> DEFINE T == {k \in Nat : ~ \E f : f = [j \in 0 .. k |-> Digit(f, j)]}
  <1> SUFFICES ASSUME T # {} PROVE FALSE
    OBVIOUS
  <1>1. PICK m \in T : \A k \in T : m <= k
    <2>1. T \in SUBSET Nat
      OBVIOUS
    <2> HIDE DEF T
    <2> QED
      BY <2>1, LeastNumber
  <1>2. CASE m = 0
    <2> DEFINE f == [k \in 0 .. 0 |-> <<k>>]
    <2>1. \A k \in 0 .. 0 : Digit(f, k) = <<k>>
      BY DEF Digit
    <2>2. f = [k \in 0 .. 0 |-> Digit(f, k)]
      BY <2>1
    <2> HIDE DEF f
    <2> QED
      BY <1>2, <2>2
  <1>3. CASE m # 0
    <2>1. m \in Nat /\ m - 1 \in Nat /\ m - 1 \notin T
      BY <1>1, <1>3
    <2>2. PICK f : f = [k \in 0 .. m - 1 |-> Digit(f, k)]
      BY <2>1
    <2> DEFINE g == [k \in 0 .. m |-> Digit(f, k)]
    <2>3. \A k \in 0 .. m - 1 : g[k] = f[k]
      <3>1. \A k \in 0 .. m - 1 : f[k] = Digit(f, k)
        BY <2>2
      <3>2. \A k \in 0 .. m - 1 : k \in 0 .. m
        BY <2>1
      <3> QED
        BY <3>1, <3>2
    <2>4. ASSUME NEW k \in 0 .. m
          PROVE  g[k] = Digit(g, k)
      <3>1. g[k] = Digit(f, k)
        OBVIOUS
      <3> HIDE DEF g
      <3>2. CASE k < 10
        BY <3>1, <3>2, Zenon DEF Digit
      <3>3. CASE ~(k < 10)
        <4>1. k \div 10 \in 0 .. m - 1
          BY <2>1, <3>3, Shorter
        <4>2. g[k \div 10] = f[k \div 10]
          BY <2>3, <4>1, Zenon
        <4> QED
          BY <3>1, <3>3, <4>2, Zenon DEF Digit
      <3> QED
        BY <3>2, <3>3
    <2>5. g = [k \in 0 .. m |-> Digit(g, k)]
      <3> DEFINE h == [k \in 0 .. m |-> Digit(g, k)]
      <3>1. \A k \in 0 .. m : g[k] = h[k]
        BY <2>4, Zenon
      <3>2. g = h
        BY <3>1, Zenon
      <3> QED
        BY <3>2, Zenon
    <2> HIDE DEF g
    <2>6. \E e : e = [j \in 0 .. m |-> Digit(e, j)]
      BY <2>5, Zenon
    <2> QED
      BY <2>6
  <1> QED
    BY <1>2, <1>3

(* The numeral of a number below ten is its digit; of another, that of its
   tenth and its last digit. *)
LEMMA NumeralSolves ==
    ASSUME NEW n \in 0 .. U64Max
    PROVE  Numeral[n] = Digit(Numeral, n)
  <1>1. U64Max \in Nat
    BY WidthAssumption
  <1>2. PICK f : f = [k \in 0 .. U64Max |-> Digit(f, k)]
    BY <1>1, NumeralExists
  <1>3. Numeral = [k \in 0 .. U64Max |-> IF k < 10 THEN <<k>>
                     ELSE Append(Numeral[k \div 10], k % 10)]
    BY <1>2, Zenon DEF Numeral, Digit
  <1> QED
    BY <1>3, Zenon DEF Digit

(* A numeral is a line of digits with one at least, and names its number. *)
LEMMA NumeralNames ==
    ASSUME NEW n \in 0 .. U64Max
    PROVE  Numeral[n] \in Seq(Nat) /\ Len(Numeral[n]) > 0
           /\ Pad!ValueOf(Numeral[n]) = n
  <1> DEFINE Good(k) == /\ Numeral[k] \in Seq(Nat) /\ Len(Numeral[k]) > 0
                        /\ Pad!ValueOf(Numeral[k]) = k
             T == {k \in 0 .. U64Max : ~Good(k)}
  <1>0. U64Max \in Nat
    BY WidthAssumption
  <1> SUFFICES ASSUME T # {} PROVE FALSE
    OBVIOUS
  <1>1. PICK m \in T : \A k \in T : m <= k
    <2>1. T \in SUBSET Nat
      BY <1>0
    <2> HIDE DEF T
    <2> QED
      BY <2>1, LeastNumber
  <1>2. m \in 0 .. U64Max /\ m \in Nat /\ ~Good(m)
    BY <1>0
  <1>3. Numeral[m] = Digit(Numeral, m)
    BY <1>2, NumeralSolves
  <1>4. CASE m < 10
    <2>1. Numeral[m] = <<m>>
      BY <1>3, <1>4 DEF Digit
    <2>2. <<m>> \in Seq(Nat) /\ Len(<<m>>) > 0
      BY <1>2
    <2>3. Pad!ValueOf(<<m>>) = m
      BY <1>2, ValueOfDigit
    <2> QED
      BY <1>2, <2>1, <2>2, <2>3
  <1>5. CASE ~(m < 10)
    <2> DEFINE q == m \div 10
               r == m % 10
    <2>1. q \in 0 .. U64Max /\ q < m /\ r \in Nat /\ m = 10 * q + r
      BY <1>0, <1>2, <1>5, Shorter
    <2>2. Numeral[m] = Append(Numeral[q], r)
      BY <1>3, <1>5 DEF Digit
    <2> HIDE DEF q, r
    <2>3. q \notin T
      BY <1>0, <1>1, <2>1
    <2>4. Good(q)
      BY <2>1, <2>3
    <2>5. Append(Numeral[q], r) \in Seq(Nat) /\ Len(Append(Numeral[q], r)) > 0
      BY <2>1, <2>4
    <2>6. Pad!ValueOf(Append(Numeral[q], r)) = 10 * Pad!ValueOf(Numeral[q]) + r
      BY <2>1, <2>4, ValueAppend
    <2>7. Pad!ValueOf(Numeral[m]) = m
      BY <2>1, <2>2, <2>4, <2>6
    <2> QED
      BY <1>2, <2>2, <2>5, <2>7
  <1> QED
    BY <1>4, <1>5

(* Typing a digit after the digits of v gives those of 10 * v + d: the 0 of
   an empty pad is replaced, and only that one, since no other numeral names
   zero. *)
LEMMA TypedNumeral ==
    ASSUME NEW v \in 0 .. U64Max, NEW d \in 0 .. 9, v * 10 + d \in 0 .. U64Max
    PROVE  Numeral[v * 10 + d]
             = IF Numeral[v] = <<0>> THEN <<d>> ELSE Append(Numeral[v], d)
  <1> DEFINE w == v * 10 + d
  <1>1. v \in Nat /\ d \in Nat /\ w \in Nat /\ w \in 0 .. U64Max
    BY WidthAssumption
  <1>2. w \div 10 = v /\ w % 10 = d /\ (v = 0 => w = d) /\ (v # 0 => ~(w < 10))
    <2>1. \A q \in Nat, r \in 0 .. 9 : (q * 10 + r) \div 10 = q /\ (q * 10 + r) % 10 = r
      OBVIOUS
    <2> QED
      BY <1>1, <2>1
  <1> HIDE DEF w
  <1>3. Numeral[w] = Digit(Numeral, w) /\ Numeral[v] = Digit(Numeral, v)
    BY <1>1, NumeralSolves
  <1>4. CASE v = 0
    <2>1. Numeral[v] = <<0>> /\ Numeral[w] = <<d>>
      BY <1>2, <1>3, <1>4 DEF Digit
    <2> QED
      BY <2>1 DEF w
  <1>5. CASE v # 0
    <2>1. Numeral[v] # <<0>>
      BY <1>5, NumeralNames, ValueOfDigit
    <2>2. Numeral[w] = Append(Numeral[v], d)
      BY <1>2, <1>3, <1>5 DEF Digit
    <2> QED
      BY <2>1, <2>2 DEF w
  <1> QED
    BY <1>4, <1>5

(* Erasing the last digit of v gives the digits of its tenth. *)
LEMMA ErasedNumeral ==
    ASSUME NEW v \in 0 .. U64Max
    PROVE  Numeral[v \div 10]
             = IF Len(Numeral[v]) = 1 THEN <<0>> ELSE Pad!Front(Numeral[v])
  <1> DEFINE q == v \div 10
             r == v % 10
  <1>1. v \in Nat /\ q \in 0 .. U64Max /\ r \in Nat /\ (v < 10 => q = 0)
    BY WidthAssumption, Shorter
  <1>2. Numeral[v] = Digit(Numeral, v) /\ Numeral[q] = Digit(Numeral, q)
    BY <1>1, NumeralSolves
  <1>3. CASE v < 10
    <2>1. Numeral[v] = <<v>> /\ Numeral[q] = <<0>>
      BY <1>1, <1>2, <1>3 DEF Digit
    <2>2. Len(<<v>>) = 1
      OBVIOUS
    <2> QED
      BY <2>1, <2>2
  <1>4. CASE ~(v < 10)
    <2>1. Numeral[v] = Append(Numeral[q], r)
      BY <1>2, <1>4 DEF Digit
    <2>2. Numeral[q] \in Seq(Nat) /\ Len(Numeral[q]) > 0
      BY <1>1, NumeralNames
    <2> HIDE DEF q, r
    <2>3. ASSUME NEW s \in Seq(Nat), Len(s) > 0
          PROVE  Len(Append(s, r)) # 1 /\ Pad!Front(Append(s, r)) = s
      <3>1. Append(s, r) \in Seq(Nat) /\ Len(Append(s, r)) = Len(s) + 1
        BY <1>1
      <3>2. SubSeq(Append(s, r), 1, Len(s)) = s
        BY <1>1
      <3>3. Len(Append(s, r)) # 1 /\ Len(Append(s, r)) - 1 = Len(s)
        <4>1. Len(s) \in Nat /\ Len(s) > 0
          BY <2>3
        <4> QED
          BY <3>1, <4>1
      <3>4. Pad!Front(Append(s, r)) = SubSeq(Append(s, r), 1, Len(Append(s, r)) - 1)
        BY DEF Pad!Front
      <3> QED
        BY <3>2, <3>3, <3>4
    <2> QED
      BY <2>1, <2>2, <2>3 DEF q
  <1> QED
    BY <1>3, <1>4

-----------------------------------------------------------------------------
(* What is displayed is the value. *)
Shown == m_display = Numeral[m_value]

(* The constructor and every key refresh the display. *)
LEMMA ShownStep == Shown /\ [Next]_vars => Shown'
  BY DEF Shown, vars, Next, Open, appendDigit, backspace, clearAll, Confirm, Cancel

(* Each key of the pad as it is written is one of the pad as the user sees
   it, or changes nothing the user sees. *)
LEMMA PadStep == TypeOK /\ Shown /\ TypeOK' /\ Shown' /\ [Next]_vars => [Pad!Next]_(Pad!padVars)
<1> SUFFICES ASSUME TypeOK, Shown, TypeOK', Shown', [Next]_vars
             PROVE  [Pad!Next]_(Pad!padVars)
  OBVIOUS
<1>0. /\ U64Max \in Nat /\ m_maxValue \in 0 .. U64Max /\ m_value \in 0 .. m_maxValue
      /\ m_value \in 0 .. U64Max
  <2>1. U64Max \in Nat /\ MaxValues \subseteq 0 .. U64Max
    BY WidthAssumption
  <2>2. m_maxValue \in MaxValues /\ m_value \in 0 .. m_maxValue
    BY DEF TypeOK
  <2> QED
    BY <2>1, <2>2
<1>1. ASSUME NEW initial \in {0, m_searchValue}, NEW maxValue \in MaxValues,
             Open(initial, maxValue)
      PROVE  Pad!Open
  <2>1. /\ ~open /\ open' = TRUE /\ m_maxValue' = maxValue /\ given' = given
    BY <1>1 DEF Open
  <2>2. m_value' \in 0 .. maxValue /\ maxValue \in 0 .. U64Max
    BY <2>1, WidthAssumption DEF TypeOK
  <2>3. m_value' \in 0 .. U64Max
    BY <1>0, <2>2
  <2>4. Pad!ValueOf(Numeral[m_value']) = m_value'
    BY <2>3, NumeralNames
  <2>5. Pad!ValueOf(m_display') <= m_maxValue'
    BY <2>1, <2>2, <2>4 DEF Shown
  <2> QED
    BY <2>1, <2>5 DEF Pad!Open
<1>2. ASSUME NEW d \in 0 .. 9, appendDigit(d)
      PROVE  Pad!Type(d)
  <2>1. m_value' = m_value * 10 + d
    BY <1>0, <1>2, DigitFits DEF appendDigit
  <2>2. /\ open /\ open' = open /\ m_maxValue' = m_maxValue /\ given' = given
        /\ m_value' \in 0 .. m_maxValue
    BY <1>2 DEF appendDigit, TypeOK
  <2>3. m_value' \in 0 .. U64Max
    BY <1>0, <2>2
  <2>4. m_display' = Pad!Typed(d)
    <3>1. Numeral[m_value * 10 + d]
            = IF Numeral[m_value] = <<0>> THEN <<d>> ELSE Append(Numeral[m_value], d)
      BY <1>0, <2>1, <2>3, TypedNumeral
    <3> QED
      BY <2>1, <3>1 DEF Shown, Pad!Typed, Pad!Zero
  <2>5. Pad!ValueOf(m_display') = m_value'
    BY <2>3, NumeralNames DEF Shown
  <2>6. Pad!ValueOf(Pad!Typed(d)) <= m_maxValue
    BY <1>0, <2>2, <2>4, <2>5
  <2> QED
    BY <2>2, <2>4, <2>6 DEF Pad!Type
<1>3. CASE backspace
  <2>1. m_value' = m_value \div 10
    BY <1>3 DEF backspace
  <2>2. Numeral[m_value \div 10]
          = IF Len(Numeral[m_value]) = 1 THEN <<0>> ELSE Pad!Front(Numeral[m_value])
    BY <1>0, ErasedNumeral
  <2>3. m_display' = IF Len(m_display) = 1 THEN Pad!Zero ELSE Pad!Front(m_display)
    BY <2>1, <2>2 DEF Shown, Pad!Zero
  <2> QED
    BY <1>3, <2>3 DEF backspace, Pad!Erase, Pad!Next
<1>4. CASE clearAll
  <2>1. Numeral[0] = <<0>>
    <3>1. 0 \in 0 .. U64Max /\ 0 < 10
      BY <1>0
    <3> QED
      BY <3>1, NumeralSolves DEF Digit
  <2> QED
    BY <1>4, <2>1 DEF clearAll, Pad!EraseAll, Pad!Zero, Pad!Next
<1>5. CASE Confirm
  <2>1. Pad!ValueOf(m_display) = m_value
    BY <1>0, NumeralNames DEF Shown
  <2> QED
    BY <1>5, <2>1 DEF Confirm, Pad!Confirm, Pad!Next
<1>6. CASE Cancel
  BY <1>6 DEF Cancel, Pad!Cancel, Pad!Next
<1>7. CASE UNCHANGED vars
  BY <1>7 DEF vars, Pad!padVars
<1> QED
  BY <1>1, <1>2, <1>3, <1>4, <1>5, <1>6, <1>7 DEF Next, Pad!Next

(* The pad written with a u64 and two tests for each digit is the line of
   digits its user sees, for every width of the integers: what is typed is
   what is displayed, what is erased is the last digit, what the caller is
   given is the number on the screen, and it never exceeds the maximum. *)
THEOREM IsADigitPadAlways == Spec => IsADigitPad
<1>1. Init => Shown /\ Pad!Init
  <2>1. Numeral[0] = <<0>>
    <3>1. 0 \in 0 .. U64Max /\ 0 < 10
      BY WidthAssumption
    <3> QED
      BY <3>1, NumeralSolves DEF Digit
  <2> QED
    BY <2>1 DEF Init, Shown, Pad!Init, Pad!Zero
<1>2. Spec => []Shown
  BY <1>1, ShownStep, PTL DEF Spec
<1> QED
  BY <1>1, <1>2, PadTypeCorrect, PadStep, PTL DEF Spec, IsADigitPad, Pad!Spec
=============================================================================
