------------------------ MODULE ResultsFilterProofs ------------------------
(***************************************************************************)
(* The pass of a next scan, for every file, every outcome of the           *)
(* comparisons, every size of a batch and every header that counts more    *)
(* than the file holds.                                                    *)
(***************************************************************************)
EXTENDS ResultsFilter, SequenceTheorems, FiniteSetTheorems, TLAPS

(* The old file: entries in order, and a header that may count more, or none. *)
Source ==
    /\ src.ents \in Seq(Address) /\ src.count \in Nat
    /\ Ascending(src.ents)

(* The batch is the stretch of the file behind the entries done with. *)
Batch ==
    /\ pc \in {"read", "test", "done"}
    /\ i \in Nat /\ j \in Nat
    /\ inBuf \in Seq(Address) /\ Len(inBuf) <= kReadBatch /\ j <= Len(inBuf)
    /\ i + Len(inBuf) <= Len(src.ents) /\ i + Len(inBuf) <= src.count
    /\ \A k \in 1 .. Len(inBuf) : inBuf[k] = src.ents[i + k]
    /\ pc # "test" => inBuf = <<>>
    /\ pc = "done" => i = Least(src.count, Len(src.ents))

(* What is kept is recorded once, in order, and counted, wherever it is. *)
Recorded ==
    /\ dst.ents \in Seq(Address) /\ outBuf \in Seq(Address) /\ lost \subseteq Address
    /\ Len(outBuf) < kReadBatch /\ kept \in Nat
    /\ Ascending(Out) /\ lost \cap ToSet(Out) = {}
    /\ kept = Cardinality(Kept)

(* The header is the first until the file is closed. *)
Header ==
    /\ dst \in [count : Nat \cup {NoHeader}, ents : Seq(Address)]
    /\ pc # "done" => dst.count \in {0, NoHeader}
    /\ pc = "done" => outBuf = <<>> /\ dst.count \in {kept, 0, NoHeader}

Tested == {src.ents[l] : l \in 1 .. i + j}

(* All that is kept has been tested; and as long as the comparisons can be
   made, what is kept is what they say. *)
AsCompared ==
    /\ alive \in BOOLEAN /\ holds \subseteq Address
    /\ Kept \subseteq Tested
    /\ alive => Kept = Tested \cap holds

IInv == Source /\ Batch /\ Recorded /\ Header /\ AsCompared

-----------------------------------------------------------------------------
(* The entries of one sequence and of one behind it. *)
LEMMA ConcatEntries ==
    ASSUME NEW S, NEW s \in Seq(S), NEW t \in Seq(S)
    PROVE  /\ Len(s) \in Nat /\ Len(t) \in Nat /\ DOMAIN s = 1 .. Len(s) /\ DOMAIN t = 1 .. Len(t)
           /\ DOMAIN (s \o t) = 1 .. Len(s) + Len(t)
           /\ \A k \in 1 .. Len(s) : (s \o t)[k] = s[k]
           /\ \A k \in 1 .. Len(t) : (s \o t)[Len(s) + k] = t[k]
  <1> DEFINE u == s \o t
  <1>1. /\ Len(s) \in Nat /\ Len(t) \in Nat /\ DOMAIN s = 1 .. Len(s) /\ DOMAIN t = 1 .. Len(t)
        /\ u \in Seq(S) /\ Len(u) = Len(s) + Len(t)
        /\ \A k \in 1 .. Len(s) + Len(t) : u[k] = IF k <= Len(s) THEN s[k] ELSE t[k - Len(s)]
    BY LenProperties, ConcatProperties
  <1>2. DOMAIN u = 1 .. Len(s) + Len(t)
    BY <1>1, LenProperties
  <1> HIDE DEF u
  <1>3. \A k \in 1 .. Len(s) : u[k] = s[k]
    BY <1>1
  <1>4. \A k \in 1 .. Len(t) : u[Len(s) + k] = t[k]
    BY <1>1
  <1> QED
    BY <1>1, <1>2, <1>3, <1>4 DEF u

(* They are the entries of the one and of the other. *)
LEMMA ToSetConcat ==
    ASSUME NEW S, NEW s \in Seq(S), NEW t \in Seq(S)
    PROVE  ToSet(s \o t) = ToSet(s) \cup ToSet(t)
  <1> DEFINE u == s \o t
  <1>1. /\ Len(s) \in Nat /\ Len(t) \in Nat /\ DOMAIN s = 1 .. Len(s) /\ DOMAIN t = 1 .. Len(t)
        /\ DOMAIN u = 1 .. Len(s) + Len(t)
        /\ \A k \in 1 .. Len(s) : u[k] = s[k]
        /\ \A k \in 1 .. Len(t) : u[Len(s) + k] = t[k]
    BY ConcatEntries
  <1> HIDE DEF u
  <1>2. \A k \in DOMAIN u : u[k] \in ToSet(s) \cup ToSet(t)
    <2> SUFFICES ASSUME NEW k \in DOMAIN u
                 PROVE  u[k] \in ToSet(s) \cup ToSet(t)
      OBVIOUS
    <2>1. CASE k <= Len(s)
      BY <1>1, <2>1 DEF ToSet
    <2>2. CASE ~(k <= Len(s))
      <3>1. k - Len(s) \in 1 .. Len(t) /\ k = Len(s) + (k - Len(s))
        BY <1>1, <2>2
      <3> QED
        BY <1>1, <3>1 DEF ToSet
    <2> QED
      BY <2>1, <2>2
  <1>3. \A k \in DOMAIN s : s[k] \in ToSet(u)
    BY <1>1 DEF ToSet
  <1>4. \A k \in DOMAIN t : t[k] \in ToSet(u)
    <2> SUFFICES ASSUME NEW k \in 1 .. Len(t)
                 PROVE  t[k] \in ToSet(u)
      BY <1>1
    <2>1. Len(s) + k \in DOMAIN u /\ u[Len(s) + k] = t[k]
      BY <1>1
    <2> QED
      BY <2>1 DEF ToSet
  <1>5. ToSet(u) \subseteq ToSet(s) \cup ToSet(t)
    BY <1>2 DEF ToSet
  <1>6. ToSet(s) \cup ToSet(t) \subseteq ToSet(u)
    BY <1>3, <1>4 DEF ToSet
  <1> QED
    BY <1>5, <1>6 DEF u

(* One sequence behind another ascends if both do and the second starts above
   the first. *)
LEMMA AscendingConcat ==
    ASSUME NEW S \in SUBSET Nat, NEW s \in Seq(S), NEW t \in Seq(S)
    PROVE  Ascending(s \o t) <=>
             /\ Ascending(s) /\ Ascending(t)
             /\ \A a \in ToSet(s), b \in ToSet(t) : a < b
  <1> DEFINE u == s \o t
             m == Len(s)
             n == Len(t)
  <1>1. /\ m \in Nat /\ n \in Nat /\ DOMAIN s = 1 .. m /\ DOMAIN t = 1 .. n
        /\ DOMAIN u = 1 .. m + n
        /\ \A k \in 1 .. m : u[k] = s[k]
        /\ \A k \in 1 .. n : u[m + k] = t[k]
    BY ConcatEntries
  <1> HIDE DEF u, m, n
  <1>2. ASSUME Ascending(u)
        PROVE  /\ Ascending(s) /\ Ascending(t)
               /\ \A a \in ToSet(s), b \in ToSet(t) : a < b
    <2>1. \A k, l \in 1 .. m + n : k < l => u[k] < u[l]
      BY <1>1, <1>2 DEF Ascending
    <2>2. Ascending(s)
      BY <1>1, <2>1 DEF Ascending
    <2>3. ASSUME NEW k \in 1 .. n, NEW l \in 1 .. n, k < l PROVE t[k] < t[l]
      <3>1. m + k \in 1 .. m + n /\ m + l \in 1 .. m + n /\ m + k < m + l
        BY <1>1, <2>3
      <3> QED
        BY <1>1, <2>1, <3>1
    <2>4. ASSUME NEW k \in 1 .. m, NEW l \in 1 .. n PROVE s[k] < t[l]
      <3>1. k \in 1 .. m + n /\ m + l \in 1 .. m + n /\ k < m + l
        BY <1>1
      <3> QED
        BY <1>1, <2>1, <3>1
    <2>5. \A a \in ToSet(s), b \in ToSet(t) : a < b
      BY <1>1, <2>4 DEF ToSet
    <2>6. Ascending(t)
      BY <1>1, <2>3 DEF Ascending
    <2> QED
      BY <2>2, <2>5, <2>6
  <1>3. ASSUME Ascending(s), Ascending(t), \A a \in ToSet(s), b \in ToSet(t) : a < b
        PROVE  Ascending(u)
    <2> SUFFICES ASSUME NEW k \in 1 .. m + n, NEW l \in 1 .. m + n, k < l
                 PROVE  u[k] < u[l]
      BY <1>1 DEF Ascending
    <2>1. CASE l \in 1 .. m
      <3>1. k \in 1 .. m
        BY <1>1, <2>1
      <3> QED
        BY <1>1, <1>3, <2>1, <3>1 DEF Ascending
    <2>2. CASE l \notin 1 .. m
      <3>1. l - m \in 1 .. n /\ u[l] = t[l - m]
        <4>1. l - m \in 1 .. n /\ l = m + (l - m)
          BY <1>1, <2>2
        <4> QED
          BY <1>1, <4>1
      <3>2. CASE k \in 1 .. m
        <4>1. s[k] \in ToSet(s) /\ t[l - m] \in ToSet(t)
          BY <1>1, <3>1, <3>2 DEF ToSet
        <4> QED
          BY <1>1, <1>3, <3>1, <3>2, <4>1
      <3>3. CASE k \notin 1 .. m
        <4>1. k - m \in 1 .. n /\ k = m + (k - m) /\ k - m < l - m
          BY <1>1, <2>2, <3>3
        <4>2. u[k] = t[k - m]
          BY <1>1, <4>1
        <4> QED
          BY <1>1, <1>3, <3>1, <4>1, <4>2 DEF Ascending
      <3> QED
        BY <3>2, <3>3
    <2> QED
      BY <2>1, <2>2
  <1> QED
    BY <1>2, <1>3 DEF u

(* An ascending sequence has no entry twice. *)
LEMMA AscendingCounts ==
    ASSUME NEW s \in Seq(Nat), Ascending(s)
    PROVE  IsFiniteSet(ToSet(s)) /\ Cardinality(ToSet(s)) = Len(s)
  <1> DEFINE n == Len(s)
  <1>1. n \in Nat /\ DOMAIN s = 1 .. n /\ s \in [1 .. n -> Nat]
    BY LenProperties
  <1> HIDE DEF n
  <1>2. IsFiniteSet(1 .. n) /\ Cardinality(1 .. n) = n
    <2>1. 1 \in Int /\ n \in Int
      BY <1>1
    <2>2. IsFiniteSet(1 .. n) /\ Cardinality(1 .. n) = IF 1 > n THEN 0 ELSE n - 1 + 1
      BY <2>1, FS_Interval
    <2> QED
      BY <1>1, <2>2
  <1>3. s \in [1 .. n -> ToSet(s)]
    BY <1>1 DEF ToSet
  <1>4. \A k, l \in 1 .. n : s[k] = s[l] => k = l
    <2> SUFFICES ASSUME NEW k \in 1 .. n, NEW l \in 1 .. n, s[k] = s[l], k # l
                 PROVE  FALSE
      OBVIOUS
    <2>1. s[k] \in Nat /\ (k < l \/ l < k)
      BY <1>1
    <2> QED
      BY <1>1, <2>1 DEF Ascending
  <1>5. s \in Bijection(1 .. n, ToSet(s))
    <2>1. \A e \in ToSet(s) : \E k \in 1 .. n : s[k] = e
      BY <1>1 DEF ToSet
    <2> QED
      BY <1>3, <1>4, <2>1 DEF Bijection, Injection, Surjection, IsInjective
  <1>6. ExistsBijection(1 .. n, ToSet(s))
    BY <1>5 DEF ExistsBijection
  <1> QED
    BY <1>2, <1>6, FS_Bijection DEF n

(* What is written of a buffer is a part of it, in its order. *)
LEMMA WrittenPart ==
    ASSUME NEW S, NEW b \in Seq(S), NEW w \in Written(b)
    PROVE  w \in Seq(S) /\ ToSet(w) \subseteq ToSet(b) /\ Ascending(w)
  <1>1. w \in SeqOf(ToSet(b), Len(b)) /\ Ascending(w)
    BY DEF Written
  <1>2. PICK m \in 0 .. Len(b) : w \in [1 .. m -> ToSet(b)]
    BY <1>1 DEF SeqOf
  <1>3. ToSet(b) \subseteq S
    BY LenProperties DEF ToSet
  <1>4. m \in Nat
    BY LenProperties
  <1>5. ToSet(w) \subseteq ToSet(b)
    BY <1>2 DEF ToSet
  <1>6. w \in [1 .. m -> S]
    BY <1>2, <1>3
  <1> QED
    BY <1>1, <1>4, <1>5, <1>6

(* What has been tested is a stretch of the file. *)
LEMMA TestedInFile ==
    ASSUME IInv
    PROVE  /\ i \in Nat /\ j \in Nat /\ Len(src.ents) \in Nat /\ i + j <= Len(src.ents)
           /\ i + j <= src.count
           /\ \A l \in 1 .. i + j : src.ents[l] \in Address
  BY DEF IInv, Source, Batch

(* A file the scan may have left, and nothing done yet. *)
LEMMA InitIInv == Init => IInv
  <1> SUFFICES ASSUME Init
               PROVE  IInv
    OBVIOUS
  <1> USE FilterAssumption
  <1>1. PICK e \in SeqOf(Address, Cardinality(Address)), n \in 0 .. MaxMissing :
               /\ Ascending(e)
               /\ src \in {[count |-> c, ents |-> e] : c \in {0, Len(e) + n}}
    BY DEF Init
  <1>2. e \in Seq(Address)
    <2>1. Cardinality(Address) \in Nat
      BY FS_CardinalityType
    <2>2. PICK m \in 0 .. Cardinality(Address) : e \in [1 .. m -> Address]
      BY DEF SeqOf
    <2>3. m \in Nat
      BY <2>1
    <2> QED
      BY <2>2, <2>3
  <1>3. Len(e) \in Nat /\ n \in Nat
    BY <1>2, FilterAssumption
  <1>4. Source /\ src.ents = e
    BY <1>1, <1>2, <1>3 DEF Source
  <1>5. Batch
    <2>1. Len(src.ents) \in Nat /\ src.count \in Nat
      BY <1>3, <1>4 DEF Source
    <2> QED
      BY <2>1 DEF Init, Batch
  <1>6. /\ dst.ents = <<>> /\ outBuf = <<>> /\ Out = <<>> /\ lost = {}
        /\ ToSet(Out) = {} /\ Kept = {} /\ Ascending(Out)
    <2>1. dst.ents = <<>> /\ outBuf = <<>> /\ lost = {}
      BY DEF Init
    <2>2. <<>> \o <<>> = <<>> /\ DOMAIN <<>> = {}
      BY ConcatEmptySeq, EmptySeq
    <2>3. Out = <<>>
      BY <2>1, <2>2 DEF Out
    <2>4. ToSet(Out) = {} /\ Ascending(Out)
      BY <2>2, <2>3 DEF ToSet, Ascending
    <2> QED
      BY <2>1, <2>3, <2>4 DEF Kept
  <1>7. Recorded
    <2>1. <<>> \in Seq(Address) /\ Len(<<>>) = 0
      BY EmptySeq
    <2>2. kept = 0 /\ Cardinality({}) = 0
      BY FS_EmptySet DEF Init
    <2> QED
      BY <1>6, <2>1, <2>2 DEF Recorded
  <1>8. Header
    <2>1. PICK c \in {0, NoHeader} : dst = [count |-> c, ents |-> <<>>]
      BY DEF Init
    <2>2. dst.count = c /\ <<>> \in Seq(Address) /\ c \in Nat \cup {NoHeader} /\ pc # "done"
      BY <2>1 DEF Init
    <2>3. dst \in [count : Nat \cup {NoHeader}, ents : Seq(Address)]
      BY <2>1, <2>2
    <2> QED
      BY <2>2, <2>3 DEF Header
  <1>9. AsCompared
    <2>1. holds \subseteq Address
      <3>1. ToSet(src.ents) \subseteq Address
        BY <1>2, <1>4 DEF ToSet
      <3> QED
        BY <3>1 DEF Init
    <2>2. Tested = {} /\ alive = TRUE
      BY DEF Init, Tested
    <2> QED
      BY <1>6, <2>1, <2>2 DEF AsCompared
  <1> QED
    BY <1>4, <1>5, <1>7, <1>8, <1>9 DEF IInv

-----------------------------------------------------------------------------
(* The game is gone: nothing is compared any more, nothing else changes. *)
LEMMA GameKilledKeepsIInv ==
    ASSUME IInv, GameKilled
    PROVE  IInv'
  <1>1. /\ UNCHANGED <<src, pc, i, j, inBuf, outBuf, kept, dst, lost>>
        /\ alive' = FALSE /\ holds' = {}
    BY DEF GameKilled
  <1>2. Kept' = Kept /\ Out' = Out /\ Tested' = Tested
    BY <1>1 DEF Kept, Out, Tested
  <1> QED
    BY <1>1, <1>2 DEF IInv, Source, Batch, Recorded, Header, AsCompared

(* A batch is never longer than the buffer or than what is left. *)
LEMMA GotBounds ==
    ASSUME IInv, i < src.count
    PROVE  /\ Got \in Nat /\ Got <= kReadBatch
           /\ i + Got <= Len(src.ents) /\ i + Got <= src.count
           /\ Got = 0 => i = Least(src.count, Len(src.ents))
  <1>1. /\ i \in Nat /\ src.count \in Nat /\ Len(src.ents) \in Nat /\ i <= Len(src.ents)
        /\ kReadBatch \in Nat \ {0}
    BY FilterAssumption DEF IInv, Source, Batch
  <1> DEFINE n == Len(src.ents)
  <1> HIDE DEF n
  <1> QED
    BY <1>1 DEF Got, Least, n

(* A step that keeps nothing and leaves as many entries tested. *)
LEMMA SameRecord ==
    ASSUME IInv, UNCHANGED <<src, holds, alive, outBuf, kept, dst, lost>>, i' + j' = i + j
    PROVE  Recorded' /\ AsCompared'
  <1>1. Out' = Out
    BY DEF Out
  <1>2. Kept' = Kept
    BY <1>1 DEF Kept
  <1>3. Tested' = Tested
    BY DEF Tested
  <1> QED
    BY <1>1, <1>2, <1>3 DEF IInv, Recorded, AsCompared

(* fread: the batch is the next stretch of the file. *)
LEMMA ReadBatchKeepsIInv ==
    ASSUME IInv, ReadBatch
    PROVE  IInv'
  <1> USE DEF ReadBatch
  <1>1. /\ Got \in Nat /\ Got > 0 /\ Got <= kReadBatch
        /\ i + Got <= Len(src.ents) /\ i + Got <= src.count
    BY GotBounds
  <1>2. /\ i \in Nat /\ i' = i /\ j' = 0 /\ pc' = "test" /\ pc = "read"
        /\ inBuf' = SubSeq(src.ents, i + 1, i + Got) /\ src.ents \in Seq(Address)
        /\ UNCHANGED <<src, holds, alive, outBuf, kept, dst, lost>>
    BY DEF IInv, Source, Batch
  <1> HIDE DEF ReadBatch
  <1> DEFINE g == Got
  <1>3. /\ inBuf' \in Seq(Address) /\ Len(inBuf') = g
        /\ \A k \in 1 .. g : inBuf'[k] = src.ents[i + k]
    <2> HIDE DEF g
    <2>1. g \in Nat /\ g > 0 /\ i + g <= Len(src.ents)
      BY <1>1 DEF g
    <2>2. \A k \in i + 1 .. i + g : src.ents[k] \in Address
      BY <1>2, <2>1
    <2>3. inBuf' = SubSeq(src.ents, i + 1, i + g)
      BY <1>2 DEF g
    <2>4. i + 1 \in Int /\ i + g \in Int
      BY <1>2, <2>1
    <2>5. /\ inBuf' \in Seq(Address)
          /\ Len(inBuf') = IF i + 1 <= i + g THEN (i + g) - (i + 1) + 1 ELSE 0
          /\ \A k \in 1 .. (i + g) - (i + 1) + 1 : inBuf'[k] = src.ents[(i + 1) + k - 1]
      BY <2>2, <2>3, <2>4, SubSeqProperties
    <2>6. i \in Nat /\ g \in Nat
      BY <1>2, <2>1
    <2>7. (i + g) - (i + 1) + 1 = g /\ \A k \in 1 .. g : (i + 1) + k - 1 = i + k
      BY <2>6
    <2>8. Len(inBuf') = g
      BY <2>1, <2>5, <2>6
    <2> QED
      BY <2>5, <2>7, <2>8
  <1>4. Batch'
    BY <1>1, <1>2, <1>3 DEF Batch
  <1>5. j = 0
    BY <1>2 DEF IInv, Batch
  <1>6. Source'
    BY <1>2 DEF IInv, Source
  <1>7. Recorded' /\ AsCompared'
    BY <1>2, <1>5, SameRecord DEF IInv
  <1>8. Header'
    BY <1>2 DEF IInv, Header
  <1> QED
    BY <1>4, <1>6, <1>7, <1>8 DEF IInv

(* fwrite: whatever part of the buffer is written, nothing is recorded twice
   and each entry is in the file or counts as lost. *)
LEMMA Writes ==
    ASSUME Address \subseteq Nat, dst.ents \in Seq(Address), lost \subseteq Address,
           NEW b \in Seq(Address), NEW n,
           Ascending(dst.ents \o b), lost \cap ToSet(dst.ents \o b) = {}, WriteOut(b, n)
    PROVE  /\ dst'.ents \in Seq(Address) /\ dst' = [count |-> n, ents |-> dst'.ents]
           /\ outBuf' = <<>> /\ outBuf' \in Seq(Address) /\ lost' \subseteq Address
           /\ Ascending(Out') /\ lost' \cap ToSet(Out') = {}
           /\ Kept' = ToSet(dst.ents \o b) \cup lost
  <1> DEFINE f == dst.ents
  <1>1. PICK w \in Written(b) : dst' = [count |-> n, ents |-> f \o w] /\ lost' = lost \cup Lost(b, w)
    BY DEF WriteOut
  <1>2. w \in Seq(Address) /\ ToSet(w) \subseteq ToSet(b) /\ Ascending(w)
    BY WrittenPart
  <1>3. /\ outBuf' = <<>> /\ <<>> \in Seq(Address) /\ f \o w \in Seq(Address)
        /\ dst'.ents = f \o w /\ dst' = [count |-> n, ents |-> dst'.ents] /\ Out' = f \o w
    <2>1. outBuf' = <<>>
      BY DEF WriteOut
    <2>2. f \o w \in Seq(Address)
      BY <1>2, ConcatProperties
    <2>3. (f \o w) \o <<>> = f \o w
      BY <2>2, ConcatEmptySeq
    <2> HIDE DEF f
    <2>4. dst'.ents = f \o w
      BY <1>1
    <2> QED
      BY <1>1, <2>1, <2>2, <2>3, <2>4 DEF Out
  <1>4. /\ Ascending(f)
        /\ \A x \in ToSet(f), y \in ToSet(b) : x < y
    BY AscendingConcat
  <1>5. Ascending(f \o w)
    BY <1>2, <1>4, AscendingConcat
  <1>6. ToSet(f \o b) = ToSet(f) \cup ToSet(b) /\ ToSet(f \o w) = ToSet(f) \cup ToSet(w)
    <2>1. ToSet(f \o b) = ToSet(f) \cup ToSet(b)
      BY ToSetConcat
    <2>2. w \in Seq(Address)
      BY <1>2
    <2>3. ToSet(f \o w) = ToSet(f) \cup ToSet(w)
      BY <2>2, ToSetConcat
    <2> QED
      BY <2>1, <2>3
  <1>7. \A x \in ToSet(b) : x \in Address /\ x \in Nat
    <2>1. b \in [1 .. Len(b) -> Address] /\ DOMAIN b = 1 .. Len(b)
      BY LenProperties
    <2>2. \A k \in DOMAIN b : b[k] \in Address
      BY <2>1
    <2>3. \A x \in ToSet(b) : x \in Address
      BY <2>2 DEF ToSet
    <2> QED
      BY <2>3
  <1>8. \A x \in ToSet(b) : x \notin ToSet(f)
    <2>1. \A x \in ToSet(b) : x \in ToSet(f) => x < x
      BY <1>4
    <2> QED
      BY <1>7, <2>1
  <1> HIDE DEF f
  <1>9. lost' \subseteq Address
    BY <1>1, <1>7 DEF Lost
  <1>10. lost' \cap ToSet(f \o w) = {}
    <2>1. lost \cap (ToSet(f) \cup ToSet(b)) = {}
      BY <1>6 DEF f
    <2> QED
      BY <1>1, <1>2, <1>6, <1>8, <2>1, Zenon DEF Lost
  <1>11. ToSet(f \o w) \cup lost' = ToSet(f \o b) \cup lost
    BY <1>1, <1>2, <1>6 DEF Lost
  <1>12. Kept' = ToSet(f \o b) \cup lost
    BY <1>3, <1>11 DEF Kept
  <1> QED
    BY <1>3, <1>5, <1>9, <1>10, <1>12 DEF f

(* An entry above all that are kept is recorded behind them, whether the
   buffer is written with it or not and whatever the card takes of that. *)
LEMMA KeepAdds ==
    ASSUME Recorded, Header, NEW a \in Address, \A x \in Kept : x < a, Keep(a)
    PROVE  /\ Recorded' /\ Kept' = Kept \cup {a}
           /\ dst' \in [count : Nat \cup {NoHeader}, ents : Seq(Address)]
           /\ dst'.count = dst.count
  <1> DEFINE b == Append(outBuf, a)
             f == dst.ents
  <1>1. /\ f \in Seq(Address) /\ outBuf \in Seq(Address) /\ lost \subseteq Address
        /\ Len(outBuf) < kReadBatch /\ Ascending(Out) /\ lost \cap ToSet(Out) = {}
        /\ kept = Cardinality(Kept) /\ kept' = kept + 1
    BY DEF Recorded, Keep
  <1>2. b \in Seq(Address) /\ Len(b) = Len(outBuf) + 1 /\ Len(outBuf) \in Nat /\ Out \in Seq(Address)
    BY <1>1, AppendProperties, LenProperties, ConcatProperties DEF Out
  <1>3. f \o b = Out \o <<a>> /\ <<a>> \in Seq(Address)
    <2>1. b = outBuf \o <<a>> /\ <<a>> \in Seq(Address)
      BY <1>1, AppendIsConcat
    <2>2. Out = f \o outBuf
      BY DEF Out
    <2> HIDE DEF f, b
    <2>3. f \o (outBuf \o <<a>>) = (f \o outBuf) \o <<a>>
      BY <1>1, <2>1, ConcatAssociative
    <2> QED
      BY <2>1, <2>2, <2>3
  <1>4. ToSet(<<a>>) = {a} /\ Ascending(<<a>>)
    <2>1. DOMAIN <<a>> = {1} /\ <<a>>[1] = a
      OBVIOUS
    <2> QED
      BY <2>1 DEF ToSet, Ascending
  <1> HIDE DEF b, f
  <1>5. ToSet(f \o b) = ToSet(Out) \cup {a}
    <2>1. ToSet(Out \o <<a>>) = ToSet(Out) \cup ToSet(<<a>>)
      BY <1>2, <1>3, ToSetConcat
    <2> QED
      BY <1>3, <1>4, <2>1
  <1>6. Ascending(f \o b)
    <2>1. \A x \in ToSet(Out), y \in ToSet(<<a>>) : x < y
      BY <1>4 DEF Kept
    <2> QED
      BY <1>1, <1>2, <1>3, <1>4, <2>1, AscendingConcat, FilterAssumption
  <1>7. a \notin Kept
    <2>1. a \in Nat
      BY FilterAssumption
    <2> QED
      BY <2>1
  <1>8. lost \cap ToSet(f \o b) = {}
    BY <1>1, <1>5, <1>7 DEF Kept
  <1>9. kept' = Cardinality(Kept \cup {a}) /\ kept' \in Nat
    <2>1. ToSet(Out) \subseteq Address
      BY <1>2, LenProperties DEF ToSet
    <2>2. Kept \in SUBSET Address
      BY <1>1, <2>1 DEF Kept
    <2>3. IsFiniteSet(Kept)
      BY <2>2, FilterAssumption, FS_Subset
    <2>4. Cardinality(Kept) \in Nat /\ Cardinality(Kept \cup {a}) = Cardinality(Kept) + 1
      BY <1>7, <2>3, FS_AddElement, FS_CardinalityType
    <2> QED
      BY <1>1, <2>4
  <1>10. CASE Len(outBuf) + 1 = kReadBatch
    <2>1. WriteOut(b, dst.count)
      BY <1>10 DEF Keep, b
    <2>2. /\ dst'.ents \in Seq(Address) /\ dst' = [count |-> dst.count, ents |-> dst'.ents]
          /\ outBuf' = <<>> /\ outBuf' \in Seq(Address) /\ lost' \subseteq Address
          /\ Ascending(Out') /\ lost' \cap ToSet(Out') = {}
          /\ Kept' = ToSet(f \o b) \cup lost
      BY <1>1, <1>2, <1>6, <1>8, <2>1, Writes, FilterAssumption DEF f
    <2>3. Kept' = Kept \cup {a}
      BY <1>5, <2>2 DEF Kept
    <2>4. dst.count \in Nat \cup {NoHeader}
      BY DEF Header
    <2>5. dst' \in [count : Nat \cup {NoHeader}, ents : Seq(Address)] /\ dst'.count = dst.count
      BY <2>2, <2>4
    <2>6. Len(outBuf') < kReadBatch
      BY <2>2, FilterAssumption
    <2>7. Ascending(Out)' /\ (lost \cap ToSet(Out) = {})'
      BY <2>2
    <2> QED
      BY <1>9, <2>2, <2>3, <2>5, <2>6, <2>7 DEF Recorded
  <1>11. CASE Len(outBuf) + 1 # kReadBatch
    <2>1. outBuf' = b /\ UNCHANGED <<dst, lost>>
      BY <1>11 DEF Keep, b
    <2>2. Out' = f \o b
      BY <2>1 DEF Out, f
    <2>3. Kept' = Kept \cup {a}
      BY <1>5, <2>1, <2>2 DEF Kept
    <2>4. Len(outBuf') < kReadBatch
      BY <1>1, <1>2, <1>11, <2>1, FilterAssumption
    <2>5. Ascending(Out)' /\ (lost \cap ToSet(Out) = {})'
      BY <1>6, <1>8, <2>1, <2>2
    <2>6. dst'.ents \in Seq(Address) /\ outBuf' \in Seq(Address) /\ lost' \subseteq Address
      BY <1>1, <1>2, <2>1 DEF f
    <2> QED
      BY <1>9, <2>1, <2>3, <2>4, <2>5, <2>6 DEF Recorded, Header
  <1> QED
    BY <1>10, <1>11

(* One more entry is tested; in the file it stands behind all that are kept. *)
LEMMA TestEntryKeepsIInv ==
    ASSUME IInv, TestEntry
    PROVE  IInv'
  <1> DEFINE a == inBuf[j + 1]
             t == i + j + 1
  <1>1. /\ pc = "test" /\ j < Len(inBuf) /\ j' = j + 1
        /\ UNCHANGED <<src, holds, alive, pc, i, inBuf>>
    BY DEF TestEntry
  <1>2. /\ i \in Nat /\ j \in Nat /\ Len(inBuf) \in Nat /\ j + 1 \in 1 .. Len(inBuf)
        /\ i + Len(inBuf) <= Len(src.ents) /\ Len(src.ents) \in Nat
        /\ src.ents \in Seq(Address)
    BY <1>1 DEF IInv, Batch, Source
  <1>3. t \in 1 .. Len(src.ents) /\ a = src.ents[t] /\ a \in Address /\ t \in Nat
    <2>1. a = src.ents[i + (j + 1)]
      BY <1>2 DEF IInv, Batch
    <2> QED
      BY <1>2, <2>1
  <1>4. i' + j' = t /\ t = (i + j) + 1
    BY <1>1, <1>2
  <1>5. Source' /\ Batch'
    BY <1>1, <1>2 DEF IInv, Source, Batch
  <1>6. \A k, l \in 1 .. Len(src.ents) : k < l => src.ents[k] < src.ents[l]
    BY <1>2 DEF IInv, Source, Ascending
  <1> HIDE DEF t, a
  <1>7. Tested' = Tested \cup {a}
    <2>1. Tested' = {src.ents[l] : l \in 1 .. t}
      BY <1>1, <1>4 DEF Tested
    <2>2. \A l : l \in 1 .. t <=> l \in 1 .. i + j \/ l = t
      BY <1>2, <1>4
    <2> QED
      BY <1>3, <2>1, <2>2 DEF Tested
  <1>8. \A x \in Tested : x < a
    <2> SUFFICES ASSUME NEW l \in 1 .. i + j
                 PROVE  src.ents[l] < a
      BY DEF Tested
    <2>1. l \in 1 .. Len(src.ents) /\ l < t
      BY <1>2, <1>3, <1>4
    <2> QED
      BY <1>3, <1>6, <2>1
  <1>9. /\ alive \in BOOLEAN /\ holds \subseteq Address /\ Kept \subseteq Tested
        /\ alive => Kept = Tested \cap holds
        /\ alive' = alive /\ holds' = holds
    BY <1>1 DEF IInv, AsCompared
  <1>10. CASE a \in holds
    <2>1. Keep(a)
      BY <1>10 DEF TestEntry, a
    <2>2. /\ Recorded' /\ Kept' = Kept \cup {a}
          /\ dst' \in [count : Nat \cup {NoHeader}, ents : Seq(Address)]
          /\ dst'.count = dst.count
      <3>1. Recorded /\ Header /\ \A x \in Kept : x < a
        BY <1>8, <1>9 DEF IInv
      <3> QED
        BY <1>3, <2>1, <3>1, KeepAdds
    <2>3. Header'
      BY <1>1, <2>2 DEF IInv, Header
    <2>4. AsCompared'
      <3>1. Kept' \subseteq Tested'
        BY <1>7, <1>9, <2>2
      <3>2. alive' => Kept' = Tested' \cap holds'
        BY <1>7, <1>9, <1>10, <2>2
      <3> QED
        BY <1>9, <3>1, <3>2 DEF AsCompared
    <2> QED
      BY <1>5, <2>2, <2>3, <2>4 DEF IInv
  <1>11. CASE a \notin holds
    <2>1. UNCHANGED <<outBuf, kept, dst, lost>>
      BY <1>11 DEF TestEntry, a
    <2>2. Out' = Out /\ Kept' = Kept
      BY <2>1 DEF Out, Kept
    <2>3. Recorded' /\ Header'
      BY <1>1, <2>1, <2>2 DEF IInv, Recorded, Header
    <2>4. AsCompared'
      <3>1. Kept' \subseteq Tested'
        BY <1>7, <1>9, <2>2
      <3>2. alive' => Kept' = Tested' \cap holds'
        BY <1>7, <1>9, <1>11, <2>2
      <3> QED
        BY <1>9, <3>1, <3>2 DEF AsCompared
    <2> QED
      BY <1>5, <2>3, <2>4 DEF IInv
  <1> QED
    BY <1>10, <1>11

(* The batch counts as done with; as many entries have been tested. *)
LEMMA BatchDoneKeepsIInv ==
    ASSUME IInv, BatchDone
    PROVE  IInv'
  <1>1. /\ pc = "test" /\ j = Len(inBuf) /\ i' = i + Len(inBuf) /\ j' = 0 /\ inBuf' = <<>>
        /\ pc' = "read" /\ UNCHANGED <<src, holds, alive, outBuf, kept, dst, lost>>
    BY DEF BatchDone
  <1>2. i \in Nat /\ Len(inBuf) \in Nat
    BY DEF IInv, Batch
  <1>3. i' + j' = i + j
    BY <1>1, <1>2
  <1>4. Batch'
    BY <1>1, <1>2, FilterAssumption DEF IInv, Source, Batch
  <1>5. Source' /\ Header'
    BY <1>1 DEF IInv, Source, Header
  <1>6. Recorded' /\ AsCompared'
    BY <1>1, <1>3, SameRecord
  <1> QED
    BY <1>4, <1>5, <1>6 DEF IInv

(* The buffer goes behind what has been written, then the header is written
   again, or not. *)
LEMMA FinishKeepsIInv ==
    ASSUME IInv, Finish
    PROVE  IInv'
  <1>1. PICK n \in {kept, dst.count} : WriteOut(outBuf, n)
    BY DEF Finish
  <1>2. /\ pc = "read" /\ pc' = "done" /\ (i >= src.count \/ Got = 0)
        /\ UNCHANGED <<src, holds, alive, i, j, inBuf, kept>>
    BY DEF Finish
  <1>3. /\ dst'.ents \in Seq(Address) /\ dst' = [count |-> n, ents |-> dst'.ents]
        /\ outBuf' = <<>> /\ outBuf' \in Seq(Address) /\ lost' \subseteq Address
        /\ Ascending(Out') /\ lost' \cap ToSet(Out') = {} /\ Kept' = Kept
    <2>1. /\ dst.ents \in Seq(Address) /\ outBuf \in Seq(Address) /\ lost \subseteq Address
          /\ Ascending(dst.ents \o outBuf) /\ lost \cap ToSet(dst.ents \o outBuf) = {}
      BY DEF IInv, Recorded, Out
    <2> QED
      BY <1>1, <2>1, Writes, FilterAssumption DEF Kept, Out
  <1>4. Recorded'
    <2>1. Len(outBuf') < kReadBatch
      BY <1>3, FilterAssumption
    <2>2. Ascending(Out)' /\ (lost \cap ToSet(Out) = {})'
      BY <1>3
    <2> QED
      BY <1>2, <1>3, <2>1, <2>2 DEF IInv, Recorded
  <1>5. Header'
    <2>1. n \in {kept, 0, NoHeader} /\ n \in Nat \cup {NoHeader}
      BY <1>2 DEF IInv, Header, Recorded
    <2>2. dst'.count = n /\ dst' \in [count : Nat \cup {NoHeader}, ents : Seq(Address)]
      BY <1>3, <2>1
    <2> QED
      BY <1>2, <1>3, <2>1, <2>2 DEF Header
  <1>6. i = Least(src.count, Len(src.ents))
    <2>1. CASE i < src.count
      <3>1. i \in Nat /\ src.count \in Nat
        BY DEF IInv, Source, Batch
      <3>2. Got = 0
        BY <1>2, <2>1, <3>1
      <3> QED
        BY <2>1, <3>2, GotBounds
    <2>2. CASE ~(i < src.count)
      BY <1>2, <2>2 DEF IInv, Source, Batch, Least
    <2> QED
      BY <2>1, <2>2
  <1>7. Source' /\ Batch'
    BY <1>2, <1>6 DEF IInv, Source, Batch
  <1>8. AsCompared'
    <2>1. Tested' = Tested
      BY <1>2 DEF Tested
    <2> QED
      BY <1>2, <1>3, <2>1 DEF IInv, AsCompared
  <1> QED
    BY <1>4, <1>5, <1>7, <1>8 DEF IInv

(* One action at a time. *)
LEMMA NextKeepsIInv == IInv /\ [Next]_vars => IInv'
  <1> SUFFICES ASSUME IInv, [Next]_vars
               PROVE  IInv'
    OBVIOUS
  <1>1. CASE UNCHANGED vars
    <2>1. Recorded' /\ AsCompared'
      BY <1>1, SameRecord DEF vars
    <2> QED
      BY <1>1, <2>1 DEF IInv, Source, Batch, Header, vars
  <1> QED
    BY <1>1, GameKilledKeepsIInv, ReadBatchKeepsIInv, TestEntryKeepsIInv,
       BatchDoneKeepsIInv, FinishKeepsIInv DEF Next, Filter

-----------------------------------------------------------------------------
(* The inductive invariant of the pass. *)
THEOREM Invariant == Spec => []IInv
  BY InitIInv, NextKeepsIInv, PTL DEF Spec

(* Each variable has its type; the output buffer never runs over. *)
THEOREM FilterTypeCorrect == Spec => []TypeOK
  <1>1. IInv => TypeOK
    BY TestedInFile DEF IInv, Source, Batch, Recorded, Header, AsCompared, TypeOK
  <1> QED
    BY <1>1, Invariant, PTL

(* The entries tested, as a part of the file. *)
LEMMA TestedPart ==
    ASSUME IInv
    PROVE  Tested = ToSet(SubSeq(src.ents, 1, i + j)) /\ Tested \subseteq ToSet(src.ents)
  <1> DEFINE t == i + j
             s == SubSeq(src.ents, 1, t)
  <1>1. /\ t \in Nat /\ t <= Len(src.ents) /\ Len(src.ents) \in Nat
        /\ \A l \in 1 .. t : src.ents[l] \in Address
    BY TestedInFile
  <1>2. Tested = {src.ents[l] : l \in 1 .. t}
    BY DEF Tested
  <1>3. Tested = ToSet(s)
    <2> HIDE DEF t
    <2>1. /\ s \in Seq(Address)
          /\ Len(s) = IF 1 <= t THEN t - 1 + 1 ELSE 0
          /\ \A l \in 1 .. t - 1 + 1 : s[l] = src.ents[1 + l - 1]
      BY <1>1, SubSeqProperties
    <2>2. DOMAIN s = 1 .. t
      BY <1>1, <2>1, LenProperties
    <2>3. \A l \in 1 .. t : s[l] = src.ents[l]
      BY <1>1, <2>1
    <2> HIDE DEF s
    <2> QED
      BY <1>2, <2>2, <2>3 DEF ToSet
  <1>4. Tested \subseteq ToSet(src.ents)
    <2>1. DOMAIN src.ents = 1 .. Len(src.ents)
      BY LenProperties DEF IInv, Source
    <2>2. \A l \in 1 .. t : l \in DOMAIN src.ents
      BY <1>1, <2>1
    <2> QED
      BY <1>2, <2>2 DEF ToSet
  <1> QED
    BY <1>3, <1>4

(* What has been kept is what matched among the entries tested. *)
LEMMA KeptMatched == IInv => KeptSoFar
  <1> SUFFICES ASSUME IInv, alive
               PROVE  KeptSoFar
    BY DEF KeptSoFar
  <1>1. Kept = ToSet(SubSeq(src.ents, 1, i + j)) \cap holds
    BY TestedPart DEF IInv, AsCompared
  <1>2. pc = "done" => i + j = Least(src.count, Len(src.ents))
    <2> SUFFICES ASSUME pc = "done"
                 PROVE  i + j = Least(src.count, Len(src.ents))
      OBVIOUS
    <2>1. i = Least(src.count, Len(src.ents)) /\ i \in Nat
      BY DEF IInv, Batch
    <2>2. j = 0
      BY DEF IInv, Batch
    <2> QED
      BY <2>1, <2>2
  <1> QED
    BY <1>1, <1>2 DEF KeptSoFar

(* As long as the game lives the next scan keeps what matched, and in the end
   it has tested every entry that the file holds and counts. *)
THEOREM KeptSoFarAlways == Spec => []KeptSoFar
  BY KeptMatched, Invariant, PTL

(* The new header counts what was kept, whatever the old one said. *)
LEMMA HeaderTrue == IInv => HeaderRepaired
  <1> SUFFICES ASSUME IInv
               PROVE  HeaderRepaired
    OBVIOUS
  <1>1. /\ Len(outBuf) < kReadBatch /\ Ascending(Out) /\ lost \cap ToSet(Out) = {}
        /\ kept = Cardinality(Kept)
    BY DEF IInv, Recorded
  <1>2. Kept \subseteq ToSet(src.ents)
    BY TestedPart DEF IInv, AsCompared
  <1>3. ASSUME pc = "done"
        PROVE  dst.count \in {Len(dst.ents) + Cardinality(lost), 0, NoHeader}
    <2> DEFINE f == dst.ents
               T == ToSet(f)
    <2>1. outBuf = <<>> /\ dst.count \in {kept, 0, NoHeader}
      BY <1>3 DEF IInv, Header
    <2>2. f \in Seq(Address) /\ lost \subseteq Address
      BY DEF IInv, Recorded
    <2>3. Out = f
      BY <2>1, <2>2, ConcatEmptySeq DEF Out
    <2>4. f \in Seq(Nat)
      <3>1. f \in [1 .. Len(f) -> Address] /\ Len(f) \in Nat
        BY <2>2, LenProperties
      <3>2. f \in [1 .. Len(f) -> Nat]
        BY <3>1, FilterAssumption
      <3> QED
        BY <3>1, <3>2
    <2>5. Ascending(f) /\ lost \cap T = {}
      BY <1>1, <2>3
    <2> HIDE DEF f
    <2>6. IsFiniteSet(T) /\ Cardinality(T) = Len(f)
      BY <2>4, <2>5, AscendingCounts
    <2> HIDE DEF T
    <2>7. IsFiniteSet(lost)
      BY <2>2, FilterAssumption, FS_Subset
    <2>8. Cardinality(T \cup lost) = Cardinality(T) + Cardinality(lost) - Cardinality(T \cap lost)
      BY <2>6, <2>7, FS_Union
    <2>9. Cardinality(T \cap lost) = 0
      <3>1. T \cap lost = {}
        BY <2>5
      <3> QED
        BY <3>1, FS_EmptySet
    <2>10. Cardinality(T) \in Nat /\ Cardinality(lost) \in Nat
      BY <2>6, <2>7, FS_CardinalityType
    <2>11. Kept = T \cup lost
      BY <2>3 DEF Kept, T
    <2>12. kept = Len(f) + Cardinality(lost)
      BY <1>1, <2>6, <2>8, <2>9, <2>10, <2>11
    <2> QED
      BY <2>1, <2>12 DEF f
  <1> QED
    BY <1>1, <1>2, <1>3 DEF HeaderRepaired

(* A pass leaves entries of the old file under a header that counts them and
   those the card had no room for, also when the old header did not count what
   there was or when the game is killed under it. *)
THEOREM HeaderRepairedAlways == Spec => []HeaderRepaired
  BY HeaderTrue, Invariant, PTL
=============================================================================
