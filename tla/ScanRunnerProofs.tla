-------------------------- MODULE ScanRunnerProofs --------------------------
(***************************************************************************)
(* The first scan finds what there is to find, for every size of address   *)
(* space, page, chunk and buffer, every layout of regions and whatever the *)
(* memory holds.                                                           *)
(***************************************************************************)
EXTENDS ScanRunner, SequenceTheorems, FiniteSetTheorems, WellFoundedInduction, TLAPS

(* What the game's memory looks like does not change: it is frozen. *)
GameOK ==
    /\ starts \subseteq Multiples(kPage) /\ 0 \in starts
    /\ scannable \subseteq starts
    /\ match \subseteq Multiples(Word)

(* Where the walk is: at the start of a region; and cur, which wraps, is the
   cursor as long as some of the region is left. *)
Position ==
    /\ addr \in starts
    /\ pc \in {"chunk", "words"} =>
           /\ addr \in scannable
           /\ rem <= End(addr) - addr /\ rem % Word = 0
           /\ cur = IF rem = 0 THEN End(addr) % Top ELSE End(addr) - rem
    /\ pc = "words" => /\ rem > 0 /\ got = Chunk
                       /\ i <= got /\ i % Word = 0
    /\ pc \in {"end", "done"} => cut \/ End(addr) = Top
    /\ cut => pc \in {"end", "done"}

(* What was skipped lies behind the cursor; no hit was skipped or lies outside
   the regions, even of a walk that ended early. *)
Behind ==
    /\ ~cut => \A a \in skipped : a < Cursor
    /\ Found \subseteq Hits

(* The end of the file. *)
Closed ==
    /\ pc # "done" => header \in {0, NoHeader}
    /\ pc = "done" => buf = <<>> /\ header \in {count, 0, NoHeader}

IInv == TypeOK /\ GameOK /\ Position /\ Behind /\ Closed /\ FoundSoFar /\ EachHitOnce

-----------------------------------------------------------------------------
(* Arithmetic of addresses. *)

(* Addresses wrap at the top, and only there. *)
LEMMA Wraps ==
    ASSUME NEW n \in Nat \ {0}
    PROVE  n % n = 0 /\ \A x \in 0 .. n - 1 : x % n = x
  <1>1. n % n = 0
    BY SMT
  <1>2. ASSUME NEW x \in 0 .. n - 1 PROVE x % n = x
    BY SMT
  <1> QED
    BY <1>1, <1>2

(* A whole number of pages is a whole number of words. *)
LEMMA WholeWords ==
    ASSUME NEW n \in Nat \ {0}, n % Word = 0, NEW x \in Nat, x % n = 0
    PROVE  x % Word = 0
  <1>1. PICK m \in Nat : n = 4 * m
    <2>1. n = 4 * (n \div 4) /\ n \div 4 \in Nat
      BY DEF Word
    <2> QED
      BY <2>1
  <1>2. PICK q \in Nat : x = n * q
    <2>1. x = n * (x \div n) /\ x \div n \in Nat
      BY SMT
    <2> QED
      BY <2>1
  <1>3. x = 4 * (m * q) /\ m * q \in Nat
    BY <1>1, <1>2
  <1>4. \A k \in Nat : (4 * k) % 4 = 0
    BY SMT
  <1> QED
    BY <1>3, <1>4 DEF Word

(* Naturals have a least, and bounded ones a greatest. *)
LEMMA Least ==
    ASSUME NEW T \in SUBSET Nat, T # {}
    PROVE  \E m \in T : \A k \in T : m <= k
  <1> DEFINE R == OpToRel(<, Nat)
  <1>1. IsWellFoundedOn(R, Nat)
    BY NatLessThanWellFounded
  <1> HIDE DEF R
  <1>2. PICK m \in T : \A k \in T : <<k, m>> \notin R
    BY <1>1, WFMin
  <1>3. \A k \in T : ~(k < m)
    BY <1>2 DEF R, OpToRel
  <1> QED
    BY <1>3

(* By the same of their distances from the bound. *)
LEMMA Greatest ==
    ASSUME NEW n \in Nat, NEW T \in SUBSET (0 .. n), T # {}
    PROVE  \E m \in T : \A k \in T : m >= k
  <1> DEFINE D == {n - k : k \in T}
  <1>1. D \in SUBSET Nat /\ D # {}
    <2>1. \A k \in T : n - k \in Nat
      OBVIOUS
    <2>2. PICK k \in T : TRUE
      OBVIOUS
    <2>3. n - k \in D
      OBVIOUS
    <2> QED
      BY <2>1, <2>3
  <1>2. PICK d \in D : \A k \in D : d <= k
    <2> HIDE DEF D
    <2> QED BY <1>1, Least
  <1>3. PICK m \in T : d = n - m
    OBVIOUS
  <1>4. \A k \in T : n - m <= n - k
    BY <1>2, <1>3
  <1> QED
    BY <1>4

(* Addresses are the naturals below the top. *)
LEMMA AddressType ==
    ASSUME GameOK
    PROVE  /\ Top \in Nat \ {0} /\ 0 \in starts
           /\ \A s \in starts : s \in Nat /\ s < Top /\ s % kPage = 0
           /\ \A a : a \in Address <=> a \in Nat /\ a < Top
  BY ScanAssumption DEF GameOK, Multiples, Address

(* The region that contains an address: no other begins inside it. *)
LEMMA Regions ==
    ASSUME GameOK, NEW a \in Address
    PROVE  /\ Begin(a) \in starts /\ Begin(a) <= a
           /\ \A s \in starts : s <= a => s <= Begin(a)
           /\ End(a) \in starts \cup {Top} /\ End(a) > a
           /\ \A s \in starts : s > a => End(a) <= s
           /\ End(a) <= Top
  <1>1. /\ Top \in Nat /\ 0 \in starts /\ a \in Nat /\ a < Top
        /\ \A s \in starts : s \in Nat /\ s < Top
    BY AddressType
  <1>2. Begin(a) \in {s \in starts : s <= a} /\ \A s \in {s \in starts : s <= a} : Begin(a) >= s
    <2> DEFINE B == {s \in starts : s <= a}
    <2>1. B \in SUBSET (0 .. a) /\ B # {}
      BY <1>1
    <2>2. \E m \in B : \A k \in B : m >= k
      <3> HIDE DEF B
      <3> QED BY <1>1, <2>1, Greatest
    <2> QED
      BY <2>2 DEF Begin, Max
  <1>3. /\ End(a) \in {s \in starts : s > a} \cup {Top}
        /\ \A s \in {s \in starts : s > a} \cup {Top} : End(a) <= s
    <2> DEFINE E == {s \in starts : s > a} \cup {Top}
    <2>1. E \in SUBSET Nat /\ E # {}
      BY <1>1
    <2>2. \E m \in E : \A k \in E : m <= k
      <3> HIDE DEF E
      <3> QED BY <2>1, Least
    <2> QED
      BY <2>2 DEF End, Min
  <1> QED
    BY <1>1, <1>2, <1>3

(* From the start of a region to its end, addresses are in it. *)
LEMMA InRegion ==
    ASSUME GameOK, NEW s \in starts, NEW a \in s .. End(s) - 1
    PROVE  a \in Address /\ Begin(a) = s
  <1>1. /\ s \in Address /\ Top \in Nat /\ s \in Nat
        /\ \A t \in starts : t \in Nat
    BY AddressType
  <1>2. End(s) \in Nat /\ End(s) <= Top /\ \A t \in starts : t > s => End(s) <= t
    BY <1>1, Regions
  <1>3. a \in Address
    <2>1. a \in Nat /\ a < Top
      BY <1>1, <1>2
    <2> QED
      BY <2>1, AddressType
  <1>4. Begin(a) \in starts /\ Begin(a) <= a /\ s <= Begin(a)
    BY <1>1, <1>3, Regions
  <1>5. ~(Begin(a) > s)
    <2>1. Begin(a) > s => End(s) <= Begin(a)
      BY <1>2, <1>4
    <2>2. a \in Nat /\ a < End(s)
      BY <1>1, <1>2
    <2>3. Begin(a) \in Nat
      BY <1>1, <1>4
    <2> QED
      BY <1>2, <1>4, <2>1, <2>2, <2>3
  <1>6. Begin(a) \in Nat
    BY <1>1, <1>4
  <1> QED
    BY <1>1, <1>3, <1>4, <1>5, <1>6

(* Regions are a whole number of words. *)
LEMMA Aligned ==
    ASSUME GameOK, NEW s \in starts
    PROVE  /\ s \in Nat /\ s % Word = 0 /\ s < Top
           /\ End(s) \in Nat /\ End(s) % Word = 0 /\ s < End(s) /\ End(s) <= Top
  <1>1. \A t \in starts \cup {Top} : t \in Nat /\ t % kPage = 0
    BY AddressType, ScanAssumption
  <1>2. \A t \in starts \cup {Top} : t % Word = 0
    BY <1>1, WholeWords, ScanAssumption
  <1>3. s \in Address /\ s \in Nat /\ s < Top
    BY AddressType
  <1>4. End(s) \in starts \cup {Top} /\ s < End(s) /\ End(s) <= Top
    BY <1>3, Regions
  <1> QED
    BY <1>1, <1>2, <1>3, <1>4

-----------------------------------------------------------------------------
(* What a hit does to the buffer and the file. *)

(* The entries of one sequence and of one behind it. *)
LEMMA ConcatEntries ==
    ASSUME NEW S, NEW s \in Seq(S), NEW t \in Seq(S)
    PROVE  /\ Len(s) \in Nat /\ Len(t) \in Nat /\ DOMAIN s = 1 .. Len(s) /\ DOMAIN t = 1 .. Len(t)
           /\ DOMAIN (s \o t) = 1 .. Len(s) + Len(t)
           /\ \A k \in 1 .. Len(s) : (s \o t)[k] = s[k]
           /\ \A k \in 1 .. Len(t) : (s \o t)[Len(s) + k] = t[k]
  <1> DEFINE u == s \o t
  <1>1. /\ Len(s) \in Nat /\ Len(t) \in Nat /\ DOMAIN s = 1 .. Len(s) /\ DOMAIN t = 1 .. Len(t)
        /\ u \in Seq(S) /\ Len(u) = Len(s) + Len(t)
        /\ \A k \in 1 .. Len(s) + Len(t) : u[k] = IF k <= Len(s) THEN s[k] ELSE t[k - Len(s)]
    BY LenProperties, ConcatProperties
  <1>2. DOMAIN u = 1 .. Len(s) + Len(t)
    BY <1>1, LenProperties
  <1> HIDE DEF u
  <1>3. \A k \in 1 .. Len(s) : u[k] = s[k]
    BY <1>1
  <1>4. \A k \in 1 .. Len(t) : u[Len(s) + k] = t[k]
    BY <1>1
  <1> QED
    BY <1>1, <1>2, <1>3, <1>4 DEF u

(* They are the entries of the one and of the other. *)
LEMMA ToSetConcat ==
    ASSUME NEW S, NEW s \in Seq(S), NEW t \in Seq(S)
    PROVE  ToSet(s \o t) = ToSet(s) \cup ToSet(t)
  <1> DEFINE u == s \o t
  <1>1. /\ Len(s) \in Nat /\ Len(t) \in Nat /\ DOMAIN s = 1 .. Len(s) /\ DOMAIN t = 1 .. Len(t)
        /\ DOMAIN u = 1 .. Len(s) + Len(t)
        /\ \A k \in 1 .. Len(s) : u[k] = s[k]
        /\ \A k \in 1 .. Len(t) : u[Len(s) + k] = t[k]
    BY ConcatEntries
  <1> HIDE DEF u
  <1>2. \A k \in DOMAIN u : u[k] \in ToSet(s) \cup ToSet(t)
    <2> SUFFICES ASSUME NEW k \in DOMAIN u
                 PROVE  u[k] \in ToSet(s) \cup ToSet(t)
      OBVIOUS
    <2>1. CASE k <= Len(s)
      BY <1>1, <2>1 DEF ToSet
    <2>2. CASE ~(k <= Len(s))
      <3>1. k - Len(s) \in 1 .. Len(t) /\ k = Len(s) + (k - Len(s))
        BY <1>1, <2>2
      <3> QED
        BY <1>1, <3>1 DEF ToSet
    <2> QED
      BY <2>1, <2>2
  <1>3. \A k \in DOMAIN s : s[k] \in ToSet(u)
    BY <1>1 DEF ToSet
  <1>4. \A k \in DOMAIN t : t[k] \in ToSet(u)
    <2> SUFFICES ASSUME NEW k \in 1 .. Len(t)
                 PROVE  t[k] \in ToSet(u)
      BY <1>1
    <2>1. Len(s) + k \in DOMAIN u /\ u[Len(s) + k] = t[k]
      BY <1>1
    <2> QED
      BY <2>1 DEF ToSet
  <1>5. ToSet(u) \subseteq ToSet(s) \cup ToSet(t)
    BY <1>2 DEF ToSet
  <1>6. ToSet(s) \cup ToSet(t) \subseteq ToSet(u)
    BY <1>3, <1>4 DEF ToSet
  <1> QED
    BY <1>5, <1>6 DEF u

(* One sequence behind another ascends if both do and the second starts above
   the first. *)
LEMMA AscendingConcat ==
    ASSUME NEW S \in SUBSET Nat, NEW s \in Seq(S), NEW t \in Seq(S)
    PROVE  Ascending(s \o t) <=>
             /\ Ascending(s) /\ Ascending(t)
             /\ \A a \in ToSet(s), b \in ToSet(t) : a < b
  <1> DEFINE u == s \o t
             m == Len(s)
             n == Len(t)
  <1>1. /\ m \in Nat /\ n \in Nat /\ DOMAIN s = 1 .. m /\ DOMAIN t = 1 .. n
        /\ DOMAIN u = 1 .. m + n
        /\ \A k \in 1 .. m : u[k] = s[k]
        /\ \A k \in 1 .. n : u[m + k] = t[k]
    BY ConcatEntries
  <1> HIDE DEF u, m, n
  <1>2. ASSUME Ascending(u)
        PROVE  /\ Ascending(s) /\ Ascending(t)
               /\ \A a \in ToSet(s), b \in ToSet(t) : a < b
    <2>1. \A k, l \in 1 .. m + n : k < l => u[k] < u[l]
      BY <1>1, <1>2 DEF Ascending
    <2>2. Ascending(s)
      BY <1>1, <2>1 DEF Ascending
    <2>3. ASSUME NEW k \in 1 .. n, NEW l \in 1 .. n, k < l PROVE t[k] < t[l]
      <3>1. m + k \in 1 .. m + n /\ m + l \in 1 .. m + n /\ m + k < m + l
        BY <1>1, <2>3
      <3> QED
        BY <1>1, <2>1, <3>1
    <2>4. ASSUME NEW k \in 1 .. m, NEW l \in 1 .. n PROVE s[k] < t[l]
      <3>1. k \in 1 .. m + n /\ m + l \in 1 .. m + n /\ k < m + l
        BY <1>1
      <3> QED
        BY <1>1, <2>1, <3>1
    <2>5. \A a \in ToSet(s), b \in ToSet(t) : a < b
      BY <1>1, <2>4 DEF ToSet
    <2>6. Ascending(t)
      BY <1>1, <2>3 DEF Ascending
    <2> QED
      BY <2>2, <2>5, <2>6
  <1>3. ASSUME Ascending(s), Ascending(t), \A a \in ToSet(s), b \in ToSet(t) : a < b
        PROVE  Ascending(u)
    <2> SUFFICES ASSUME NEW k \in 1 .. m + n, NEW l \in 1 .. m + n, k < l
                 PROVE  u[k] < u[l]
      BY <1>1 DEF Ascending
    <2>1. CASE l \in 1 .. m
      <3>1. k \in 1 .. m
        BY <1>1, <2>1
      <3> QED
        BY <1>1, <1>3, <2>1, <3>1 DEF Ascending
    <2>2. CASE l \notin 1 .. m
      <3>1. l - m \in 1 .. n /\ u[l] = t[l - m]
        <4>1. l - m \in 1 .. n /\ l = m + (l - m)
          BY <1>1, <2>2
        <4> QED
          BY <1>1, <4>1
      <3>2. CASE k \in 1 .. m
        <4>1. s[k] \in ToSet(s) /\ t[l - m] \in ToSet(t)
          BY <1>1, <3>1, <3>2 DEF ToSet
        <4> QED
          BY <1>1, <1>3, <3>1, <3>2, <4>1
      <3>3. CASE k \notin 1 .. m
        <4>1. k - m \in 1 .. n /\ k = m + (k - m) /\ k - m < l - m
          BY <1>1, <2>2, <3>3
        <4>2. u[k] = t[k - m]
          BY <1>1, <4>1
        <4> QED
          BY <1>1, <1>3, <3>1, <4>1, <4>2 DEF Ascending
      <3> QED
        BY <3>2, <3>3
    <2> QED
      BY <2>1, <2>2
  <1> QED
    BY <1>2, <1>3 DEF u

(* An ascending sequence has no entry twice. *)
LEMMA AscendingCounts ==
    ASSUME NEW s \in Seq(Nat), Ascending(s)
    PROVE  IsFiniteSet(ToSet(s)) /\ Cardinality(ToSet(s)) = Len(s)
  <1> DEFINE n == Len(s)
  <1>1. n \in Nat /\ DOMAIN s = 1 .. n /\ s \in [1 .. n -> Nat]
    BY LenProperties
  <1> HIDE DEF n
  <1>2. IsFiniteSet(1 .. n) /\ Cardinality(1 .. n) = n
    <2>1. 1 \in Int /\ n \in Int
      BY <1>1
    <2>2. IsFiniteSet(1 .. n) /\ Cardinality(1 .. n) = IF 1 > n THEN 0 ELSE n - 1 + 1
      BY <2>1, FS_Interval
    <2> QED
      BY <1>1, <2>2
  <1>3. s \in [1 .. n -> ToSet(s)]
    BY <1>1 DEF ToSet
  <1>4. \A k, l \in 1 .. n : s[k] = s[l] => k = l
    <2> SUFFICES ASSUME NEW k \in 1 .. n, NEW l \in 1 .. n, s[k] = s[l], k # l
                 PROVE  FALSE
      OBVIOUS
    <2>1. s[k] \in Nat /\ (k < l \/ l < k)
      BY <1>1
    <2> QED
      BY <1>1, <2>1 DEF Ascending
  <1>5. s \in Bijection(1 .. n, ToSet(s))
    <2>1. \A e \in ToSet(s) : \E k \in 1 .. n : s[k] = e
      BY <1>1 DEF ToSet
    <2> QED
      BY <1>3, <1>4, <2>1 DEF Bijection, Injection, Surjection, IsInjective
  <1>6. ExistsBijection(1 .. n, ToSet(s))
    BY <1>5 DEF ExistsBijection
  <1> QED
    BY <1>2, <1>6, FS_Bijection DEF n

(* What is written of a buffer is a part of it, in its order. *)
LEMMA WrittenPart ==
    ASSUME NEW S, NEW b \in Seq(S), NEW w \in Written(b)
    PROVE  w \in Seq(S) /\ ToSet(w) \subseteq ToSet(b) /\ Ascending(w)
  <1>1. w \in SeqOf(ToSet(b), Len(b)) /\ Ascending(w)
    BY DEF Written
  <1>2. PICK m \in 0 .. Len(b) : w \in [1 .. m -> ToSet(b)]
    BY <1>1 DEF SeqOf
  <1>3. ToSet(b) \subseteq S
    BY LenProperties DEF ToSet
  <1>4. m \in Nat
    BY LenProperties
  <1>5. ToSet(w) \subseteq ToSet(b)
    BY <1>2 DEF ToSet
  <1>6. w \in [1 .. m -> S]
    BY <1>2, <1>3
  <1> QED
    BY <1>1, <1>4, <1>5, <1>6

(* fwrite: whatever part of the buffer is written, nothing is recorded twice
   and each entry is in the file or counts as lost. *)
LEMMA Flushes ==
    ASSUME NEW S \in SUBSET Nat, file \in Seq(S), lost \subseteq S, NEW b \in Seq(S),
           Ascending(file \o b), lost \cap ToSet(file \o b) = {}, flushResults(b)
    PROVE  /\ file' \in Seq(S) /\ buf' = <<>> /\ buf' \in Seq(S) /\ lost' \subseteq S
           /\ Ascending(Out') /\ lost' \cap ToSet(Out') = {}
           /\ Found' = ToSet(file \o b) \cup lost
  <1>1. PICK w \in Written(b) : file' = file \o w /\ lost' = lost \cup Lost(b, w)
    BY DEF flushResults
  <1>2. w \in Seq(S) /\ ToSet(w) \subseteq ToSet(b) /\ Ascending(w)
    BY WrittenPart
  <1>3. /\ buf' = <<>> /\ <<>> \in Seq(S) /\ file' \in Seq(S)
        /\ Out' = file'
    <2>1. buf' = <<>>
      BY DEF flushResults
    <2>2. file' \in Seq(S)
      BY <1>1, <1>2, ConcatProperties
    <2>3. file' \o <<>> = file'
      BY <2>2, ConcatEmptySeq
    <2> QED
      BY <2>1, <2>2, <2>3 DEF Out
  <1>4. /\ Ascending(file)
        /\ \A x \in ToSet(file), y \in ToSet(b) : x < y
    BY AscendingConcat
  <1>5. Ascending(file \o w)
    BY <1>2, <1>4, AscendingConcat
  <1>6. ToSet(file \o b) = ToSet(file) \cup ToSet(b) /\ ToSet(file \o w) = ToSet(file) \cup ToSet(w)
    <2>1. ToSet(file \o b) = ToSet(file) \cup ToSet(b)
      BY ToSetConcat
    <2>2. w \in Seq(S)
      BY <1>2
    <2>3. ToSet(file \o w) = ToSet(file) \cup ToSet(w)
      BY <2>2, ToSetConcat
    <2> QED
      BY <2>1, <2>3
  <1>7. \A x \in ToSet(b) : x \in S /\ x \in Nat
    <2>1. b \in [1 .. Len(b) -> S] /\ DOMAIN b = 1 .. Len(b)
      BY LenProperties
    <2>2. \A k \in DOMAIN b : b[k] \in S
      BY <2>1
    <2>3. \A x \in ToSet(b) : x \in S
      BY <2>2 DEF ToSet
    <2> QED
      BY <2>3
  <1>8. \A x \in ToSet(b) : x \notin ToSet(file)
    <2>1. \A x \in ToSet(b) : x \in ToSet(file) => x < x
      BY <1>4
    <2> QED
      BY <1>7, <2>1
  <1>9. lost' \subseteq S
    BY <1>1, <1>7 DEF Lost
  <1>10. lost' \cap ToSet(file \o w) = {}
    <2>1. lost \cap (ToSet(file) \cup ToSet(b)) = {}
      BY <1>6
    <2> HIDE DEF Out
    <2> QED
      BY <1>1, <1>2, <1>6, <1>8, <2>1, Zenon DEF Lost
  <1>11. ToSet(file \o w) \cup lost' = ToSet(file \o b) \cup lost
    BY <1>1, <1>2, <1>6 DEF Lost
  <1> QED
    BY <1>1, <1>3, <1>5, <1>9, <1>10, <1>11 DEF Found

(* A push adds a hit above all others to what is found, wherever the buffer
   breaks and whatever the card takes of it. *)
LEMMA PushAdds ==
    ASSUME NEW S \in SUBSET Nat, IsFiniteSet(S), buf \in Seq(S), file \in Seq(S), lost \subseteq S,
           EachHitOnce, NEW a \in S, \A x \in Found : x < a, Push(a)
    PROVE  /\ buf' \in Seq(S) /\ file' \in Seq(S) /\ lost' \subseteq S /\ count' \in Nat
           /\ Found' = Found \cup {a} /\ EachHitOnce'
  <1> DEFINE b == Append(buf, a)
  <1>1. b \in Seq(S) /\ Len(b) = Len(buf) + 1 /\ Len(buf) \in Nat /\ Out \in Seq(S)
    BY AppendProperties, LenProperties, ConcatProperties DEF Out
  <1>2. file \o b = Out \o <<a>> /\ <<a>> \in Seq(S)
    <2>1. b = buf \o <<a>> /\ <<a>> \in Seq(S)
      BY AppendIsConcat
    <2> QED
      BY <2>1, ConcatAssociative DEF Out
  <1>3. ToSet(<<a>>) = {a} /\ Ascending(<<a>>)
    <2>1. DOMAIN <<a>> = {1} /\ <<a>>[1] = a
      OBVIOUS
    <2> QED
      BY <2>1 DEF ToSet, Ascending
  <1>4. ToSet(file \o b) = ToSet(Out) \cup {a}
    <2>1. Out \in Seq(S) /\ <<a>> \in Seq(S)
      BY <1>1, <1>2
    <2>2. ToSet(Out \o <<a>>) = ToSet(Out) \cup ToSet(<<a>>)
      BY <2>1, ToSetConcat
    <2> HIDE DEF b
    <2> QED
      BY <1>2, <1>3, <2>2
  <1>5. Ascending(file \o b)
    <2>1. Ascending(Out) /\ \A x \in ToSet(Out) : x < a
      BY DEF EachHitOnce, Found
    <2>2. \A x \in ToSet(Out), y \in ToSet(<<a>>) : x < y
      BY <1>3, <2>1
    <2> QED
      BY <1>1, <1>2, <1>3, <2>1, <2>2, AscendingConcat
  <1>6. a \notin Found /\ a \notin lost
    <2>1. a \in Nat /\ \A x \in Found : x < a
      OBVIOUS
    <2>2. a \notin Found
      BY <2>1
    <2> QED
      BY <2>2 DEF Found
  <1>7. lost \cap ToSet(file \o b) = {}
    BY <1>4, <1>6 DEF EachHitOnce
  <1>8. IsFiniteSet(Found) /\ Cardinality(Found) \in Nat
    <2>1. ToSet(Out) \subseteq S
      BY <1>1, LenProperties DEF ToSet
    <2>2. Found \in SUBSET S
      BY <2>1 DEF Found
    <2>3. IsFiniteSet(Found)
      BY <2>2, FS_Subset
    <2> QED
      BY <2>3, FS_CardinalityType
  <1>9. count' = Cardinality(Found \cup {a}) /\ count' \in Nat
    <2>1. Cardinality(Found \cup {a}) = Cardinality(Found) + 1
      BY <1>6, <1>8, FS_AddElement
    <2>2. count = Cardinality(Found) /\ count' = count + 1
      BY DEF EachHitOnce, Push
    <2> QED
      BY <1>8, <2>1, <2>2
  <1>10. CASE Len(buf) + 1 = kFlushEntries
    <2>1. flushResults(b)
      BY <1>10 DEF Push
    <2>2. /\ file' \in Seq(S) /\ buf' = <<>> /\ buf' \in Seq(S) /\ lost' \subseteq S
          /\ Ascending(Out') /\ lost' \cap ToSet(Out') = {}
          /\ Found' = ToSet(file \o b) \cup lost
      <3> HIDE DEF b
      <3> QED BY <1>1, <1>5, <1>7, <2>1, Flushes
    <2>3. Found' = Found \cup {a}
      BY <1>4, <2>2 DEF Found
    <2>4. Len(buf') < kFlushEntries
      BY <2>2, ScanAssumption
    <2>5. Ascending(Out)' /\ (lost \cap ToSet(Out) = {})'
      BY <2>2
    <2> QED
      BY <1>9, <2>2, <2>3, <2>4, <2>5 DEF EachHitOnce
  <1>11. CASE Len(buf) + 1 # kFlushEntries
    <2>1. buf' = b /\ UNCHANGED <<file, lost>>
      BY <1>11 DEF Push
    <2>2. Out' = file \o b
      BY <2>1 DEF Out
    <2>3. Found' = Found \cup {a}
      BY <1>4, <2>1, <2>2 DEF Found
    <2>4. Len(buf') < kFlushEntries
      BY <1>1, <1>11, <2>1, ScanAssumption DEF EachHitOnce
    <2>5. Ascending(Out)' /\ (lost \cap ToSet(Out) = {})'
      BY <1>5, <1>7, <2>1, <2>2
    <2>6. file' \in Seq(S) /\ buf' \in Seq(S) /\ lost' \subseteq S
      BY <1>1, <2>1
    <2> QED
      BY <1>9, <2>3, <2>4, <2>5, <2>6 DEF EachHitOnce
  <1> QED
    BY <1>10, <1>11

-----------------------------------------------------------------------------
(* Regions do not move. *)
LEMMA SameRegions ==
    ASSUME UNCHANGED game
    PROVE  /\ GameOK => GameOK'
           /\ \A a : InScannable(a)' = InScannable(a)
           /\ addr' = addr => End(addr)' = End(addr)
  <1>1. \A a : Begin(a)' = Begin(a)
    BY DEF game, Begin
  <1>2. \A a : End(a)' = End(a)
    BY DEF game, End
  <1>3. addr' = addr => End(addr)' = End(addr)
    BY DEF game, End
  <1> QED
    BY <1>1, <1>3 DEF game, GameOK, InScannable

(* A step that pushes nothing. *)
LEMMA NothingPushed ==
    ASSUME IInv, UNCHANGED results
    PROVE  Found' = Found /\ EachHitOnce'
  <1>1. Out' = Out /\ UNCHANGED <<lost, count, buf>>
    BY DEF results, Out
  <1>2. Found' = Found
    BY <1>1 DEF Found
  <1> QED
    BY <1>1, <1>2 DEF IInv, EachHitOnce

(* A step that finds nothing: the cursor moves over what is not to be found. *)
LEMMA Moves ==
    ASSUME IInv, UNCHANGED <<game, cut>>, Found' = Found, skipped \subseteq skipped',
           NEW c \in Nat, NEW d \in Nat, c <= d,
           skipped' \subseteq Address,
           ~cut => Cursor = c /\ Cursor' = d,
           cut => skipped' = skipped,
           \A a \in skipped' : a \in skipped \/ (a >= c /\ a < d),
           \A a \in match : a >= c /\ a < d => ~InScannable(a) \/ a \in skipped'
    PROVE  Behind' /\ FoundSoFar'
  <1>2. /\ match' = match /\ \A a : InScannable(a)' = InScannable(a)
        /\ \A a \in match : a \in Nat
    BY SameRegions DEF game, IInv, GameOK, Multiples, Address
  <1>3. \A a \in skipped' : a \in Nat
    BY ScanAssumption DEF Address
  <1>4. CASE cut
    <2>1. Hits' = Hits
      BY <1>2, <1>4 DEF Hits
    <2> QED
      BY <1>4, <2>1 DEF IInv, Behind, FoundSoFar
  <1>5. CASE ~cut
    <2>1. \A a \in skipped : a < c
      BY <1>5 DEF IInv, Behind
    <2>2. Found = {a \in Hits : a < c}
      BY <1>5 DEF IInv, FoundSoFar
    <2>3. Hits' = {a \in match \ skipped' : InScannable(a)}
      BY <1>2 DEF Hits
    <2>4. {a \in Hits' : a < d} = {a \in Hits : a < c}
      BY <1>2, <1>3, <2>1, <2>3 DEF Hits
    <2>5. FoundSoFar'
      BY <1>5, <2>2, <2>4 DEF FoundSoFar
    <2>6. Behind'
      BY <1>2, <1>3, <1>5, <2>1, <2>2, <2>4 DEF Behind
    <2> QED
      BY <2>5, <2>6
  <1> QED
    BY <1>4, <1>5

(* A step that finds nothing and leaves the cursor where it is. *)
LEMMA Stays ==
    ASSUME IInv, UNCHANGED <<game, cut, skipped>>, Found' = Found,
           NEW c \in Nat, ~cut => Cursor = c /\ Cursor' = c
    PROVE  Behind' /\ FoundSoFar'
  <1>1. skipped' \subseteq Address
    BY DEF IInv, TypeOK
  <1>2. \A a \in match : ~(a >= c /\ a < c)
    BY DEF IInv, GameOK, Multiples, Address
  <1>3. c <= c
    OBVIOUS
  <1> QED
    BY <1>1, <1>2, <1>3, Moves

-----------------------------------------------------------------------------
(* The steps of the walk. *)

(* The invariant holds before the first query. *)
LEMMA InitIInv == Init => IInv
  <1> SUFFICES ASSUME Init PROVE IInv
    OBVIOUS
  <1>1. GameOK
    BY DEF Init, GameOK
  <1>2. TypeOK
    <2>1. <<>> \in Seq(match)
      BY EmptySeq
    <2>2. 0 \in Address
      BY <1>1, AddressType
    <2>3. Top \in Nat /\ kScanBuf \in Nat
      BY ScanAssumption
    <2>4. 0 \in 0 .. Top /\ 0 \in 0 .. kScanBuf
      BY <2>3
    <2>5. header \in Nat \cup {NoHeader}
      BY DEF Init
    <2> QED
      BY <2>1, <2>2, <2>4, <2>5 DEF Init, TypeOK
  <1>3. Position /\ Closed
    BY <1>1 DEF Init, Position, Closed, GameOK
  <1>4. Out = <<>> /\ Len(<<>>) = 0 /\ DOMAIN <<>> = {}
    BY ConcatEmptySeq, EmptySeq DEF Init, Out
  <1>5. ToSet(Out) = {} /\ Found = {} /\ Ascending(Out)
    BY <1>4 DEF ToSet, Ascending, Init, Found
  <1>6. Behind
    BY <1>5 DEF Init, Behind
  <1>7. FoundSoFar
    <2>1. Cursor = 0
      BY DEF Init, Cursor
    <2>2. \A a \in match : ~(a < 0)
      BY <1>1 DEF GameOK, Multiples, Address
    <2> QED
      BY <1>5, <2>1, <2>2 DEF FoundSoFar, Hits
  <1>8. EachHitOnce
    BY <1>4, <1>5, FS_EmptySet, ScanAssumption DEF Init, EachHitOnce
  <1> QED
    BY <1>1, <1>2, <1>3, <1>6, <1>7, <1>8 DEF IInv

(* The facts about types that the steps need. *)
LEMMA Ranges ==
    ASSUME IInv
    PROVE  /\ addr \in Nat /\ addr % Word = 0 /\ addr < Top /\ addr \in Address
           /\ End(addr) \in Nat /\ End(addr) % Word = 0 /\ addr < End(addr) /\ End(addr) <= Top
           /\ Begin(addr) = addr
           /\ rem \in Nat /\ got \in Nat /\ i \in Nat /\ cur \in Nat
           /\ Top \in Nat \ {0} /\ kScanBuf \in Nat \ {0} /\ kScanBuf % Word = 0
  <1>1. addr \in starts /\ GameOK
    BY DEF IInv, Position
  <1>2. kScanBuf % Word = 0
    BY WholeWords, ScanAssumption
  <1>3. rem \in Nat /\ got \in Nat /\ i \in Nat /\ cur \in Nat
    BY ScanAssumption DEF IInv, TypeOK, Address
  <1>4. addr \in addr .. End(addr) - 1
    BY <1>1, Aligned
  <1> QED
    BY <1>1, <1>2, <1>3, <1>4, Aligned, InRegion, ScanAssumption

(* A region that is not to be read is walked over at once; one that is to be
   read begins at the cursor. *)
LEMMA QueryStep ==
    ASSUME IInv, Query
    PROVE  IInv'
  <1>1. /\ addr' = addr /\ UNCHANGED <<game, results, skipped, cut, got, i>>
        /\ pc = "query" /\ ~cut /\ Cursor = addr
    BY DEF Query, IInv, Position, Cursor
  <1>2. GameOK' /\ End(addr)' = End(addr)
    BY <1>1, SameRegions DEF IInv
  <1>3. Found' = Found /\ EachHitOnce'
    BY <1>1, NothingPushed
  <1>4. skipped' \subseteq Address
    BY <1>1 DEF IInv, TypeOK
  <1>5. Closed'
    BY <1>1 DEF Query, IInv, Closed, results
  <1>6. CASE addr \in scannable
    <2>1. pc' = "chunk" /\ cur' = addr /\ rem' = End(addr) - addr
      BY <1>6, Ranges DEF Query
    <2>2. rem' \in Nat /\ rem' % Word = 0 /\ rem' > 0 /\ rem' <= Top
      BY <2>1, Ranges DEF Word
    <2>3. Position'
      BY <1>1, <1>2, <1>6, <2>1, <2>2, Ranges DEF Position, IInv, game
    <2>4. TypeOK'
      BY <1>1, <2>1, <2>2, Ranges DEF TypeOK, IInv, game, results
    <2>5. Cursor' = addr
      BY <1>2, <2>1, Ranges DEF Cursor
    <2>6. Behind' /\ FoundSoFar' /\ EachHitOnce'
      BY <1>1, <1>3, <2>5, Ranges, Stays DEF results
    <2> QED
      BY <1>2, <1>5, <2>3, <2>4, <2>6 DEF IInv
  <1>7. CASE addr \notin scannable
    <2>1. pc' = "next" /\ UNCHANGED <<cur, rem>>
      BY <1>7, Ranges DEF Query
    <2>2. Position'
      BY <1>1, <1>2, <2>1 DEF Position, IInv, game
    <2>3. TypeOK'
      BY <1>1, <2>1 DEF TypeOK, IInv, game, results
    <2>4. Cursor' = End(addr)
      BY <1>2, <2>1 DEF Cursor
    <2>5. \A a \in match : a >= addr /\ a < End(addr) => ~InScannable(a)
      <3> SUFFICES ASSUME NEW a \in match, a >= addr, a < End(addr)
                   PROVE  ~InScannable(a)
        OBVIOUS
      <3>1. a \in addr .. End(addr) - 1
        BY Ranges DEF IInv, GameOK, Multiples, Address
      <3>2. Begin(a) = addr
        BY <3>1, InRegion DEF IInv, Position
      <3> QED
        BY <1>7, <3>2 DEF InScannable
    <2>6. Behind' /\ FoundSoFar' /\ EachHitOnce'
      BY <1>1, <1>3, <1>4, <2>4, <2>5, Ranges, Moves DEF results
    <2> QED
      BY <1>2, <1>5, <2>2, <2>3, <2>6 DEF IInv
  <1> QED
    BY <1>6, <1>7

(* A walk that is cut short keeps what it has found. *)
LEMMA QueryFailsStep ==
    ASSUME IInv, QueryFails
    PROVE  IInv'
  <1>1. /\ UNCHANGED <<game, walk, results, skipped>> /\ pc' = "end" /\ cut' = TRUE
    BY DEF QueryFails
  <1>2. GameOK' /\ \A a : InScannable(a)' = InScannable(a)
    BY <1>1, SameRegions DEF IInv
  <1>3. TypeOK'
    BY <1>1 DEF IInv, TypeOK, game, walk, results
  <1>4. Position' /\ Closed' /\ FoundSoFar'
    <2>1. pc = "query"
      BY DEF QueryFails
    <2> QED
      BY <1>1, <2>1 DEF IInv, Position, Closed, FoundSoFar, game, walk, results
  <1>5. Found' = Found /\ EachHitOnce'
    BY <1>1, NothingPushed
  <1>6. Behind'
    BY <1>1, <1>2, <1>5 DEF IInv, Behind, Hits, game
  <1> QED
    BY <1>2, <1>3, <1>4, <1>5, <1>6 DEF IInv

(* Reading a chunk finds nothing yet. *)
LEMMA ReadChunkStep ==
    ASSUME IInv, ReadChunk
    PROVE  IInv'
  <1>1. /\ UNCHANGED <<game, addr, cur, rem, results, skipped, cut>>
        /\ pc = "chunk" /\ rem > 0 /\ pc' = "words" /\ got' = Chunk /\ i' = 0
        /\ ~cut /\ Cursor = End(addr) - rem
    BY DEF ReadChunk, IInv, Position, Cursor
  <1>2. GameOK' /\ End(addr)' = End(addr)
    BY <1>1, SameRegions DEF IInv
  <1>3. Found' = Found /\ EachHitOnce'
    BY <1>1, NothingPushed
  <1>5. Closed'
    BY <1>1 DEF IInv, Closed, results
  <1>6. got' \in 0 .. kScanBuf /\ Chunk' = Chunk
    BY <1>1, Ranges DEF Chunk
  <1>7. TypeOK'
    BY <1>1, <1>6, Ranges DEF IInv, TypeOK, game, results
  <1>8. Position'
    BY <1>1, <1>2, <1>6, Ranges DEF IInv, Position, game, Word
  <1>9. Cursor' = Cursor
    BY <1>1, Ranges DEF Cursor, IInv, Position
  <1>10. Cursor \in Nat
    BY <1>1, Ranges DEF IInv, Position
  <1>11. Behind' /\ FoundSoFar' /\ EachHitOnce'
    BY <1>1, <1>3, <1>9, <1>10, Stays DEF results
  <1> QED
    BY <1>2, <1>5, <1>7, <1>8, <1>11 DEF IInv

(* The chunk that is to be read: some of what is left of the region. *)
LEMMA ChunkRange ==
    ASSUME IInv, pc \in {"chunk", "words"}, rem > 0
    PROVE  /\ Chunk \in Nat /\ Chunk > 0 /\ Chunk <= rem /\ Chunk <= kScanBuf
           /\ Chunk % Word = 0 /\ rem % Word = 0
           /\ cur = End(addr) - rem /\ addr <= cur /\ addr \in scannable /\ ~cut
  <1>1. /\ rem % Word = 0 /\ cur = End(addr) - rem /\ rem <= End(addr) - addr
        /\ addr \in scannable /\ ~cut
    BY Ranges DEF IInv, Position
  <1>2. Chunk \in {rem, kScanBuf} /\ Chunk <= rem /\ Chunk <= kScanBuf
    BY Ranges DEF Chunk
  <1> QED
    BY <1>1, <1>2, Ranges

(* cur wraps at the top, and then nothing is left of the region. *)
LEMMA Advances ==
    ASSUME IInv, pc \in {"chunk", "words"}, rem > 0, Advance(Chunk), UNCHANGED <<game, addr>>
    PROVE  /\ rem' \in Nat /\ rem' = rem - Chunk /\ rem' % Word = 0
           /\ cur' = IF rem' = 0 THEN End(addr)' % Top ELSE End(addr)' - rem'
           /\ cur' \in Address
  <1>1. rem' = rem - Chunk /\ cur' = (cur + Chunk) % Top
    BY DEF Advance
  <1>2. End(addr)' = End(addr)
    BY SameRegions
  <1>3. cur + Chunk = End(addr) - rem' /\ rem' \in Nat /\ rem' % Word = 0
    BY <1>1, ChunkRange, Ranges DEF Word
  <1>4. CASE rem' = 0
    <2>1. cur' = End(addr) % Top
      BY <1>1, <1>3, <1>4, Ranges
    <2>2. cur' \in Nat /\ cur' < Top
      <3>1. End(addr) % Top \in 0 .. Top - 1
        BY Ranges
      <3> QED
        BY <2>1, <3>1, Ranges
    <2> QED
      BY <1>1, <1>2, <1>3, <1>4, <2>1, <2>2, AddressType DEF IInv
  <1>5. CASE rem' # 0
    <2>1. End(addr) - rem' \in 0 .. Top - 1
      BY <1>3, <1>5, ChunkRange, Ranges
    <2>2. cur' = End(addr) - rem'
      BY <1>1, <1>3, <2>1, Wraps, Ranges
    <2> QED
      BY <1>1, <1>2, <1>3, <1>5, <2>1, <2>2 DEF Address
  <1> QED
    BY <1>4, <1>5

(* A chunk that cannot be read is skipped, and no other word is. *)
LEMMA ReadFailsStep ==
    ASSUME IInv, ReadFails
    PROVE  IInv'
  <1>1. /\ UNCHANGED <<game, pc, addr, got, i, results, cut>>
        /\ pc = "chunk" /\ rem > 0 /\ Advance(Chunk)
        /\ skipped' = skipped \cup cur .. cur + Chunk - 1
        /\ Cursor = End(addr) - rem
    BY DEF ReadFails, Cursor
  <1>2. GameOK' /\ End(addr)' = End(addr)
    BY <1>1, SameRegions DEF IInv
  <1>3. Found' = Found /\ EachHitOnce'
    BY <1>1, NothingPushed
  <1>4. /\ rem' \in Nat /\ rem' = rem - Chunk /\ rem' % Word = 0
        /\ cur' = IF rem' = 0 THEN End(addr)' % Top ELSE End(addr)' - rem'
        /\ cur' \in Address
    BY <1>1, Advances
  <1>5. skipped' \subseteq Address
    <2>1. \A a \in cur .. cur + Chunk - 1 : a \in Address
      BY <1>1, ChunkRange, Ranges DEF Address
    <2> QED
      BY <1>1, <2>1 DEF IInv, TypeOK
  <1>6. Closed'
    BY <1>1 DEF ReadFails, IInv, Closed, results
  <1>7. TypeOK'
    <2>1. rem' \in 0 .. Top
      <3>1. rem \in 0 .. Top
        BY DEF IInv, TypeOK
      <3> QED
        BY <1>1, <1>4, <3>1, ChunkRange, Ranges
    <2> QED
      BY <1>1, <1>4, <1>5, <2>1 DEF IInv, TypeOK, game, results
  <1>8. Position'
    <2>1. rem' <= End(addr) - addr
      BY <1>1, <1>4, ChunkRange, Ranges
    <2> QED
      BY <1>1, <1>2, <1>4, <2>1, ChunkRange DEF IInv, Position, game
  <1>9. Cursor' = cur + Chunk /\ Cursor = cur
    BY <1>1, <1>2, <1>4, ChunkRange, Ranges DEF Cursor
  <1>10. Behind' /\ FoundSoFar' /\ EachHitOnce'
    <2>1. ~cut /\ cur + Chunk \in Nat /\ cur <= cur + Chunk
      BY <1>1, ChunkRange, Ranges
    <2>2. \A a \in skipped' : a \in skipped \/ (a >= cur /\ a < cur + Chunk)
      BY <1>1, ChunkRange, Ranges
    <2>3. \A a \in match : a >= cur /\ a < cur + Chunk => a \in skipped'
      BY <1>1, ChunkRange, Ranges DEF IInv, GameOK, Multiples, Address
    <2> QED
      BY <1>1, <1>3, <1>5, <1>9, <2>1, <2>2, <2>3, Moves, Ranges DEF results
  <1> QED
    BY <1>2, <1>6, <1>7, <1>8, <1>10 DEF IInv

(* Nothing is left of the region. *)
LEMMA RegionDoneStep ==
    ASSUME IInv, RegionDone
    PROVE  IInv'
  <1>1. /\ UNCHANGED <<game, walk, results, skipped, cut>> /\ addr' = addr
        /\ pc = "chunk" /\ rem = 0 /\ pc' = "next" /\ Cursor = End(addr)
    BY Ranges DEF RegionDone, Cursor, walk
  <1>2. GameOK' /\ End(addr)' = End(addr)
    BY <1>1, SameRegions DEF IInv
  <1>3. Found' = Found /\ EachHitOnce'
    BY <1>1, NothingPushed
  <1>4. TypeOK' /\ Closed' /\ Position'
    BY <1>1 DEF IInv, TypeOK, Closed, Position, game, walk, results
  <1>5. Cursor' = End(addr)
    BY <1>1, <1>2 DEF Cursor
  <1>6. Behind' /\ FoundSoFar' /\ EachHitOnce'
    BY <1>1, <1>3, <1>5, Ranges, Stays DEF results
  <1> QED
    BY <1>2, <1>4, <1>6 DEF IInv

(* The words between the cursor and the next are one. *)
LEMMA OneWord ==
    ASSUME NEW c \in Nat, c % Word = 0, NEW a \in Nat, a % Word = 0, a >= c, a < c + Word
    PROVE  a = c
  BY DEF Word

(* A word is found if and only if it matches. *)
LEMMA CheckWordStep ==
    ASSUME IInv, CheckWord
    PROVE  IInv'
  <1> DEFINE c == cur + i
  <1>1. /\ UNCHANGED <<game, pc, addr, cur, rem, got, header, skipped, cut>>
        /\ pc = "words" /\ i < WordsEnd /\ i' = i + Word
        /\ rem > 0 /\ got = Chunk /\ i % Word = 0 /\ Cursor = c
    BY DEF CheckWord, IInv, Position, Cursor
  <1>2. GameOK' /\ End(addr)' = End(addr) /\ \A a : InScannable(a)' = InScannable(a)
    BY <1>1, SameRegions DEF IInv
  <1>3. i' \in Nat /\ i' <= got /\ i' % Word = 0
    <2>1. got \in Nat /\ got % Word = 0
      BY <1>1, ChunkRange
    <2> QED
      BY <1>1, <2>1, Ranges DEF WordsEnd, Word
  <1>4. Position' /\ Closed'
    <2>1. Chunk' = Chunk
      BY <1>1 DEF Chunk
    <2> QED
      BY <1>1, <1>2, <1>3, <2>1 DEF IInv, Position, Closed, game
  <1>5. c \in Nat /\ c % Word = 0 /\ c \in addr .. End(addr) - 1
    BY <1>1, <1>3, ChunkRange, Ranges DEF Word
  <1>6. Cursor' = c + Word /\ c + Word \in Nat /\ c <= c + Word
    BY <1>1, <1>5, Ranges DEF Cursor, Word
  <1>7. i' \in 0 .. kScanBuf
    BY <1>1, <1>3, ChunkRange, Ranges
  <1>8. \A a \in match : a >= c /\ a < c + Word => a = c
    BY <1>5, OneWord DEF IInv, GameOK, Multiples, Address
  <1>9. CASE c \notin match
    <2>1. UNCHANGED <<buf, count, file, lost, header>>
      BY <1>1, <1>9 DEF CheckWord
    <2>2. TypeOK'
      BY <1>1, <1>7, <2>1 DEF IInv, TypeOK, game
    <2>3. Found' = Found /\ EachHitOnce'
      BY <2>1, NothingPushed DEF results
    <2>4. skipped' \subseteq Address
      BY <2>2 DEF TypeOK
    <2>5. \A a \in match : ~(a >= c /\ a < c + Word)
      BY <1>8, <1>9
    <2>6. Behind' /\ FoundSoFar' /\ EachHitOnce'
      <3> HIDE DEF c
      <3> QED
        BY <1>1, <1>5, <1>6, <2>1, <2>3, <2>4, <2>5, Moves
    <2> QED
      BY <1>2, <1>4, <2>2, <2>6 DEF IInv
  <1>10. CASE c \in match
    <2>1. Push(c) /\ buf \in Seq(match) /\ file \in Seq(match) /\ lost \subseteq match /\ EachHitOnce
      BY <1>10 DEF CheckWord, IInv, TypeOK
    <2>2. match \in SUBSET Nat /\ IsFiniteSet(match) /\ \A a \in match : a \in Nat
      <3>1. match \subseteq Address /\ Top - 1 \in Nat
        BY Ranges DEF IInv, GameOK, Multiples
      <3>2. match \in SUBSET Nat /\ \A a \in match : a <= Top - 1
        BY <3>1 DEF Address
      <3> QED
        BY <3>1, <3>2, FS_BoundedSetOfNaturals
    <2>5. ~cut /\ InScannable(c) /\ \A a \in skipped : a \in Nat /\ a < c
      <3>1. ~cut /\ addr \in scannable /\ addr \in starts
        BY <1>1, ChunkRange DEF IInv, Position
      <3>2. Begin(c) = addr
        BY <1>5, <3>1, InRegion DEF IInv
      <3> QED
        BY <1>1, <3>1, <3>2 DEF InScannable, IInv, Behind, TypeOK, Address
    <2>6. Found = {a \in Hits : a < c}
      BY <1>1, <2>5 DEF IInv, FoundSoFar
    <2>7. /\ buf' \in Seq(match) /\ file' \in Seq(match) /\ lost' \subseteq match /\ count' \in Nat
          /\ Found' = Found \cup {c} /\ EachHitOnce'
      <3> HIDE DEF c
      <3>1. \A x \in Found : x < c
        BY <2>6
      <3> QED
        BY <1>10, <2>1, <2>2, <3>1, PushAdds
    <2>3. TypeOK'
      BY <1>1, <1>7, <2>7 DEF IInv, TypeOK, game
    <2>4. Hits' = Hits
      BY <1>1, <1>2 DEF Hits, game
    <2>8. Found' = {a \in Hits : a < c + Word}
      <3> HIDE DEF c
      <3>1. \A a \in match : a < c + Word <=> a < c \/ a = c
        BY <1>5, <1>8, <2>2 DEF Word
      <3>2. c \in Hits
        BY <1>10, <1>5, <2>5 DEF Hits
      <3> QED
        BY <2>6, <2>7, <3>1, <3>2 DEF Hits
    <2>9. FoundSoFar'
      BY <1>1, <1>6, <2>4, <2>8 DEF FoundSoFar
    <2>10. Behind'
      <3>1. \A a \in skipped : a < c + Word
        BY <1>5, <2>5 DEF Word
      <3>2. Found' \subseteq Hits'
        BY <2>4, <2>8
      <3> QED
        BY <1>1, <1>6, <3>1, <3>2 DEF Behind
    <2>11. EachHitOnce'
      BY <2>7
    <2> QED
      BY <1>2, <1>4, <2>3, <2>9, <2>10, <2>11 DEF IInv
  <1> QED
    BY <1>9, <1>10

(* No word of a chunk is left when its loop ends: got is a whole number of
   words, though the loop stops three bytes early. *)
LEMMA ChunkDoneStep ==
    ASSUME IInv, ChunkDone
    PROVE  IInv'
  <1>1. /\ UNCHANGED <<game, addr, got, i, results, skipped, cut>>
        /\ pc = "words" /\ rem > 0 /\ got = Chunk /\ Advance(Chunk) /\ pc' = "chunk"
        /\ i >= WordsEnd /\ i <= got /\ i % Word = 0 /\ Cursor = cur + i
    BY DEF ChunkDone, IInv, Position, Cursor
  <1>2. GameOK' /\ End(addr)' = End(addr)
    BY <1>1, SameRegions DEF IInv
  <1>3. Found' = Found /\ EachHitOnce'
    BY <1>1, NothingPushed
  <1>4. /\ rem' \in Nat /\ rem' = rem - Chunk /\ rem' % Word = 0
        /\ cur' = IF rem' = 0 THEN End(addr)' % Top ELSE End(addr)' - rem'
        /\ cur' \in Address
    BY <1>1, Advances
  <1>5. i = got
    BY <1>1, ChunkRange, Ranges DEF WordsEnd, Word
  <1>6. Cursor' = cur + got /\ cur + got \in Nat
    BY <1>1, <1>2, <1>4, ChunkRange, Ranges DEF Cursor
  <1>7. TypeOK' /\ Closed'
    <2>1. rem' \in 0 .. Top
      <3>1. rem \in 0 .. Top
        BY DEF IInv, TypeOK
      <3> QED
        BY <1>1, <1>4, <3>1, ChunkRange, Ranges
    <2> QED
      BY <1>1, <1>4, <2>1 DEF IInv, TypeOK, Closed, game, results
  <1>8. Position'
    <2>1. rem' <= End(addr) - addr
      BY <1>1, <1>4, ChunkRange, Ranges
    <2> QED
      BY <1>1, <1>2, <1>4, <2>1, ChunkRange DEF IInv, Position, game
  <1>9. Behind' /\ FoundSoFar' /\ EachHitOnce'
    BY <1>1, <1>3, <1>5, <1>6, Stays
  <1> QED
    BY <1>2, <1>7, <1>8, <1>9 DEF IInv

(* The next region, or the end exactly when the addresses have wrapped. *)
LEMMA NextRegionStep ==
    ASSUME IInv, NextRegion
    PROVE  IInv'
  <1>1. /\ UNCHANGED <<game, cur, rem, got, i, results, skipped, cut>>
        /\ pc = "next" /\ ~cut /\ Cursor = End(addr)
    BY DEF NextRegion, IInv, Position, Cursor
  <1>2. GameOK' /\ addr \in Address /\ addr \in starts
    BY <1>1, SameRegions, Ranges DEF IInv, Position
  <1>3. Found' = Found /\ EachHitOnce'
    BY <1>1, NothingPushed
  <1>4. CASE End(addr) = Top
    <2>1. End(addr) % Top <= addr
      BY <1>4, Wraps, Ranges
    <2>2. pc' = "end" /\ addr' = addr
      BY <2>1 DEF NextRegion
    <2>3. End(addr)' = End(addr)
      BY <1>1, <2>2, SameRegions
    <2>4. TypeOK' /\ Closed' /\ Position'
      BY <1>1, <1>4, <2>2, <2>3 DEF IInv, TypeOK, Closed, Position, game, results
    <2>5. Cursor' = End(addr)
      BY <2>2, <2>3 DEF Cursor
    <2>6. Behind' /\ FoundSoFar' /\ EachHitOnce'
      BY <1>1, <1>3, <2>5, Ranges, Stays DEF results
    <2> QED
      BY <1>2, <2>4, <2>6 DEF IInv
  <1>5. CASE End(addr) # Top
    <2>1. End(addr) \in starts /\ End(addr) \in 0 .. Top - 1
      BY <1>2, <1>5, Regions, Ranges DEF IInv
    <2>2. End(addr) % Top = End(addr)
      BY <2>1, Wraps, Ranges
    <2>3. pc' = "query" /\ addr' = End(addr)
      BY <2>2, Ranges DEF NextRegion
    <2>4. TypeOK' /\ Closed' /\ Position'
      BY <1>1, <2>1, <2>3 DEF IInv, TypeOK, Closed, Position, game, results, Address
    <2>5. Cursor' = End(addr)
      BY <2>3 DEF Cursor
    <2>6. Behind' /\ FoundSoFar' /\ EachHitOnce'
      BY <1>1, <1>3, <2>5, Ranges, Stays DEF results
    <2> QED
      BY <1>2, <2>4, <2>6 DEF IInv
  <1> QED
    BY <1>4, <1>5

(* What is left in the buffer is written. *)
LEMMA FinishStep ==
    ASSUME IInv, Finish
    PROVE  IInv'
  <1>1. /\ UNCHANGED <<game, walk, count, skipped, cut>> /\ addr' = addr
        /\ pc = "end" /\ pc' = "done" /\ header' \in {count, header}
        /\ flushResults(buf) /\ Cursor = End(addr)
    BY DEF Finish, Cursor, walk
  <1>2. GameOK' /\ End(addr)' = End(addr)
    BY <1>1, SameRegions DEF IInv
  <1>3. /\ file' \in Seq(match) /\ buf' = <<>> /\ buf' \in Seq(match) /\ lost' \subseteq match
        /\ Ascending(Out') /\ lost' \cap ToSet(Out') = {} /\ Found' = Found
    <2>1. /\ file \in Seq(match) /\ buf \in Seq(match) /\ lost \subseteq match
          /\ Ascending(file \o buf) /\ lost \cap ToSet(file \o buf) = {}
      BY DEF IInv, TypeOK, EachHitOnce, Out
    <2>2. match \in SUBSET Nat
      BY DEF IInv, GameOK, Multiples, Address
    <2> QED
      BY <1>1, <2>1, <2>2, Flushes DEF Found, Out
  <1>4. EachHitOnce'
    <2>1. Len(buf') < kFlushEntries
      BY <1>3, ScanAssumption
    <2>2. Ascending(Out)' /\ (lost \cap ToSet(Out) = {})'
      BY <1>3
    <2>3. count' = Cardinality(Found')
      BY <1>1, <1>3 DEF IInv, EachHitOnce
    <2> QED
      BY <2>1, <2>2, <2>3 DEF EachHitOnce
  <1>5. TypeOK'
    <2>1. header' \in Nat \cup {NoHeader}
      BY <1>1 DEF IInv, TypeOK
    <2> QED
      BY <1>1, <1>3, <2>1 DEF IInv, TypeOK, game, walk
  <1>6. Position'
    BY <1>1, <1>2 DEF IInv, Position, game, walk
  <1>7. Closed'
    BY <1>1, <1>3 DEF IInv, Closed
  <1>8. Cursor' = End(addr)
    BY <1>1, <1>2 DEF Cursor
  <1>9. Behind' /\ FoundSoFar'
    BY <1>1, <1>3, <1>8, Ranges, Stays
  <1> QED
    BY <1>2, <1>4, <1>5, <1>6, <1>7, <1>9 DEF IInv

(* No step leaves the invariant. *)
LEMMA Steps ==
    ASSUME IInv, [Next]_vars
    PROVE  IInv'
  <1>1. CASE UNCHANGED vars
    <2>1. UNCHANGED game /\ addr' = addr
      BY <1>1 DEF vars, walk
    <2>2. GameOK' /\ End(addr)' = End(addr) /\ \A a : InScannable(a)' = InScannable(a)
      BY <2>1, SameRegions DEF IInv
    <2>3. Cursor' = Cursor
      BY <1>1, <2>2 DEF vars, walk, Cursor
    <2>4. TypeOK' /\ Closed'
      BY <1>1 DEF IInv, TypeOK, Closed, vars, game, walk, results
    <2>5. Position'
      BY <1>1, <2>2 DEF IInv, Position, vars, game, walk, Chunk
    <2>6. Behind' /\ FoundSoFar' /\ EachHitOnce'
      <3>1. Found' = Found /\ EachHitOnce'
        BY <1>1, NothingPushed DEF vars
      <3>2. Hits' = Hits
        BY <1>1, <2>2 DEF Hits, vars, game
      <3> QED
        BY <1>1, <2>3, <3>1, <3>2 DEF IInv, Behind, FoundSoFar, vars
    <2> QED
      BY <2>2, <2>4, <2>5, <2>6 DEF IInv
  <1> QED
    BY <1>1, QueryStep, QueryFailsStep, ReadChunkStep, ReadFailsStep, RegionDoneStep,
       CheckWordStep, ChunkDoneStep, NextRegionStep, FinishStep DEF Next

(* The inductive invariant holds of every walk. *)
THEOREM Invariant == Spec => []IInv
  BY InitIInv, Steps, PTL DEF Spec

(* Every variable of the walk stays in its type: cur and addr are addresses,
   also where they wrap at the top, and what is read fits the buffer. *)
THEOREM WalkTypeCorrect == Spec => []TypeOK
  <1>1. IInv => TypeOK
    BY DEF IInv
  <1> QED
    BY <1>1, Invariant, PTL

(* At every step of runFirstScanU32 what has been pushed is exactly the
   matching words that it has walked over and could read. *)
THEOREM FoundSoFarAlways == Spec => []FoundSoFar
  <1>1. IInv => FoundSoFar
    BY DEF IInv
  <1> QED
    BY <1>1, Invariant, PTL

(* resultsPush records hits at most once each, in address order, and counts
   them all, also those a full card loses; its buffer is never overrun. *)
THEOREM EachHitOnceAlways == Spec => []EachHitOnce
  <1>1. IInv => EachHitOnce
    BY DEF IInv
  <1> QED
    BY <1>1, Invariant, PTL

(* resultsEnd leaves what was found, none of it wrong, up to what the card had
   no room for, under a header that counts both or is still resultsBegin's. *)
THEOREM FileWholeAlways == Spec => []FileWhole
  <1>1. IInv => FileWhole
    <2> SUFFICES ASSUME IInv, pc = "done"
                 PROVE  /\ buf = <<>>
                        /\ header \in {Len(file) + Cardinality(lost), 0, NoHeader}
                        /\ ToSet(file) \cup lost \subseteq Hits
                        /\ ~cut => ToSet(file) \cup lost = Hits
      BY DEF FileWhole
    <2>1. buf = <<>> /\ header \in {count, 0, NoHeader}
      BY DEF IInv, Closed
    <2>2. Out = file /\ file \in Seq(match) /\ lost \subseteq match
      BY <2>1, ConcatEmptySeq DEF Out, IInv, TypeOK
    <2>3. Found = ToSet(file) \cup lost /\ Found \subseteq Hits
      BY <2>2 DEF Found, IInv, Behind
    <2>4. count = Len(file) + Cardinality(lost)
      <3>1. match \in SUBSET Nat /\ \A a \in match : a <= Top - 1
        BY AddressType DEF IInv, GameOK, Multiples, Address
      <3>2. IsFiniteSet(match)
        <4>1. Top - 1 \in Nat
          BY Ranges
        <4> QED
          BY <3>1, <4>1, FS_BoundedSetOfNaturals
      <3>3. IsFiniteSet(lost)
        BY <2>2, <3>2, FS_Subset
      <3>4. file \in Seq(Nat) /\ Ascending(file) /\ lost \cap ToSet(file) = {}
        <4>1. file \in [1 .. Len(file) -> match] /\ Len(file) \in Nat
          BY <2>2, LenProperties
        <4>2. file \in Seq(Nat)
          <5>1. match \subseteq Nat
            BY <3>1
          <5>2. file \in [1 .. Len(file) -> Nat]
            BY <4>1, <5>1
          <5> QED
            BY <4>1, <5>2
        <4>3. Ascending(Out) /\ lost \cap ToSet(Out) = {}
          BY DEF IInv, EachHitOnce
        <4> QED
          BY <2>2, <4>2, <4>3
      <3>5. IsFiniteSet(ToSet(file)) /\ Cardinality(ToSet(file)) = Len(file)
        BY <3>4, AscendingCounts
      <3>6. Cardinality(ToSet(file) \cup lost) = Cardinality(ToSet(file)) + Cardinality(lost)
        <4>1. ToSet(file) \cap lost = {}
          BY <3>4
        <4> DEFINE T == ToSet(file)
        <4>2. IsFiniteSet(T) /\ IsFiniteSet(lost) /\ Cardinality(T) \in Nat /\ Cardinality(lost) \in Nat
          BY <3>3, <3>5, FS_CardinalityType
        <4> HIDE DEF T
        <4>3. Cardinality(T \cup lost) = Cardinality(T) + Cardinality(lost) - Cardinality(T \cap lost)
          BY <4>2, FS_Union
        <4>4. Cardinality(T \cap lost) = 0
          BY <4>1, FS_EmptySet DEF T
        <4> QED
          BY <4>2, <4>3, <4>4 DEF T
      <3> QED
        BY <2>3, <3>5, <3>6 DEF IInv, EachHitOnce
    <2>5. ASSUME ~cut
          PROVE  ToSet(file) \cup lost = Hits
      <3>1. Cursor = Top
        BY <2>5 DEF IInv, Position, Cursor
      <3>2. \A a \in match : a < Top
        BY AddressType DEF IInv, GameOK, Multiples
      <3> QED
        BY <2>3, <2>5, <3>1, <3>2 DEF IInv, FoundSoFar, Hits
    <2> QED
      BY <2>1, <2>3, <2>4, <2>5
  <1> QED
    BY <1>1, Invariant, PTL
=============================================================================
