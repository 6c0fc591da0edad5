------------------------- MODULE ResultsListProofs -------------------------
(***************************************************************************)
(* The pages of the results screen, for every size of a page and every     *)
(* file, whole or of a card that was full.                                 *)
(***************************************************************************)
EXTENDS ResultsList, SequenceTheorems, WellFoundedInduction, TLAPS

(* While the screen builds itself it shows nothing. *)
Blank == pc \in {"rebuild", "page"} => shown = <<>> /\ buttons = {}

(* Until the scan ends, the file is the one that was
   there when the screen was opened: every count agrees with it. *)
Undisturbed ==
    scan = "running" =>
        /\ m_currentPage < Pages(Count(file))
        /\ \A p \in buttons : p < Pages(Count(file))
        /\ pc = "page" => m_total = Count(file)

(* The page about to be read exists by the count just made, or by none; then
   the file has been replaced, and will not be again. *)
Countable ==
    pc = "page" => \/ m_currentPage < Pages(m_total)
                   \/ scan = "over" /\ m_total = Count(file)

IInv ==
    /\ TypeOK /\ Blank /\ Undisturbed /\ Countable
    /\ scan = "removed" => file = NoFile
    /\ RowsOnAPage

-----------------------------------------------------------------------------
(* The pages are as many as it takes to hold n entries. *)
LEMMA PagesHold ==
    ASSUME NEW n \in Nat, NEW s \in Nat \ {0}
    PROVE  /\ TotalPages(n, s) \in Nat
           /\ \A p \in Nat : p * s < n <=> p < TotalPages(n, s)
  <1> DEFINE a == n + s - 1
             q == a \div s
  <1>1. a \in Nat
    OBVIOUS
  <1> HIDE DEF a
  <1>2. q \in Int /\ q * s <= a /\ a < q * s + s
    BY <1>1
  <1> HIDE DEF q
  <1>3. q \in Nat
    <2> SUFFICES ASSUME q < 0
                 PROVE  FALSE
      BY <1>2
    <2>1. q + 1 <= 0
      BY <1>2
    <2>2. (q + 1) * s <= 0
      BY <1>2, <2>1
    <2> QED
      BY <1>1, <1>2, <2>2
  <1>4. ASSUME NEW p \in Nat
        PROVE  p * s < n <=> p < q
    <2>1. CASE p < q
      <3>1. PICK d \in Nat : q = p + 1 + d
        BY <1>3, <2>1
      <3>2. q * s = p * s + s + d * s /\ d * s \in Nat /\ p * s \in Nat
        BY <3>1
      <3> QED
        BY <1>2, <2>1, <3>2 DEF a
    <2>2. CASE ~(p < q)
      <3>1. PICK d \in Nat : p = q + d
        BY <1>3, <2>2
      <3>2. p * s = q * s + d * s /\ d * s \in Nat /\ q * s \in Nat
        BY <1>3, <3>1
      <3> QED
        BY <1>2, <2>2, <3>2 DEF a
    <2> QED
      BY <2>1, <2>2
  <1> QED
    BY <1>3, <1>4 DEF TotalPages, q, a

(* How far the pages before p reach into a file. *)
Reach(f, p) == Least(p * kPageSize, Held(f))

(* What ListAssumption says of a file. *)
LEMMA FileTyped ==
    ASSUME NEW f \in Files \cup {NoFile}
    PROVE  /\ Count(f) \in Nat
           /\ f # NoFile => /\ f.ents \in Seq(Nat) /\ Len(f.ents) \in Nat
                            /\ Held(f) \in Nat /\ Held(f) <= Count(f)
                            /\ Held(f) <= Len(f.ents)
                            /\ Held(f) = Count(f) \/ Held(f) = Len(f.ents)
  <1>1. Count(f) \in Nat /\ (f # NoFile => f.ents \in Seq(Nat) /\ Len(f.ents) \in Nat)
    BY ListAssumption DEF Count
  <1> QED
    BY <1>1 DEF Held, Least

(* A page has room for an entry. *)
LEMMA PageSize == kPageSize \in Nat \ {0}
  BY ListAssumption

(* The reach grows by a page at a time, up to the end of what is held. *)
LEMMA ReachTyped ==
    ASSUME NEW f \in Files, NEW p \in Nat
    PROVE  /\ p * kPageSize \in Nat /\ (p + 1) * kPageSize = p * kPageSize + kPageSize
           /\ Reach(f, p) \in Nat /\ Reach(f, p) <= Held(f)
           /\ Reach(f, p) <= Reach(f, p + 1) /\ Reach(f, p + 1) <= Reach(f, p) + kPageSize
  <1>1. Held(f) \in Nat
    BY FileTyped, ListAssumption
  <1>2. p * kPageSize \in Nat /\ (p + 1) * kPageSize = p * kPageSize + kPageSize
    BY PageSize
  <1> QED
    BY <1>1, <1>2, PageSize DEF Reach, Least

(* readPage returns the entries between the reach of one page and the next. *)
LEMMA PageIsStretch ==
    ASSUME NEW f \in Files, NEW p \in Nat
    PROVE  ReadPage(f, p, kPageSize) = SubSeq(f.ents, Reach(f, p) + 1, Reach(f, p + 1))
  <1> DEFINE start == p * kPageSize
             want == IF start + kPageSize > Count(f) THEN Count(f) - start ELSE kPageSize
             n == Len(f.ents)
             h == Held(f)
  <1>1. /\ n \in Nat /\ Count(f) \in Nat /\ h \in Nat /\ h <= Count(f) /\ h <= n
        /\ h = Count(f) \/ h = n
        /\ start \in Nat /\ kPageSize \in Nat \ {0}
    BY FileTyped, PageSize, ReachTyped, ListAssumption
  <1>2. Reach(f, p) = Least(start, h) /\ Reach(f, p + 1) = Least(start + kPageSize, h)
    BY ReachTyped DEF Reach
  <1>3. ReadPage(f, p, kPageSize) = IF start >= Count(f) THEN <<>>
                                    ELSE SubSeq(f.ents, start + 1, Least(start + want, n))
    BY DEF ReadPage
  <1> HIDE DEF start, n, h
  <1>4. CASE start >= Count(f)
    <2>1. Reach(f, p) = h /\ Reach(f, p + 1) = h
      BY <1>1, <1>2, <1>4 DEF Least
    <2>2. SubSeq(f.ents, h + 1, h) = <<>>
      BY <1>1, SubSeqEmpty
    <2> QED
      BY <1>3, <1>4, <2>1, <2>2
  <1>5. CASE ~(start >= Count(f)) /\ start <= h
    <2>1. Reach(f, p) = start
      BY <1>1, <1>2, <1>5 DEF Least
    <2>2. Least(start + want, n) = Reach(f, p + 1)
      BY <1>1, <1>2, <1>5 DEF Least
    <2> QED
      BY <1>3, <1>5, <2>1, <2>2
  <1>6. CASE ~(start >= Count(f)) /\ ~(start <= h)
    <2>1. Reach(f, p) = h /\ Reach(f, p + 1) = h /\ h = n /\ Least(start + want, n) = n
      BY <1>1, <1>2, <1>6 DEF Least
    <2>2. SubSeq(f.ents, h + 1, h) = <<>> /\ SubSeq(f.ents, start + 1, n) = <<>>
      BY <1>1, <1>6, <2>1, SubSeqEmpty
    <2> QED
      BY <1>3, <1>6, <2>1, <2>2
  <1> QED
    BY <1>4, <1>5, <1>6

(* A page is no longer than that, and is empty behind the header's count. *)
LEMMA PageTyped ==
    ASSUME NEW f \in Files \cup {NoFile}, NEW p \in Nat
    PROVE  /\ Len(ReadPage(f, p, kPageSize)) \in Nat
           /\ Len(ReadPage(f, p, kPageSize)) <= kPageSize
           /\ ReadPage(f, p, kPageSize) # <<>> => p * kPageSize < Count(f)
  <1>1. p * kPageSize \in Nat /\ Count(f) \in Nat
    BY PageSize, FileTyped
  <1>2. ReadPage(f, p, kPageSize) # <<>> => p * kPageSize < Count(f)
    BY <1>1 DEF ReadPage
  <1>3. CASE f = NoFile
    <2>1. ReadPage(f, p, kPageSize) = <<>>
      BY <1>1, <1>3 DEF ReadPage, Count
    <2> QED
      BY <1>2, <2>1, PageSize
  <1>4. CASE f \in Files
    <2> DEFINE b == Reach(f, p)
               e == Reach(f, p + 1)
    <2>1. b \in Nat /\ e \in Nat /\ b <= e /\ e <= b + kPageSize /\ e <= Len(f.ents)
      <3>1. /\ Reach(f, p) \in Nat /\ Reach(f, p) <= Reach(f, p + 1)
            /\ Reach(f, p + 1) <= Reach(f, p) + kPageSize
        BY <1>4, ReachTyped
      <3>2. p + 1 \in Nat
        OBVIOUS
      <3>3. Reach(f, p + 1) \in Nat /\ Reach(f, p + 1) <= Held(f)
        BY <1>4, <3>2, ReachTyped
      <3>4. Held(f) \in Nat /\ Held(f) <= Len(f.ents) /\ Len(f.ents) \in Nat
        BY <1>4, FileTyped, ListAssumption
      <3> QED
        BY <3>1, <3>3, <3>4
    <2>2. f.ents \in Seq(Nat) /\ Len(f.ents) \in Nat
      BY <1>4, FileTyped, ListAssumption
    <2>3. ReadPage(f, p, kPageSize) = SubSeq(f.ents, b + 1, e)
      BY <1>4, PageIsStretch
    <2> HIDE DEF b, e
    <2>4. \A k \in b + 1 .. e : f.ents[k] \in Nat
      BY <2>1, <2>2
    <2>5. Len(SubSeq(f.ents, b + 1, e)) = IF b + 1 <= e THEN e - (b + 1) + 1 ELSE 0
      BY <2>1, <2>4, SubSeqProperties
    <2>6. Len(SubSeq(f.ents, b + 1, e)) \in Nat /\ Len(SubSeq(f.ents, b + 1, e)) <= kPageSize
      BY <2>1, <2>5, PageSize
    <2> QED
      BY <1>2, <2>3, <2>6
  <1> QED
    BY <1>3, <1>4

-----------------------------------------------------------------------------
(* A set of numbers that is not empty has a least. *)
LEMMA LeastNumber ==
    ASSUME NEW T \in SUBSET Nat, T # {}
    PROVE  \E m \in T : \A k \in T : m <= k
  <1> DEFINE R == OpToRel(<, Nat)
  <1>1. IsWellFoundedOn(R, Nat)
    BY NatLessThanWellFounded
  <1> HIDE DEF R
  <1>2. PICK m \in T : \A k \in T : <<k, m>> \notin R
    BY <1>1, WFMin
  <1>3. \A k \in T : ~(k < m)
    BY <1>2 DEF R, OpToRel
  <1> QED
    BY <1>3

(* g lays the n sequences of s end to end, one after another. *)
LaysOut(g, s, n) ==
    /\ n \in Nat \ {0} /\ Len(s) = n
    /\ g \in [1 .. n -> Seq(Nat)] /\ g[1] = s[1]
    /\ \A i \in 1 .. n : i # 1 => g[i] = g[i - 1] \o s[i]

(* FlattenSeq is defined by recursion along its argument: if a function
   satisfies the recursion, it is the one; two that do cannot differ at a
   least place. *)
LEMMA FlattenSolves ==
    ASSUME NEW s, NEW n, NEW g, LaysOut(g, s, n)
    PROVE  FlattenSeq(s) = g[n]
  <1> USE DEF LaysOut
  <1> DEFINE F == CHOOSE f : f = [i \in 1 .. Len(s) |->
                                    IF i = 1 THEN s[i] ELSE f[i - 1] \o s[i]]
  <1>1. F = [i \in 1 .. Len(s) |-> IF i = 1 THEN s[i] ELSE F[i - 1] \o s[i]]
    <2>1. g = [i \in 1 .. Len(s) |-> IF i = 1 THEN s[i] ELSE g[i - 1] \o s[i]]
      <3> DEFINE h == [i \in 1 .. n |-> IF i = 1 THEN s[i] ELSE g[i - 1] \o s[i]]
      <3>1. \A i \in 1 .. n : g[i] = h[i]
        OBVIOUS
      <3>2. g = h
        BY <3>1
      <3> QED
        BY <3>2
    <2> QED
      BY <2>1
  <1>2. FlattenSeq(s) = F[Len(s)]
    BY DEF FlattenSeq
  <1> HIDE DEF F
  <1>3. F = [i \in 1 .. n |-> IF i = 1 THEN s[i] ELSE F[i - 1] \o s[i]]
    BY <1>1
  <1>4. \A i \in 1 .. n : F[i] = g[i]
    <2> DEFINE T == {i \in 1 .. n : F[i] # g[i]}
    <2> SUFFICES ASSUME T # {}
                 PROVE  FALSE
      OBVIOUS
    <2>1. PICK m \in T : \A k \in T : m <= k
      <3>1. T \in SUBSET Nat
        OBVIOUS
      <3> HIDE DEF T
      <3> QED
        BY <3>1, LeastNumber
    <2>2. CASE m = 1
      <3>1. F[1] = s[1] /\ g[1] = s[1]
        BY <1>3
      <3> QED
        BY <2>2, <3>1
    <2>3. CASE m # 1
      <3>1. m - 1 \in 1 .. n /\ m - 1 \notin T
        BY <2>1, <2>3
      <3>2. F[m - 1] = g[m - 1]
        BY <3>1
      <3>3. F[m] = F[m - 1] \o s[m] /\ g[m] = g[m - 1] \o s[m]
        BY <1>3, <2>3
      <3> QED
        BY <3>2, <3>3
    <2> QED
      BY <2>2, <2>3
  <1> QED
    BY <1>2, <1>4

(* The pages, laid end to end, are what the file holds. *)
LEMMA PagesAreTheFile ==
    ASSUME NEW f \in Files
    PROVE  FlattenSeq([p \in 1 .. TotalPages(Count(f), kPageSize) |->
                         ReadPage(f, p - 1, kPageSize)])
             = SubSeq(f.ents, 1, Held(f))
  <1> DEFINE n == TotalPages(Count(f), kPageSize)
             s == [p \in 1 .. n |-> ReadPage(f, p - 1, kPageSize)]
             g == [i \in 1 .. n |-> SubSeq(f.ents, 1, Reach(f, i))]
  <1>1. /\ f.ents \in Seq(Nat) /\ Len(f.ents) \in Nat /\ Count(f) \in Nat
        /\ Held(f) \in Nat /\ Held(f) <= Count(f) /\ Held(f) <= Len(f.ents)
    BY FileTyped, ListAssumption
  <1>2. n \in Nat /\ \A p \in Nat : p * kPageSize < Count(f) <=> p < n
    BY <1>1, PageSize, PagesHold
  <1> HIDE DEF n
  <1>3. Len(s) = n
    BY <1>2
  <1>4. CASE n = 0
    <2>1. Count(f) = 0
      <3>1. ~(0 * kPageSize < Count(f))
        BY <1>2, <1>4
      <3> QED
        BY <1>1, <3>1, PageSize
    <2>2. SubSeq(f.ents, 1, Held(f)) = <<>>
      <3>1. Held(f) = 0
        BY <1>1, <2>1
      <3> QED
        BY <1>1, <3>1, SubSeqEmpty
    <2>3. s = <<>>
      BY <1>4
    <2> QED
      BY <2>2, <2>3 DEF FlattenSeq, n
  <1>5. CASE n # 0
    <2>1. \A i \in 1 .. n : s[i] = SubSeq(f.ents, Reach(f, i - 1) + 1, Reach(f, i))
      <3> SUFFICES ASSUME NEW i \in 1 .. n
                   PROVE  s[i] = SubSeq(f.ents, Reach(f, i - 1) + 1, Reach(f, i))
        OBVIOUS
      <3>1. i - 1 \in Nat /\ (i - 1) + 1 = i
        BY <1>2
      <3>2. s[i] = ReadPage(f, i - 1, kPageSize)
        OBVIOUS
      <3> QED
        BY <3>1, <3>2, PageIsStretch
    <2>2. Reach(f, 0) = 0
      BY <1>1, PageSize DEF Reach, Least
    <2>3. g[1] = s[1]
      <3>1. 1 \in 1 .. n
        BY <1>2, <1>5
      <3>2. g[1] = SubSeq(f.ents, 1, Reach(f, 1))
        BY <3>1
      <3>3. s[1] = SubSeq(f.ents, Reach(f, 0) + 1, Reach(f, 1))
        BY <2>1, <3>1
      <3>4. Reach(f, 0) + 1 = 1
        BY <2>2
      <3> QED
        BY <3>2, <3>3, <3>4
    <2>4. ASSUME NEW i \in 1 .. n, i # 1
          PROVE  g[i] = g[i - 1] \o s[i]
      <3> DEFINE b == Reach(f, i - 1)
                 e == Reach(f, i)
      <3>1. i - 1 \in Nat /\ (i - 1) + 1 = i /\ i - 1 \in 1 .. n
        BY <1>2, <2>4
      <3>2. b \in Nat /\ b <= e
        BY <3>1, ReachTyped
      <3>3. e \in Nat /\ e <= Len(f.ents)
        <4>1. i \in Nat
          OBVIOUS
        <4>2. e \in Nat /\ e <= Held(f)
          BY <4>1, ReachTyped
        <4> HIDE DEF e
        <4> QED
          BY <1>1, <4>2
      <3>4. g[i] = SubSeq(f.ents, 1, e) /\ g[i - 1] = SubSeq(f.ents, 1, b)
        BY <3>1
      <3>5. s[i] = SubSeq(f.ents, b + 1, e)
        BY <2>1
      <3> HIDE DEF b, e, g, s
      <3>6. /\ 1 \in 1 .. Len(f.ents) + 1 /\ b \in 1 - 1 .. Len(f.ents)
            /\ e \in b .. Len(f.ents)
        BY <1>1, <3>2, <3>3
      <3>7. SubSeq(f.ents, 1, b) \o SubSeq(f.ents, b + 1, e) = SubSeq(f.ents, 1, e)
        BY <1>1, <3>6, ConcatAdjacentSubSeq
      <3> QED
        BY <3>4, <3>5, <3>7
    <2>5. g \in [1 .. n -> Seq(Nat)]
      <3> SUFFICES ASSUME NEW i \in 1 .. n
                   PROVE  SubSeq(f.ents, 1, Reach(f, i)) \in Seq(Nat)
        OBVIOUS
      <3>1. Reach(f, i) \in Nat /\ Reach(f, i) <= Len(f.ents)
        <4>1. Reach(f, i) \in Nat /\ Reach(f, i) <= Held(f)
          BY ReachTyped
        <4> QED
          BY <1>1, <4>1
      <3>2. \A k \in 1 .. Reach(f, i) : f.ents[k] \in Nat
        BY <1>1, <3>1
      <3> QED
        BY <3>1, <3>2, SubSeqProperties
    <2> HIDE DEF s, g
    <2>6. FlattenSeq(s) = g[n]
      <3>1. LaysOut(g, s, n)
        BY <1>2, <1>3, <1>5, <2>3, <2>4, <2>5 DEF LaysOut
      <3> QED
        BY <3>1, FlattenSolves
    <2>7. g[n] = SubSeq(f.ents, 1, Reach(f, n))
      <3>1. n \in 1 .. n
        BY <1>2, <1>5
      <3> QED
        BY <3>1 DEF g
    <2>8. Reach(f, n) = Held(f)
      <3>1. ~(n * kPageSize < Count(f)) /\ n * kPageSize \in Nat
        BY <1>2, PageSize
      <3> QED
        BY <1>1, <3>1 DEF Reach, Least
    <2> QED
      BY <2>6, <2>7, <2>8 DEF s, n
  <1> QED
    BY <1>4, <1>5

-----------------------------------------------------------------------------
(* There is always a page, and a last one. *)
LEMMA PagesTyped ==
    ASSUME NEW n \in Nat
    PROVE  /\ Pages(n) \in Nat /\ Pages(n) > 0
           /\ \A p \in Nat : p * kPageSize < n => p < Pages(n)
  <1>1. TotalPages(n, kPageSize) \in Nat
        /\ \A p \in Nat : p * kPageSize < n <=> p < TotalPages(n, kPageSize)
    BY PageSize, PagesHold
  <1>2. CASE n = 0
    <2>1. \A p \in Nat : ~(p * kPageSize < n)
      BY <1>2, PageSize
    <2> QED
      BY <1>2, <2>1 DEF Pages
  <1>3. CASE n # 0
    <2>1. 0 * kPageSize < n
      BY <1>3, PageSize
    <2>2. 0 < TotalPages(n, kPageSize)
      BY <1>1, <2>1
    <2> QED
      BY <1>1, <1>3, <2>2 DEF Pages
  <1> QED
    BY <1>2, <1>3

(* The screen begins with page 0. *)
LEMMA InitIInv == Init => IInv
  <1> SUFFICES ASSUME Init
               PROVE  IInv
    OBVIOUS
  <1>1. /\ file \in Files \cup {NoFile} /\ scan = "running" /\ pc = "rebuild"
        /\ m_currentPage = 0 /\ m_total = 0 /\ m_lastBuiltCount = 0
        /\ shown = <<>> /\ buttons = {}
    BY DEF Init
  <1>2. Pages(Count(file)) \in Nat /\ Pages(Count(file)) > 0
    BY <1>1, FileTyped, PagesTyped
  <1>3. TypeOK
    BY <1>1, PageSize DEF TypeOK
  <1> QED
    BY <1>1, <1>2, <1>3 DEF IInv, Blank, Undisturbed, Countable, RowsOnAPage

(* The scan ends, in one of its ways; the screen is as it was. *)
LEMMA ScanKeepsIInv ==
    ASSUME IInv, ScanRemove \/ ScanRename \/ ScanFails
    PROVE  IInv'
  <1>1. UNCHANGED <<pc, m_currentPage, m_total, m_lastBuiltCount, shown, buttons>>
    BY DEF ScanRemove, ScanRename, ScanFails, listVars
  <1>2. TypeOK'
    BY <1>1 DEF IInv, TypeOK, ScanRemove, ScanRename, ScanFails
  <1>3. Blank' /\ RowsOnAPage'
    BY <1>1 DEF IInv, Blank, RowsOnAPage
  <1>4. scan' # "running" /\ (scan' = "removed" => file' = NoFile)
    BY DEF ScanRemove, ScanRename, ScanFails
  <1>5. Countable'
    <2>1. CASE scan = "running"
      <3>1. pc = "page" => m_currentPage < Pages(m_total)
        BY <2>1 DEF IInv, Undisturbed
      <3> QED
        BY <1>1, <3>1 DEF Countable
    <2>2. CASE scan # "running"
      <3>1. scan # "over"
        BY <2>2 DEF ScanRemove, ScanRename, ScanFails
      <3>2. pc = "page" => m_currentPage < Pages(m_total)
        BY <3>1 DEF IInv, Countable
      <3> QED
        BY <1>1, <3>2 DEF Countable
    <2> QED
      BY <2>1, <2>2
  <1> QED
    BY <1>2, <1>3, <1>4, <1>5 DEF IInv, Undisturbed

(* Clamped to the last page of the count just read. *)
LEMMA UpdateKeepsIInv ==
    ASSUME IInv, Update
    PROVE  IInv'
  <1> DEFINE n == Pages(Count(file))
  <1>1. /\ pc' = "rebuild" /\ shown' = <<>> /\ buttons' = {}
        /\ m_currentPage' = Least(m_currentPage, n - 1)
        /\ UNCHANGED <<file, scan, m_total, m_lastBuiltCount>>
    BY DEF Update, scanVars
  <1>2. n \in Nat /\ n > 0
    BY FileTyped, PagesTyped DEF IInv, TypeOK
  <1>3. m_currentPage \in Nat
    BY DEF IInv, TypeOK
  <1>4. m_currentPage' \in Nat /\ m_currentPage' < Pages(Count(file))
    <2> HIDE DEF n
    <2>1. m_currentPage' \in Nat /\ m_currentPage' < n
      BY <1>1, <1>2, <1>3 DEF Least
    <2> QED
      BY <2>1 DEF n
  <1>5. TypeOK'
    BY <1>1, <1>4, PageSize DEF IInv, TypeOK
  <1> QED
    BY <1>1, <1>4, <1>5 DEF IInv, Blank, Undisturbed, Countable, RowsOnAPage

(* While the file is away the count is zero and no page is read. *)
LEMMA RebuildKeepsIInv ==
    ASSUME IInv, Rebuild
    PROVE  IInv'
  <1>1. /\ pc = "rebuild" /\ m_total' = Count(file) /\ m_lastBuiltCount' = Count(file)
        /\ pc' = IF Count(file) = 0 THEN "idle" ELSE "page"
        /\ UNCHANGED <<file, scan, m_currentPage, shown, buttons>>
    BY DEF Rebuild, scanVars
  <1>2. shown = <<>> /\ buttons = {}
    BY <1>1 DEF IInv, Blank
  <1>3. Count(file) \in Nat
    BY FileTyped DEF IInv, TypeOK
  <1>4. TypeOK'
    BY <1>1, <1>3 DEF IInv, TypeOK
  <1>5. Undisturbed'
    BY <1>1, <1>2 DEF IInv, Undisturbed
  <1>6. Countable'
    <2>1. CASE scan = "running"
      BY <1>1, <2>1 DEF IInv, Undisturbed, Countable
    <2>2. CASE scan = "removed"
      <3>1. Count(file) = 0
        BY <2>2 DEF IInv, Count
      <3> QED
        BY <1>1, <3>1 DEF Countable
    <2>3. CASE scan = "over"
      BY <1>1, <2>3 DEF Countable
    <2> QED
      BY <2>1, <2>2, <2>3 DEF IInv, TypeOK
  <1> QED
    BY <1>1, <1>2, <1>4, <1>5, <1>6 DEF IInv, Blank, RowsOnAPage

(* Rows are read only of a page there is: by the count just made, or, if the
   file has been replaced since, by the one the buttons were made from. *)
LEMMA FillPageKeepsIInv ==
    ASSUME IInv, FillPage
    PROVE  IInv'
  <1>1. /\ pc = "page" /\ pc' = "idle"
        /\ shown' = ReadPage(file, m_currentPage, kPageSize)
        /\ buttons' = IF Pages(m_total) = 1 THEN {}
                      ELSE {p \in {m_currentPage - 1, m_currentPage + 1} :
                              p >= 0 /\ p < Pages(m_total)}
        /\ UNCHANGED <<file, scan, m_currentPage, m_total, m_lastBuiltCount>>
    BY DEF FillPage, scanVars
  <1>2. m_currentPage \in Nat /\ m_total \in Nat /\ file \in Files \cup {NoFile}
    BY DEF IInv, TypeOK
  <1>3. \A p \in buttons' : p \in Nat /\ p < Pages(m_total)
    BY <1>1, <1>2
  <1>4. TypeOK'
    BY <1>1, <1>2, <1>3, PageTyped DEF IInv, TypeOK
  <1>5. shown' # <<>> => m_currentPage < Pages(m_total)
    <2>1. CASE m_currentPage < Pages(m_total)
      BY <2>1
    <2>2. CASE m_total = Count(file)
      <3>1. shown' # <<>> => m_currentPage * kPageSize < m_total
        BY <1>1, <1>2, <2>2, PageTyped
      <3> QED
        BY <1>2, <3>1, PagesTyped
    <2> QED
      BY <1>1, <2>1, <2>2 DEF IInv, Countable
  <1>6. Undisturbed'
    <2>1. scan = "running" => m_total = Count(file)
      BY <1>1 DEF IInv, Undisturbed
    <2> QED
      BY <1>1, <1>3, <2>1 DEF IInv, Undisturbed
  <1> QED
    BY <1>1, <1>3, <1>4, <1>5, <1>6 DEF IInv, Blank, Countable, RowsOnAPage

(* Where a button leads, by the old count, is clamped by nothing. *)
LEMMA TurnPageKeepsIInv ==
    ASSUME IInv, TurnPage
    PROVE  IInv'
  <1>1. /\ m_currentPage' \in buttons /\ pc' = "rebuild" /\ shown' = <<>> /\ buttons' = {}
        /\ UNCHANGED <<file, scan, m_total, m_lastBuiltCount>>
    BY DEF TurnPage, scanVars
  <1>2. TypeOK'
    BY <1>1, PageSize DEF IInv, TypeOK
  <1>3. Undisturbed'
    BY <1>1 DEF IInv, Undisturbed
  <1> QED
    BY <1>1, <1>2, <1>3 DEF IInv, Blank, Countable, RowsOnAPage

(* One action at a time. *)
LEMMA NextKeepsIInv == IInv /\ [Next]_vars => IInv'
  <1> SUFFICES ASSUME IInv, [Next]_vars
               PROVE  IInv'
    OBVIOUS
  <1>1. CASE UNCHANGED vars
    BY <1>1 DEF IInv, TypeOK, Blank, Undisturbed, Countable, RowsOnAPage, vars,
       scanVars, listVars
  <1> QED
    BY <1>1, ScanKeepsIInv, UpdateKeepsIInv, RebuildKeepsIInv, FillPageKeepsIInv,
       TurnPageKeepsIInv DEF Next, Screen

-----------------------------------------------------------------------------
(* The inductive invariant of the screen. *)
THEOREM Invariant == Spec => []IInv
  BY InitIInv, NextKeepsIInv, PTL DEF Spec

(* Each variable has its type; a page has no more rows than fit. *)
THEOREM ListTypeCorrect == Spec => []TypeOK
  <1>1. IInv => TypeOK
    BY DEF IInv
  <1> QED
    BY <1>1, Invariant, PTL

(* No rows under the number of a page that does not exist, and a "next page"
   that does, however the file changes under the screen. *)
THEOREM RowsOnAPageAlways == Spec => []RowsOnAPage
  <1>1. IInv => RowsOnAPage
    BY DEF IInv
  <1> QED
    BY <1>1, Invariant, PTL

(* Turning the pages lists every entry that the file holds and counts, once,
   in order. *)
THEOREM PagesPartitionAlways == Spec => []PagesPartition
  <1>1. IInv => PagesPartition
    BY PagesAreTheFile DEF IInv, TypeOK, PagesPartition
  <1> QED
    BY <1>1, Invariant, PTL
=============================================================================
