-------------------------- MODULE DetectionProofs --------------------------
(***************************************************************************)
(* The list of processes, the foreground process and the label of the main *)
(* screen, for every set of processes, every choice of titles and every    *)
(* size of the list.                                                       *)
(***************************************************************************)
EXTENDS Detection, FiniteSetTheorems, SequenceTheorems, TLAPS

Entry == [pid : Pid \ {0}, tid : Nat]

(* The two lists are sequences; each is there only while it is of use. *)
Lists ==
    /\ pids \in Seq(Pid) /\ entries \in Seq(Entry)
    /\ pc # "titles" => pids = <<>>
    /\ pc \notin {"titles", "choose"} => entries = <<>>

(* No process is listed twice, be it done or still to do. *)
EachOnce ==
    /\ \A j, k \in 1 .. Len(pids) : pids[j] = pids[k] => j = k
    /\ \A j, k \in 1 .. Len(entries) : entries[j].pid = entries[k].pid => j = k
    /\ \A j \in 1 .. Len(pids), k \in 1 .. Len(entries) : pids[j] # entries[k].pid

(* What is listed, or still to be, was there when the kernel was asked. *)
AllWereThere ==
    /\ \A j \in 1 .. Len(pids) : pids[j] \in found
    /\ \A k \in 1 .. Len(entries) : entries[k].pid \in found

(* Whoever was there when the kernel was asked is listed or still to be,
   unless there were more than the list holds. *)
NoneMissing ==
    pc \in {"titles", "choose"} /\ Cardinality(found) <= kMaxProcessList =>
        \A p \in found \ {0} : \/ \E j \in 1 .. Len(pids) : pids[j] = p
                               \/ \E k \in 1 .. Len(entries) : entries[k].pid = p

TitlesTrue ==
    \A k \in 1 .. Len(entries) : entries[k].tid \in {0, Title[entries[k].pid]}

(* Only a process above 1 is looked up. *)
LookedUp == pc = "title" => pid > 1

IInv ==
    /\ TypeOK /\ Lists /\ EachOnce /\ AllWereThere /\ NoneMissing
    /\ TitlesTrue /\ LookedUp /\ LabelNamesTarget

-----------------------------------------------------------------------------
(* Without lists there is nothing to say of them. *)
LEMMA NoListsNow ==
    ASSUME pids = <<>>, entries = <<>>, pc \notin {"titles", "choose"}
    PROVE  Lists /\ EachOnce /\ AllWereThere /\ NoneMissing /\ TitlesTrue
  BY DEF Lists, EachOnce, AllWereThere, NoneMissing, TitlesTrue

(* An empty list has nothing in it, and room for nothing is always there. *)
LEMMA EmptySet == ToSet(<<>>) = {}
  BY DEF ToSet

(* The one thing used of the size of the list. *)
LEMMA ListSize == kMaxProcessList \in Nat /\ kMaxProcessList > 0
  BY DetectionAssumption

LEMMA NothingFits ==
    ASSUME NEW s, NEW t, Len(s) = 0, Len(t) = 0
    PROVE  Len(s) + Len(t) <= kMaxProcessList
  BY ListSize

(* 1 .. n has n elements. *)
LEMMA UpTo ==
    ASSUME NEW n \in Nat
    PROVE  IsFiniteSet(1 .. n) /\ Cardinality(1 .. n) = n
  BY FS_Interval

(* At first there is no list and no target. *)
LEMMA InitIInv == Init => IInv
  <1> SUFFICES ASSUME Init
               PROVE  IInv
    OBVIOUS
  <1> USE DetectionAssumption DEF Init
  <1>1. TypeOK
    <2>1. ToSet(pids) = {} /\ ToSet(entries) = {}
      BY EmptySet
    <2>2. Len(pids) = 0 /\ Len(entries) = 0
      OBVIOUS
    <2>3. Len(pids) + Len(entries) <= kMaxProcessList
      BY <2>2, NothingFits
    <2>4. {0, 1} \subseteq running /\ running \subseteq Pid /\ 0 \in Pid
      OBVIOUS
    <2>5. asked = "" <=> pc = "idle"
      OBVIOUS
    <2> QED
      BY <2>1, <2>3, <2>4, <2>5 DEF TypeOK
  <1>2. Lists /\ EachOnce /\ AllWereThere /\ NoneMissing /\ TitlesTrue /\ LookedUp
    BY NoListsNow DEF LookedUp
  <1>3. LabelNamesTarget
    BY DEF LabelNamesTarget
  <1> QED
    BY <1>1, <1>2, <1>3 DEF IInv

(* Processes start and exit: only TypeOK looks at those that run. *)
LEMMA WorldKeepsIInv ==
    ASSUME IInv, ProcessStarts \/ ProcessExits
    PROVE  IInv'
  <1> USE DEF lists, screen
  <1>1. /\ running' \subseteq Pid /\ {0, 1} \subseteq running'
        /\ UNCHANGED <<g_pgl_ready, g_pmshell_ready, asked, pc, lists, pid, screen>>
    BY DEF ProcessStarts, ProcessExits, IInv, TypeOK
  <1>2. TypeOK'
    BY <1>1 DEF IInv, TypeOK
  <1>3. Lists' /\ EachOnce' /\ AllWereThere' /\ NoneMissing' /\ TitlesTrue' /\ LookedUp'
    BY <1>1 DEF IInv, Lists, EachOnce, AllWereThere, NoneMissing, TitlesTrue, LookedUp
  <1>4. LabelNamesTarget'
    BY <1>1 DEF IInv, LabelNamesTarget
  <1> QED
    BY <1>2, <1>3, <1>4 DEF IInv

(* Without lists there is nothing to say of them. *)
LEMMA NoLists ==
    ASSUME pids' = <<>>, entries' = <<>>, pc' \notin {"titles", "choose"}
    PROVE  Lists' /\ EachOnce' /\ AllWereThere' /\ NoneMissing' /\ TitlesTrue'
  BY DEF Lists, EachOnce, AllWereThere, NoneMissing, TitlesTrue

(* Back on the main screen only the label has to be right. *)
LEMMA ReturnKeepsIInv ==
    ASSUME IInv, Return, UNCHANGED world, target' \in Pid, LabelNamesTarget'
    PROVE  IInv'
  <1> USE DetectionAssumption DEF Return
  <1>1. TypeOK'
    <2>1. ToSet(pids') = {} /\ ToSet(entries') = {}
      BY EmptySet
    <2>2. Len(pids') = 0 /\ Len(entries') = 0
      OBVIOUS
    <2>3. Len(pids') + Len(entries') <= kMaxProcessList
      BY <2>2, NothingFits
    <2>4. 0 \in Pid
      OBVIOUS
    <2> QED
      BY <2>1, <2>3, <2>4 DEF IInv, TypeOK, world
  <1>2. Lists' /\ EachOnce' /\ AllWereThere' /\ NoneMissing' /\ TitlesTrue'
    BY NoLists
  <1> QED
    BY <1>1, <1>2 DEF IInv, LookedUp

(* The question that starts it all finds no list and makes none. *)
LEMMA AskKeepsIInv ==
    ASSUME IInv, Ask
    PROVE  IInv'
  <1> USE DEF Ask, world, lists, screen
  <1>1. TypeOK'
    BY DEF IInv, TypeOK
  <1>2. pids = <<>> /\ entries = <<>>
    BY DEF IInv, Lists
  <1>3. Lists' /\ EachOnce' /\ AllWereThere' /\ NoneMissing' /\ TitlesTrue'
    BY <1>2, NoLists
  <1>4. LabelNamesTarget'
    BY DEF IInv, LabelNamesTarget
  <1> QED
    BY <1>1, <1>3, <1>4 DEF IInv, LookedUp

(* An error leaves the target and its title as they were. *)
LEMMA ErrorKeepsLabel ==
    ASSUME LabelNamesTarget, UNCHANGED <<target, m_titleId>>,
           label' = label \/ label' = <<"error">>
    PROVE  LabelNamesTarget'
  BY DEF LabelNamesTarget

(* A request that fails, wherever the overlay was. *)
LEMMA CallFailsKeepsIInv ==
    ASSUME IInv, CallFails
    PROVE  IInv'
  <1>1. target' \in Pid
    BY DEF IInv, TypeOK, CallFails
  <1>2. LabelNamesTarget'
    BY ErrorKeepsLabel DEF IInv, CallFails
  <1> QED
    BY <1>1, <1>2, ReturnKeepsIInv DEF CallFails

-----------------------------------------------------------------------------
(* The kernel's list: as many processes as run have room in it, each once. *)
LEMMA GetProcessListKeepsIInv ==
    ASSUME IInv, GetProcessList
    PROVE  IInv'
  <1> USE DetectionAssumption DEF GetProcessList, world, screen
  <1> DEFINE n == Cardinality(running)
             m == IF n < kMaxProcessList THEN n ELSE kMaxProcessList
  <1>1. running \subseteq Pid /\ IsFiniteSet(running) /\ n \in Nat
    BY FS_Subset, FS_CardinalityType DEF IInv, TypeOK
  <1>2. m \in Nat /\ m <= kMaxProcessList /\ (n <= kMaxProcessList => m = n)
    BY <1>1
  <1>3. pids' \in [1 .. m -> running] /\ IsInjective(pids')
    OBVIOUS
  <1> HIDE DEF m
  <1>4. pids' \in Seq(Pid) /\ Len(pids') = m
    <2>1. pids' \in [1 .. m -> Pid]
      BY <1>1, <1>3
    <2> QED
      BY <1>2, <2>1
  <1>5. Lists'
    BY <1>4 DEF Lists
  <1>6. TypeOK'
    <2>1. ToSet(pids') \subseteq Pid /\ ToSet(entries') \subseteq Entry
      BY <1>4 DEF ToSet
    <2>2. Len(pids') + Len(entries') <= kMaxProcessList
      BY <1>2, <1>4
    <2> QED
      BY <1>1, <2>1, <2>2 DEF IInv, TypeOK, Entry
  <1>7. EachOnce'
    BY <1>2, <1>3, <1>4 DEF EachOnce, IsInjective
  <1>8. AllWereThere'
    <2>1. found' = running /\ entries' = <<>>
      OBVIOUS
    <2> HIDE DEF GetProcessList
    <2> QED
      BY <1>3, <1>4, <2>1 DEF AllWereThere
  <1>9. NoneMissing'
    <2> SUFFICES ASSUME n <= kMaxProcessList, NEW p \in running
                 PROVE  \E j \in 1 .. Len(pids') : pids'[j] = p
      BY <1>1 DEF NoneMissing
    <2>1. m = n
      BY <1>2
    <2>2. pids' \in Injection(1 .. m, running)
      BY <1>3 DEF Injection, IsInjective
    <2>3. Cardinality(1 .. m) = n
      BY <1>2, <2>1, FS_Interval
    <2>4. pids' \in Surjection(1 .. m, running)
      BY <1>1, <2>2, <2>3, FS_Injection
    <2> QED
      BY <1>4, <2>4 DEF Surjection
  <1>10. TitlesTrue' /\ LookedUp'
    BY DEF TitlesTrue, LookedUp
  <1>11. LabelNamesTarget'
    BY DEF IInv, LabelNamesTarget
  <1> QED
    BY <1>5, <1>6, <1>7, <1>8, <1>9, <1>10, <1>11 DEF IInv

(* One process goes from what is still to be listed to what is, unless it is
   the kernel's 0. *)
LEMMA ListEntryKeepsIInv ==
    ASSUME IInv, ListEntry
    PROVE  IInv'
  <1> USE DetectionAssumption DEF ListEntry, world, screen
  <1> DEFINE p == Head(pids)
             tid == IF ProgramId(p) = Failed THEN 0 ELSE ProgramId(p)
             e == [pid |-> p, tid |-> tid]
  <1>1. /\ pids \in Seq(Pid) /\ entries \in Seq(Entry)
        /\ Len(pids) + Len(entries) <= kMaxProcessList
    BY DEF IInv, Lists, TypeOK
  <1>2. /\ p \in Pid /\ p = pids[1] /\ Len(pids) \in Nat \ {0}
        /\ pids' \in Seq(Pid) /\ Len(pids') = Len(pids) - 1
        /\ \A j \in 1 .. Len(pids') : pids'[j] = pids[j + 1]
    BY <1>1, HeadTailProperties
  <1>3. tid \in Nat /\ tid \in {0, Title[p]}
    BY <1>2 DEF ProgramId, Failed
  <1>4. /\ entries' \in Seq(Entry)
        /\ \A k \in 1 .. Len(entries) : entries'[k] = entries[k]
        /\ \/ p = 0 /\ Len(entries') = Len(entries)
           \/ p # 0 /\ Len(entries') = Len(entries) + 1
                    /\ entries'[Len(entries) + 1] = e
    <2>1. CASE p = 0
      BY <1>1, <2>1
    <2>2. CASE p # 0
      <3>1. e \in Entry
        BY <1>2, <1>3, <2>2 DEF Entry
      <3>2. entries' = Append(entries, e)
        BY <2>2
      <3> QED
        BY <1>1, <2>2, <3>1, <3>2, AppendProperties
    <2> QED
      BY <2>1, <2>2
  <1>5. e.pid = p /\ e.tid = tid
    OBVIOUS
  <1>6. Len(entries) \in Nat
    BY <1>1
  <1>7. pc = "titles" /\ pc' = "titles" /\ found' = found
    OBVIOUS
  <1>8. /\ TypeOK /\ Lists /\ EachOnce /\ AllWereThere /\ NoneMissing
        /\ TitlesTrue /\ LookedUp /\ LabelNamesTarget
    BY DEF IInv
  <1>9. UNCHANGED <<running, g_pgl_ready, g_pmshell_ready, asked, pc, found, pid,
                    target, m_titleId, label>>
    OBVIOUS
  <1> HIDE DEF p, tid, e, ListEntry
  <1>10. Lists'
    BY <1>2, <1>4, <1>7 DEF Lists
  <1>11. TypeOK'
    <2>1. ToSet(pids') \subseteq Pid /\ ToSet(entries') \subseteq Entry
      BY <1>2, <1>4 DEF ToSet
    <2>2. Len(pids') + Len(entries') <= kMaxProcessList
      BY <1>1, <1>2, <1>4, <1>6
    <2> QED
      BY <1>8, <1>9, <2>1, <2>2 DEF TypeOK, Entry
  <1>12. EachOnce'
    <2>1. \A j, k \in 1 .. Len(pids') : pids'[j] = pids'[k] => j = k
      BY <1>2, <1>8 DEF EachOnce
    <2>2. \A k \in 1 .. Len(entries') : \/ k \in 1 .. Len(entries) /\ entries'[k] = entries[k]
                                        \/ k = Len(entries) + 1 /\ entries'[k].pid = p
      BY <1>4, <1>5, <1>6
    <2>3. \A k \in 1 .. Len(entries) : entries[k].pid # p
      BY <1>2, <1>8 DEF EachOnce
    <2>4. \A j, k \in 1 .. Len(entries') : entries'[j].pid = entries'[k].pid => j = k
      BY <1>8, <2>2, <2>3 DEF EachOnce
    <2>5. \A j \in 1 .. Len(pids') : pids'[j] # p /\ j + 1 \in 1 .. Len(pids)
      BY <1>2, <1>8 DEF EachOnce
    <2>6. \A j \in 1 .. Len(pids'), k \in 1 .. Len(entries') : pids'[j] # entries'[k].pid
      BY <1>2, <1>8, <2>2, <2>5 DEF EachOnce
    <2> QED
      BY <2>1, <2>4, <2>6 DEF EachOnce
  <1>13. AllWereThere'
    <2>1. \A j \in 1 .. Len(pids') : pids'[j] \in found
      BY <1>2, <1>8 DEF AllWereThere
    <2>2. p \in found
      BY <1>2, <1>8 DEF AllWereThere
    <2>3. \A k \in 1 .. Len(entries') : entries'[k].pid \in found
      BY <1>4, <1>5, <1>6, <1>8, <2>2 DEF AllWereThere
    <2> QED
      BY <1>7, <2>1, <2>3 DEF AllWereThere
  <1>14. NoneMissing'
    <2> SUFFICES ASSUME Cardinality(found) <= kMaxProcessList, NEW q \in found \ {0}
                 PROVE  \/ \E j \in 1 .. Len(pids') : pids'[j] = q
                        \/ \E k \in 1 .. Len(entries') : entries'[k].pid = q
      BY <1>7 DEF NoneMissing
    <2>1. CASE \E j \in 1 .. Len(pids) : pids[j] = q
      <3>1. PICK j \in 1 .. Len(pids) : pids[j] = q
        BY <2>1
      <3>2. CASE j = 1
        <4>1. p = q /\ p # 0
          BY <1>2, <3>1, <3>2
        <4>2. Len(entries) + 1 \in 1 .. Len(entries')
              /\ entries'[Len(entries) + 1].pid = q
          BY <1>4, <1>5, <1>6, <4>1
        <4> QED
          BY <4>2
      <3>3. CASE j # 1
        <4>1. j - 1 \in 1 .. Len(pids') /\ pids'[j - 1] = q
          BY <1>2, <3>1, <3>3
        <4> QED
          BY <4>1
      <3> QED
        BY <3>2, <3>3
    <2>2. CASE \E k \in 1 .. Len(entries) : entries[k].pid = q
      <3>1. PICK k \in 1 .. Len(entries) : entries[k].pid = q
        BY <2>2
      <3>2. k \in 1 .. Len(entries') /\ entries'[k].pid = q
        BY <1>4, <1>6, <3>1
      <3> QED
        BY <3>2
    <2> QED
      BY <1>7, <1>8, <2>1, <2>2 DEF NoneMissing
  <1>15. TitlesTrue'
    BY <1>3, <1>4, <1>5, <1>6, <1>8 DEF TitlesTrue
  <1>16. LookedUp' /\ LabelNamesTarget'
    BY <1>8, <1>9 DEF LookedUp, LabelNamesTarget
  <1> QED
    BY <1>10, <1>11, <1>12, <1>13, <1>14, <1>15, <1>16 DEF IInv

(* A detection throws its list away, a choice is made from the whole of it. *)
LEMMA ListedKeepsIInv ==
    ASSUME IInv, Listed
    PROVE  IInv'
  <1> USE DEF world, screen
  <1>1. TypeOK'
    <2>1. ToSet(entries') \subseteq ToSet(entries) /\ Len(entries') <= Len(entries)
      BY EmptySet DEF IInv, Listed, Lists
    <2>2. pids' = pids /\ Len(pids) = 0 /\ Len(entries') \in Nat /\ Len(entries) \in Nat
      BY DEF IInv, Listed, Lists
    <2>3. Len(pids') + Len(entries') <= kMaxProcessList
      <3>1. Len(pids) + Len(entries) <= kMaxProcessList
        BY DEF IInv, TypeOK
      <3> QED
        BY <2>1, <2>2, <3>1, ListSize
    <2> QED
      BY <2>1, <2>2, <2>3 DEF IInv, Listed, TypeOK
  <1>2. Lists' /\ EachOnce' /\ AllWereThere' /\ NoneMissing' /\ TitlesTrue'
    <2>1. CASE asked = "detect"
      BY <2>1, NoLists DEF Listed
    <2>2. CASE asked # "detect"
      BY <2>2 DEF IInv, Listed, Lists, EachOnce, AllWereThere, NoneMissing, TitlesTrue
    <2> QED
      BY <2>1, <2>2
  <1>3. LookedUp' /\ LabelNamesTarget'
    BY DEF IInv, Listed, LookedUp, LabelNamesTarget
  <1> QED
    BY <1>1, <1>2, <1>3 DEF IInv

-----------------------------------------------------------------------------
(* The three services: with an answer above 1 from one that is there, it is one
   of these that is taken; without, the answer is none. *)
LEMMA ForegroundFromAnswers ==
    ASSUME NEW pgl \in Int, NEW pm \in Int, NEW shell \in Int,
           g_pgl_ready \in BOOLEAN, g_pmshell_ready \in BOOLEAN
    PROVE  LET named == {a \in {pm} \cup (IF g_pgl_ready THEN {pgl} ELSE {})
                                  \cup (IF g_pmshell_ready THEN {shell} ELSE {}) : a > 1}
               p == getForegroundPid(pgl, pm, shell)
           IN  IF named = {} THEN p <= 1 ELSE p \in named
  BY DEF getForegroundPid

(* What a service may say: an error, the kernel's processes or one that runs. *)
LEMMA AnswersTyped ==
    ASSUME TypeOK
    PROVE  /\ Answers \subseteq Int
           /\ \A a \in Answers : a > 1 => a \in Pid
  <1>1. running \subseteq Pid /\ Pid \subseteq Nat
    BY DetectionAssumption DEF TypeOK
  <1> QED
    BY <1>1 DEF Answers, Failed

(* What the three services name is looked up, or is an error. *)
LEMMA FindForegroundKeepsIInv ==
    ASSUME IInv, FindForeground
    PROVE  IInv'
  <1> USE DetectionAssumption
  <1>1. PICK pgl, pm, shell \in Answers :
               LET p == getForegroundPid(pgl, pm, shell)
               IN  IF p <= 1 THEN DetectFails
                   ELSE pid' = p /\ pc' = "title" /\ UNCHANGED <<asked, lists, screen>>
    BY DEF FindForeground
  <1> DEFINE p == getForegroundPid(pgl, pm, shell)
  <1>2. UNCHANGED world /\ pc = "front"
    BY DEF FindForeground
  <1>3. CASE p <= 1
    <2>1. DetectFails
      BY <1>1, <1>3
    <2>2. target' \in Pid /\ LabelNamesTarget'
      BY <2>1, ErrorKeepsLabel DEF IInv, TypeOK, DetectFails
    <2> QED
      BY <1>2, <2>1, <2>2, ReturnKeepsIInv DEF DetectFails
  <1>4. CASE ~(p <= 1)
    <2>1. pid' = p /\ pc' = "title" /\ UNCHANGED <<asked, lists, screen>>
      BY <1>1, <1>4
    <2>2. p \in {pgl, pm, shell}
      BY DEF getForegroundPid
    <2>3. p \in Pid /\ p > 1
      BY <1>4, <2>2, AnswersTyped DEF IInv
    <2>4. TypeOK'
      BY <1>2, <2>1, <2>3 DEF IInv, TypeOK, world, lists, screen
    <2>5. pids = <<>> /\ entries = <<>>
      BY <1>2 DEF IInv, Lists
    <2>6. Lists' /\ EachOnce' /\ AllWereThere' /\ NoneMissing' /\ TitlesTrue'
      BY <2>1, <2>5, NoLists DEF lists
    <2>7. LookedUp' /\ LabelNamesTarget'
      BY <2>1, <2>3 DEF IInv, LookedUp, LabelNamesTarget, screen
    <2> QED
      BY <2>4, <2>6, <2>7 DEF IInv
  <1> QED
    BY <1>3, <1>4

(* Target, title and label change together, or only the label does. *)
LEMMA FindTitleKeepsIInv ==
    ASSUME IInv, FindTitle
    PROVE  IInv'
  <1> USE DetectionAssumption
  <1>1. pid \in Pid /\ pid > 1 /\ UNCHANGED world
    BY DEF IInv, TypeOK, LookedUp, FindTitle
  <1>2. CASE ProgramId(pid) = Failed
    <2>1. DetectFails
      BY <1>2 DEF FindTitle
    <2>2. target' \in Pid /\ LabelNamesTarget'
      BY <2>1, ErrorKeepsLabel DEF IInv, TypeOK, DetectFails
    <2> QED
      BY <1>1, <2>1, <2>2, ReturnKeepsIInv DEF DetectFails
  <1>3. CASE ProgramId(pid) # Failed
    <2>1. /\ target' = pid /\ m_titleId' = ProgramId(pid)
          /\ label' = <<"TID", ProgramId(pid)>> /\ Return
      BY <1>3 DEF FindTitle
    <2>2. ProgramId(pid) = Title[pid]
      BY <1>3 DEF ProgramId
    <2>3. LabelNamesTarget'
      BY <1>1, <2>1, <2>2 DEF LabelNamesTarget
    <2> QED
      BY <1>1, <2>1, <2>3, ReturnKeepsIInv
  <1> QED
    BY <1>2, <1>3

(* A row names its process and that process's title, or none. *)
LEMMA PickKeepsIInv ==
    ASSUME IInv, Pick
    PROVE  IInv'
  <1> USE DetectionAssumption
  <1>1. PICK e \in ToSet(entries) :
               /\ target' = e.pid /\ m_titleId' = e.tid
               /\ label' = IF e.tid # 0 THEN <<"TID", e.tid>> ELSE <<"PID", e.pid>>
    BY DEF Pick
  <1>2. entries \in Seq(Entry)
    BY DEF IInv, Lists
  <1>3. PICK k \in 1 .. Len(entries) : e = entries[k]
    BY <1>2 DEF ToSet
  <1>4. e.pid \in Pid \ {0} /\ e.tid \in Nat
    <2>1. e \in Entry
      BY <1>2, <1>3
    <2> QED
      BY <2>1 DEF Entry
  <1>5. e.tid \in {0, Title[e.pid]}
    BY <1>3 DEF IInv, TitlesTrue
  <1>6. LabelNamesTarget'
    BY <1>1, <1>4, <1>5 DEF LabelNamesTarget
  <1> QED
    BY <1>1, <1>4, <1>6, ReturnKeepsIInv DEF Pick

(* The list is left without a choice. *)
LEMMA PickNoneKeepsIInv ==
    ASSUME IInv, PickNone
    PROVE  IInv'
  <1>1. target' \in Pid /\ LabelNamesTarget'
    BY DEF IInv, TypeOK, PickNone, LabelNamesTarget, screen
  <1> QED
    BY <1>1, ReturnKeepsIInv DEF PickNone

(* One action at a time. *)
LEMMA NextKeepsIInv == IInv /\ [Next]_vars => IInv'
  <1> SUFFICES ASSUME IInv, [Next]_vars
               PROVE  IInv'
    OBVIOUS
  <1>1. CASE UNCHANGED vars
    <2> USE <1>1 DEF vars, world, lists, screen
    <2>1. TypeOK'
      BY DEF IInv, TypeOK
    <2>2. Lists' /\ EachOnce' /\ AllWereThere' /\ NoneMissing' /\ TitlesTrue'
      BY DEF IInv, Lists, EachOnce, AllWereThere, NoneMissing, TitlesTrue
    <2>3. LookedUp' /\ LabelNamesTarget'
      BY DEF IInv, LookedUp, LabelNamesTarget
    <2> QED
      BY <2>1, <2>2, <2>3 DEF IInv
  <1> QED
    BY <1>1, WorldKeepsIInv, AskKeepsIInv, CallFailsKeepsIInv, GetProcessListKeepsIInv,
       ListEntryKeepsIInv, ListedKeepsIInv, FindForegroundKeepsIInv,
       FindTitleKeepsIInv, PickKeepsIInv, PickNoneKeepsIInv DEF Next, Answer

-----------------------------------------------------------------------------
(* The inductive invariant: through all the calls the lists, the titles beside
   the processes and the label agree with each other and with the kernel's
   list. *)
THEOREM Invariant == Spec => []IInv
  BY InitIInv, NextKeepsIInv, PTL DEF Spec

(* Each variable has its type. *)
THEOREM DetectionTypeCorrect == Spec => []TypeOK
  <1>1. IInv => TypeOK
    BY DEF IInv
  <1> QED
    BY <1>1, Invariant, PTL

(* The list shown: each process once, none that was not there, all that were
   if there is room, the right titles (Debugger::listProcesses).  There are as
   many as rows, because row and process correspond one to one. *)
LEMMA ListIsFaithful == IInv => ListFaithful
  <1> SUFFICES ASSUME IInv, pc = "choose"
               PROVE  ListFaithful
    BY DEF ListFaithful
  <1> DEFINE shown == {x.pid : x \in ToSet(entries)}
             f == [k \in 1 .. Len(entries) |-> entries[k].pid]
  <1>1. /\ pids = <<>> /\ entries \in Seq(Entry) /\ Len(entries) \in Nat
        /\ Len(entries) <= kMaxProcessList
    <2>1. pids = <<>> /\ entries \in Seq(Entry) /\ Len(entries) \in Nat
      BY DEF IInv, Lists
    <2>2. Len(pids) = 0
      BY <2>1
    <2>3. Len(pids) + Len(entries) <= kMaxProcessList
      BY DEF IInv, TypeOK
    <2> QED
      BY <2>1, <2>2, <2>3
  <1>2. ToSet(entries) = {entries[k] : k \in 1 .. Len(entries)}
    BY <1>1 DEF ToSet
  <1>3. f \in Bijection(1 .. Len(entries), shown)
    <2>1. f \in [1 .. Len(entries) -> shown]
      BY <1>2
    <2>2. \A j, k \in 1 .. Len(entries) : f[j] = f[k] => j = k
      BY DEF IInv, EachOnce
    <2>3. \A q \in shown : \E k \in 1 .. Len(entries) : f[k] = q
      BY <1>2
    <2> QED
      BY <2>1, <2>2, <2>3 DEF Bijection, Injection, Surjection, IsInjective
  <1>4. Cardinality(shown) = Len(entries)
    <2>1. IsFiniteSet(1 .. Len(entries)) /\ Cardinality(1 .. Len(entries)) = Len(entries)
      BY <1>1, UpTo
    <2>2. ExistsBijection(1 .. Len(entries), shown)
      BY <1>3 DEF ExistsBijection
    <2> QED
      BY <2>1, <2>2, FS_Bijection
  <1>5. shown \subseteq found \ {0}
    <2>1. \A k \in 1 .. Len(entries) : entries[k] \in Entry /\ entries[k].pid \in found
      BY <1>1 DEF IInv, AllWereThere
    <2> QED
      BY <1>2, <2>1 DEF Entry
  <1>6. Cardinality(found) <= kMaxProcessList => shown = found \ {0}
    <2> SUFFICES ASSUME Cardinality(found) <= kMaxProcessList, NEW p \in found \ {0}
                 PROVE  p \in shown
      BY <1>5
    <2>1. PICK k \in 1 .. Len(entries) : entries[k].pid = p
      BY <1>1 DEF IInv, NoneMissing
    <2> QED
      BY <1>2, <2>1
  <1>7. \A x \in ToSet(entries) : x.tid \in {0, Title[x.pid]}
    BY <1>2 DEF IInv, TitlesTrue
  <1> QED
    BY <1>1, <1>4, <1>5, <1>6, <1>7 DEF ListFaithful

(* The list the user chooses from is the kernel's. *)
THEOREM ListFaithfulAlways == Spec => []ListFaithful
  BY ListIsFaithful, Invariant, PTL

(* The label names the target, whatever fails and whoever exits in between. *)
THEOREM LabelNamesTargetAlways == Spec => []LabelNamesTarget
  <1>1. IInv => LabelNamesTarget
    BY DEF IInv
  <1> QED
    BY <1>1, Invariant, PTL

(* The foreground process is found if any service that is there names it. *)
THEOREM ForegroundFoundAlways == Spec => []ForegroundFound
  <1>1. IInv => ForegroundFound
    BY ForegroundFromAnswers, AnswersTyped DEF IInv, TypeOK, ForegroundFound
  <1> QED
    BY <1>1, Invariant, PTL
=============================================================================
