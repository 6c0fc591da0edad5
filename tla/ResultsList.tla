----------------------------- MODULE ResultsList -----------------------------
(***************************************************************************)
(* The results screen (ResultsListGui) turning the pages of results.bin.   *)
(* The screen reads the file three times to build itself (update's count,  *)
(* rebuild's count, readPage) and counts again in every frame: it is       *)
(* written for a file that changes.  Here the file is replaced once, at    *)
(* any step; that is more than this program does, whose scans all end      *)
(* before the screen is opened.                                            *)
(***************************************************************************)
EXTENDS ResultsFile, FiniteSets, SequencesExt

CONSTANTS
    Files,          \* the files the card may hold
    kPageSize

ASSUME ListAssumption ==
    /\ kPageSize \in Nat \ {0} /\ NoFile \notin Files
    /\ Files \subseteq [count : Nat, ents : Seq(Nat)]

VARIABLES
    file,           \* results.bin
    scan,           \* a scan: "running", "removed" the old file, "over"
    pc,             \* the screen: "idle", about to "rebuild", about to read the "page"
    m_currentPage, m_total, m_lastBuiltCount,
    shown,          \* the rows listed
    buttons         \* the pages its buttons can lead to

scanVars == <<file, scan>>
listVars == <<pc, m_currentPage, m_total, m_lastBuiltCount, shown, buttons>>
vars == <<scanVars, listVars>>

Init ==
    /\ file \in Files \cup {NoFile} /\ scan = "running"
    /\ pc = "rebuild" /\ m_currentPage = 0
    /\ m_total = 0 /\ m_lastBuiltCount = 0
    /\ shown = <<>> /\ buttons = {}

(* The end of the scan: the old file goes, the new one takes its name.  Each
   call may fail; without the first the second cannot succeed. *)
ScanRemove ==
    /\ scan = "running"
    /\ file' = NoFile /\ scan' = "removed"
    /\ UNCHANGED listVars

ScanRename ==
    /\ scan = "removed"
    /\ file' \in Files /\ scan' = "over"
    /\ UNCHANGED listVars

ScanFails ==
    /\ scan # "over" /\ scan' = "over"
    /\ UNCHANGED <<file, listVars>>

Pages(n) == IF n = 0 THEN 1 ELSE TotalPages(n, kPageSize)

(* Mutant of Update: only a list that has grown is built again. *)
UpdateGrown ==
    /\ pc = "idle" /\ Count(file) > m_lastBuiltCount
    /\ m_currentPage' = Least(m_currentPage, Pages(Count(file)) - 1)
    /\ pc' = "rebuild" /\ shown' = <<>> /\ buttons' = {}
    /\ UNCHANGED <<scanVars, m_total, m_lastBuiltCount>>

(* Every frame: if the count is not the one built, to the last page there is,
   and build again. *)
Update ==
    /\ pc = "idle" /\ Count(file) # m_lastBuiltCount
    /\ m_currentPage' = Least(m_currentPage, Pages(Count(file)) - 1)
    /\ pc' = "rebuild" /\ shown' = <<>> /\ buttons' = {}
    /\ UNCHANGED <<scanVars, m_total, m_lastBuiltCount>>

(* Mutant of Rebuild: no early return when there are no results. *)
RebuildEmpty ==
    /\ pc = "rebuild"
    /\ m_total' = Count(file) /\ m_lastBuiltCount' = Count(file)
    /\ pc' = "page"
    /\ UNCHANGED <<scanVars, m_currentPage, shown, buttons>>

(* rebuild: the count and the header; without results that is all. *)
Rebuild ==
    /\ pc = "rebuild"
    /\ m_total' = Count(file) /\ m_lastBuiltCount' = Count(file)
    /\ pc' = IF Count(file) = 0 THEN "idle" ELSE "page"
    /\ UNCHANGED <<scanVars, m_currentPage, shown, buttons>>

(* The rows, and the buttons by the number of pages counted before. *)
FillPage ==
    /\ pc = "page"
    /\ shown' = ReadPage(file, m_currentPage, kPageSize)
    /\ buttons' = IF Pages(m_total) = 1 THEN {}
                  ELSE {p \in {m_currentPage - 1, m_currentPage + 1} :
                          p >= 0 /\ p < Pages(m_total)}
    /\ pc' = "idle"
    /\ UNCHANGED <<scanVars, m_currentPage, m_total, m_lastBuiltCount>>

(* A click on "previous page" or "next page": no new clamp. *)
TurnPage ==
    /\ pc = "idle"
    /\ m_currentPage' \in buttons
    /\ pc' = "rebuild" /\ shown' = <<>> /\ buttons' = {}
    /\ UNCHANGED <<scanVars, m_total, m_lastBuiltCount>>

Screen == Update \/ Rebuild \/ FillPage

Next == ScanRemove \/ ScanRename \/ ScanFails \/ Screen \/ TurnPage

(* libtesla draws a frame, and calls update, sixty times a second. *)
Spec == Init /\ [][Next]_vars /\ WF_vars(Screen)

-----------------------------------------------------------------------------
(* Each variable has its type. *)
TypeOK ==
    /\ file \in Files \cup {NoFile} /\ scan \in {"running", "removed", "over"}
    /\ pc \in {"idle", "rebuild", "page"}
    /\ m_currentPage \in Nat /\ m_total \in Nat /\ m_lastBuiltCount = m_total
    /\ Len(shown) <= kPageSize /\ buttons \subseteq Nat

(* Turning the pages from the first to the last lists every entry that the
   header counts and the file holds, once, in order (readPage's start and
   want). *)
PagesPartition ==
    file # NoFile =>
        FlattenSeq([p \in 1 .. TotalPages(Count(file), kPageSize) |->
                      ReadPage(file, p - 1, kPageSize)])
            = SubSeq(file.ents, 1, Held(file))

(* However the file changes under the screen, no rows are listed under the
   number of a page that does not exist, and "next page" leads to one that
   does, by the count in the header line. *)
RowsOnAPage ==
    pc = "idle" =>
        /\ shown # <<>> => m_currentPage < Pages(m_total)
        /\ \A p \in buttons : p > m_currentPage => p < Pages(m_total)

(* Once the file is no longer replaced, the screen says how many results there are; and if
   there are not as many as before, it lists the current page of them. *)
CatchesUp ==
    \A n \in {Count(f) : f \in Files} :
        (Count(file) = n) =>
            <>[](pc = "idle" =>
                    /\ m_total = Count(file)
                    /\ Count(file) # n =>
                          shown = ReadPage(file, m_currentPage, kPageSize))
=============================================================================
