---------------------------- MODULE ResultsFilter ----------------------------
(***************************************************************************)
(* The next scan's pass over results.bin (ResultsStore::filterU32): the    *)
(* entries are read in batches, the word of each is read through the       *)
(* sysmod and compared, and what is kept goes through a buffer into        *)
(* results.tmp.  The game is frozen while this goes on, but may be killed: *)
(* then every further read fails and drops its entry.                      *)
(***************************************************************************)
EXTENDS ResultsFile, FullCard, FiniteSets

CONSTANTS
    Address,        \* the addresses results.bin may hold
    kReadBatch,     \* entries read, and entries buffered, at a time
    MaxMissing      \* how many entries the header may count in excess

ASSUME FilterAssumption ==
    /\ Address \subseteq Nat /\ IsFiniteSet(Address) /\ kReadBatch \in Nat \ {0} /\ MaxMissing \in Nat

VARIABLES
    src,            \* results.bin, opened
    holds,          \* the addresses whose word has the value sought
    alive,          \* the game is there to be read
    pc, i, j,
    inBuf, outBuf, kept,
    dst,            \* results.tmp: header count and entries
    lost            \* entries given to fwrite for which the card had no room

vars == <<src, holds, alive, pc, i, j, inBuf, outBuf, kept, dst, lost>>

(* The files that can be opened: those a scan that found its card full left
   under a header that counts too many, or under the first one, among them. *)
Init ==
    /\ \E e \in SeqOf(Address, Cardinality(Address)), n \in 0 .. MaxMissing :
          /\ Ascending(e)
          /\ src \in {[count |-> c, ents |-> e] : c \in {0, Len(e) + n}}
    /\ holds \in SUBSET ToSet(src.ents)
    /\ alive = TRUE
    /\ pc = "read" /\ i = 0 /\ j = 0
    /\ inBuf = <<>> /\ outBuf = <<>> /\ kept = 0
    /\ dst \in {[count |-> c, ents |-> <<>>] : c \in {0, NoHeader}}
    /\ lost = {}

GameKilled ==
    /\ alive /\ pc \in {"read", "test"}
    /\ alive' = FALSE /\ holds' = {}
    /\ UNCHANGED <<src, pc, i, j, inBuf, outBuf, kept, dst, lost>>

Got == LET want == Least(src.count - i, kReadBatch)
       IN  Least(want, Len(src.ents) - i)

(* Mutant of ReadBatch: the loop trusts the header and goes on when nothing
   could be read. *)
ReadOn ==
    /\ pc = "read" /\ i < src.count
    /\ inBuf' = SubSeq(src.ents, i + 1, i + Got) /\ j' = 0
    /\ pc' = "test"
    /\ UNCHANGED <<src, holds, alive, i, outBuf, kept, dst, lost>>

(* fread: a batch, or what is left in the file. *)
ReadBatch ==
    /\ pc = "read" /\ i < src.count /\ Got > 0
    /\ inBuf' = SubSeq(src.ents, i + 1, i + Got) /\ j' = 0
    /\ pc' = "test"
    /\ UNCHANGED <<src, holds, alive, i, outBuf, kept, dst, lost>>

(* fwrite of a buffer, which is emptied whatever the card takes of it. *)
WriteOut(b, n) ==
    /\ \E w \in Written(b) : /\ dst' = [count |-> n, ents |-> dst.ents \o w]
                             /\ lost' = lost \cup Lost(b, w)
    /\ outBuf' = <<>>

(* Mutant of Keep: the full buffer is written before the entry is in it. *)
KeepAfterFlush(a) ==
    /\ kept' = kept + 1
    /\ IF Len(outBuf) + 1 = kReadBatch
       THEN WriteOut(outBuf, dst.count)
       ELSE outBuf' = Append(outBuf, a) /\ UNCHANGED <<dst, lost>>

Keep(a) ==
    /\ kept' = kept + 1
    /\ IF Len(outBuf) + 1 = kReadBatch
       THEN WriteOut(Append(outBuf, a), dst.count)
       ELSE outBuf' = Append(outBuf, a) /\ UNCHANGED <<dst, lost>>

TestEntry ==
    /\ pc = "test" /\ j < Len(inBuf)
    /\ j' = j + 1
    /\ IF inBuf[j + 1] \in holds THEN Keep(inBuf[j + 1])
                                 ELSE UNCHANGED <<outBuf, kept, dst, lost>>
    /\ UNCHANGED <<src, holds, alive, pc, i, inBuf>>

BatchDone ==
    /\ pc = "test" /\ j = Len(inBuf)
    /\ i' = i + Len(inBuf) /\ j' = 0 /\ inBuf' = <<>>
    /\ pc' = "read"
    /\ UNCHANGED <<src, holds, alive, outBuf, kept, dst, lost>>

(* Mutant of Finish: the header gets the count of entries read. *)
FinishCountsRead ==
    /\ pc = "read" /\ (i >= src.count \/ Got = 0)
    /\ WriteOut(outBuf, i)
    /\ pc' = "done"
    /\ UNCHANGED <<src, holds, alive, i, j, inBuf, kept>>

(* All entries read, or a batch of none: the buffer, then the header; if there
   is no room for it either, the first one stays. *)
Finish ==
    /\ pc = "read" /\ (i >= src.count \/ Got = 0)
    /\ \E n \in {kept, dst.count} : WriteOut(outBuf, n)
    /\ pc' = "done"
    /\ UNCHANGED <<src, holds, alive, i, j, inBuf, kept>>

Filter == ReadBatch \/ TestEntry \/ BatchDone \/ Finish

Next == Filter \/ GameKilled

Spec == Init /\ [][Next]_vars /\ WF_vars(Filter)

-----------------------------------------------------------------------------
TypeOK ==
    /\ alive \in BOOLEAN /\ holds \subseteq Address
    /\ pc \in {"read", "test", "done"}
    /\ i \in 0 .. Len(src.ents) /\ j \in 0 .. Len(inBuf)
    /\ inBuf \in Seq(Address) /\ Len(inBuf) <= kReadBatch
    /\ outBuf \in Seq(Address) /\ Len(outBuf) < kReadBatch
    /\ dst \in [count : Nat \cup {NoHeader}, ents : Seq(Address)]
    /\ lost \subseteq Address /\ kept \in Nat

(* What has been kept: entries written or still in the buffer, and those that
   the card had no room for. *)
Out == dst.ents \o outBuf
Kept == ToSet(Out) \cup lost

(* While the game lives, what is kept is what matched among the entries
   tested: none is dropped or invented at the end of a batch or when the
   buffer is written.  In the end all have been tested that the file holds and
   its header counts. *)
KeptSoFar ==
    alive =>
        /\ Kept = ToSet(SubSeq(src.ents, 1, i + j)) \cap holds
        /\ pc = "done" => i + j = Least(src.count, Len(src.ents))

(* Whatever the old header said and whenever the game went, the new header
   counts the entries that were kept, so that it is true unless the card lost
   some of them; or, when there was no room for it either, it is still the
   first.  The new file has entries of the old one, once each and in its order;
   the buffer is not overrun. *)
HeaderRepaired ==
    /\ Len(outBuf) < kReadBatch
    /\ Ascending(Out) /\ lost \cap ToSet(Out) = {}
    /\ Kept \subseteq ToSet(src.ents) /\ kept = Cardinality(Kept)
    /\ pc = "done" => dst.count \in {Len(dst.ents) + Cardinality(lost), 0, NoHeader}

(* A header that counts more than the file holds does not keep the loop
   going: reading nothing ends it. *)
Terminates == <>(pc = "done")
=============================================================================
