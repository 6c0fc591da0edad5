----------------------------- MODULE ScanRunner -----------------------------
(***************************************************************************)
(* The first scan's walk through a game's memory                           *)
(* (sysmod/source/ScanRunner.cpp: runFirstScanU32 between resultsBegin and *)
(* resultsEnd).  The address space is a sequence of regions, as            *)
(* svcQueryDebugProcessMemory reports them; regions of the right type and  *)
(* permission are read in chunks, chunks word by word, and hits go through *)
(* a buffer into the file.  The game is attached, hence frozen: memory     *)
(* does not change under the walk.  Addresses wrap at the top like u64.    *)
(***************************************************************************)
EXTENDS FullCard, FiniteSets, FiniteSetsExt

CONSTANTS
    Top,            \* 2^64: addresses are 0 .. Top - 1 and wrap there
    kPage,          \* regions begin and end at multiples of this
    kScanBuf,       \* bytes read at a time
    kFlushEntries   \* hits buffered before they are written

Word == 4

ASSUME ScanAssumption ==
    /\ Top \in Nat \ {0} /\ kPage \in Nat \ {0} /\ kScanBuf \in Nat \ {0}
    /\ kFlushEntries \in Nat \ {0}
    /\ Top % kPage = 0 /\ kPage % Word = 0 /\ kScanBuf % kPage = 0

Address == 0 .. Top - 1
Multiples(n) == {a \in Address : a % n = 0}

VARIABLES
    starts,         \* the addresses at which regions begin
    scannable,      \* those of them whose region is read/write and interesting
    match,          \* the addresses whose word has the value sought
    pc, addr,
    cur, rem,       \* the rest of the region being read
    got, i,         \* the chunk read, and the offset reached in it
    buf, count,     \* ResultsFileCtx: entries not yet written, entries in all
    file, header,   \* entries in results.tmp, and the count in its header
    lost,           \* entries given to fwrite for which the card had no room
    skipped,        \* addresses in chunks that could not be read
    cut             \* queryMemory failed: the walk ended early

game == <<starts, scannable, match>>
walk == <<addr, cur, rem, got, i>>
results == <<buf, count, file, header, lost>>
vars == <<game, pc, walk, results, skipped, cut>>

Begin(a) == Max({s \in starts : s <= a})
End(a) == Min({s \in starts : s > a} \cup {Top})

Init ==
    /\ starts \in {S \in SUBSET Multiples(kPage) : 0 \in S}
    /\ scannable \in SUBSET starts
    /\ match \in SUBSET Multiples(Word)
    /\ pc = "query" /\ addr = 0
    /\ cur = 0 /\ rem = 0 /\ got = 0 /\ i = 0
    /\ buf = <<>> /\ count = 0 /\ file = <<>> /\ lost = {}
    /\ header \in {0, NoHeader}      \* resultsBegin
    /\ skipped = {} /\ cut = FALSE

(* queryMemory(addr): the region that contains addr, or an error when the
   game has exited, which ends the walk. *)
Query ==
    /\ pc = "query"
    /\ IF Begin(addr) \in scannable
       THEN /\ pc' = "chunk"
            /\ cur' = Begin(addr) /\ rem' = End(addr) - Begin(addr)
       ELSE pc' = "next" /\ UNCHANGED <<cur, rem>>
    /\ UNCHANGED <<game, addr, got, i, results, skipped, cut>>

QueryFails ==
    /\ pc = "query"
    /\ pc' = "end" /\ cut' = TRUE
    /\ UNCHANGED <<game, walk, results, skipped>>

Chunk == IF rem < kScanBuf THEN rem ELSE kScanBuf

(* Mutant of Advance: no wrap at the top. *)
AdvanceUnwrapped(n) == cur' = cur + n /\ rem' = rem - n

Advance(n) == cur' = (cur + n) % Top /\ rem' = rem - n

ReadChunk ==
    /\ pc = "chunk" /\ rem > 0
    /\ got' = Chunk /\ i' = 0
    /\ pc' = "words"
    /\ UNCHANGED <<game, addr, cur, rem, results, skipped, cut>>

ReadFails ==
    /\ pc = "chunk" /\ rem > 0
    /\ Advance(Chunk)
    /\ skipped' = skipped \cup cur .. cur + Chunk - 1
    /\ UNCHANGED <<game, pc, addr, got, i, results, cut>>

RegionDone ==
    /\ pc = "chunk" /\ rem = 0
    /\ pc' = "next"
    /\ UNCHANGED <<game, walk, results, skipped, cut>>

(* fwrite writes what it can of a buffer, which is emptied all the same. *)
flushResults(b) ==
    /\ \E w \in Written(b) : file' = file \o w /\ lost' = lost \cup Lost(b, w)
    /\ buf' = <<>>

(* Mutant of Push: the buffer is written and not emptied. *)
PushKeepsBuffer(a) ==
    /\ count' = count + 1
    /\ buf' = Append(buf, a)
    /\ UNCHANGED lost
    /\ IF Len(buf) + 1 = kFlushEntries THEN file' = file \o Append(buf, a)
                                       ELSE UNCHANGED file

(* resultsPush: a full buffer is written at once. *)
Push(a) ==
    /\ count' = count + 1
    /\ IF Len(buf) + 1 = kFlushEntries
       THEN flushResults(Append(buf, a))
       ELSE buf' = Append(buf, a) /\ UNCHANGED <<file, lost>>

(* Mutant of WordsEnd: the last word of a chunk is missed. *)
WordsEndEarly == got - 4
WordsEnd == got - 3     \* a chunk is a whole number of pages: got >= 4

CheckWord ==
    /\ pc = "words" /\ i < WordsEnd
    /\ i' = i + Word
    /\ IF cur + i \in match THEN Push(cur + i) ELSE UNCHANGED <<buf, count, file, lost>>
    /\ UNCHANGED <<game, pc, addr, cur, rem, got, header, skipped, cut>>

ChunkDone ==
    /\ pc = "words" /\ i >= WordsEnd
    /\ Advance(got)
    /\ pc' = "chunk"
    /\ UNCHANGED <<game, addr, got, i, results, skipped, cut>>

(* Mutant of NextRegion: the wrap is noticed only below addr. *)
NextUnlessBelow ==
    /\ pc = "next"
    /\ LET next == End(addr) % Top IN
         IF next < addr THEN pc' = "end" /\ UNCHANGED addr
                        ELSE pc' = "query" /\ addr' = next
    /\ UNCHANGED <<game, cur, rem, got, i, results, skipped, cut>>

(* The next region, until the addresses wrap around. *)
NextRegion ==
    /\ pc = "next"
    /\ LET next == End(addr) % Top IN
         IF next <= addr THEN pc' = "end" /\ UNCHANGED addr
                         ELSE pc' = "query" /\ addr' = next
    /\ UNCHANGED <<game, cur, rem, got, i, results, skipped, cut>>

(* Mutant of Finish: what is left in the buffer is forgotten. *)
FinishUnflushed ==
    /\ pc = "end"
    /\ header' = count /\ buf' = <<>> /\ UNCHANGED <<file, lost>>
    /\ pc' = "done"
    /\ UNCHANGED <<game, walk, count, skipped, cut>>

(* resultsEnd: what is left in the buffer, then the header; if there is no
   room for it either, what resultsBegin wrote stays. *)
Finish ==
    /\ pc = "end"
    /\ flushResults(buf)
    /\ header' \in {count, header}
    /\ pc' = "done"
    /\ UNCHANGED <<game, walk, count, skipped, cut>>

Next == \/ Query \/ QueryFails \/ ReadChunk \/ ReadFails \/ RegionDone
        \/ CheckWord \/ ChunkDone \/ NextRegion \/ Finish

Spec == Init /\ [][Next]_vars /\ WF_vars(Next)

-----------------------------------------------------------------------------
TypeOK ==
    /\ pc \in {"query", "chunk", "words", "next", "end", "done"}
    /\ addr \in Address /\ cur \in Address
    /\ rem \in 0 .. Top /\ got \in 0 .. kScanBuf /\ i \in 0 .. kScanBuf
    /\ buf \in Seq(match) /\ file \in Seq(match) /\ lost \subseteq match
    /\ count \in Nat /\ header \in Nat \cup {NoHeader}
    /\ skipped \subseteq Address /\ cut \in BOOLEAN

(* How far the walk has come: everything below has been dealt with. *)
Cursor == CASE pc = "query" -> addr
            [] pc = "chunk" -> End(addr) - rem
            [] pc = "words" -> cur + i
            [] OTHER -> End(addr)

InScannable(a) == Begin(a) \in scannable
Hits == {a \in match \ skipped : InScannable(a)}

(* What has been pushed: entries in the file or on their way to it, and those
   that the card had no room for. *)
Out == file \o buf
Found == ToSet(Out) \cup lost

(* At every step, the hits found are exactly the matching words below the
   cursor, outside the chunks that could not be read: no word is missed at
   the end of a chunk, a region or the address space, and none is invented;
   what does not arrive on the card is what a full card did not take. *)
FoundSoFar == ~cut => Found = {a \in Hits : a < Cursor}

(* Hits are recorded at most once each, in address order, and all counted,
   also those that a full card loses; the buffer is not overrun. *)
EachHitOnce ==
    /\ Ascending(Out)
    /\ lost \cap ToSet(Out) = {}
    /\ count = Cardinality(Found)
    /\ Len(buf) < kFlushEntries

(* A finished file holds what was found, up to what the card had no room for.
   Its header counts both, so that it is the number of entries when nothing was
   lost; or, when it had no room itself, it is as resultsBegin left it.  No
   failure on the way puts a word in the file that did not match. *)
FileWhole ==
    pc = "done" =>
        /\ buf = <<>>
        /\ header \in {Len(file) + Cardinality(lost), 0, NoHeader}
        /\ ToSet(file) \cup lost \subseteq Hits
        /\ ~cut => ToSet(file) \cup lost = Hits

(* The walk ends: the last region reaches the top of the address space, where
   addr + size wraps to 0. *)
Terminates == <>(pc = "done")
=============================================================================
