----------------------------- MODULE ResultsFile -----------------------------
(***************************************************************************)
(* What ResultsStore reads of results.bin: count and readPage.  A file is  *)
(* the count in its header and the entries it holds.  A card that is full  *)
(* under a scan may leave fewer entries than the header counts, or the     *)
(* first header, which counts none, on entries.                            *)
(***************************************************************************)
EXTENDS Integers, Sequences

CONSTANT NoFile     \* no file, or one whose header cannot be read

Least(m, n) == IF m < n THEN m ELSE n

Count(f) == IF f = NoFile THEN 0 ELSE f.count

(* The entries that can be read: those that are there and are counted. *)
Held(f) == Least(Count(f), Len(f.ents))

TotalPages(n, pageSize) == (n + pageSize - 1) \div pageSize

(* Mutant of ReadPage: pages after the first start an entry too early. *)
ReadPageOverlapping(f, pageIndex, pageSize) ==
    LET start == pageIndex * pageSize - Least(pageIndex, 1)
    IN  IF start >= Count(f) THEN <<>>
        ELSE SubSeq(f.ents, start + 1, Least(start + pageSize, Len(f.ents)))

(* The entries of one page: up to the header's count, or to where the file
   ends before that (fread fails). *)
ReadPage(f, pageIndex, pageSize) ==
    LET start == pageIndex * pageSize
        want  == IF start + pageSize > Count(f) THEN Count(f) - start ELSE pageSize
    IN  IF start >= Count(f) THEN <<>>
        ELSE SubSeq(f.ents, start + 1, Least(start + want, Len(f.ents)))
=============================================================================
