------------------------------ MODULE FullCard ------------------------------
(***************************************************************************)
(* What reaches the card of a file of results.  Both writers (ScanRunner   *)
(* and ResultsStore::filterU32) hand full buffers to fwrite and never look *)
(* at its result; on a card that is full, part of a buffer is lost, and so *)
(* may the header be.                                                      *)
(***************************************************************************)
EXTENDS Integers, Sequences, SequencesExt

(* The count of a file whose header never reached the card. *)
NoHeader == -1

(* A scan writes each address once, from the lowest up. *)
Ascending(s) == \A k, l \in DOMAIN s : k < l => s[k] < s[l]

(* What may remain of a buffer: any of its entries, in their order.  The
   library buffers once more, so that what a write loses need not be its end. *)
Written(b) == {w \in SeqOf(ToSet(b), Len(b)) : Ascending(w)}

(* The entries of a buffer of which only w remained. *)
Lost(b, w) == ToSet(b) \ ToSet(w)
=============================================================================
