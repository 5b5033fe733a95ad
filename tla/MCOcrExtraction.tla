--------------------------- MODULE MCOcrExtraction ---------------------------
(* Two threads and one key, for TLC.                                       *)
EXTENDS OcrExtraction, TLC

CONSTANTS t1, t2, k1

const_Threads == {t1, t2}
const_Keys == {k1}
Symmetry == Permutations(const_Threads)

=============================================================================
