--------------------------- MODULE MCDocumentClaims ---------------------------
(* Two ids and texts of none, one or two of two words, for TLC.            *)
EXTENDS DocumentClaims, TLC

CONSTANTS f1, f2, a, b

const_FieldIds == {f1, f2}
const_Texts == {{}, {a}, {a, b}}
Symmetry == Permutations(const_FieldIds)

=============================================================================
