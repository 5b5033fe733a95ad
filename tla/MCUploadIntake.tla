---------------------------- MODULE MCUploadIntake ----------------------------
(* Small instances of UploadIntake.                                        *)
EXTENDS UploadIntake, TLC

CONSTANTS s1, s2, t1, t2, u1, u2

OneSession == {s1}
TwoSessions == {s1, s2}
TwoTokens == {t1, t2}
TwoUploads == {u1, u2}

Symmetry ==
    Permutations(TwoSessions) \cup Permutations(TwoTokens) \cup Permutations(TwoUploads)
=============================================================================
