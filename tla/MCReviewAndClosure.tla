-------------------------- MODULE MCReviewAndClosure --------------------------
(* Small instances of ReviewAndClosure.                                    *)
EXTENDS ReviewAndClosure, TLC

CONSTANTS e1, e2, v1, v2, c1, c2

OneExecutor == {e1}
TwoReviews == {v1, v2}
TwoCloses == {c1, c2}

=============================================================================
