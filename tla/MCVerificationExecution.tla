----------------------- MODULE MCVerificationExecution -----------------------
(* Small instances of VerificationExecution.                               *)
EXTENDS VerificationExecution, TLC

CONSTANTS w1, w2, r1

TwoWorkers == {w1, w2}
OneRequest == {r1}
=============================================================================
