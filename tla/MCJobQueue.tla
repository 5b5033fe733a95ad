------------------------------ MODULE MCJobQueue ------------------------------
(* Small instances of JobQueue.                                            *)
EXTENDS JobQueue, TLC

CONSTANTS w1, w2, q1, q2, s1

TwoWorkers == {w1, w2}
TwoRequesters == {q1, q2}
OneSession == {s1}
=============================================================================
