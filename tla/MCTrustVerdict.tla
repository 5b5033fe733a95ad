---------------------------- MODULE MCTrustVerdict ----------------------------
(* Small instances of TrustVerdict.                                        *)
EXTENDS TrustVerdict, TLC

CONSTANTS c1, c2, g1, p1

TwoClaims == {c1, c2}
OneRequired == {c1}
OneGroup == {g1}
OneProvider == {p1}
=============================================================================
