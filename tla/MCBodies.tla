------------------------------ MODULE MCBodies ------------------------------
(* Instances of Bodies for TLC.                                            *)
EXTENDS Bodies, TLC

CONSTANTS t1, a1, p1, p2

OneTypist == {t1}
OneAsker == {a1}
NoConn == {}
OnePane == {p1}
TwoPanes == {p1, p2}
=============================================================================
