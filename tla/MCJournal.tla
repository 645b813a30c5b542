------------------------------ MODULE MCJournal ------------------------------
(* Instances of Journal for TLC.                                           *)
EXTENDS Journal, TLC

CONSTANTS p1, r1

MCPlaces == {p1}
MCReaders == {r1}
=============================================================================
