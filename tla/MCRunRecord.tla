---------------------------- MODULE MCRunRecord ----------------------------
(* Instances of RunRecord: pane 1, if it is made, is a shell's.            *)
EXTENDS RunRecord

MCShells == {1}
=============================================================================
