------------------------------- MODULE MCLayout --------------------------------
(***************************************************************************)
(* Layout on small screens, one too small; its panes are alike but for     *)
(* which is which.                                                         *)
(***************************************************************************)
EXTENDS Layout, TLC

MCSizes == {<<11, 5>>, <<5, 9>>, <<4, 3>>}
MCRatios == {<<1, 1>>, <<1, 2>>}
MCSymmetry == Permutations(Panes)

MCSmall == {<<8, 5>>}
MCHalves == {<<1, 1>>}
=============================================================================
