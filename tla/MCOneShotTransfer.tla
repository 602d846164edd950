------------------------- MODULE MCOneShotTransfer -------------------------
(***************************************************************************)
(* Instances of OneShotTransfer for TLC: sources of two frames and of one, *)
(* and local writers that write two bytes, in one chunk or in two.         *)
(***************************************************************************)
EXTENDS OneShotTransfer

TwoSources == {<<1, 2, 3>>, <<4, 2>>}
OneSource  == {<<1, 2, 3>>}
TwoBytes   == {<<7, 8>>}
=============================================================================
