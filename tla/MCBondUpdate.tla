---------------------------- MODULE MCBondUpdate ----------------------------
(***************************************************************************)
(* Values for the constants of BondUpdate: two bonds, three interfaces of  *)
(* which the last cannot be bonded, and member lists with every relation   *)
(* between two lists that the code tells apart (same, another first        *)
(* device, overlapping, disjoint, empty, with a device that cannot join).  *)
(***************************************************************************)
EXTENDS BondUpdate, TLC

CONSTANTS b0, b1, e0, e1, w0

MCBonds   == {b0, b1}
MCIfs     == {e0, e1, w0}
MCCapable == {e0, e1}
MCLists   == {<<>>, <<e1>>, <<e0, e1>>, <<w0, e0>>}
MCLiveLists == {<<e0, e1>>, <<e1>>}
MCSymmetry == Permutations(MCBonds)
=============================================================================
