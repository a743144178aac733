----------------------------- MODULE MCBondEdit -----------------------------
EXTENDS BondEdit, TLC

CONSTANTS o1, o2, o3

MCOffered == {<<>>, <<"en1">>, <<"en2">>, <<"en2", "en1">>, <<"en3">>}
MCSymmetry == Permutations(Objects)

=============================================================================
