---------------------------- MODULE MCNetConfig ----------------------------
EXTENDS NetConfig, TLC

CONSTANTS a, b, en0

\* An Ethernet service and one for PPPoE over the same device.
MCServices == {a, b}
MCLayers == [s \in MCServices |-> IF s = a THEN <<"Ethernet">> ELSE <<"PPP", "Ethernet">>]
MCDevice == [s \in MCServices |-> en0]
MCSources ==
    {[sets |-> w, enabled |-> FALSE, proto |-> p, config |-> c] :
        w \in SUBSET Sets, p \in {Absent, Entity("v", TRUE)}, c \in {None, "v"}}
MCSymmetry == Permutations(Sets)
MCTemplates == {<<"Ethernet">>}

=============================================================================
