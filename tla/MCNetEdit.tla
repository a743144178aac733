----------------------------- MODULE MCNetEdit -----------------------------
(* A small instance of NetEdit.                                            *)
EXTENDS NetEdit, TLC

CONSTANTS t1, t2, v1, v2

MCSets == {t1, t2}
MCServices == {v1, v2}

NoMembers == [t \in MCSets |-> {}]
Empty == [sets |-> {}, current |-> None, services |-> {}, members |-> NoMembers,
          protocols |-> {}, other |-> FALSE]

\* no set; a set with a service; two sets, none of them current
MCFiles ==
    {Empty, [Empty EXCEPT !.sets = MCSets]} \cup
    {[sets |-> {t}, current |-> t, services |-> {v},
      members |-> [NoMembers EXCEPT ![t] = {v}],
      protocols |-> {v} \X Protocols, other |-> FALSE] :
        t \in MCSets, v \in MCServices}

MCSymmetry == Permutations(MCSets) \cup Permutations(MCServices)
=============================================================================
