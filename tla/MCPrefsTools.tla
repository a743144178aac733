---------------------------- MODULE MCPrefsTools ----------------------------
(* One shell at a terminal and one fed by a pipe, a program of each kind.    *)
EXTENDS PrefsTools

CONSTANTS tty, pipe, setter, other, getter, client

MCShells  == {tty, pipe}
MCTerminals == {tty}
MCOnce    == {setter, other, getter}
MCDoes    == [j \in MCOnce |-> CASE j = setter -> "set" [] j = other -> "disable" [] j = getter -> "get"]
MCClients == {client}
MCTools   == MCOnce \cup MCClients
=============================================================================
