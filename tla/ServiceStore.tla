---------------------------- MODULE ServiceStore ----------------------------
(***************************************************************************)
(* What the users of the network services are promised: a service is in    *)
(* the preferences as a whole or not at all, and each request changes one  *)
(* thing of one service.  NetConfig implements it.                         *)
(***************************************************************************)
CONSTANTS Sets, Services, Configs, Gone

VARIABLE services   \* what each service is, or Gone

Whole == [sets: SUBSET Sets,       \* the sets it is a member of
          enabled: BOOLEAN,        \* the service is enabled
          config: Configs,         \* the configuration of its protocol
          active: BOOLEAN]         \* the protocol is enabled

Init == services = [s \in Services |-> Gone]

\* a new service comes complete, as a member of some set
Add(s) ==
    /\ services[s] = Gone
    /\ \E w \in Whole : w.sets # {} /\ services' = [services EXCEPT ![s] = w]

Remove(s) == services[s] # Gone /\ services' = [services EXCEPT ![s] = Gone]

Become(s, w) == services[s] # Gone /\ services' = [services EXCEPT ![s] = w]

Join(s)      == \E set \in Sets : Become(s, [services[s] EXCEPT !.sets = @ \cup {set}])
Leave(s)     == \E set \in Sets : Become(s, [services[s] EXCEPT !.sets = @ \ {set}])
Enable(s)    == \E b \in BOOLEAN : Become(s, [services[s] EXCEPT !.enabled = b])
Configure(s) == \E c \in Configs : Become(s, [services[s] EXCEPT !.config = c])
Activate(s)  == \E b \in BOOLEAN : Become(s, [services[s] EXCEPT !.active = b])

Next == \E s \in Services :
    Add(s) \/ Remove(s) \/ Join(s) \/ Leave(s) \/ Enable(s) \/ Configure(s) \/ Activate(s)

Spec == Init /\ [][Next]_services

=============================================================================
