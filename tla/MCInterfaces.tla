---------------------------- MODULE MCInterfaces ----------------------------
EXTENDS Interfaces

MCAlphabet == <<"0", "1", "2", "3", "4", "5", "U1", "U2", "U3",
    "bond", "en", "m1", "m2", "m3", "mac", "modem", "usbmodem">>

At(k) == <<[hex |-> -1, text |-> 1], [hex |-> k, text |-> 9 - k]>>   \* .../ethernet@k
En(k, unit) == [Node EXCEPT !.bsd = <<"en", unit>>, !.prefix = <<"en">>, !.unit = <<unit>>,
                            !.mac = <<"mac">>, !.path = At(k)]
Modem(tty, unique, element) == [Node EXCEPT !.kind = "serial", !.serial = "modem", !.tty = <<tty>>,
    !.base = <<"usbmodem">>, !.unique = unique, !.path = <<At(0)[1], element>>]

\* The built-in Ethernet, Wi-Fi, two cards, a hidden port, and
\* three modems whose paths part in a circle.
MCNodes == <<
    [En(0, "0") EXCEPT !.vlan = TRUE],
    [En(1, "1") EXCEPT !.driver = "IO80211"],
    [En(2, "2") EXCEPT !.slot = <<"1">>, !.provider = "PCI"],
    [En(7, "5") EXCEPT !.slot = <<"2">>, !.driver = "ThunderboltIP", !.thunderbolt = TRUE,
                      !.path = <<At(7)[1], [hex |-> -1, text |-> 10]>>],   \* .../ethernet@2,1
    [En(3, "3") EXCEPT !.hidden = "true", !.primary = "true"],
    Modem("m1", <<"U1">>, [hex |-> 9, text |-> 22]),      \* .../modem@9
    Modem("m2", None, [hex |-> 28, text |-> 20]),         \* .../modem@1C
    Modem("m3", <<"U2">>, [hex |-> -1, text |-> 21])>>    \* .../modem@1C,5
MCPAN == <<"en", "4">>

MCUnits == {<<"4">>, <<"5">>}
MCInitially == {{}, DOMAIN MCNodes}
MCVirtuals == {VirtualInterface("Bond", <<"bond", "0">>, <<<<"en", "0">>>>, "bond")}
MCAsked == {<<"en", "1">>, PPPName}

=============================================================================
