----------------------------- MODULE MCDnsInfo -----------------------------
(***************************************************************************)
(* Values for the constants of DnsInfo: three resolvers that differ in the *)
(* fields they have, and configurations of none, one and two of them.      *)
(***************************************************************************)
EXTENDS DnsInfo

CONSTANTS d1, d2, s1, v1, v2

\* a resolver with a domain, one with a search list, one with neither
Named    == [search |-> None, domain |-> d1, servers |-> v1,
             sort |-> [class |-> "A", mask |-> "B"]]
Searched == [search |-> s1, domain |-> d2, servers |-> v2,
             sort |-> [class |-> "C", mask |-> "C"]]
Bare     == [search |-> None, domain |-> None, servers |-> v1,
             sort |-> [class |-> "E", mask |-> "A"]]

MCResolvers == {Named, Searched, Bare}
MCConfigs   == {NoConfig, <<>>, <<Named>>, <<Searched>>, <<Bare>>,
                <<Named, Bare>>, <<Searched, Named>>}
=============================================================================
