--------------------------- MODULE MCConnections ---------------------------
(***************************************************************************)
(* Two peers and two bootnodes; other connections come from their          *)
(* neighbourhoods, too.  A rotation needs two outbound connections.        *)
(***************************************************************************)
EXTENDS ZnxConnections, TLC

Address(kind, prefix, host) == [kind |-> kind, prefix |-> prefix, host |-> host]

MCAddresses == {Address("ip4", 1, "a"), Address("dns", 1, "seed")}

MCSymmetry == Permutations(Peers)
=============================================================================
