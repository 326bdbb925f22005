--------------------------- MODULE ZnxConnections ---------------------------
(***************************************************************************)
(* The connections of one node: the counters by which the network task of  *)
(* znx-p2p limits the connections of a neighbourhood of addresses, the     *)
(* rotation of outbound connections, and bans.  The swarm of libp2p opens  *)
(* and closes connections by itself and tells the task later; its limits   *)
(* per peer and in total and its block list are external to the code.      *)
(***************************************************************************)
EXTENDS Integers, FiniteSets, SequencesExt

CONSTANTS
  Peers,
  Addresses,     \* [kind, prefix, host]: as much of an address as is grouped
  Bootnodes,     \* the addresses that are dialled
  MaxPerGroup,   \* MAX_CONNECTIONS_PER_NETGROUP
  MaxPerPeer,    \* MAX_CONNECTIONS_PER_PEER
  MaxTotal,      \* MAX_CONNECTIONS_TOTAL
  MaxOpened,     \* bound: connections ever opened
  MaxDials       \* bound: dials of a bootnode that are under way

ASSUME ConnectionsAssumption ==
  /\ \A a \in Addresses : a.kind \in {"ip4", "ip6", "dns", "other"}
  /\ Bootnodes \subseteq Addresses
  /\ MaxPerGroup \in Nat \ {0} /\ MaxPerPeer \in Nat /\ MaxTotal \in Nat
  /\ MaxOpened \in Nat /\ MaxDials \in Nat \ {0}

VARIABLES
  conns,                  \* the swarm: ConnectionId -> connection, until its end is reported
  opened,                 \* ConnectionIds handed out
  dialing,                \* bootnode -> dials under way
  blocked,                \* the block list
  bans,                   \* BanPeer commands in the queue
  netgroup_counts,        \* group -> connections; no entry is 0
  connection_netgroups,   \* ConnectionId -> group
  outbound_established    \* the ids in that map, the oldest first

task == <<netgroup_counts, connection_netgroups, outbound_established>>
vars == <<conns, opened, dialing, blocked, bans, task>>

(* netgroup_of: the first two octets or hexadecimal groups of an address,  *)
(* or its whole host name.                                                 *)
NetgroupOf(a) ==
  CASE a.kind = "ip4" -> <<"v4", a.prefix>>
    [] a.kind = "ip6" -> <<"v6", a.prefix>>
    [] a.kind = "dns" -> <<"dns", a.host>>
    [] OTHER          -> <<"unknown", a>>

Groups == {NetgroupOf(a) : a \in Addresses}

Init ==
  /\ conns = <<>> /\ opened = 0
  /\ dialing = [b \in Bootnodes |-> 1]
  /\ blocked = {} /\ bans = {}
  /\ netgroup_counts = [g \in Groups |-> 0]
  /\ connection_netgroups = <<>>
  /\ outbound_established = <<>>

-----------------------------------------------------------------------------
(* The swarm.  A connection is up, closing (on our request) or down; told  *)
(* says that the task has handled its ConnectionEstablished.               *)

Live(peer) == {id \in DOMAIN conns : conns[id].peer = peer /\ conns[id].state # "down"}

Open(peer, address, dialer) ==
  /\ opened < MaxOpened
  /\ peer \notin blocked
  /\ Cardinality(Live(peer)) < MaxPerPeer
  /\ Cardinality({id \in DOMAIN conns : conns[id].state # "down"}) < MaxTotal
  /\ opened' = opened + 1
  /\ conns' = [id \in DOMAIN conns \cup {opened'} |->
                 IF id = opened'
                 THEN [peer |-> peer, addr |-> address, dialer |-> dialer,
                       state |-> "up", told |-> FALSE]
                 ELSE conns[id]]
  /\ UNCHANGED <<blocked, bans, task>>

Accept(peer, address) == Open(peer, address, FALSE) /\ UNCHANGED dialing

DialSucceeds(peer, b) ==
  /\ dialing[b] > 0
  /\ dialing' = [dialing EXCEPT ![b] = @ - 1]
  /\ Open(peer, b, TRUE)

DialFails(b) ==
  /\ dialing[b] > 0
  /\ dialing' = [dialing EXCEPT ![b] = @ - 1]
  /\ UNCHANGED <<conns, opened, blocked, bans, task>>

(* A connection ends, by itself or because it was closed.                  *)
GoDown(id) ==
  /\ conns[id].state # "down"
  /\ conns' = [conns EXCEPT ![id].state = "down"]
  /\ UNCHANGED <<opened, dialing, blocked, bans, task>>

(* close_connection and disconnect_peer_id, of some of the connections.    *)
Closing(ids) ==
  [id \in DOMAIN conns |->
     IF id \in ids /\ conns[id].state = "up" THEN [conns[id] EXCEPT !.state = "closing"]
     ELSE conns[id]]

-----------------------------------------------------------------------------
(* The network task: one event, tick or command at a time.                 *)

(* Mutant: one connection more than the limit.                             *)
OverLimit_OneMore(group) == netgroup_counts[group] > MaxPerGroup

OverLimit(group) == netgroup_counts[group] >= MaxPerGroup

(* Mutant: the newest outbound connection is taken for the oldest.         *)
OutboundWith_Front(id) ==
  IF conns[id].dialer THEN <<id>> \o outbound_established ELSE outbound_established

OutboundWith(id) ==
  IF conns[id].dialer THEN Append(outbound_established, id) ELSE outbound_established

(* Mutant: a closed connection stays in the rotation.                      *)
OutboundWithout_Kept(id) == outbound_established

OutboundWithout(id) == RemoveFirst(outbound_established, id)

(* ConnectionEstablished, which arrive in order.  PeerConnected goes to    *)
(* the node for a connection that is kept.                                 *)
HandleEstablished(id) ==
  LET group    == NetgroupOf(conns[id].addr)
      toldConn == [conns EXCEPT ![id].told = TRUE]
  IN  /\ ~conns[id].told
      /\ \A earlier \in DOMAIN conns : earlier < id => conns[earlier].told
      /\ IF OverLimit(group)
         THEN /\ conns' = [toldConn EXCEPT ![id].state = IF @ = "up" THEN "closing" ELSE @]
              /\ UNCHANGED task
         ELSE /\ conns' = toldConn
              /\ netgroup_counts' = [netgroup_counts EXCEPT ![group] = @ + 1]
              /\ connection_netgroups' =
                   [c \in DOMAIN connection_netgroups \cup {id} |->
                      IF c = id THEN group ELSE connection_netgroups[c]]
              /\ outbound_established' = OutboundWith(id)
      /\ UNCHANGED <<opened, dialing, blocked, bans>>

(* Mutant: a slot is given back for a connection that never had one.       *)
HandleClosed_Any(id) ==
  LET group == NetgroupOf(conns[id].addr)
  IN  /\ conns[id].told /\ conns[id].state = "down"
      /\ conns' = Restrict(conns, DOMAIN conns \ {id})
      /\ outbound_established' = OutboundWithout(id)
      /\ connection_netgroups' = Restrict(connection_netgroups, DOMAIN connection_netgroups \ {id})
      /\ netgroup_counts' = [netgroup_counts EXCEPT ![group] = IF @ = 0 THEN 0 ELSE @ - 1]
      /\ UNCHANGED <<opened, dialing, blocked, bans>>

(* ConnectionClosed, which does not carry the address; the subtraction     *)
(* saturates.                                                              *)
HandleClosed(id) ==
  /\ conns[id].told /\ conns[id].state = "down"
  /\ conns' = Restrict(conns, DOMAIN conns \ {id})
  /\ outbound_established' = OutboundWithout(id)
  /\ IF id \in DOMAIN connection_netgroups
     THEN /\ connection_netgroups' = Restrict(connection_netgroups, DOMAIN connection_netgroups \ {id})
          /\ netgroup_counts' =
               [netgroup_counts EXCEPT ![connection_netgroups[id]] = IF @ = 0 THEN 0 ELSE @ - 1]
     ELSE UNCHANGED <<connection_netgroups, netgroup_counts>>
  /\ UNCHANGED <<opened, dialing, blocked, bans>>

(* The node bans a peer; the task puts it in the block list and closes     *)
(* every connection to it.                                                 *)
BanPeer(peer) ==
  /\ peer \notin blocked
  /\ bans' = bans \cup {peer}
  /\ UNCHANGED <<conns, opened, dialing, blocked, task>>

(* Mutant: only the connections that the task has heard of are closed.     *)
Banned_Told(peer) == {id \in DOMAIN conns : conns[id].peer = peer /\ conns[id].told}

Banned(peer) == {id \in DOMAIN conns : conns[id].peer = peer}

HandleBan(peer) ==
  /\ peer \in bans
  /\ bans' = bans \ {peer}
  /\ blocked' = blocked \cup {peer}
  /\ conns' = Closing(Banned(peer))
  /\ UNCHANGED <<opened, dialing, task>>

(* rotate_oldest_outbound; with one outbound connection or none it does    *)
(* nothing.  Every bootnode is dialled again, connected or not.            *)
RotateOldestOutbound ==
  /\ Len(outbound_established) > 1
  /\ \A b \in Bootnodes : dialing[b] < MaxDials
  /\ conns' = Closing({Head(outbound_established)})
  /\ dialing' = [b \in Bootnodes |-> dialing[b] + 1]
  /\ UNCHANGED <<opened, blocked, bans, task>>

-----------------------------------------------------------------------------
Swarm ==
  \/ \E p \in Peers, a \in Addresses : Accept(p, a)
  \/ \E p \in Peers, b \in Bootnodes : DialSucceeds(p, b)
  \/ \E b \in Bootnodes : DialFails(b)
  \/ \E id \in DOMAIN conns : GoDown(id)

Network ==
  \/ \E id \in DOMAIN conns : HandleEstablished(id) \/ HandleClosed(id)
  \/ \E p \in Peers : HandleBan(p)
  \/ RotateOldestOutbound

Next == Swarm \/ Network \/ \E p \in Peers : BanPeer(p)

Spec == Init /\ [][Next]_vars

-----------------------------------------------------------------------------
TypeOK ==
  /\ opened \in Nat
  /\ DOMAIN conns \subseteq 1..opened
  /\ \A id \in DOMAIN conns :
       conns[id] \in [peer : Peers, addr : Addresses, dialer : BOOLEAN,
                      state : {"up", "closing", "down"}, told : BOOLEAN]
  /\ dialing \in [Bootnodes -> Nat]
  /\ blocked \subseteq Peers /\ bans \subseteq Peers
  /\ netgroup_counts \in [Groups -> Nat]
  /\ connection_netgroups \in [DOMAIN connection_netgroups -> Groups]
  /\ outbound_established \in Seq(DOMAIN connection_netgroups)

Members(g) == {id \in DOMAIN connection_netgroups : connection_netgroups[id] = g}

(* The counters say how many connections of a group are in the map, so the *)
(* subtraction never saturates, and the map has only connections of which  *)
(* the end is still to be reported: no slot is lost (lib.rs:566).          *)
CountsExact ==
  /\ DOMAIN connection_netgroups \subseteq DOMAIN conns
  /\ \A g \in Groups : netgroup_counts[g] = Cardinality(Members(g))

(* Of the connections that stay open, no neighbourhood has more than its   *)
(* share, whatever opens, closes and is rotated while events wait          *)
(* (lib.rs:544).                                                           *)
OpenIn(g) ==
  {id \in DOMAIN conns : /\ conns[id].told /\ conns[id].state = "up"
                         /\ NetgroupOf(conns[id].addr) = g}

GroupsBounded == \A g \in Groups : Cardinality(OpenIn(g)) <= MaxPerGroup

(* A banned peer keeps no connection and gets no new one, also when the    *)
(* task has not heard of the connection yet (lib.rs:594).                  *)
BannedStayOut == \A id \in DOMAIN conns : conns[id].peer \in blocked => conns[id].state # "up"

(* The queue of rotation is the outbound part of the map, in the order in  *)
(* which connections were established, so the first is the oldest          *)
(* (lib.rs:621).                                                           *)
OldestFirst ==
  /\ \A i, j \in DOMAIN outbound_established :
       i < j => outbound_established[i] < outbound_established[j]
  /\ Range(outbound_established) =
       {id \in DOMAIN connection_netgroups : conns[id].dialer}
=============================================================================
