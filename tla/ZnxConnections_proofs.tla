------------------------ MODULE ZnxConnections_proofs ------------------------
(***************************************************************************)
(* What the counters of connections guarantee for any peers, addresses and *)
(* limits, whatever the swarm opens and closes while its events wait.      *)
(* The counters do not depend on the queue of rotation: whichever          *)
(* connections it closes, they stay exact.  The queue itself comes second. *)
(***************************************************************************)
EXTENDS ZnxConnections, FiniteSetTheorems, SequenceTheorems, ZnxSums_proofs

Connections == [peer : Peers, addr : Addresses, dialer : BOOLEAN,
                state : {"up", "closing", "down"}, told : BOOLEAN]

Types ==
  /\ opened \in Nat
  /\ DOMAIN conns \subseteq 1..opened
  /\ \A id \in DOMAIN conns : conns[id] \in Connections
  /\ netgroup_counts \in [Groups -> Nat]
  /\ connection_netgroups \in [DOMAIN connection_netgroups -> Groups]

(* The map has the told connections that were kept, each with the group of *)
(* its address, and a told connection that is up is one of them.           *)
MapInv ==
  /\ \A id \in DOMAIN connection_netgroups :
       /\ id \in DOMAIN conns /\ conns[id].told
       /\ connection_netgroups[id] = NetgroupOf(conns[id].addr)
  /\ \A id \in DOMAIN conns :
       conns[id].told /\ conns[id].state = "up" => id \in DOMAIN connection_netgroups

CountInv ==
  \A g \in Groups : /\ netgroup_counts[g] = Cardinality(Members(g))
                    /\ netgroup_counts[g] <= MaxPerGroup

Inv == Types /\ MapInv /\ CountInv /\ BannedStayOut

(* What a step does that handles no event of a connection: it tells the    *)
(* task of none, and brings none back up.                                  *)
Quiet ==
  /\ DOMAIN conns \subseteq DOMAIN conns'
  /\ \A id \in DOMAIN conns :
       /\ conns'[id].addr = conns[id].addr /\ conns'[id].told = conns[id].told
       /\ conns'[id].dialer = conns[id].dialer
       /\ conns'[id].state = "up" => conns[id].state = "up"
  /\ \A id \in DOMAIN conns' \ DOMAIN conns :
       ~conns'[id].told /\ \A earlier \in DOMAIN conns : earlier < id
  /\ UNCHANGED task

LEMMA GroupOfAddress == \A a \in Addresses : NetgroupOf(a) \in Groups
BY DEF Groups

LEMMA MembersFinite ==
  ASSUME Types, MapInv, NEW g
  PROVE  IsFiniteSet(Members(g))
<1>1. IsFiniteSet(1..opened)
  BY FS_Interval DEF Types
<1>2. Members(g) \subseteq 1..opened
  BY DEF Types, MapInv, Members
<1> QED
  BY <1>1, <1>2, FS_Subset

LEMMA InitInv == Init => Inv
<1> SUFFICES ASSUME Init
             PROVE  Inv
  OBVIOUS
<1> USE ConnectionsAssumption DEF Init
<1>1. DOMAIN conns = {} /\ DOMAIN connection_netgroups = {}
  OBVIOUS
<1>2. Types /\ MapInv /\ BannedStayOut
  BY <1>1 DEF Types, MapInv, BannedStayOut
<1>3. ASSUME NEW g \in Groups
      PROVE  netgroup_counts[g] = Cardinality(Members(g)) /\ netgroup_counts[g] <= MaxPerGroup
  <2>1. Members(g) = {}
    BY <1>1 DEF Members
  <2> QED
    BY <2>1, FS_EmptySet
<1> QED
  BY <1>2, <1>3 DEF Inv, CountInv

(* Opening a connection that is not told, of a peer that is not banned.    *)
LEMMA OpenQuiet ==
  ASSUME Types, BannedStayOut, NEW p \in Peers, NEW a \in Addresses, NEW d \in BOOLEAN,
         Open(p, a, d)
  PROVE  Types' /\ BannedStayOut' /\ Quiet
<1> DEFINE new == [peer |-> p, addr |-> a, dialer |-> d, state |-> "up", told |-> FALSE]
<1>1. opened' = opened + 1 /\ opened' \in Nat /\ opened' \notin DOMAIN conns
  BY DEF Open, Types
<1>2. DOMAIN conns' = DOMAIN conns \cup {opened'} /\ DOMAIN conns' \subseteq 1..opened'
  BY <1>1 DEF Open, Types
<1>3. conns'[opened'] = new /\ \A id \in DOMAIN conns : conns'[id] = conns[id]
  BY <1>1 DEF Open
<1>4. new \in Connections /\ ~new.told /\ new.peer = p /\ p \notin blocked
  BY DEF Connections, Open
<1>5. UNCHANGED <<blocked, task>> /\ \A earlier \in DOMAIN conns : earlier < opened'
  BY <1>1 DEF Open, Types
<1>6. Types'
  BY <1>1, <1>2, <1>3, <1>4, <1>5 DEF Types, task
<1>7. Quiet
  BY <1>2, <1>3, <1>4, <1>5 DEF Quiet
<1>8. BannedStayOut'
  BY <1>2, <1>3, <1>4, <1>5 DEF BannedStayOut
<1> QED
  BY <1>6, <1>7, <1>8

(* Changing the states of connections, none to up.                         *)
LEMMA ClosingQuiet ==
  ASSUME Types, BannedStayOut, NEW ids, conns' = Closing(ids),
         UNCHANGED <<opened, blocked, task>>
  PROVE  Types' /\ BannedStayOut' /\ Quiet
<1>1. DOMAIN conns' = DOMAIN conns
  BY DEF Closing
<1>2. ASSUME NEW id \in DOMAIN conns
      PROVE  /\ conns'[id] \in Connections
             /\ conns'[id].addr = conns[id].addr /\ conns'[id].told = conns[id].told
             /\ conns'[id].peer = conns[id].peer /\ conns'[id].dialer = conns[id].dialer
             /\ conns'[id].state = "up" => conns[id].state = "up"
  <2>1. conns[id] \in Connections
    BY DEF Types
  <2>2. conns'[id] = conns[id] \/ conns'[id] = [conns[id] EXCEPT !.state = "closing"]
    BY DEF Closing
  <2> QED
    BY <2>1, <2>2 DEF Connections
<1> QED
  BY <1>1, <1>2 DEF Types, BannedStayOut, Quiet, task

LEMMA QuietSteps ==
  ASSUME Inv, Swarm \/ (\E p \in Peers : HandleBan(p)) \/ RotateOldestOutbound
              \/ (\E p \in Peers : BanPeer(p)) \/ UNCHANGED vars
  PROVE  Types' /\ BannedStayOut' /\ Quiet
<1> USE DEF Inv
<1>1. CASE \E p \in Peers, a \in Addresses : Accept(p, a)
  BY <1>1, OpenQuiet DEF Accept
<1>2. CASE \E p \in Peers, b \in Bootnodes : DialSucceeds(p, b)
  BY <1>2, OpenQuiet, ConnectionsAssumption DEF DialSucceeds
<1>3. CASE (\E b \in Bootnodes : DialFails(b)) \/ (\E p \in Peers : BanPeer(p)) \/ UNCHANGED vars
  <2>1. UNCHANGED <<conns, opened, blocked, task>>
    BY <1>3 DEF DialFails, BanPeer, vars
  <2> QED
    BY <2>1 DEF Types, BannedStayOut, Quiet, task
<1>4. CASE \E id \in DOMAIN conns : GoDown(id)
  <2>1. PICK id \in DOMAIN conns : GoDown(id)
    BY <1>4
  <2>2. UNCHANGED <<opened, blocked, task>>
    BY <2>1 DEF GoDown
  <2>3. conns[id] \in Connections
    BY DEF Types
  <2>4. DOMAIN conns' = DOMAIN conns
        /\ \A c \in DOMAIN conns : conns'[c] = IF c = id THEN [conns[id] EXCEPT !.state = "down"]
                                                         ELSE conns[c]
    BY <2>1 DEF GoDown
  <2>5. /\ conns'[id] \in Connections /\ conns'[id].state = "down"
        /\ conns'[id].addr = conns[id].addr /\ conns'[id].told = conns[id].told
        /\ conns'[id].dialer = conns[id].dialer
    BY <2>3, <2>4 DEF Connections
  <2> QED
    BY <2>2, <2>4, <2>5 DEF Types, BannedStayOut, Quiet, task
<1>5. CASE \E p \in Peers : HandleBan(p)
  <2>1. PICK p \in Peers : HandleBan(p)
    BY <1>5
  <2>2. /\ conns' = Closing(Banned(p)) /\ blocked' = blocked \cup {p}
        /\ UNCHANGED <<opened, task>>
    BY <2>1 DEF HandleBan
  <2>3. DOMAIN conns' = DOMAIN conns
    BY <2>2 DEF Closing
  <2>4. ASSUME NEW id \in DOMAIN conns
        PROVE  /\ conns'[id] \in Connections
               /\ conns'[id].addr = conns[id].addr /\ conns'[id].told = conns[id].told
               /\ conns'[id].peer = conns[id].peer /\ conns'[id].dialer = conns[id].dialer
               /\ conns'[id].state = "up" => conns[id].state = "up" /\ conns[id].peer # p
    <3>1. conns[id] \in Connections
      BY DEF Types
    <3>2. CASE conns[id].peer = p /\ conns[id].state = "up"
      <4>1. conns'[id] = [conns[id] EXCEPT !.state = "closing"]
        BY <2>2, <3>2 DEF Closing, Banned
      <4> QED
        BY <3>1, <3>2, <4>1 DEF Connections
    <3>3. CASE ~(conns[id].peer = p /\ conns[id].state = "up")
      <4>1. conns'[id] = conns[id]
        BY <2>2, <3>3 DEF Closing, Banned
      <4> QED
        BY <3>1, <3>3, <4>1
    <3> QED
      BY <3>2, <3>3
  <2> QED
    BY <2>2, <2>3, <2>4 DEF Types, BannedStayOut, Quiet, task
<1>6. CASE RotateOldestOutbound
  BY <1>6, ClosingQuiet DEF RotateOldestOutbound
<1> QED
  BY <1>1, <1>2, <1>3, <1>4, <1>5, <1>6 DEF Swarm

LEMMA QuietKeepsMap ==
  ASSUME MapInv, CountInv, Quiet
  PROVE  MapInv' /\ CountInv'
<1>1. MapInv'
  BY DEF MapInv, Quiet, task
<1>2. CountInv'
  BY DEF CountInv, Members, Quiet, task
<1> QED
  BY <1>1, <1>2

(* A connection is told and, below the limit, gets a slot.                 *)
LEMMA EstablishedKeeps ==
  ASSUME Inv, NEW id \in DOMAIN conns, HandleEstablished(id)
  PROVE  Inv'
<1> USE DEF Inv
<1> DEFINE group == NetgroupOf(conns[id].addr)
<1>1. conns[id] \in Connections /\ ~conns[id].told /\ group \in Groups
  BY GroupOfAddress DEF HandleEstablished, Types, Connections
<1>2. UNCHANGED <<opened, blocked>>
  BY DEF HandleEstablished
<1>3. DOMAIN conns' = DOMAIN conns /\ \A c \in DOMAIN conns : c # id => conns'[c] = conns[c]
  BY DEF HandleEstablished
<1>4. id \notin DOMAIN connection_netgroups
  BY <1>1 DEF MapInv
<1>5. CASE OverLimit(group)
  <2>1. /\ conns' = [[conns EXCEPT ![id].told = TRUE] EXCEPT ![id].state = IF @ = "up" THEN "closing" ELSE @]
        /\ UNCHANGED <<netgroup_counts, connection_netgroups>>
    BY <1>5 DEF HandleEstablished, task
  <2>2. conns'[id] = [[conns[id] EXCEPT !.told = TRUE] EXCEPT !.state = IF @ = "up" THEN "closing" ELSE @]
    BY <2>1
  <2>3. /\ conns'[id] \in Connections /\ conns'[id].told /\ conns'[id].state # "up"
        /\ conns'[id].addr = conns[id].addr
    BY <1>1, <2>2 DEF Connections
  <2>4. Types' /\ BannedStayOut'
    BY <1>2, <1>3, <2>1, <2>3 DEF Types, BannedStayOut
  <2>5. MapInv'
    BY <1>3, <1>4, <2>1, <2>3 DEF MapInv
  <2>6. CountInv'
    BY <2>1 DEF CountInv, Members
  <2> QED
    BY <2>4, <2>5, <2>6
<1>6. CASE ~OverLimit(group)
  <2>1. /\ conns' = [conns EXCEPT ![id].told = TRUE]
        /\ netgroup_counts' = [netgroup_counts EXCEPT ![group] = @ + 1]
        /\ connection_netgroups' =
             [c \in DOMAIN connection_netgroups \cup {id} |->
                IF c = id THEN group ELSE connection_netgroups[c]]
    BY <1>6 DEF HandleEstablished
  <2>2. conns'[id] = [conns[id] EXCEPT !.told = TRUE]
    BY <2>1
  <2>3. /\ conns'[id] \in Connections /\ conns'[id].told /\ conns'[id].peer = conns[id].peer
        /\ conns'[id].state = conns[id].state /\ conns'[id].addr = conns[id].addr
    BY <1>1, <2>2 DEF Connections
  <2>4. /\ DOMAIN connection_netgroups' = DOMAIN connection_netgroups \cup {id}
        /\ connection_netgroups'[id] = group
        /\ \A c \in DOMAIN connection_netgroups : connection_netgroups'[c] = connection_netgroups[c]
    BY <1>4, <2>1
  <2>5. netgroup_counts[group] < MaxPerGroup /\ netgroup_counts[group] \in Nat
        /\ netgroup_counts' \in [Groups -> Nat]
    BY <1>1, <1>6, <2>1, ConnectionsAssumption DEF OverLimit, Types
  <2>6. connection_netgroups' \in [DOMAIN connection_netgroups' -> Groups]
    BY <1>1, <2>1, <2>4 DEF Types
  <2>7. Types' /\ BannedStayOut'
    BY <1>2, <1>3, <2>3, <2>5, <2>6 DEF Types, BannedStayOut
  <2>8. MapInv'
    BY <1>3, <2>3, <2>4 DEF MapInv
  <2>9. ASSUME NEW g \in Groups
        PROVE  netgroup_counts'[g] = Cardinality(Members(g)') /\ netgroup_counts'[g] <= MaxPerGroup
    <3>1. CASE g = group
      <4>1. Members(g)' = Members(g) \cup {id} /\ id \notin Members(g)
        BY <1>4, <2>4, <3>1 DEF Members
      <4>2. Cardinality(Members(g)') = Cardinality(Members(g)) + 1
        BY <4>1, MembersFinite, FS_AddElement
      <4>3. netgroup_counts'[g] = netgroup_counts[g] + 1
        BY <1>1, <2>1, <3>1 DEF Types
      <4> QED
        BY <2>5, <3>1, <4>2, <4>3, ConnectionsAssumption DEF CountInv
    <3>2. CASE g # group
      <4>1. Members(g)' = Members(g)
        BY <1>4, <2>4, <3>2 DEF Members
      <4>2. netgroup_counts'[g] = netgroup_counts[g]
        BY <2>1, <3>2 DEF Types
      <4> QED
        BY <4>1, <4>2 DEF CountInv
    <3> QED
      BY <3>1, <3>2
  <2> QED
    BY <2>7, <2>8, <2>9 DEF CountInv
<1> QED
  BY <1>5, <1>6

(* A connection that had a slot gives it back, once.                       *)
LEMMA ClosedKeeps ==
  ASSUME Inv, NEW id \in DOMAIN conns, HandleClosed(id)
  PROVE  Inv'
<1> USE DEF Inv
<1>1. /\ conns' = [c \in DOMAIN conns \ {id} |-> conns[c]]
      /\ UNCHANGED <<opened, blocked>>
  BY DEF HandleClosed, Restrict
<1>2. DOMAIN conns' = DOMAIN conns \ {id} /\ \A c \in DOMAIN conns' : conns'[c] = conns[c]
  BY <1>1
<1>3. BannedStayOut'
  BY <1>1, <1>2 DEF BannedStayOut
<1>4. CASE id \notin DOMAIN connection_netgroups
  <2>1. UNCHANGED <<connection_netgroups, netgroup_counts>>
    BY <1>4 DEF HandleClosed
  <2>2. Types' /\ MapInv'
    BY <1>1, <1>2, <1>4, <2>1 DEF Types, MapInv
  <2>3. CountInv'
    BY <2>1 DEF CountInv, Members
  <2> QED
    BY <1>3, <2>2, <2>3
<1>5. CASE id \in DOMAIN connection_netgroups
  <2> DEFINE group == connection_netgroups[id]
  <2>1. /\ connection_netgroups' = [c \in DOMAIN connection_netgroups \ {id} |-> connection_netgroups[c]]
        /\ netgroup_counts' = [netgroup_counts EXCEPT ![group] = IF @ = 0 THEN 0 ELSE @ - 1]
    BY <1>5 DEF HandleClosed, Restrict
  <2>2. group \in Groups
    BY <1>5 DEF Types
  <2>3. /\ DOMAIN connection_netgroups' = DOMAIN connection_netgroups \ {id}
        /\ \A c \in DOMAIN connection_netgroups' : connection_netgroups'[c] = connection_netgroups[c]
    BY <2>1
  <2>4. netgroup_counts[group] \in Nat /\ netgroup_counts[group] # 0
    <3>1. id \in Members(group)
      BY <1>5 DEF Members
    <3>2. Cardinality(Members(group)) # 0
      BY <3>1, MembersFinite, FS_EmptySet
    <3> QED
      BY <2>2, <3>2 DEF CountInv, Types
  <2>5. /\ netgroup_counts'[group] = netgroup_counts[group] - 1
        /\ \A g \in Groups : g # group => netgroup_counts'[g] = netgroup_counts[g]
        /\ netgroup_counts' \in [Groups -> Nat]
    BY <2>1, <2>2, <2>4 DEF Types
  <2>6. connection_netgroups' \in [DOMAIN connection_netgroups' -> Groups]
    BY <2>1, <2>3 DEF Types
  <2>7. Types'
    BY <1>1, <1>2, <2>5, <2>6 DEF Types
  <2>8. MapInv'
    BY <1>2, <2>3 DEF MapInv
  <2>9. ASSUME NEW g \in Groups
        PROVE  netgroup_counts'[g] = Cardinality(Members(g)') /\ netgroup_counts'[g] <= MaxPerGroup
    <3>1. CASE g = group
      <4>1. Members(g)' = Members(g) \ {id} /\ id \in Members(g)
        BY <1>5, <2>3, <3>1 DEF Members
      <4>2. Cardinality(Members(g)') = Cardinality(Members(g)) - 1
        BY <4>1, MembersFinite, FS_RemoveElement
      <4> QED
        BY <2>4, <2>5, <3>1, <4>2, ConnectionsAssumption DEF CountInv
    <3>2. CASE g # group
      <4>1. Members(g)' = Members(g)
        BY <1>5, <2>3, <3>2 DEF Members
      <4> QED
        BY <2>5, <3>2, <4>1 DEF CountInv
    <3> QED
      BY <3>1, <3>2
  <2> QED
    BY <1>3, <2>7, <2>8, <2>9 DEF CountInv
<1> QED
  BY <1>4, <1>5

LEMMA NextInv == Inv /\ [Next]_vars => Inv'
<1> SUFFICES ASSUME Inv, [Next]_vars
             PROVE  Inv'
  OBVIOUS
<1>1. CASE \E id \in DOMAIN conns : HandleEstablished(id)
  BY <1>1, EstablishedKeeps
<1>2. CASE \E id \in DOMAIN conns : HandleClosed(id)
  BY <1>2, ClosedKeeps
<1>3. CASE Swarm \/ (\E p \in Peers : HandleBan(p)) \/ RotateOldestOutbound
           \/ (\E p \in Peers : BanPeer(p)) \/ UNCHANGED vars
  BY <1>3, QuietSteps, QuietKeepsMap DEF Inv
<1> QED
  BY <1>1, <1>2, <1>3 DEF Next, Network

LEMMA ConnectionsInvariant == Spec => []Inv
BY InitInv, NextInv, PTL DEF Spec

-----------------------------------------------------------------------------
(* The counters say how many connections of a group are in the map, and    *)
(* the map has only connections of which the end is still to be reported.  *)
THEOREM CountsAlwaysExact == Spec => []CountsExact
<1>1. Inv => CountsExact
  BY DEF Inv, MapInv, CountInv, CountsExact
<1> QED
  BY <1>1, ConnectionsInvariant, PTL

(* Of the connections that stay open, no neighbourhood has more than its   *)
(* share.                                                                  *)
THEOREM GroupsAlwaysBounded == Spec => []GroupsBounded
<1>1. ASSUME Inv, NEW g \in Groups
      PROVE  Cardinality(OpenIn(g)) <= MaxPerGroup
  <2> USE <1>1 DEF Inv
  <2>1. OpenIn(g) \subseteq Members(g)
    BY DEF MapInv, OpenIn, Members
  <2>2. /\ IsFiniteSet(Members(g)) /\ Cardinality(OpenIn(g)) <= Cardinality(Members(g))
        /\ Cardinality(OpenIn(g)) \in Nat /\ Cardinality(Members(g)) \in Nat
    BY <2>1, MembersFinite, FS_Subset, FS_CardinalityType
  <2> QED
    BY <2>2, ConnectionsAssumption DEF CountInv
<1>2. Inv => GroupsBounded
  BY <1>1 DEF GroupsBounded
<1> QED
  BY <1>2, ConnectionsInvariant, PTL

(* A banned peer keeps no connection and gets no new one, whatever the     *)
(* task has heard of its connections when the ban is handled.              *)
THEOREM BannedAlwaysOut == Spec => []BannedStayOut
<1>1. Inv => BannedStayOut
  BY DEF Inv
<1> QED
  BY <1>1, ConnectionsInvariant, PTL

-----------------------------------------------------------------------------
(* The queue of rotation.                                                  *)

IncreasingSeq(s) == \A i, j \in 1..Len(s) : i < j => s[i] < s[j]

(* Connections are told in the order in which they were opened, and those  *)
(* that we dialled and kept are queued in that order.                      *)
QueueInv ==
  /\ dialing \in [Bootnodes -> Nat] /\ blocked \subseteq Peers /\ bans \subseteq Peers
  /\ \A a, b \in DOMAIN conns : a < b /\ conns[b].told => conns[a].told
  /\ outbound_established \in Seq(Nat) /\ IncreasingSeq(outbound_established)
  /\ Range(outbound_established) = {id \in DOMAIN connection_netgroups : conns[id].dialer}

(* What RemoveFirst leaves, of a sequence that has the element.            *)
LEMMA Removing ==
  ASSUME NEW S, NEW s \in Seq(S), NEW e, \E i \in 1..Len(s) : s[i] = e
  PROVE  \E k \in 1..Len(s) :
           /\ s[k] = e
           /\ RemoveFirst(s, e) \in Seq(S) /\ Len(RemoveFirst(s, e)) = Len(s) - 1
           /\ \A i \in 1..Len(s) - 1 :
                RemoveFirst(s, e)[i] = IF i < k THEN s[i] ELSE s[i + 1]
<1>1. PICK n \in Nat \ {0} : n = Len(s)
  OBVIOUS
<1>2. PICK I : I = {i \in 1..Len(s) : s[i] = e}
  OBVIOUS
<1>3. I \in SUBSET Nat /\ I # {}
  BY <1>2
<1>4. \E i \in I : \A j \in I : i <= j
  BY <1>3, LeastNumber
<1>5. PICK k : k = Min(I) /\ k \in I
  BY <1>4 DEF Min
<1>6. RemoveFirst(s, e) = SubSeq(s, 1, k - 1) \o SubSeq(s, k + 1, Len(s))
  BY <1>2, <1>3, <1>5 DEF RemoveFirst, RemoveAt, SelectInSeq
<1>7. k \in 1..n /\ s[k] = e
  BY <1>1, <1>2, <1>5
<1>8. PICK a, b : a = SubSeq(s, 1, k - 1) /\ b = SubSeq(s, k + 1, n)
  OBVIOUS
<1>9. a \in Seq(S) /\ Len(a) = k - 1 /\ \A i \in 1..k - 1 : a[i] = s[i]
  <2>1. k - 1 \in Int /\ 1 \in Int /\ \A i \in 1..k - 1 : s[i] \in S
    BY <1>1, <1>7
  <2>2. /\ a \in Seq(S) /\ Len(a) = IF 1 <= k - 1 THEN (k - 1) - 1 + 1 ELSE 0
        /\ \A i \in 1..(k - 1) - 1 + 1 : a[i] = s[1 + i - 1]
    BY <1>8, <2>1, SubSeqProperties
  <2> QED
    BY <1>7, <2>2
<1>10. b \in Seq(S) /\ Len(b) = n - k /\ \A i \in 1..n - k : b[i] = s[k + i]
  <2>1. k + 1 \in Int /\ n \in Int /\ \A i \in k + 1..n : s[i] \in S
    BY <1>1, <1>7
  <2>2. /\ b \in Seq(S) /\ Len(b) = IF k + 1 <= n THEN n - (k + 1) + 1 ELSE 0
        /\ \A i \in 1..n - (k + 1) + 1 : b[i] = s[(k + 1) + i - 1]
    BY <1>8, <2>1, SubSeqProperties
  <2>3. n - (k + 1) + 1 = n - k /\ (~(k + 1 <= n) => n - k = 0)
    BY <1>1, <1>7
  <2>4. \A i \in 1..n - k : (k + 1) + i - 1 = k + i
    BY <1>7
  <2>5. \A i \in 1..n - k : b[i] = s[k + i]
    BY <2>2, <2>3, <2>4
  <2>6. Len(b) = n - k
    BY <2>2, <2>3
  <2> QED
    BY <2>2, <2>5, <2>6
<1>11. /\ a \o b \in Seq(S) /\ Len(a \o b) = Len(a) + Len(b)
       /\ \A i \in 1..Len(a) + Len(b) :
            (a \o b)[i] = IF i <= Len(a) THEN a[i] ELSE b[i - Len(a)]
  BY <1>9, <1>10, ConcatProperties
<1>12. PICK r : r = RemoveFirst(s, e) /\ r = a \o b
  BY <1>1, <1>6, <1>8
<1>13. r \in Seq(S) /\ Len(r) = n - 1
  <2>1. (k - 1) + (n - k) = n - 1
    BY <1>1, <1>7
  <2> QED
    BY <1>9, <1>10, <1>11, <1>12, <2>1
<1>14. ASSUME NEW i \in 1..n - 1
       PROVE  r[i] = IF i < k THEN s[i] ELSE s[i + 1]
  <2>1. r[i] = IF i <= k - 1 THEN a[i] ELSE b[i - (k - 1)]
    BY <1>7, <1>9, <1>10, <1>11, <1>12
  <2>2. CASE i < k
    <3>1. i \in 1..k - 1
      BY <1>7, <2>2
    <3> QED
      BY <1>7, <1>9, <2>1, <2>2, <3>1
  <2>3. CASE ~(i < k)
    <3>1. i - (k - 1) \in 1..n - k /\ k + (i - (k - 1)) = i + 1
      BY <1>7, <2>3
    <3> QED
      BY <1>7, <1>10, <2>1, <2>3, <3>1
  <2> QED
    BY <2>2, <2>3
<1> QED
  BY <1>1, <1>7, <1>12, <1>13, <1>14

LEMMA RemovingFromQueue ==
  ASSUME NEW s \in Seq(Nat), IncreasingSeq(s), NEW e
  PROVE  /\ RemoveFirst(s, e) \in Seq(Nat) /\ IncreasingSeq(RemoveFirst(s, e))
         /\ Range(RemoveFirst(s, e)) = Range(s) \ {e}
<1>1. PICK n \in Nat : n = Len(s) /\ DOMAIN s = 1..n /\ \A i \in 1..n : s[i] \in Nat
  OBVIOUS
<1>2. CASE ~\E i \in 1..Len(s) : s[i] = e
  <2>1. RemoveFirst(s, e) = s
    BY <1>2 DEF RemoveFirst
  <2>2. e \notin Range(s)
    BY <1>1, <1>2 DEF Range
  <2> QED
    BY <2>1, <2>2
<1>3. CASE \E i \in 1..Len(s) : s[i] = e
  <2>1. PICK r : r = RemoveFirst(s, e)
    OBVIOUS
  <2>2. PICK k \in 1..n : /\ s[k] = e /\ r \in Seq(Nat) /\ Len(r) = n - 1
                          /\ \A i \in 1..n - 1 : r[i] = IF i < k THEN s[i] ELSE s[i + 1]
    <3>1. \E k \in 1..Len(s) :
            /\ s[k] = e
            /\ RemoveFirst(s, e) \in Seq(Nat) /\ Len(RemoveFirst(s, e)) = Len(s) - 1
            /\ \A i \in 1..Len(s) - 1 :
                 RemoveFirst(s, e)[i] = IF i < k THEN s[i] ELSE s[i + 1]
      BY <1>3, Removing
    <3> QED
      BY <1>1, <2>1, <3>1
  <2>3. DOMAIN r = 1..n - 1
    BY <2>2
  <2>4. \A i, j \in 1..n : s[i] = s[j] => i = j
    BY <1>1 DEF IncreasingSeq
  <2>5. IncreasingSeq(r)
    <3> SUFFICES ASSUME NEW i \in 1..n - 1, NEW j \in 1..n - 1, i < j
                 PROVE  r[i] < r[j]
      BY <2>2 DEF IncreasingSeq
    <3>1. i \in 1..n /\ j \in 1..n /\ i + 1 \in 1..n /\ j + 1 \in 1..n
      BY <1>1
    <3>2. s[i] < s[j] /\ s[i + 1] < s[j + 1] /\ s[i] < s[j + 1]
      <4>1. i < j /\ i + 1 < j + 1 /\ i < j + 1
        BY <1>1
      <4> QED
        BY <1>1, <3>1, <4>1 DEF IncreasingSeq
    <3>3. r[i] = (IF i < k THEN s[i] ELSE s[i + 1]) /\ r[j] = (IF j < k THEN s[j] ELSE s[j + 1])
      BY <2>2
    <3>4. j < k => i < k
      BY <1>1
    <3> QED
      BY <3>2, <3>3, <3>4
  <2>6. ASSUME NEW x \in Range(r) PROVE x \in Range(s) \ {e}
    <3>1. PICK i \in 1..n - 1 : x = r[i]
      BY <2>3 DEF Range
    <3>2. i \in 1..n /\ i + 1 \in 1..n
      BY <1>1
    <3>3. CASE i < k
      <4>2. x = s[i] /\ s[i] # s[k]
        BY <1>1, <2>2, <2>4, <3>1, <3>2, <3>3
      <4> QED
        BY <1>1, <2>2, <3>2, <4>2 DEF Range
    <3>4. CASE ~(i < k)
      <4>1. i + 1 # k
        BY <3>4
      <4>2. x = s[i + 1] /\ s[i + 1] # s[k]
        BY <1>1, <2>2, <2>4, <3>1, <3>2, <3>4, <4>1
      <4> QED
        BY <1>1, <2>2, <3>2, <4>2 DEF Range
    <3> QED
      BY <3>3, <3>4
  <2>7. ASSUME NEW x \in Range(s) \ {e} PROVE x \in Range(r)
    <3>1. PICK i \in 1..n : x = s[i] /\ i # k
      BY <1>1, <2>2 DEF Range
    <3>2. CASE i < k
      <4>1. i \in 1..n - 1 /\ r[i] = s[i]
        BY <2>2, <3>2
      <4> QED
        BY <2>3, <3>1, <4>1 DEF Range
    <3>3. CASE i > k
      <4>1. i - 1 \in 1..n - 1 /\ ~(i - 1 < k) /\ (i - 1) + 1 = i
        BY <3>3
      <4>2. r[i - 1] = s[i]
        BY <2>2, <4>1
      <4> QED
        BY <2>3, <3>1, <4>1, <4>2 DEF Range
    <3> QED
      BY <3>1, <3>2, <3>3
  <2> QED
    BY <2>1, <2>2, <2>5, <2>6, <2>7
<1> QED
  BY <1>2, <1>3

LEMMA QuietKeepsQueue ==
  ASSUME Inv, Types', QueueInv, Quiet, dialing' \in [Bootnodes -> Nat],
         blocked' \subseteq Peers, bans' \subseteq Peers
  PROVE  QueueInv'
<1>1. /\ connection_netgroups' = connection_netgroups
      /\ outbound_established' = outbound_established
      /\ DOMAIN connection_netgroups \subseteq DOMAIN conns
  BY DEF Quiet, task, Inv, MapInv
<1>2. \A id \in DOMAIN conns : conns'[id].dialer = conns[id].dialer /\ conns'[id].told = conns[id].told
  BY DEF Quiet
<1>3. {id \in DOMAIN connection_netgroups' : conns'[id].dialer}
        = {id \in DOMAIN connection_netgroups : conns[id].dialer}
  BY <1>1, <1>2
<1>4. ASSUME NEW a \in DOMAIN conns', NEW b \in DOMAIN conns', a < b, conns'[b].told
      PROVE  conns'[a].told
  <2>1. b \in DOMAIN conns
    BY <1>4 DEF Quiet
  <2>2. a \in Nat /\ b \in Nat
    BY <1>4 DEF Types
  <2>3. a \in DOMAIN conns
    BY <1>4, <2>1, <2>2 DEF Quiet
  <2> QED
    BY <1>2, <1>4, <2>1, <2>3 DEF QueueInv
<1> QED
  BY <1>1, <1>3, <1>4 DEF QueueInv, IncreasingSeq

LEMMA QuietQueues ==
  ASSUME Inv, QueueInv,
         Swarm \/ (\E p \in Peers : HandleBan(p)) \/ RotateOldestOutbound
           \/ (\E p \in Peers : BanPeer(p)) \/ UNCHANGED vars
  PROVE  QueueInv'
<1>1. Types' /\ Quiet
  BY QuietSteps
<1>2. dialing \in [Bootnodes -> Nat] /\ blocked \subseteq Peers /\ bans \subseteq Peers
  BY DEF QueueInv
<1>3. dialing' \in [Bootnodes -> Nat]
  <2>1. CASE UNCHANGED dialing
    BY <1>2, <2>1
  <2>2. CASE \E b \in Bootnodes : dialing[b] > 0 /\ dialing' = [dialing EXCEPT ![b] = @ - 1]
    <3>1. PICK b \in Bootnodes : dialing[b] > 0 /\ dialing' = [dialing EXCEPT ![b] = @ - 1]
      BY <2>2
    <3>2. dialing[b] \in Nat /\ dialing[b] - 1 \in Nat
      BY <1>2, <3>1
    <3> QED
      BY <1>2, <3>1, <3>2
  <2>3. CASE dialing' = [b \in Bootnodes |-> dialing[b] + 1]
    BY <1>2, <2>3
  <2> QED
    BY <2>1, <2>2, <2>3 DEF Swarm, Accept, DialSucceeds, DialFails, GoDown, HandleBan,
       RotateOldestOutbound, BanPeer, vars
<1>4. blocked' \subseteq Peers /\ bans' \subseteq Peers
  BY <1>2 DEF Swarm, Accept, DialSucceeds, DialFails, GoDown, Open, HandleBan,
     RotateOldestOutbound, BanPeer, vars
<1> QED
  BY <1>1, <1>3, <1>4, QuietKeepsQueue

(* A connection is queued behind those that were told before it.           *)
LEMMA EstablishedQueues ==
  ASSUME Inv, QueueInv, NEW id \in DOMAIN conns, HandleEstablished(id)
  PROVE  QueueInv'
<1>0. Types /\ MapInv
  BY DEF Inv
<1> DEFINE group == NetgroupOf(conns[id].addr)
<1>1. /\ ~conns[id].told /\ (\A earlier \in DOMAIN conns : earlier < id => conns[earlier].told)
      /\ UNCHANGED <<opened, dialing, blocked, bans>>
  BY DEF HandleEstablished
<1>2. DOMAIN conns' = DOMAIN conns /\ \A c \in DOMAIN conns : c # id => conns'[c] = conns[c]
  BY DEF HandleEstablished
<1>3. id \notin DOMAIN connection_netgroups /\ id \in Nat
        /\ \A c \in DOMAIN connection_netgroups : c \in DOMAIN conns /\ conns[c].told
  BY <1>0, <1>1 DEF MapInv, Types
<1>4. conns[id] \in Connections
  BY <1>0 DEF Types
<1>5. conns'[id].told /\ conns'[id].dialer = conns[id].dialer
  <2>1. CASE OverLimit(group)
    <3>1. conns' = [[conns EXCEPT ![id].told = TRUE] EXCEPT ![id].state = IF @ = "up" THEN "closing" ELSE @]
      BY <2>1 DEF HandleEstablished
    <3>2. conns'[id] = [[conns[id] EXCEPT !.told = TRUE] EXCEPT !.state = IF @ = "up" THEN "closing" ELSE @]
      BY <3>1
    <3> QED
      BY <1>4, <3>2 DEF Connections
  <2>2. CASE ~OverLimit(group)
    <3>1. conns' = [conns EXCEPT ![id].told = TRUE]
      BY <2>2 DEF HandleEstablished
    <3>2. conns'[id] = [conns[id] EXCEPT !.told = TRUE]
      BY <3>1
    <3> QED
      BY <1>4, <3>2 DEF Connections
  <2> QED
    BY <2>1, <2>2
<1>6. \A a, b \in DOMAIN conns' : a < b /\ conns'[b].told => conns'[a].told
  <2> SUFFICES ASSUME NEW a \in DOMAIN conns, NEW b \in DOMAIN conns, a < b, conns'[b].told
               PROVE  conns'[a].told
    BY <1>2
  <2>1. CASE a = id
    BY <1>5, <2>1
  <2>2. CASE a # id /\ b = id
    BY <1>1, <1>2, <2>2
  <2>3. CASE a # id /\ b # id
    BY <1>2, <2>3 DEF QueueInv
  <2> QED
    BY <2>1, <2>2, <2>3
<1>7. PICK s \in Seq(Nat), n \in Nat :
        /\ s = outbound_established /\ n = Len(s) /\ IncreasingSeq(s) /\ DOMAIN s = 1..n
        /\ Range(s) = {c \in DOMAIN connection_netgroups : conns[c].dialer}
  BY DEF QueueInv
(* Those queued are told, so all are earlier than this one.                *)
<1>8. ASSUME NEW i \in 1..n PROVE s[i] \in Nat /\ s[i] < id
  <2>1. s[i] \in Nat /\ s[i] \in DOMAIN connection_netgroups
    BY <1>7 DEF Range
  <2>2. s[i] # id /\ conns[s[i]].told /\ s[i] \in DOMAIN conns
    BY <1>3, <2>1
  <2>3. ~(id < s[i])
    BY <1>1, <2>2 DEF QueueInv
  <2> QED
    BY <1>3, <2>1, <2>2, <2>3
<1>9. CASE OverLimit(group)
  <2>1. UNCHANGED <<connection_netgroups, outbound_established>>
    BY <1>9 DEF HandleEstablished, task
  <2>2. {c \in DOMAIN connection_netgroups' : conns'[c].dialer}
          = {c \in DOMAIN connection_netgroups : conns[c].dialer}
    BY <1>2, <1>3, <2>1
  <2> QED
    BY <1>1, <1>6, <2>1, <2>2 DEF QueueInv
<1>10. CASE ~OverLimit(group)
  <2>1. /\ outbound_established' = OutboundWith(id)
        /\ DOMAIN connection_netgroups' = DOMAIN connection_netgroups \cup {id}
    BY <1>10 DEF HandleEstablished
  <2>2. CASE ~conns[id].dialer
    <3>1. outbound_established' = s
      BY <1>7, <2>1, <2>2 DEF OutboundWith
    <3>2. {c \in DOMAIN connection_netgroups' : conns'[c].dialer}
            = {c \in DOMAIN connection_netgroups : conns[c].dialer}
      BY <1>2, <1>3, <1>5, <2>1, <2>2
    <3> QED
      BY <1>1, <1>6, <1>7, <3>1, <3>2 DEF QueueInv
  <2>3. CASE conns[id].dialer
    <3>1. PICK t : t = Append(s, id)
      OBVIOUS
    <3>2. /\ t \in Seq(Nat) /\ Len(t) = n + 1 /\ t[n + 1] = id
          /\ \A i \in 1..n : t[i] = s[i]
      BY <1>3, <1>7, <3>1, AppendProperties
    <3>3. DOMAIN t = 1..n + 1
      BY <3>2
    <3>4. IncreasingSeq(t)
      <4> SUFFICES ASSUME NEW i \in 1..n + 1, NEW j \in 1..n + 1, i < j
                   PROVE  t[i] < t[j]
        BY <3>2 DEF IncreasingSeq
      <4>1. i \in 1..n /\ t[i] = s[i]
        BY <3>2
      <4>2. CASE j = n + 1
        BY <1>8, <3>2, <4>1, <4>2
      <4>3. CASE j # n + 1
        <5>1. j \in 1..n /\ t[j] = s[j]
          BY <3>2, <4>3
        <5> QED
          BY <1>7, <4>1, <5>1 DEF IncreasingSeq
      <4> QED
        BY <4>2, <4>3
    <3>5. Range(t) = Range(s) \cup {id}
      <4>1. ASSUME NEW x \in Range(t) PROVE x \in Range(s) \cup {id}
        <5>1. PICK i \in 1..n + 1 : x = t[i]
          BY <3>3 DEF Range
        <5>2. CASE i = n + 1
          BY <3>2, <5>1, <5>2
        <5>3. CASE i # n + 1
          <6>1. i \in 1..n
            BY <5>3
          <6> QED
            BY <1>7, <3>2, <5>1, <6>1 DEF Range
        <5> QED
          BY <5>2, <5>3
      <4>2. ASSUME NEW x \in Range(s) PROVE x \in Range(t)
        <5>1. PICK i \in 1..n : x = s[i]
          BY <1>7 DEF Range
        <5>2. i \in 1..n + 1 /\ t[i] = x
          BY <3>2, <5>1
        <5> QED
          BY <3>3, <5>2 DEF Range
      <4>3. id \in Range(t)
        <5>1. n + 1 \in 1..n + 1
          OBVIOUS
        <5> QED
          BY <3>2, <3>3, <5>1 DEF Range
      <4> QED
        BY <4>1, <4>2, <4>3
    <3>6. {c \in DOMAIN connection_netgroups' : conns'[c].dialer}
            = {c \in DOMAIN connection_netgroups : conns[c].dialer} \cup {id}
      BY <1>2, <1>3, <1>5, <2>1, <2>3
    <3>7. outbound_established' = t
      BY <1>7, <2>1, <2>3, <3>1 DEF OutboundWith
    <3> QED
      BY <1>1, <1>6, <1>7, <3>2, <3>4, <3>5, <3>6, <3>7 DEF QueueInv
  <2> QED
    BY <2>2, <2>3
<1> QED
  BY <1>9, <1>10

LEMMA ClosedQueues ==
  ASSUME Inv, QueueInv, NEW id \in DOMAIN conns, HandleClosed(id)
  PROVE  QueueInv'
<1>0. Types /\ MapInv
  BY DEF Inv
<1>1. /\ UNCHANGED <<opened, dialing, blocked, bans>>
      /\ outbound_established' = RemoveFirst(outbound_established, id)
  BY DEF HandleClosed, OutboundWithout
<1>2. DOMAIN conns' = DOMAIN conns \ {id} /\ \A c \in DOMAIN conns' : conns'[c] = conns[c]
  BY DEF HandleClosed, Restrict
<1>3. DOMAIN connection_netgroups' = DOMAIN connection_netgroups \ {id}
  BY DEF HandleClosed, Restrict
<1>4. /\ RemoveFirst(outbound_established, id) \in Seq(Nat)
      /\ IncreasingSeq(RemoveFirst(outbound_established, id))
      /\ Range(RemoveFirst(outbound_established, id)) = Range(outbound_established) \ {id}
  BY RemovingFromQueue DEF QueueInv
<1>5. {c \in DOMAIN connection_netgroups' : conns'[c].dialer}
        = {c \in DOMAIN connection_netgroups : conns[c].dialer} \ {id}
  BY <1>0, <1>2, <1>3 DEF MapInv
<1>6. \A a, b \in DOMAIN conns' : a < b /\ conns'[b].told => conns'[a].told
  BY <1>2 DEF QueueInv
<1> QED
  BY <1>1, <1>4, <1>5, <1>6 DEF QueueInv

LEMMA NextQueue == Inv /\ QueueInv /\ [Next]_vars => QueueInv'
<1> SUFFICES ASSUME Inv, QueueInv, [Next]_vars
             PROVE  QueueInv'
  OBVIOUS
<1>1. CASE \E id \in DOMAIN conns : HandleEstablished(id)
  BY <1>1, EstablishedQueues
<1>2. CASE \E id \in DOMAIN conns : HandleClosed(id)
  BY <1>2, ClosedQueues
<1>3. CASE Swarm \/ (\E p \in Peers : HandleBan(p)) \/ RotateOldestOutbound
           \/ (\E p \in Peers : BanPeer(p)) \/ UNCHANGED vars
  BY <1>3, QuietQueues
<1> QED
  BY <1>1, <1>2, <1>3 DEF Next, Network

LEMMA InitQueue == Init => QueueInv
<1> SUFFICES ASSUME Init PROVE QueueInv
  OBVIOUS
<1>1. outbound_established = <<>> /\ DOMAIN conns = {} /\ DOMAIN connection_netgroups = {}
  BY DEF Init
<1>2. outbound_established \in Seq(Nat) /\ Len(outbound_established) = 0
      /\ DOMAIN outbound_established = {}
  BY <1>1
<1>3. Range(outbound_established) = {}
  BY <1>2 DEF Range
<1> QED
  BY <1>1, <1>2, <1>3 DEF Init, QueueInv, IncreasingSeq

LEMMA QueueInvariant == Spec => [](Inv /\ QueueInv)
BY InitInv, NextInv, InitQueue, NextQueue, PTL DEF Spec

(* The types of the network task.                                          *)
THEOREM ConnectionsTypeCorrect == Spec => []TypeOK
<1>1. Inv /\ QueueInv => TypeOK
  <2> SUFFICES ASSUME Inv, QueueInv PROVE TypeOK
    OBVIOUS
  <2>1. PICK s \in Seq(Nat), n \in Nat :
          /\ s = outbound_established /\ n = Len(s) /\ DOMAIN s = 1..n
          /\ Range(s) = {c \in DOMAIN connection_netgroups : conns[c].dialer}
    BY DEF QueueInv
  <2>2. PICK D : D = DOMAIN connection_netgroups
    OBVIOUS
  <2>3. \A i \in 1..n : s[i] \in D
    BY <2>1, <2>2 DEF Range
  <2>4. SubSeq(s, 1, n) \in Seq(D)
    BY <2>3, SubSeqProperties
  <2>5. SubSeq(s, 1, n) = s
    BY <2>1, SubSeqFull
  <2> QED
    BY <2>1, <2>2, <2>4, <2>5 DEF TypeOK, Inv, Types, Connections, QueueInv
<1> QED
  BY <1>1, QueueInvariant, PTL

(* The queue of rotation has the kept connections that this node dialled,  *)
(* the oldest first, so that its head is the one to rotate.                *)
THEOREM OldestIsFirst == Spec => []OldestFirst
<1>1. Inv /\ QueueInv => OldestFirst
  BY DEF QueueInv, IncreasingSeq, OldestFirst
<1> QED
  BY <1>1, QueueInvariant, PTL
=============================================================================
