SPECIFICATION Spec
CONSTANTS
  Peers = {p, q}
  Addresses <- MCAddresses
  Bootnodes <- MCAddresses
  MaxPerGroup = 2
  MaxPerPeer = 2
  MaxTotal = 3
  MaxOpened = 4
  MaxDials = 1
INVARIANTS TypeOK CountsExact GroupsBounded BannedStayOut OldestFirst
SYMMETRY MCSymmetry
CHECK_DEADLOCK FALSE
