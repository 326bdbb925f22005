SPECIFICATION FairSpec
CONSTANTS
  Requests <- MCRequests
  Monto <- MCMonto
  BadAddress = {}
  Amounts = {120, 127}
  Fees = {0, 5}
  Decimals = 2
  Width = 7
  Funds <- MCFunds
  Faults = {"list", "answer", "report", "journal", "idle crash", "crash", "restart"}
  MaxFaults = 1
INVARIANTS TypeOK OneMorePerLoss CompletedIsJournaled PaysWhatIsAsked
PROPERTY AllReported
