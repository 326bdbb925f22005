SPECIFICATION Spec
CONSTANTS
  Requests <- MCRequests
  Monto <- MCMonto
  BadAddress = {}
  Amounts = {}
  Fees = {0, 10}
  Decimals = 2
  Width = 7
  Funds <- MCFunds
  Faults = {"answer"}
  MaxFaults = 1
INVARIANT PaidOnce
