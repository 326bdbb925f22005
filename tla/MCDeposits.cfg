SPECIFICATION FairSpec
CONSTANTS
  Deposits <- MCDepositSet
  Amount <- MCAmount
  Passwords <- MCPasswords
  Decimals = 2
  Width = 8
  Confirmations = 2
  MaxHeight = 3
  MaxDepth = 2
  Faults = {"break", "lost", "refused", "password"}
  MaxFaults = 1
INVARIANTS TypeOK CreditedStays SweptWasCredited CreditedInFull
PROPERTY CreditedIsSwept
