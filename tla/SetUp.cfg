SPECIFICATION FairSpec
CONSTANTS
  Scripts = {"setup", "borrower_setup", "prestocks_loan"}
  Target = 2
  InitialWallet = {0, 1, 2}
  MaxFaults = 3
  MaxRefusals = 1
  MaxReruns = 2
INVARIANTS
  NoExcessWithoutFault
PROPERTIES
  RunsComplete
CHECK_DEADLOCK FALSE
