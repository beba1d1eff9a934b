SPECIFICATION FairSpec
CONSTANTS
  Servers = {srv1, srv2}
  Setups = {g1, g2}
  Ports = {"memory", "orchestrator"}
  None = None
  Clients = {c1}
INVARIANTS
  NoSecondRouter
  WinnerServes
  SuccessWasRun
  BudgetSurvives
  RegisteredPortAnswers
  CallInv
PROPERTIES
  ClaimsReleased
  CallReturns
  ImplementsRemoteCall
CHECK_DEADLOCK FALSE
