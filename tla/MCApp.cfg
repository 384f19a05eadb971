SPECIFICATION Spec
CONSTANTS
  Built <- Build
  TempListOk <- TempListOf
  WalkFrom <- Walk
  ImplFor <- ImplOf
  IfaceFor <- Iface
  OutboundOf <- OutboundFor
  Ports <- MCPorts
  Country <- MCCountry
  Asn <- MCAsn
  RunConfigs <- MCRunConfigs
  CheckConfigs <- MCCheckConfigs
  InitStates <- MCInitStates
  Infos <- MCInfos
  Probes <- MCProbes
  Answers <- MCAnswers
  TempRules <- MCTempRules
  Routes = 2
  Budgets <- MCBudgets
INVARIANTS AcceptedIffWellFormed RuleSetSound LiveStateIsSaved ReloadAllOrNothing DispatchedByFirstMatch TunStatusTruthful
CHECK_DEADLOCK FALSE
