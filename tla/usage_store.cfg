CONSTANTS
  Src <- MCSrc
  Sess <- MCSess
  CodexSess <- MCCodexSess
  Model <- MCModel
  NoModel = ""
  w1 = w1
  w2 = w2
  Worker <- MCWorker
  Main = "main"
  SessOf <- MCSessOf
  TokOf <- MCTokOf
  ModelOf <- MCModelOf
  CostOf <- MCCostOf
  Reprice <- MCReprice
  MaxFault = 1
SPECIFICATION Spec
INVARIANTS TypeOK TokensExact CostsExact CacheExact
SYMMETRY MCSymmetry
