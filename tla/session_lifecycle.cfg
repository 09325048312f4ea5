CONSTANTS
  Sess <- MCSess
  Call <- MCCall
  CallSess <- MCCallSess
  w1 = w1
  w2 = w2
  Worker <- MCWorker
  Old = 1
  MaxEventTime = 2
  MaxTime = 5
  MaxFault = 1
  NoCall = "none"
SPECIFICATION Spec
INVARIANTS TypeOK EndIsLastEvent HistoricalNotRunning
PROPERTIES NeverPendingAgain ReopenedByEvidence AbandonedCloses
