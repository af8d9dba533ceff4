SPECIFICATION Spec
CONSTANTS
  e1 = e1
  e2 = e2
  prio = prio
  submit = submit
  failed = failed
  explicit = explicit
  NoAction = NoAction
  Kind <- KindOf
  Want <- WantAll
  Execs <- TwoExecs
  Actions <- Resumes
  Configs <- OneConfig
  MaxRuns = 2
SYMMETRY Symmetry
CHECK_DEADLOCK FALSE
INVARIANTS
  TypeOK
  AtMostOneAttempt
  AttemptIsApprovedAndRecorded
  ResumeVerifiedHasNewRun
  ReturnedOutcomeIsDurable
  IInv
PROPERTIES
  ImplementsLedger
