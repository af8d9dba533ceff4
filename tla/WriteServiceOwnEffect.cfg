SPECIFICATION FairSpec
CONSTANTS
  e1 = e1
  e2 = e2
  prio = prio
  submit = submit
  failed = failed
  explicit = explicit
  NoAction = NoAction
  Kind <- KindOf
  Want <- WantAll
  Execs <- TwoExecs
  Actions <- Changes
  Configs <- TwoConfigs
  MaxRuns = 0
CHECK_DEADLOCK FALSE
PROPERTIES
  VerifiedMeansOwnEffect
