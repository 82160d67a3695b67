SPECIFICATION FairSpec
CONSTANTS
  Configs <- EveryConfig
  MaxAttempts = 2
INVARIANTS
  TypeOK
  NoLeakedChild
  NothingOutlivesDaemon
  FailedMeansQuiet
  RunningMeansSupervised
  DesktopNeedsCompositor
  ReadinessIsFresh
  StateFileIsTrue
  RecoveryOnlyOnUnexpectedExit
PROPERTIES
  OrderedTeardown
  SessionKeepsContract
  SigtermObeyed
  EveryExitReaped
  RecoverySettles
