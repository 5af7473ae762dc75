SPECIFICATION MCSpec
CONSTANTS
  hub = hub
  shell = shell
  read = read
  write = write
  notify = notify
  batch = batch
  main = main
  Main = Main
  dev = dev
  UsePart = UsePart
  TextPart = TextPart
  Tools = {hub, shell}
  Actions = {read, write, notify, batch}
  Targets = {main, Main, dev}
  AnyTarget = AnyTarget
  Somewhere = Somewhere
  Unknown = Unknown
  BatchLabel = batch
  Folded <- Fold
  Vocabulary <- Known
  Emits <- Emitted
  HandTexts <- Managed
  PeerEvidence <- Peers
  StaleAfter = 1
  MaxSnapshots = 2
  LastTick = 3
  MaxRows = 2
  MaxFiles = 3
INVARIANT EveryUseIsKept
CHECK_DEADLOCK FALSE
