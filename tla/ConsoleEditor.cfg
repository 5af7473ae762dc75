SPECIFICATION MCSpec
CONSTANTS
  tab1 = tab1
  tab2 = tab2
  Pages = Pages
  Tabs = {tab1, tab2}
  AnyTarget = AnyTarget
  Unknown = Unknown
  Somewhere = Somewhere
  Words = {"cat", "key", "ls", "x", "git", "status", "push", "gc", "gh", "repo", "curl", "sudo", "echo", "PUSH", "KEY"}
  Lower <- LowerCase
  Commands <- Cmds
  Sensitive <- Sens
  FirstText <- Start
  HandTexts <- Hands
  Logs <- ReviewLogs
  Toggled = {"publish"}
  EditEntries <- Edited
  MaxEdits = 2
INVARIANT LabelsAreHonest
INVARIANT ChangeDoesOnlyThat
INVARIANT FlaggedIsHeld
INVARIANT ServedIsSaved
PROPERTY SavesKeepOthers
CHECK_DEADLOCK FALSE
