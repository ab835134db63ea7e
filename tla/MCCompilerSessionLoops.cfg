CONSTANTS
  Width = 3
  Edited <- NoTexts
  Library <- MCLibrary
  NoText = NoText
  Files <- LoopFiles
  Analysed <- Analysis
  Clean <- Faultless
  Complaints <- Verdicts
  Typechecks <- TypedNext
  Tabulates <- TabledNext
  Exported <- Tables
  Compiled <- Module
  Verified <- WellFormed
  Linked <- Linkable
  Executed <- Execution
  MaxEdits = 1
  MaxCommands = 2
  Steps = 40
SPECIFICATION Spec
CHECK_DEADLOCK FALSE
INVARIANT
  LoopsMayReturn
