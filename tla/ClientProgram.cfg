SPECIFICATION ProgramSpec
CONSTANTS
  HDR = 2
  MAXPKT = 4
  DefaultLen = 4
  ClientLen = 6
  DataSizes = {0, 2, 3}
  MaxInits = 3
  Files <- MCFiles
  Layouts <- MCLayouts
  Texts <- MCTexts
  Keys = {0, 1}
  Fields = {"v", "x"}
  KeyOf <- MCKeyOf
  Kinds = {"int", "double", "longlong"}
  MaxLoads = 2
  Signatures <- MCSignatures
  MaxLeft = 2
  MaxFrames = 2
  ScriptFiles <- MCScriptFiles
INVARIANTS ToldTruth LookupIsRight AnswersStay
PROPERTIES QueuedIsSent BrokenIsReported CallsAreBalanced
CHECK_DEADLOCK FALSE
