SPECIFICATION Spec
CONSTANTS
  Dirs = {1, 2}
  Drafts <- MCDrafts
  Schema <- MCSchema
  LowerName <- MCLowerName
  DraftsOf <- MCDraftsOf
  Unrenderable = {"clash"}
  HandWritten <- MCHandWritten
  MaxFailures = 1
INVARIANT NoOrphan
