SPECIFICATION Spec
CONSTANTS
  Requests = {1, 2, 3}
  Keys = {"T1", "T2", "P", "E1", "E2"}
  KindOf <- MCKindOf
  Vals = {"a", "b"}
  Files = {"t1", "site", "p", "e"}
  KindOfFile <- MCKindOfFile
  EditedFile <- MCEditedFile
  Starts <- MCStarts
  Copies = {1, 2}
INVARIANTS TypeOK AuditTellsOutcome
PROPERTIES QuietReloadServesTree QuietReloadAudited ChecksumChangesByRemoval QuietUploadServable RequestsEnd
CHECK_DEADLOCK FALSE
