SPECIFICATION Spec
CONSTANTS
  Requests = {1, 2, 3}
  Slots = {1, 2, 3, 4}
  Serials = {"S"}
  Places = {"p", "q", "_"}
  Raws = {"A", "B"}
  Facts = {"x", "y"}
  Families = {"ios", "nxos", "eos"}
  FileRules <- MCFileRules
  Like <- MCLike
  RuleIds = {"on a", "on both", "vendor", "unsure", "1", "2", "3"}
  NewId <- MCNewId
  Files = {"twice", "p then q", "q then p", "serial", "wildcard", "broken"}
  RowsOf <- MCRowsOf
  Unreadable = {"broken"}
  Processes = {1, 2}
  Starts <- MCStarts
  LastDay = 2
INVARIANTS TypeOK CountersAddUp OneAuditedJobPerFile SealedDayComplete
PROPERTIES KnownFactsKept QuietIntakeServes RequestsApartEnd
CHECK_DEADLOCK FALSE
