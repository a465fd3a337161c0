SPECIFICATION Spec
CONSTANTS
  Asks <- MCAsks
  Keys = {"age1"}
  Relative = {"other", "backups", "passphrase", "rad"}
  Calendars = {"daily", "weekly"}
  Secrets = {"", "p"}
  MaxCommands = 2
  MaxTampering = 1
INVARIANTS
  FiresAsAsked
  RunsNeedNobody
  StatusIsTrue
