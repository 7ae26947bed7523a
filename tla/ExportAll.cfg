SPECIFICATION MCSpec
CONSTANTS
  Names = {User, Order}
  Spellings = {t_, plain}
  MaxTables = 3
  Letters = {"a"}
  Digits = {"1"}
  MaxLength = 5
INVARIANTS FilesAccounted StatementAsAsked
PROPERTY EndsOrSpins
CHECK_DEADLOCK FALSE
