SPECIFICATION Spec
CONSTANTS
  Tables <- MCTables
  Columns <- MCColumns
  Key <- MCKey
  PkField <- MCPkField
  Values = {1, 2}
  Null = Null
  Blank = Blank
  Expression = Expression
  NoTable = NoTable
  NoForm = NoForm
  NoRequest = NoRequest
  Stored <- MCStored
  Entries <- MCEntries
  Made <- MCMade
  Slots = {s1, s2}
  MaxClicks = 3
SYMMETRY Symmetry
INVARIANT MaskCorrect
PROPERTY WritesCorrect
CHECK_DEADLOCK FALSE
