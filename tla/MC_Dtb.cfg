\* parse() runs once at boot; after it the model has nothing left to do.
CONSTANTS
  Names <- MCNames
  PropLists <- MCPropLists
  Cuts = {0, 1, 2, 3, 6}
  NopChoices = {FALSE}
SPECIFICATION Spec
CHECK_DEADLOCK FALSE
INVARIANTS
  TypeOK
  DecodesWellFormed
  TruncationNeverMisread
