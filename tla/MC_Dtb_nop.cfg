\* parse() runs once at boot; after it the model has nothing left to do.
CONSTANTS
  Names <- MCNames
  PropLists <- MCPropLists
  Cuts = {0}
  NopChoices = {FALSE, TRUE}
SPECIFICATION Spec
CHECK_DEADLOCK FALSE
INVARIANT
  DecodesWellFormed
