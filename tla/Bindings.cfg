\* Three changes: one to set up, one to be cut short, one after the restart.
CONSTANTS
  Target = {0, 1, 2}
  Key = {1, 2, 3}
  Fold <- MCFold
  Default <- MCDefault
  MaxOps = 3
SPECIFICATION Spec
INVARIANTS
  OneTargetPerKey
  RestartFindsTable
  RestartFindsSomeTable
