\* Every form over every family, with every chain it can be opened on.
SPECIFICATION FormSpec
CONSTANTS
  Families <- MCFamilies
  Priorities <- MCPriorities
INVARIANTS
  FocusIsShown
  HookFitsType
  OnlyTouchedChanges
