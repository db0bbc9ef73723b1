CONSTANTS
  None = None
  Global = Global
  Compact = TRUE
  TexUnits = 2
  NumAttribs = 8
  MaxVaos = 2
  ShortLimit = 18
  Scenes <- MCScenes
  Old = "old"
  OldForms <- MCOldForms
  Assignable <- MCAssignable
  Editable <- MCEditable
  Bindings <- MCBindings
  MaxEvents = 4
SPECIFICATION Spec
INVARIANTS  FixedAsMeant
CHECK_DEADLOCK FALSE
