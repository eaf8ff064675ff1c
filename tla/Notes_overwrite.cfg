SPECIFICATION NoteSpec
CONSTANTS
  Editors = {e1, e2}
  MaxEdits = 3
  MaxTurns = 2
PROPERTY
  NoBlindOverwrite
CHECK_DEADLOCK FALSE
