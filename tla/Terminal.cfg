SPECIFICATION Spec
CONSTANTS
  width = 2
  height = 2
  Glyphs = {"a", "b"}
  MaxChars = 8
INVARIANTS ScreenOnly CursorOnScreen LastCharacterShown
PROPERTIES ImplementsRoll
CHECK_DEADLOCK FALSE
