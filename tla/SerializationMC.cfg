\* Eleven types, nested ones among them, bytes of four values, containers and
\* strings of up to two elements, two values per payload, and every payload of
\* up to four bytes.
CONSTANTS
  Base = 4
  Types <- MCTypes
  MaxLen = 2
  MaxItems = 2
  Foreign <- MCForeign
SPECIFICATION Spec
INVARIANTS RoundTrip AlteredIsRefused OnlyRealValues ErrTellsSuccess
CHECK_DEADLOCK FALSE
