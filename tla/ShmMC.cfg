\* Three objects, two heap regions and one chunk: enough for an original, its copy
\* or clone and a writer, and for the chunk to be collected and allocated again.
CONSTANTS
  Handle = {h1, h2, h3}
  Heap = {m1, m2}
  Chunk = {c1}
  Data = {a, b}
  MaxLen = 2
  MaxOffset = 1
SPECIFICATION Spec
SYMMETRY Symmetry
INVARIANTS DeletedOnce ContentsStable MutExclusive ReaderInBounds 
PROPERTIES ImplementsPayload
CHECK_DEADLOCK FALSE
