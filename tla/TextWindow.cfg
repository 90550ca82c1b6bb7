\* Two rows of two characters: lines shorter and longer than a row, texts
\* shorter and longer than the window; normal and bright colours, a reset and
\* parameters that select nothing.
SPECIFICATION Spec
CONSTANTS
  kNumCharsWide = 2
  kNumRows = 2
  Glyphs = {"a"}
  character_wrap_enabled_ = FALSE
  VectorSize = 6
  Colours = {0, 31, 102}
  Unknown = {38}
INVARIANTS
  DecoderInv
PROPERTIES
  ImplementsTerminal
\* The task stops where a full vector is an error.
CHECK_DEADLOCK FALSE
