SPECIFICATION Spec
CONSTANTS
  Obs = {1}
  Master = 2
  MaxCallDepth = 3
  StackSize = 3
  Given = {0, 1}
  Declared = {0, 1}
  SafeGiven = {1}
  Files = {"a", "b"}
  Names = {"M", "P"}
  Predefined = {"P"}
  MAX_INCLUDE_DEPTH = 3
  MaxLines = 5
  MaxCompiles = 1
INVARIANTS LexedInOrder TextMeansWhatItSays PreprocessorSound CodeMeansText ProgramsSound EvaluationSound
CHECK_DEADLOCK FALSE
