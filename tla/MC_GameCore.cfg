SPECIFICATION Spec
CONSTANTS
  q0 = q0
  q1 = q1
  q2 = q2
  q3 = q3
  q4 = q4
  Squares <- MCSquares
  Lines <- MCLines
  Stacks = {0}
  MaxSize = 3
  Threat = 1
  RepetitionLimit = 3
  MaxPly = 10
  MaxDamagedPly = 6
SYMMETRY Symmetry
INVARIANTS
  EveryPieceOnce
  ResultIsTheBoards
  SomebodyCanMove
  StoredGamesLoad
  EarlyDamageIsSeen
PROPERTIES
  OpponentLinesWereRevealed
CHECK_DEADLOCK FALSE
