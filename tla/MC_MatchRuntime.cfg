SPECIFICATION Spec
CONSTANTS
  Commands = {c1, c2}
  Attempts = {a1, a2}
  Settlers = {s1}
  Verdicts = {"illegal", "continues", "mover-wins"}
  FirstPlayers = {"light"}
  Budget = 2
  MaxAhead = 1
  MaxTime = 2
SYMMETRY Symmetry
INVARIANTS
  ClocksAreTrue
  LogMatchesRow
  AnswersStayTrue
  CompletedOnce
PROPERTIES
  TimeoutIsEarned
