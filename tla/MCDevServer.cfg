SPECIFICATION FairSpec
CONSTANTS
  Requests = {q1}
  MaxEdits = 2
INVARIANTS
  OnlyTheChildLives
  ReadyIsTheLastBuild
PROPERTIES
  NoticedIsBuilt
  HeldIsAnswered
CHECK_DEADLOCK FALSE
