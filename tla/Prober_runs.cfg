SPECIFICATION FairSpec
CONSTANT MaxRuns = 3
INVARIANTS TypeOK OneLoop RegisteredAlive
PROPERTY AsksUntilAnswered
