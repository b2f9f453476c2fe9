\* Brokers that start one after the other, with two departures; and three
\* start attempts that race, with one.
CONSTANTS
  Proc = {p1, p2, p3}
  Attempts = 4
  Bounds <- SerialAndRace
  None = None
SPECIFICATION Spec
CHECK_DEADLOCK FALSE
INVARIANTS SerialGenerations OneWinner
PROPERTIES StaleIsTakenOver AttemptEnds
