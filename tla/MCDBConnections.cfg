CONSTANTS
  Borrowers = {b1, b2, b3, b4, b5}
  Connections = {d1, d2, d3}
SPECIFICATION DCSpec
INVARIANT TurnComes
