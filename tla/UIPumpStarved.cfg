\* A native loop in which nobody started the sub-pump.
SPECIFICATION Spec
CONSTANTS
  Poster = {p1, p2}
  MaxPosts = 3
  MaxInputs = 2
  MaxDepth = 4
SYMMETRY Symmetry
INVARIANTS
  SubPumpStarted
