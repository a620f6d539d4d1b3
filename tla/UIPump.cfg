\* Tasks and window messages open nested runs and native loops.
SPECIFICATION Spec
CONSTANTS
  Poster = {p1, p2}
  MaxPosts = 3
  MaxInputs = 2
  MaxDepth = 4
SYMMETRY Symmetry
INVARIANTS
  OneWorkMessage
  NativeLoopServed
