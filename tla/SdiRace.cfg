SPECIFICATION MCRaceSpec
CONSTANTS
  i1 = i1  i2 = i2  k1 = k1  k2 = k2
  None = None
  Pack = {k1}
  Index = {i1}
  PackOf <- MCPackOf
  SizeOf <- MCSizeOf
  MaxVersion = 1
  SdiCalls <- MCRaceCalls
  Flaky = {"net", "disk"}
  Proc = {p1, p2}
CHECK_DEADLOCK FALSE
SYMMETRY Symmetry
INVARIANT WholeFiles MetaReadable NothingForgotten StagedIsWhole
