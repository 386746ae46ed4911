SPECIFICATION Spec
CONSTANTS
  k1 = k1
  k2 = k2
  h0 = h0
  h1 = h1
  None = None
  BadKey = bad
  Keys = {k1, k2}
  Hwids = {h0, h1}
  EmptyHwid = h0
  Objects = {o1, o2}
  Huge = {o2}
  MaskOf <- MCMaskOf
  Ttls = {0, 1}
  TicksPerSecond = 2
  MaxCorpses = 1
  MaxTime = 3
  MaxFlips = 1
INVARIANTS TypeOK HonestDual
PROPERTIES BlocksIndependent
SYMMETRY KeySymmetry
