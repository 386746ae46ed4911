SPECIFICATION Spec
CONSTANTS
  k1 = k1
  k2 = k2
  m1 = m1
  m2 = m2
  h0 = h0
  h1 = h1
  s1 = s1
  s2 = s2
  o1 = o1
  o2 = o2
  None = None
  Keys = {k1, k2}
  Hwids = {}
  EmptyHwid = h0
  Signers = {}
  Objects = {o1, o2}
  Vouched <- NoneVouched
  MaskOf <- MCMaskOf
  PadLengths = {16}
  TicksPerSecond = 2
  Mages = {m1, m2}
  KeyOf <- RivalKeyOf
  AntiDebug <- RivalAntiDebug
  MaxTamper <- RivalMaxTamper
  Ttls = {0, 1}
  MaxCorpses = 1
  MaxTime = 3
  MaxFlips = 1
SYMMETRY ObjectSymmetry
INVARIANTS HonestRevive ExpiryInv
PROPERTIES RoundTrip
