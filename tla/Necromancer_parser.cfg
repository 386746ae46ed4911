SPECIFICATION Spec
CONSTANTS
  k1 = k1
  k2 = k2
  m1 = m1
  m2 = m2
  h0 = h0
  h1 = h1
  s1 = s1
  s2 = s2
  o1 = o1
  o2 = o2
  None = None
  Keys = {k1, k2}
  Hwids = {h0, h1}
  EmptyHwid = h0
  Signers = {s1, s2}
  Objects = {o1, o2}
  Vouched <- MCVouched
  MaskOf <- MCMaskOf
  PadLengths = {16}
  TicksPerSecond = 2
  Mages = {m1}
  KeyOf <- OneKeyOf
  AntiDebug <- OneAntiDebug
  MaxTamper <- OneMaxTamper
  Ttls = {1}
  MaxCorpses = 1
  MaxTime = 0
  MaxFlips = 2
SYMMETRY SignerSymmetry
INVARIANTS TypeOK HonestRevive
PROPERTIES RoundTrip
