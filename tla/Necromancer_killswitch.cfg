SPECIFICATION SpecH
CONSTANTS
  k1 = k1
  k2 = k2
  m1 = m1
  m2 = m2
  h0 = h0
  h1 = h1
  s1 = s1
  s2 = s2
  o1 = o1
  o2 = o2
  None = None
  Keys = {k1, k2}
  Hwids = {h1}
  EmptyHwid = h0
  Signers = {}
  Objects = {o1}
  Vouched <- NoneVouched
  MaskOf <- MCMaskOf
  PadLengths = {}
  TicksPerSecond = 1
  Mages = {m1, m2}
  KeyOf <- TwoKeyOf
  AntiDebug <- TwoAntiDebug
  MaxTamper <- TwoMaxTamper
  Ttls = {}
  MaxCorpses = 1
  MaxTime = 0
  MaxFlips = 0
  MaxTrail = 4
INVARIANTS KeyInv CountsConsecutive
PROPERTIES DeathIsFinal DeathHasCause ImplementsKillSwitch
