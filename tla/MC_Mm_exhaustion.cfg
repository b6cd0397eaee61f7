CONSTANTS
  m1 = m1
  m2 = m2
  m3 = m3
  t1 = t1
  t2 = t2
  d1 = d1
  d2 = d2
  f1 = f1
  NoFile = NoFile
  NoPage = NoPage
  NoVma = NoVma
  NoMm = NoMm
  Mms <- MCMms
  Threads <- MCThreads
  Vas <- MCVas
  Frames <- MCFrames
  Data <- MCData
  VmaChoices <- MCVmaChoices
  BrkValues <- MCBrkValues
  PhysVirtOffset = 8
  MaxId = 3
  LedgerStoresPhys = FALSE
SPECIFICATION Spec
SYMMETRY MCSymmetry
INVARIANT
  NoPanicOnExhaustion
