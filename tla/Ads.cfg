SPECIFICATION AdsSpec
SYMMETRY Symmetric
CONSTANTS
  r1 = r1
  r2 = r2
  h1 = h1
  h2 = h2
  Requests = {r1, r2}
  Tasks = {h1, h2}
  NoAd = NoAd
  MaxForgotten = 2
INVARIANTS
  AdsTypeOK
  OnePost
PROPERTIES
  RecordedIsLast
