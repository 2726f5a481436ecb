SPECIFICATION Spec
CONSTANTS
  Workers = {w1, w2}
  Accessions = {a1}
  Keys = {a1}
  Key <- OwnKey
  Slices = 1
PROPERTIES
  SweepSparesTheNew
