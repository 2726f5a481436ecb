CONSTANTS
  Here = here
  There = there
  Filings = {f, g}
  Index = {1, 2}
  Openers = {p, q}
  Latest = 3
INIT Init
NEXT Next
CONSTRAINT Bounds
SYMMETRY Renamed
INVARIANTS SchemaSound RestoreSafe ImportSafe
CHECK_DEADLOCK FALSE
