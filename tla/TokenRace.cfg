SPECIFICATION Spec
CONSTANTS
  c1 = c1
  c2 = c2
  None = None
  Calls = {c1, c2}
  Window = 2
  MaxLatency = 1
  Undecoded = FALSE
SYMMETRY Symmetry
INVARIANT
  CarriesGrantedToken
