SPECIFICATION CredentialsSpec
CONSTANTS
  n1 = n1
  n2 = n2
  n3 = n3
  b1 = b1
  b2 = b2
  Issued = Issued
  Rotations = {n1, n2, n3}
  Calls = {b1, b2}
  Bearer = TRUE
  MongoFails = TRUE
SYMMETRY RequestSymmetry
 
INVARIANT ToldAreWhole
CHECK_DEADLOCK FALSE
