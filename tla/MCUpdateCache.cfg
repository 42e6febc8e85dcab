\* Two updates and two clients, one of which fits into an array.
SPECIFICATION Spec
CONSTANTS
  Client = {c1, c2}
  Update = {u1, u2}
  Handler = {h1}
  MinClients = 1
  ByteRange = 3
  CountRange = 3
  MaxEntries = 2
CONSTRAINT MCRegular
SYMMETRY MCSymmetry
INVARIANTS
  TypeOK
  StoredOnce
  GoneIsUnlisted
  CountsWithoutMishap
