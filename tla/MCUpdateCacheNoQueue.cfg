\* Two handlers: the server runs without the receiver queue.
SPECIFICATION Spec
CONSTANTS
  Client = {c1, c2}
  Update = {u1}
  Handler = {h1, h2}
  MinClients = 1
  ByteRange = 3
  CountRange = 3
  MaxEntries = 2
CONSTRAINT MCRegular
SYMMETRY MCSymmetry
INVARIANTS SlotsAreCompact MarkedIsUnused
PROPERTY ImplementsRegistration
