SPECIFICATION Spec
CONSTANTS
  Readers = {r1}
  Fields = {met, fly}
  met = met
  fly = fly
  Changes <- MCChanges
  Latch = Latch
  Retries = 1
  MaxUpdates = 7
INVARIANTS ReferenceInv NoFalseRollover DepthSuffices
PROPERTIES ImplementsAtomicReference
