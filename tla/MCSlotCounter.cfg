\* Four actors compete for two slots.
CONSTANTS
  a1 = a1
  a2 = a2
  a3 = a3
  a4 = a4
  Actors = {a1, a2, a3, a4}
  MaxQueue = 2
SPECIFICATION Spec
SYMMETRY ActorSymmetry
PROPERTIES RefusedWhenFull ImplementsSlots
