SPECIFICATION MCSpec
CONSTANTS
  tv = tv
  lamp = lamp
  Slots <- MCSlots
  Names <- MCNames
  DevIds <- MCDevIds
  MaxEvents = 2
  MaxRefs = 1
  MaxTrouble = 1
SYMMETRY Symmetry
INVARIANTS
  RefsFireTheirEvent
  BrandIsEarned
PROPERTY EventsDieByDeletion
CHECK_DEADLOCK FALSE
