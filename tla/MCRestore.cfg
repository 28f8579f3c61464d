CONSTANTS
  DeviceIds = {1, 2, 3, 4}
  ActivityIds = {11, 12, 13}
  MaxEdits = 2
  Bundles <- MCBundles
  Hubs <- MCHubs
SPECIFICATION Spec
CHECK_DEADLOCK FALSE
INVARIANTS ReferencesKept OneStrayAtMost 
PROPERTIES CopiesBundle
