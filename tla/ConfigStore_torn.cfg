SPECIFICATION Spec
CONSTANTS
  Owners <- AllOwners
  Updates <- BalancedUpdates
PROPERTIES
  LoadedIsGenuine
