SPECIFICATION Spec
CONSTANTS
  Owners <- AllOwners
  Updates <- SingleUpdates
INVARIANTS
  TypeOK
  StoreMatchesRam
PROPERTIES
  SurvivesRestart
  LoadedIsGenuine
  ImplementsRegister
