SPECIFICATION Spec
CONSTANTS
  MaxTries = 3
  MaxInFlight = 4
  MaxLost = 2
INVARIANTS
  BoundIsUsable
  RegisteredWasAccepted
PROPERTIES
  RegistrationReported
  UpdatesGoOn
