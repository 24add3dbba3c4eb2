SPECIFICATION Spec
CONSTANTS
  None = None
  a1 = a1
  a2 = a2
  known = known
  other = other
  Admins <- TwoAdmins
  Endpoints <- TwoEndpoints
  Optional <- OneOptional
  AdminPath = other
  AuthDisabled = FALSE
  ApiConfigs <- TwoConfigs
  DefaultApis <- KnownOpen
  DefaultPolicies <- AskPermission
  Toggled <- Stop
  Settings <- Maintenance
  Users <- SomeUsers
  MaxChanges = 3
  MaxFailures = 1
  MaxCrashes = 1
INVARIANT AcknowledgedLasts
INVARIANT ShutdownStopsAll
SYMMETRY Perms
CHECK_DEADLOCK FALSE
