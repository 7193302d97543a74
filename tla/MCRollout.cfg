SPECIFICATION FairSpec
CONSTANTS
  Missing = Missing
  Garbled = Garbled
  Unset = Unset
  Node = {n1}
  Installs <- MCInstalls
  Specs <- MCSpecs
  Policies <- MCPolicies
  Unreadable <- MCUnreadable
  Helms <- MCHelms
  DefaultRuntimeHasGPU = FALSE
  MaxEvents = 2
INVARIANTS
  PodsCoherent
  TemplatesCurrent
  DaemonsAgree
PROPERTIES
  FleetConverges
  NeverSilentlyStale
CHECK_DEADLOCK FALSE
