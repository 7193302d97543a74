SPECIFICATION Spec
CONSTANTS
  Missing = Missing
  Garbled = Garbled
  Toolkits <- MCToolkits
  DevicePlugins <- MCDevicePlugins
  Labels <- MCLabels
  CSVLists <- MCCSVLists
  Statuses <- MCStatuses
INVARIANTS
  VersionGateExact
