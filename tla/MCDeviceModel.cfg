SPECIFICATION Spec
CONSTANTS
  Devices <- MCDevices
  Root = "root"
  Parent <- MCParent
  Dma = {"disk", "bus", "drive"}
  Vital = {"port", "disk"}
  Configs <- MCConfigs
INVARIANTS NoRunaway StartedKeepsMemory ParentStays ParentActive ReturnsTruth DmaQuiet
PROPERTIES ProbedOnce VitalStays Returns
