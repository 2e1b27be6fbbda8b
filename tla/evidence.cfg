SPECIFICATION Spec
CONSTANTS
  Life = 2
  Minimum = 1
  MaxFlows = 2
  MaxRows = 2
  MaxOddities = 2
PROPERTIES
  
  StrongNeedsFallback
  SupportIsKept
  
