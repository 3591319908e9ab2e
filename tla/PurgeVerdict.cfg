SPECIFICATION Spec
CONSTANTS
  Ppm <- Readings
  PpmMod = 16
  Margin = 1
  Displace = 1
  Hold = 1
  Horizon = 3
  Requests <- SomeRequests
PROPERTIES
  VerdictPublished
