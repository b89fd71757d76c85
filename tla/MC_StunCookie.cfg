CONSTANTS
  Requests <- MC_Requests
  SourceIps <- MC_SourceIps
  SourcePorts <- MC_SourcePorts
  Platforms <- LittleEndianUnsigned

SPECIFICATION StunSpec

INVARIANT CookieSelectsXorMapping
