CONSTANTS
  Requests <- MC_Requests
  SourceIps <- IPv4Sources
  SourcePorts <- MC_SourcePorts
  Platforms <- LittleEndianSigned

SPECIFICATION StunSpec

INVARIANT XorMappedAddressDecodes
