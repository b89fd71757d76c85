CONSTANT Names <- MC_Names
CONSTANT Nil = Nil
CONSTANT Schemes <- MC_Schemes
CONSTANT SipUsers <- MC_SipUsers
CONSTANT TelUsers <- MC_TelUsers
CONSTANT HeapBytes <- MC_HeapBytes
CONSTANT Requests <- MC_Requests
CONSTANT SourceIps <- MC_SourceIps
CONSTANT SourcePorts <- MC_SourcePorts
CONSTANT Platforms <- MC_Platforms
CONSTANT Chunks <- MC_Chunks
CONSTANT MaxFed <- MC_MaxFed
SPECIFICATION LibrarySpec
INVARIANT LibraryTypeOK
INVARIANT AcceptsProxyLines
INVARIANT ReportsSourceEndpoint
INVARIANT AcceptsFlowTokens
INVARIANT ReportsFlowEndpoint
INVARIANT ResponseFraming
INVARIANT MappedAddressIsSource
INVARIANT KnownHeadersCanonical
INVARIANT UnescapeStaysInSpan
INVARIANT UnmaskRecoversPayload
INVARIANT ValidateAnswersForStream
PROPERTY UserPartRefinement
CHECK_DEADLOCK FALSE
