INIT IpPassInit
NEXT IpNext
INVARIANT IpTypeOK
INVARIANT CompareIpsMeansSameAddress
INVARIANT NormalizeIsStable
CHECK_DEADLOCK FALSE
