INIT BracketInit
NEXT IpNext
INVARIANT NormalizeRejectsNonIpv6
CHECK_DEADLOCK FALSE
