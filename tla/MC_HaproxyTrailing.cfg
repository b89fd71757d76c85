SPECIFICATION TrailingSpec
INVARIANT StripsProxyLine
CHECK_DEADLOCK FALSE
