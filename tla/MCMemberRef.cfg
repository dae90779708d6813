SPECIFICATION CxxSpec
CONSTANTS
  Header = {1, 2, 3, 4}
  Proxy <- ProxyOf
  MaxDecs = 3
INVARIANT MemberRefSufficient
CHECK_DEADLOCK FALSE
