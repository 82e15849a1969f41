SPECIFICATION PartsSpec
CONSTANTS
    n1 = n1
    n2 = n2
    n3 = n3
    n4 = n4
    Names = {n1, n2, n3, n4}
    MaxParts = 3
    Addrs = {0, 1, 2, 4}
    Sizes = {1, 2, 3}
    Capacities = {4, 6}
    AddrWidth = 4
INVARIANTS AscendingDisjoint CapacityExists
CHECK_DEADLOCK FALSE
