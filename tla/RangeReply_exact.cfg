SPECIFICATION RSpec
CONSTANTS
    MaxU64 = 6
    TicksPerSecond = 2
    Headers <- MCHeaders
    MTimes = {0, 1, 2, 3, 4, 5}
INVARIANTS
    RangeExact
    BodyAsConditioned
