\* One thread uses the device: create, any mix of calls, destroy.  A write may wait
\* forever after a read that timed out, see CallReturnsUnlessLost.
SPECIFICATION FairSpec
CONSTANTS
    Callers = {c1}
    Owner = c1
    Bytes = {"a", "b"}
    BufSize = 2
    Payloads <- MCPayloads
    ReadSizes = {1, 2}
    FreshLens <- MCFreshLens
    Bauds = {921600, 115200}
    DefaultBaud = 921600
    Junk = junk
    MaxCalls = 4
INVARIANTS TypeOK LoneWriteNotLost LoopbackExact OverrunIsAsked
PROPERTIES CallReturnsUnlessLost
CHECK_DEADLOCK FALSE
