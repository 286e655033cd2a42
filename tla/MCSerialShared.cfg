\* Two threads share the device.  Writers may wait forever here, see
\* CallReturnsUnlessLost, so a state without a next step is no error.
SPECIFICATION FairSpec
CONSTANTS
    Callers = {c1, c2}
    Owner = c1
    Bytes = {"a"}
    BufSize = 1
    Payloads <- MCOnePayload
    ReadSizes = {1}
    FreshLens <- MCFreshOne
    Bauds = {921600}
    DefaultBaud = 921600
    Junk = junk
    MaxCalls = 2
INVARIANTS AnswersAccounted CommandWakesWorker NoUseAfterFree
PROPERTIES CallReturnsUnlessLost DestroyReturns
CHECK_DEADLOCK FALSE
