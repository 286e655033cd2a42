SPECIFICATION Spec
CONSTANTS
    Workers = {w4, w5}
    Main = main
    Nobody = nobody
    Consumers = {ca, cb}
    Producer = pc
    Count = 3
    Clients = {"a", "b", "c"}
    PortOf <- MCPortOf
    Args <- MCArgs
    CR = "CR"
    LF = "LF"
    Quit <- MCQuit
    NoClient = "none"
    Data <- MCTexts
    Amounts = {0, 2}
    Old <- MCOld
    MaxSize = 3
    Texts <- MCTexts
    Lengths = {2, 3}
    Offsets = {1}
    Delays = {0, 1}
    Pad = "0"
    Other = "x"
    MaxLen = 3
    MaxOthers = 2
    MaxErrors = 1
INVARIANTS
    TypesOK
    NoSleepThroughActivation
    WorkIsAskedFor
    FreedAfterUse
    AnswersOwnLines
    AcceptedIsKept
    ReadIsExact
PROPERTIES
    ActivationTaken
    ProgramEnds
    ClientsServed
    KeepsOldContents
    FileReadReturns
CHECK_DEADLOCK FALSE
