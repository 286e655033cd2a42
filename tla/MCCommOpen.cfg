\* Whether open's result 0 means that the file is open.
SPECIFICATION CommSpec
CONSTANTS
    Texts <- MCTexts
    Lengths = {2}
    Offsets = {1}
    Delays = {0}
    Pad = "0"
    Other = "x"
    MaxLen = 3
    MaxOthers = 1
    MaxErrors = 0
INVARIANTS OpenedIsOpen
CHECK_DEADLOCK FALSE
