SPECIFICATION FairSpec
CONSTANTS
    b1 = b1
    b2 = b2
    ui = ui
    Broker = {b1, b2}
    UI = ui
    Devices = 2
    MaxCommands = 2
    MaxDown = 1
INVARIANTS TypeOK OwnAddresses AnswerFromTarget
PROPERTY TalkEnds
CHECK_DEADLOCK FALSE
