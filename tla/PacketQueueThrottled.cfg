SPECIFICATION FairSpec
CONSTANTS
    enum = enum
    login = login
    who = who
    move = move
    trade = trade
    ack = ack
    bad = bad
    enum1 = enum1
    login1 = login1
    who1 = who1
    move1 = move1
    move2 = move2
    trade1 = trade1
    ack1 = ack1
    bad1 = bad1
    NoPacket = NoPacket
    Packets = {who1, move1}
    Opcodes = {enum, login, who, move, trade, ack, bad}
    OpcodeOf <- MCOpcodeOf
    Status <- MCStatus
    Place <- MCPlace
    PerSecond <- MCPerSecond
    Limited = {who}
    CharEnum = enum
    PlayerLogin = login
PROPERTIES
    UpdateEnds
