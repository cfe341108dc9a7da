SPECIFICATION Spec
CONSTANTS
    k1 = k1
    k2 = k2
    k3 = k3
    k4 = k4
    startup = startup
    bot = bot
    nobody = nobody
    d1 = d1
    d2 = d2
    None = None
    Startup = startup
    Call = {k1}
    Mxid = {bot}
    Unparsable = {}
    DeviceId = {d1}
    Who <- MCWho
    Wanted <- MCWanted
INVARIANTS
    OneLoopPerDeviceId
CHECK_DEADLOCK FALSE
