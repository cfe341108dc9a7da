SPECIFICATION Spec
CONSTANTS
    k1 = k1
    k2 = k2
    k3 = k3
    k4 = k4
    startup = startup
    bot = bot
    nobody = nobody
    d1 = d1
    d2 = d2
    None = None
    Startup = startup
    Call = {k1, k2, k3, k4}
    Mxid = {bot, nobody}
    Unparsable = {nobody}
    DeviceId = {d1, d2}
    Who <- MCWho
    Wanted <- MCWanted
SYMMETRY Symmetry
INVARIANTS
    TypeOK
    UndisturbedCallsAgree
    UndisturbedDeviceGetsItsLoop
    UndisturbedLoopIsTheOnlyOne
CHECK_DEADLOCK FALSE
