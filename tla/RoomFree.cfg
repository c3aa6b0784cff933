SPECIFICATION Spec
CONSTANTS
    s1 = s1
    s2 = s2
    s3 = s3
    alice = alice
    bob = bob
    carol = carol
    NoAccount = NoAccount
    Sessions = {s1, s2}
    Accounts = {alice, bob}
    InitAccount <- OwnAccount
    LoginAs <- NoLogins
    Names = {"lobby"}
    Packets <- Moving
    MayDrop = {}
    SendMayFail = {}
    RoomGC = TRUE
    MaxPlayers = 2
    MaxRooms = 2
    MaxJobs = 2
    MaxLogins = 0
INVARIANTS
    NoUseAfterFree
