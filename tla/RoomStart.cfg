SPECIFICATION Spec
CONSTANTS
    s1 = s1
    s2 = s2
    s3 = s3
    alice = alice
    bob = bob
    carol = carol
    NoAccount = NoAccount
    Sessions = {s1, s2, s3}
    Accounts = {alice, bob, carol}
    InitAccount <- OwnAccount
    LoginAs <- NoLogins
    Names = {"lobby"}
    Packets <- Playing
    MayDrop = {}
    SendMayFail = {}
    RoomGC = FALSE
    MaxPlayers = 2
    MaxRooms = 1
    MaxJobs = 2
    MaxLogins = 0
PROPERTIES
    StartNeedsAllReady
