SPECIFICATION Spec
CONSTANTS
    s1 = s1
    s2 = s2
    s3 = s3
    alice = alice
    bob = bob
    carol = carol
    NoAccount = NoAccount
    Sessions = {s1, s2, s3}
    Accounts = {alice, bob}
    InitAccount <- ThirdIsNew
    LoginAs <- NoLogins
    Names = {"lobby", "arena"}
    Packets <- Moving
    MayDrop = {}
    SendMayFail = {s2}
    RoomGC = TRUE
    MaxPlayers = 1
    MaxRooms = 2
    MaxJobs = 2
    MaxLogins = 0
INVARIANTS
    RoomPointerSafe
    RegistryOwnsRooms
    NoForgottenRoom
PROPERTIES
    OnlyRejoinOverfills
