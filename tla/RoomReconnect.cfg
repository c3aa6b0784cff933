SPECIFICATION Spec
CONSTANTS
    s1 = s1
    s2 = s2
    s3 = s3
    alice = alice
    bob = bob
    carol = carol
    NoAccount = NoAccount
    Sessions = {s1, s2, s3}
    Accounts = {alice, bob}
    InitAccount <- ThirdIsNew
    LoginAs <- ThirdAsAlice
    Names = {"lobby"}
    Packets <- Returning
    MayDrop = {s1}
    SendMayFail = {}
    RoomGC = FALSE
    MaxPlayers = 2
    MaxRooms = 1
    MaxJobs = 1
    MaxLogins = 1
INVARIANTS
    TypeOK
    MembersLoggedIn
    InGameHasTwo
    ReadyOnlyWhileWaiting
    EmptyMarkSound
PROPERTIES
    ContractKept
