SPECIFICATION Spec
CONSTANTS
    More = 4
    Word = 128
    MaxGroups = 4
    Slash = 1
    Intents <- MCIntents
    Others <- MCOthers
    ToLower <- MCToLower
    ClientAddr <- MCClientAddr
    Stamp <- MCStamp
    Signature <- MCSignature
    StatusText <- MCStatusText
    PingTime = 11
INVARIANTS
    FramingKept
    ClientsUnderstood
    ReadersAgree
    AddressesKept
CHECK_DEADLOCK FALSE
