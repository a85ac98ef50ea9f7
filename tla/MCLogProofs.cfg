SPECIFICATION Spec
CONSTANTS
    logKey = logKey
    otherKey = otherKey
    MaxSize = 6
    KeyIds = {logKey, otherKey}
    KeySets = {{}, {logKey}, {otherKey}}
    Claims <- ClaimSet
    Digests <- DigestSet
    Logs <- LogSet
INVARIANTS
    TypeOK
    HonestProofsVerify
    AcceptedLeafIsLogged
    AcceptedHeadsAreOneLog
    JudgedUnderVouchedHeads
    ClimbStops
    ClientsAgree
CHECK_DEADLOCK FALSE
