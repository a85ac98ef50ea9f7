SPECIFICATION Spec
CONSTANTS
    a1 = a1
    a2 = a2
    issuer = issuer
    other = other
    k1 = k1
    k2 = k2
    pq = pq
    main = main
    bare = bare
    malformed = malformed
    absent = absent
    Agents <- TwoAgents
    Dids <- TwoDids
    Fragments = {main}
    NoFragment = bare
    RawKeys <- ThreeKeys
    KeyAlgorithm <- Sizes
    Malformed = malformed
    None = absent
    Supported = {"Ed25519", "ML-DSA-65"}
    Second = 2
    MaxValidity = 5
    Millionth = 2
    MaxScore = 4
    Proofs <- ProofSet
    KeyLists <- ListedKeys
    SecondLists <- SecondAuthorities
    Clocks = {4}
INVARIANTS
    TypeOK
    IssuerVouches
    SignedTermsHold
    SecondAuthorityVouches
    FirstFailureDecides
CHECK_DEADLOCK FALSE
