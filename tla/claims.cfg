SPECIFICATION Spec
CONSTANTS
    legal = legal
    heir = heir
    admin = admin
    first = first
    second = second
    g1 = g1
    g2 = g2
    Claims = {c}
    Actors = {legal, heir, admin}
    Duties <- Handover
    NoOne = NoOne
    MaxSignatures = 2
    MaxWordings = 1
    Guidelines = {}
    NoGuideline = NoGuideline
    Publishers = {}
    Publishes = {}
    Amendments = {}
    NoAmendment = NoAmendment
    Reviewers = {}
    MaxMajor = 2
INVARIANTS TypeOK SignaturesStand
CHECK_DEADLOCK FALSE
