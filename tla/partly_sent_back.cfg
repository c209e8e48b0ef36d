\* One signature over two claims, one of which a policy change affects.
SPECIFICATION Spec
CONSTANTS
    legal = legal
    heir = heir
    admin = admin
    first = first
    second = second
    g1 = g1
    g2 = g2
    Claims = {c, d}
    Actors = {legal, admin}
    Duties <- Office
    NoOne = NoOne
    MaxSignatures = 1
    MaxWordings = 0
    Guidelines = {g1, g2}
    NoGuideline = NoGuideline
    Publishers = {first}
    Publishes <- BothShelves
    Amendments = {m}
    NoAmendment = NoAmendment
    Reviewers = {}
    MaxMajor = 2
INVARIANT SignaturesStand
CHECK_DEADLOCK FALSE
