SPECIFICATION Spec
CONSTANTS
    legal = legal
    heir = heir
    admin = admin
    first = first
    second = second
    g1 = g1
    g2 = g2
    Claims = {c}
    Actors = {legal, admin}
    Duties <- Office
    NoOne = NoOne
    MaxSignatures = 1
    MaxWordings = 0
    Guidelines = {g1, g2}
    NoGuideline = NoGuideline
    Publishers = {first, second}
    Publishes <- Shelf
    Amendments = {m}
    NoAmendment = NoAmendment
    Reviewers = {r}
    MaxMajor = 5
INVARIANT LicensedWasApproved
PROPERTY RulebookKept
CHECK_DEADLOCK FALSE
