SPECIFICATION Spec
CONSTANTS
    legal = legal
    heir = heir
    admin = admin
    first = first
    second = second
    g1 = g1
    g2 = g2
    Claims = {}
    Actors = {}
    Duties = {}
    NoOne = NoOne
    MaxSignatures = 0
    MaxWordings = 0
    Guidelines = {g1, g2}
    NoGuideline = NoGuideline
    Publishers = {first, second}
    Publishes <- Shelf
    Amendments = {m1, m2}
    NoAmendment = NoAmendment
    Reviewers = {r}
    MaxMajor = 5
INVARIANT LicensedWasApproved
PROPERTY RulebookKept
CHECK_DEADLOCK FALSE
