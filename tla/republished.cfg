\* One person publishes a rulebook, then a second one, then the first again.
SPECIFICATION Spec
CONSTANTS
    legal = legal
    heir = heir
    admin = admin
    first = first
    second = second
    g1 = g1
    g2 = g2
    Claims = {}
    Actors = {}
    Duties = {}
    NoOne = NoOne
    MaxSignatures = 0
    MaxWordings = 0
    Guidelines = {g1, g2}
    NoGuideline = NoGuideline
    Publishers = {first}
    Publishes <- BothShelves
    Amendments = {}
    NoAmendment = NoAmendment
    Reviewers = {}
    MaxMajor = 5
PROPERTY SupersededStays
CHECK_DEADLOCK FALSE
