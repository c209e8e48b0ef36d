SPECIFICATION Spec
CONSTANTS
    image = image
    video = video
    images = images
    clips = clips
    checker = checker
    Jobs = {image, video}
    Tasks = {images, clips, checker}
    Modality <- ImageAndVideo
    Estimate <- Prices
    MediaCap = 2
    CreativeCap = 4
    TextSpent = 1
    Submits <- NodeWork
    Checks <- CheckWork
    NoJob = NoJob
    MaxPosts = 2
INVARIANTS TypeOK ReservedExact BilledWithinCaps BlockedIsUnspent CostIsBill
PROPERTIES PaidWorkIsControlled
CHECK_DEADLOCK FALSE
