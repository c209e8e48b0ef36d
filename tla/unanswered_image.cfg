\* An image whose POST was billed and not answered gives its reservation back.
SPECIFICATION Spec
CONSTANTS
    image = image
    video = video
    images = images
    clips = clips
    checker = checker
    Jobs = {image, video}
    Tasks = {images, clips, checker}
    Modality <- ImageAndVideo
    Estimate <- Prices
    MediaCap = 2
    CreativeCap = 4
    TextSpent = 1
    Submits <- NodeWork
    Checks <- CheckWork
    NoJob = NoJob
    MaxPosts = 2
INVARIANTS EverythingWithinCaps
CHECK_DEADLOCK FALSE
