\* The spend figure after a poll resolved a job that was checked meanwhile.
SPECIFICATION Spec
CONSTANTS
    image = image
    video = video
    images = images
    clips = clips
    checker = checker
    Jobs = {image, video}
    Tasks = {images, clips, checker}
    Modality <- ImageAndVideo
    Estimate <- Prices
    MediaCap = 2
    CreativeCap = 4
    TextSpent = 1
    Submits <- NodeWork
    Checks <- CheckWork
    NoJob = NoJob
    MaxPosts = 2
INVARIANTS SpentOnce
CHECK_DEADLOCK FALSE
