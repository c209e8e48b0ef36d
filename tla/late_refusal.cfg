\* A task is refused, another one reserves and POSTs, the refusal is written last.
SPECIFICATION Spec
CONSTANTS
    image = image
    video = video
    images = images
    clips = clips
    checker = checker
    Jobs = {image, video}
    Tasks = {images, clips, checker}
    Modality <- ImageAndVideo
    Estimate <- Prices
    MediaCap = 2
    CreativeCap = 4
    TextSpent = 1
    Submits <- SharedWork
    Checks <- CheckWork
    NoJob = NoJob
    MaxPosts = 2
INVARIANT BlockedIsUnspent
CHECK_DEADLOCK FALSE
