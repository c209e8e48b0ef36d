----------------------------- MODULE MCMediaJobs -----------------------------
(* One image and one video, as nodes 4.4.2 and 4.4.4 make them side by side. *)
EXTENDS MediaJobs, TLC

CONSTANTS image, video, images, clips, checker

ImageAndVideo == (image :> "image") @@ (video :> "video")
Prices == (image :> 1) @@ (video :> 2)
NodeWork == (images :> {image}) @@ (clips :> {video}) @@ (checker :> {})
\* Two executors in one run, whose nodes submit the same image.
SharedWork == (images :> {image}) @@ (clips :> {video}) @@ (checker :> {image})
CheckWork == (images :> {image}) @@ (clips :> {}) @@ (checker :> {video})

=============================================================================
