------------------------------ MODULE MCContent ------------------------------
(***************************************************************************)
(* Content delivery, part by part: the content cache, the reassembly of a  *)
(* download, the lane scheduler, the residency tracker and the transfer of *)
(* resource files.  A behaviour picks the part that moves and the others   *)
(* stay as they began.  Three lanes stand for the real ones and keep the   *)
(* order of their weights.                                                 *)
(***************************************************************************)
EXTENDS ContentCache, Transfer, Residency

CONSTANTS
    a, b, c, l, v2              \* files and a version of one

MCWeight(lane) == 3 - lane

(* File a is as long as a datagram and has another version as long and one *)
(* longer, b is longer than a datagram, l longer than a chunk, c is empty. *)
MCSize(f, v) ==
    IF f = c THEN 0 ELSE IF f = l THEN 3 ELSE IF f = b \/ v = v2 THEN 2 ELSE 1

VARIABLE moving     \* the part that moves

contentVars == <<cacheVars, transferVars, laneVars, residencyVars, moving>>

ContentInit ==
    /\ CacheInit /\ TransferInit /\ LaneInit /\ ResidencyInit
    /\ moving \in {"cache", "download", "lanes", "residency", "transfer"}

ContentNext ==
    \/ /\ moving = "cache" /\ CacheNext
       /\ UNCHANGED <<transferVars, laneVars, residencyVars, moving>>
    \/ /\ moving = "download" /\ DownloadNext
       /\ UNCHANGED <<cacheVars, cur, phase, result, cache, content, edits, requests, replies>>
       /\ UNCHANGED <<laneVars, residencyVars, moving>>
    \/ /\ moving = "lanes" /\ LaneNext
       /\ UNCHANGED <<cacheVars, transferVars, residencyVars, moving>>
    \/ /\ moving = "residency" /\ ResidencyNext
       /\ UNCHANGED <<cacheVars, transferVars, laneVars, moving>>
    \/ /\ moving = "transfer" /\ TransferNext
       /\ UNCHANGED <<cacheVars, laneVars, residencyVars, moving>>

(* The caller keeps its clock moving and polls its requests.  The bridge   *)
(* may answer as it likes and need never confirm: only the polls that act  *)
(* without its confirmation are fair.  The loop that fetches a file is a   *)
(* task with a timer on every wait. *)
ContentFairness ==
    /\ WF_residencyVars(moving = "residency" /\ ResidencyTick)
    /\ \A asset \in Assets :
         WF_residencyVars(moving = "residency" /\ poll_overdue(asset))
    /\ WF_transferVars(moving = "transfer" /\ ClientStep)

ContentSpec == ContentInit /\ [][ContentNext]_contentVars /\ ContentFairness

(* No wait for content is without end: the client's fetch of a file ends   *)
(* over any network, and a residency request ends against a bridge that    *)
(* never confirms.                                                         *)
DeliveryEnds == FetchEnds /\ RequestEnds
=============================================================================
