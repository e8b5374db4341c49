------------------------- MODULE MCYoutubeIngestion -------------------------
(* Small instances of YoutubeIngestion for TLC. *)
EXTENDS YoutubeIngestion, TLC

CONSTANTS u1, u2, c1, c2, a1, w1

OneUser      == {u1}
TwoUsers     == {u1, u2}
OneChannel   == {c1}
OneApiSync   == {a1}
OneWorker    == {w1}
\* The upserts after the channel are alike, but for the content items and for
\* those that may be left out, here by request and job.
ThreeTables ==
    [channel |-> "demographics", demographics |-> "content",
     content |-> "delete"]
=============================================================================
