--------------------------- MODULE MCShareProcessor ---------------------------
(* Small instances of ShareProcessor. *)
EXTENDS ShareProcessor, TLC

CONSTANTS s1, s2, s3, ann, bob, j1, j2, j3, w1, w2, r1, r2, c1, c2, c3, jpg, mp4, bin

Video == [source |-> c1, profile |-> "mp4-web", ext |-> mp4]
OtherVideo == [source |-> c2, profile |-> "mp4-web", ext |-> mp4]
Plain == [source |-> c2, profile |-> "upload-finalize", ext |-> bin]

\* A video becomes c3 or stays what it was; a file kept as it is keeps its digest.
MCUpload == {Video, Plain}
MCResults == (Video :> {c3}) @@ (Plain :> {Plain.source})

\* Every upload carries a file of its own.
DistinctUploads == (j1 :> Video) @@ (j2 :> Plain)

\* The same video is uploaded over and over; the same plain file.
SameVideo == [j \in JobId |-> Video]
SamePlain == [j \in JobId |-> Plain]

Symmetric == Permutations(Slug) \cup Permutations(Worker) \cup Permutations(Request)
AllSymmetric == Symmetric \cup Permutations(JobId)
=============================================================================
