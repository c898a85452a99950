--------------------------- MODULE MCShareMetadata ---------------------------
(* Small instances of ShareMetadata. *)
EXTENDS ShareMetadata, TLC

CONSTANTS s1, s2, s3, ann, bob, j1, j2, x, y, jpg, mp4

\* One source, kept as it is or transcoded; two digests can result.
MCUpload == {[source |-> x, profile |-> "mp4-web", ext |-> mp4]}

Symmetric == Permutations(Slug) \cup Permutations(Owner) \cup Permutations(JobId)
=============================================================================
