---------------------------- MODULE MCPublicShare ----------------------------
(* Small instances of PublicShare. *)
EXTENDS PublicShare, TLC

CONSTANTS s1, s2, s3, ann, j1, j2, c1, c2, mp4, v1, v2

\* One video, transcoded; two digests can result.
MCUpload == {[source |-> c1, profile |-> "mp4-web", ext |-> mp4]}

Symmetric == Permutations(Slug) \cup Permutations(JobId) \cup Permutations(Visitor)
=============================================================================
