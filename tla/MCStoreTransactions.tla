-------------------------- MODULE MCStoreTransactions --------------------------
(***************************************************************************)
(* Two open transactions on two uploads of the same bytes and three names. *)
(***************************************************************************)
EXTENDS StoreTransactions

CONSTANTS c1, mp4, j1, j2, s1, s2, s3

MCUpload == {[source |-> c1, profile |-> "upload-finalize", ext |-> mp4]}
MCAsked == <<<<j1, s1>>, <<j2, s2>>>>
MCRenamed == {<<s1, s3>>, <<s3, s2>>}
MCReported == {<<"complete", j1>>, <<"fail", j1>>, <<"complete", j2>>}
================================================================================
