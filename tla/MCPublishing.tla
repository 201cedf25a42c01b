---------------------------- MODULE MCPublishing ----------------------------
(* Uploads of one name, which are alike until they meet.                   *)
EXTENDS Publishing, TLC

CONSTANTS u1, u2, u3, v1, d1, d2, n1

UploadSymmetry == Permutations(Uploads) \cup Permutations(Dirs)
=============================================================================
