--------------------------- MODULE MCUploadClient ---------------------------
(* Values for the configurations that check UploadClient.                  *)
EXTENDS UploadClient, TLC

CONSTANTS u1, h1, h2, h3, r1, n1, w1, w2

WorkerSymmetry == Permutations(Workers) \cup Permutations(Handlers)
=============================================================================
