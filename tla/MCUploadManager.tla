-------------------------- MODULE MCUploadManager --------------------------
(* UploadManager on small instances: what the configurations need.         *)
EXTENDS UploadManager, TLC

CONSTANTS u1, u2, h1, h2, h3, r1, r2, n1

\* Upload ids, handlers and folders are interchangeable; safety runs only.
Symmetry ==
  Permutations(UploadIDs) \cup Permutations(Handlers) \cup Permutations(Roots)
=============================================================================
