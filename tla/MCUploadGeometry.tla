-------------------------- MODULE MCUploadGeometry --------------------------
(* UploadGeometry with the four limits scaled down to a few bytes.         *)
EXTENDS UploadGeometry

\* Absent, below, between and above every limit.
SmallRequests == -1 .. 9
=============================================================================
