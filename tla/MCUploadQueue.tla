--------------------------- MODULE MCUploadQueue ---------------------------
EXTENDS UploadQueue, TLC

\* Sessions are interchangeable: no action or property names one of them.
SessionSymmetry == Permutations(Sessions)
=============================================================================
