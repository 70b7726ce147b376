------------------------- MODULE MCMultipartWindow -------------------------
(* Small instances of MultipartWindow.                                      *)
EXTENDS MultipartWindow, TLC

CONSTANTS w1, w2, w3, v1, v2

\* Requests and bodies are interchangeable in the safety runs.
Symm == Permutations(Writers) \cup Permutations(Versions)
=============================================================================
