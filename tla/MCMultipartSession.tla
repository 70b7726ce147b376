------------------------- MODULE MCMultipartSession -------------------------
(* Small instances of MultipartSession.                                     *)
EXTENDS MultipartSession, TLC

CONSTANTS r1, r2, alice, anna, u1, va, vb

\* alice and anna are two clients of one user; anna's file differs from
\* alice's after its first chunk, or everywhere.
MCUserOf == [c \in Clients |-> u1]
MCFileOf == [c \in Clients |-> [i \in Chunks |-> IF c = anna /\ i > 0 THEN vb ELSE va]]
MCOtherFile == [c \in Clients |-> [i \in Chunks |-> IF c = anna THEN vb ELSE va]]
MCHashOf == [c \in Clients |-> IF c = anna THEN NoHash ELSE c]
NoHashes == [c \in Clients |-> NoHash]
\* A chunk index below zero is a legal header value.
MCIndexes == {0 - 1, 0, 1}

Symm == Permutations(Requests)
=============================================================================
