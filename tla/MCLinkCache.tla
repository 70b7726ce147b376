----------------------------- MODULE MCLinkCache -----------------------------
(* Small instances of LinkCache.                                            *)
EXTENDS LinkCache, TLC

CONSTANTS c1, c2, raw, crypt, t1

\* The link of crypt is built on the one of raw.
MCBelow == [k \in Files |-> IF k = crypt THEN raw ELSE None]
MCClosed == 0 - 5
Symm == Permutations(Callers)
MCTypeOf == [c \in Callers |-> [k \in Files |-> t1]]
=============================================================================
