------------------------------ MODULE LinkLease ------------------------------
(***************************************************************************)
(* What internal/op promises of a link whose resources have to stay open    *)
(* while it is used (internal/model/args.go): it is opened once and closed  *)
(* once, parties join it only while it is open, and it closes only when no  *)
(* party is left.  How callers find a link, and when an idle one closes, is *)
(* left open.                                                               *)
(***************************************************************************)
CONSTANTS Links, Parties

VARIABLES phase,   \* link -> "none", "open" or "closed"
          holders  \* link -> the parties that hold it

lease == <<phase, holders>>

Init ==
    /\ phase = [l \in Links |-> "none"]
    /\ holders = [l \in Links |-> {}]

Open(l)  == phase[l] = "none" /\ phase'[l] = "open" /\ holders'[l] = {}
Join(l)  == /\ phase[l] = "open" /\ phase'[l] = "open"
            /\ \E p \in Parties : holders'[l] = holders[l] \cup {p}
Leave(l) == /\ phase[l] = "open" /\ phase'[l] = "open"
            /\ \E p \in holders[l] : holders'[l] = holders[l] \ {p}
\* A party hands its hold to another one.
Pass(l)  == /\ phase[l] = "open" /\ phase'[l] = "open"
            /\ \E p \in holders[l], q \in Parties : holders'[l] = (holders[l] \ {p}) \cup {q}
Close(l) == /\ phase[l] = "open" /\ phase'[l] = "closed"
            /\ \E p \in Parties : holders[l] = {p}
            /\ holders'[l] = {}
Rest(l)  == phase'[l] = phase[l] /\ holders'[l] = holders[l]

Next == \A l \in Links : Open(l) \/ Join(l) \/ Leave(l) \/ Pass(l) \/ Close(l) \/ Rest(l)

Spec == Init /\ [][Next]_lease
=============================================================================
