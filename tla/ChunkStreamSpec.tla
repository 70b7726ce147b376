-------------------------- MODULE ChunkStreamSpec --------------------------
(***************************************************************************)
(* One chunk stream as a state machine.  MultipartWindow implements it.     *)
(***************************************************************************)
EXTENDS ChunkStream

VARIABLE stream

Init == stream = Fresh

Next ==
    \/ \E i \in Chunks : /\ Admissible(stream, i)
                         /\ stream' = Admit(stream, i)
    \/ \E i \in stream.filling, v \in Versions : stream' = Publish(stream, i, v)
    \/ \E i \in stream.filling : stream' = Drop(stream, i)
    \/ /\ CanAdvance(stream)
       /\ stream' = Advance(stream)
    \/ \E e \in Seals : stream' = Seal(stream, e)

Spec == Init /\ [][Next]_stream
=============================================================================
