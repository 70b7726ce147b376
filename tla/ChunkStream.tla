---------------------------- MODULE ChunkStream ----------------------------
(***************************************************************************)
(* What a receiving window promises to the upload session that owns it     *)
(* (internal/multipart/window.go seen from session.go): a stream of Total   *)
(* chunks.  A chunk is admitted, then published with the version (content)  *)
(* its body carried or dropped; published chunks leave in order; a sealed   *)
(* stream admits and publishes nothing more.  There are no slots, bytes,    *)
(* locks or waiting here.                                                   *)
(*                                                                         *)
(* The operators work on a stream held as a record, so that a specification *)
(* with many windows (MultipartSession) can hold a function of them;        *)
(* ChunkStreamSpec is the behaviour of a single one.                        *)
(***************************************************************************)
EXTENDS Integers

CONSTANTS Total,      \* number of chunks of the file
          Slots,      \* chunks the ring file can hold: how far ahead of the consumer a client may be
          Versions,   \* contents a chunk body can have (its CRC32 stands for the content)
          NoVersion   \* no body accepted yet

Chunks == 0 .. Total - 1

\* The sticky errors of a sealed stream; "none" while it is open.
Seals == {"closed", "aborted"}

Streams == [content  : [Chunks -> Versions \cup {NoVersion}],
            filling  : SUBSET Chunks,
            frontier : 0 .. Total,
            sealed   : Seals \cup {"none"}]

Fresh == [content  |-> [i \in Chunks |-> NoVersion],
          filling  |-> {},
          frontier |-> 0,
          sealed   |-> "none"]

Accepted(s, i) == s.content[i] # NoVersion

Admissible(s, i) == /\ s.sealed = "none"
                    /\ ~Accepted(s, i)
                    /\ i \notin s.filling
                    /\ i < s.frontier + Slots

Admit(s, i)      == [s EXCEPT !.filling = @ \cup {i}]
Publish(s, i, v) == [s EXCEPT !.filling = @ \ {i}, !.content[i] = v]
Drop(s, i)       == [s EXCEPT !.filling = @ \ {i}]

\* The next chunk has left the stream completely.
CanAdvance(s) == s.frontier < Total /\ Accepted(s, s.frontier)
Advance(s)    == [s EXCEPT !.frontier = @ + 1]

\* The first error sticks; whatever was being filled is forgotten.
Seal(s, e) == [s EXCEPT !.sealed = IF @ = "none" THEN e ELSE @, !.filling = {}]
=============================================================================
