--------------------------- MODULE MCEventStream ---------------------------
(* Small instances of EventStream for TLC. *)
EXTENDS EventStream

CONSTANTS c1, c2

MCClient == {c1, c2}
MCReader == MCClient \cup {Tailer}
MCFrom == [c \in MCClient |-> IF c = c2 THEN 0 ELSE NoId]

MCOneClient == {c1}
MCOneReader == MCOneClient \cup {Tailer}
MCOneFrom == [c \in MCOneClient |-> NoId]
=============================================================================
