---------------------------- MODULE MCTranscribe ----------------------------
(* A small instance of Transcribe and Captions for TLC. *)
EXTENDS Captions

\* A text that fits into a caption with another, and one that fits into none.
MCChars == [a |-> 1, b |-> 4]

\* The second is written with two bytes a character: two of it and one of the
\* first make a request that is too long, although the validators take them.
MCBytes == [a |-> 1, b |-> 8]
=============================================================================
