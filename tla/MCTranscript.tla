------------------------------ MODULE MCTranscript ------------------------------
(***************************************************************************)
(* Instances of Transcript for TLC.                                        *)
(***************************************************************************)
EXTENDS Transcript

\* A thought and a call; a thought and an answer that opens with another one.
SomeShapes == {<<"thinking", "toolCall">>, <<"thinking", "tagged">>}
=============================================================================
