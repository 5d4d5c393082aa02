--------------------------- MODULE MCTranscript ---------------------------
(* A chat with two questions and answers from before the server started.    *)
EXTENDS Transcript

MCOld == <<<<"user", 8>>, <<"reply", 8>>, <<"user", 9>>, <<"reply", 9>>>>
=============================================================================
