---------------------------- MODULE MCStreamBridge ----------------------------
(* The stream with a silent segment and a segment of one word. *)
EXTENDS HandledStream

CONSTANT word

SomeTexts == {<<>>, <<word>>}
===============================================================================
