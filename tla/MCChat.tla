--------------------------------- MODULE MCChat ---------------------------------
(* Small instances of ChatSession. *)
EXTENDS ChatSession

CONSTANTS p1, p2

MCText == <<p1, p2>>
=============================================================================
