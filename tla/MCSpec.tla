--------------------------------- MODULE MCSpec ---------------------------------
(* Small instances of SpecRepository. *)
EXTENDS SpecRepository

CONSTANTS listed, plain, wider, narrow, wide, auto, confirms, none

\* The seed lists its causes, as organizational_model.yaml does; a client's spec
\* may name them one by one.
MCYaml == [shape |-> listed, bounds |-> narrow, level |-> auto, tools |-> none]
MCYamlVersion == <<1, 3, 0>>
MCChosen == {<<1, 3, 0>>, <<2, 0, 0>>}
MCNoChoice == {}
=============================================================================
