--------------------------- MODULE MCQueueRegistry ---------------------------
(***************************************************************************)
(* QueueRegistry for TLC.                                                  *)
(***************************************************************************)
EXTENDS QueueRegistry, TLC

(* Any name may begin with any other; what two names cannot both do, they  *)
(* may do here.                                                            *)
MCShortened == [n \in Names |-> {Nothing} \cup (Names \ {n})]

(* So names differ in nothing: what CHOOSE picks in the actions, an unused *)
(* object or a set of as many objects as the log has queues, depends on    *)
(* the objects and on a number, not on the names.                          *)
Symmetry == Permutations(Names)
==============================================================================
