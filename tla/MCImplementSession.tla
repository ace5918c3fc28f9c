------------------------- MODULE MCImplementSession -------------------------
(* Values for the model-checking runs of ImplementSession: a step with two    *)
(* work tasks and a verify task, then one with a single work task.           *)
EXTENDS ImplementSession

MCWork == <<2, 1>>
MCVerify == <<1, 0>>
=============================================================================
