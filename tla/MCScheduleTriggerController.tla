--------------------- MODULE MCScheduleTriggerController ---------------------
(***************************************************************************)
(* Small instances of ScheduleTriggerController.  The configurations give  *)
(* every constant a set of model values or a number.                       *)
(***************************************************************************)
EXTENDS ScheduleTriggerController

=============================================================================
