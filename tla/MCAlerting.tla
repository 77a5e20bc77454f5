---------------------------- MODULE MCAlerting ----------------------------
(***************************************************************************)
(* One alert, as those of several goroutines share nothing but the death   *)
(* of the process; up to three modes, the longest documented list, and two *)
(* webhooks.                                                               *)
(***************************************************************************)
EXTENDS Alerting

CONSTANT a1
=============================================================================
