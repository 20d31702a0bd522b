------------------------------ MODULE Dotrain ------------------------------
(***************************************************************************)
(* A DotrainOrder that is made and updated, and at the same time a filter  *)
(* of some deployments of another one. They share no state: what the       *)
(* filter reads is the DotrainOrder it is called on, which it does not     *)
(* change, and what it makes is a new one.                                 *)
(***************************************************************************)
EXTENDS DotrainOrder, Filter

DotrainInit == Init /\ FilterInit

DotrainNext ==
  \/ Next /\ UNCHANGED filterVars
  \/ FilterNext /\ UNCHANGED vars

DotrainSpec ==
  /\ DotrainInit /\ [][DotrainNext]_<<vars, filterVars>>
  /\ WF_filterVars(FilterNext)

-----------------------------------------------------------------------------
(* Properties *)

(* The state of both has the form that it should have.                     *)
TypesOK == TypeOK /\ FilterTypeOK

=============================================================================
