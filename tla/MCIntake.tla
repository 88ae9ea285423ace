------------------------------ MODULE MCIntake ------------------------------
(***************************************************************************)
(* Instances of Intake for TLC.                                            *)
(***************************************************************************)
EXTENDS Intake, TLC

CONSTANTS d1, m1, m2, contact, plain

Texted == d1 :> {contact} @@ m1 :> {plain} @@ m2 :> {contact}
Filter == [q \in Quote |-> IF q = contact THEN plain ELSE q]
=============================================================================
