---------------------------- MODULE MCJobWorkers ----------------------------
(***************************************************************************)
(* Instances of JobWorkers for TLC.  Tasks are named by what they do.      *)
(***************************************************************************)
EXTENDS JobWorkers, TLC

CONSTANTS s1, d1, u1, c1, i1, i2, p1, w1, w2

DiagnosisKind == d1 :> "diagnosis"
TwoJobs == d1 :> {i1, i2}

MixedKind == d1 :> "diagnosis" @@ u1 :> "document_parse" @@ c1 :> "profile_chat"
MixedJobs == d1 :> {i1} @@ u1 :> {} @@ c1 :> {}

OneOwner == [t \in Task |-> s1]
OneProfile == [t \in Task |-> p1]
OneHolder == [p \in Profile |-> s1]

WorkersAlike == Permutations(Worker)
=============================================================================
