-------------------------- MODULE MCMemoryPlatform --------------------------
(***************************************************************************)
(* Instances of MemoryPlatform for TLC.                                    *)
(***************************************************************************)
EXTENDS MemoryPlatform, TLC

CONSTANTS s1, d1, c1, c2, j1, i1, i2, p1

MixedKind == d1 :> "diagnosis" @@ c1 :> "profile_chat" @@ c2 :> "profile_chat" @@
             j1 :> "job_parse"
TwoJobs == d1 :> {i1, i2} @@ [t \in Task |-> {}]
OneOwner == [t \in Task |-> s1]
OneProfile == [t \in Task |-> p1]
OneHolder == [p \in Profile |-> s1]
=============================================================================
