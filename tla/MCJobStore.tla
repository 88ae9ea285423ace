----------------------------- MODULE MCJobStore -----------------------------
(***************************************************************************)
(* Instances of JobStore for TLC.  Tasks are named by what they do.        *)
(***************************************************************************)
EXTENDS JobStore, TLC

CONSTANTS s1, d1, c1, c2, u1, i1, i2, p1

(* One diagnosis of two jobs.                                              *)
DiagnosisTask == {d1}
DiagnosisKind == d1 :> "diagnosis"
DiagnosisJobs == d1 :> {i1, i2}

(* Two conversations on one profile and an upload, of which a session may  *)
(* run two at a time.                                                      *)
ChatsAndUpload == {c1, c2, u1}
ChatsAndUploadKind ==
  c1 :> "profile_chat" @@ c2 :> "profile_chat" @@ u1 :> "document_parse"
ChatsAlike == Permutations({c1, c2})

OneOwner == [t \in Task |-> s1]
NoJobs == [t \in Task |-> {}]
OneProfile == [t \in Task |-> p1]
OneHolder == [p \in Profile |-> s1]
=============================================================================
