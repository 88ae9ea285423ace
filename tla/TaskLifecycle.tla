--------------------------- MODULE TaskLifecycle ---------------------------
(***************************************************************************)
(* What the platform promises about a background task, without workers,    *)
(* leases, clocks or database transactions: a submitted task is begun and  *)
(* completed at most once; each job of a diagnosis is settled at most once *)
(* and keeps its outcome; the public status summarises the outcomes; an    *)
(* ordinary task leaves exactly one result, and only when it succeeds;     *)
(* deleting the session erases everything.  JobStore implements it.        *)
(***************************************************************************)
EXTENDS Naturals

CONSTANTS Task, Item,
          Diagnosis,    \* the tasks that settle one outcome per selected job
          Selected      \* Selected[t]: the jobs a diagnosis compares

VARIABLES phase,        \* public status of each task
          outcome,      \* outcome of each job of each diagnosis
          results       \* resource versions each task has produced

Open == "open"
Completed == {"succeeded", "partial", "failed"}
Outcomes == {"succeeded", "score_only", "failed"}

TypeOK ==
  /\ phase \in [Task -> {"none", "queued", "running", "erased"} \cup Completed]
  /\ outcome \in [Task -> [Item -> Outcomes \cup {Open}]]
  /\ results \in [Task -> Nat]

Init ==
  /\ phase = [t \in Task |-> "none"]
  /\ outcome = [t \in Task |-> [i \in Item |-> Open]]
  /\ results = [t \in Task |-> 0]

(* The status a diagnosis with outcomes o shows once every job is settled. *)
Summary(t, o) ==
  CASE \A i \in Selected[t] : o[i] = "succeeded" -> "succeeded"
    [] \A i \in Selected[t] : o[i] = "failed" -> "failed"
    [] OTHER -> "partial"

Submit(t) ==
  /\ phase[t] = "none"
  /\ phase' = [phase EXCEPT ![t] = "queued"]
  /\ UNCHANGED <<outcome, results>>

Begin(t) ==
  /\ phase[t] = "queued"
  /\ phase' = [phase EXCEPT ![t] = "running"]
  /\ UNCHANGED <<outcome, results>>

Settle(t, i, o) ==
  /\ phase[t] = "running" /\ t \in Diagnosis /\ i \in Selected[t]
  /\ outcome[t][i] = Open
  /\ outcome' = [outcome EXCEPT ![t][i] = o]
  /\ UNCHANGED <<phase, results>>

(* Completing a diagnosis leaves what was settled and settles the rest,     *)
(* without success unless it is running.                                    *)
CompleteDiagnosis(t) ==
  /\ phase[t] \in {"queued", "running"} /\ t \in Diagnosis
  /\ \E o \in [Item -> Outcomes \cup {Open}] :
       /\ \A i \in Item :
            IF i \in Selected[t] /\ outcome[t][i] = Open
            THEN o[i] \in Outcomes /\ (o[i] = "succeeded" => phase[t] = "running")
            ELSE o[i] = outcome[t][i]
       /\ outcome' = [outcome EXCEPT ![t] = o]
       /\ phase' = [phase EXCEPT ![t] = Summary(t, o)]
  /\ UNCHANGED results

Succeed(t) ==
  /\ phase[t] = "running" /\ t \notin Diagnosis
  /\ phase' = [phase EXCEPT ![t] = "succeeded"]
  /\ results' = [results EXCEPT ![t] = 1]
  /\ UNCHANGED outcome

GiveUp(t) ==
  /\ phase[t] \in {"queued", "running"} /\ t \notin Diagnosis
  /\ phase' = [phase EXCEPT ![t] = "failed"]
  /\ UNCHANGED <<outcome, results>>

(* A session is deleted with all its tasks, and none of them comes back. *)
Erase(T) ==
  /\ phase' = [t \in Task |-> IF t \in T THEN "erased" ELSE phase[t]]
  /\ outcome' = [t \in Task |-> IF t \in T THEN [i \in Item |-> Open] ELSE outcome[t]]
  /\ results' = [t \in Task |-> IF t \in T THEN 0 ELSE results[t]]

Next ==
  \/ \E t \in Task : Submit(t) \/ Begin(t) \/ CompleteDiagnosis(t) \/ Succeed(t) \/ GiveUp(t)
  \/ \E t \in Task, i \in Item, o \in Outcomes : Settle(t, i, o)
  \/ \E T \in SUBSET Task : Erase(T)

vars == <<phase, outcome, results>>
Spec == Init /\ [][Next]_vars
=============================================================================
