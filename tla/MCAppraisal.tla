----------------------------- MODULE MCAppraisal ----------------------------
(***************************************************************************)
(* Instances of Appraisal for TLC.                                         *)
(***************************************************************************)
EXTENDS Appraisal, TLC

Plain == [id |-> 1, op |-> "has_skill", label |-> "js", amount |-> 0, category |-> "skill",
          importance |-> "must", ignored |-> FALSE, personal |-> FALSE, quote |-> "q1"]

Requirements ==
  {Plain,
   [Plain EXCEPT !.id = 2, !.label = "javascript", !.quote = "q2"],
   [Plain EXCEPT !.id = 3, !.importance = "preferred"],
   [Plain EXCEPT !.op = "min_months", !.amount = 3, !.category = "experience"],
   [Plain EXCEPT !.id = 4, !.op = "degree_at_least", !.label = "", !.amount = 2,
                 !.category = "education", !.importance = "preferred", !.quote = "accepts"],
   [Plain EXCEPT !.id = 5, !.op = "has_evidence", !.label = "age", !.personal = TRUE],
   [Plain EXCEPT !.id = 6, !.op = "manual_review", !.label = "drive", !.ignored = TRUE]}

Policies == [q \in {"q1", "q2", "accepts"} |-> IF q = "accepts" THEN "accept" ELSE "unspecified"]

Claim == [kind |-> "skill", label |-> "js", positive |-> TRUE, applied |-> FALSE,
          completed |-> "unsaid", degree |-> 0, start |-> 0, end |-> 0, evidence |-> {"e1"}]
School == [Claim EXCEPT !.kind = "education", !.label = "school"]

Facts ==
  {Claim,
   [Claim EXCEPT !.label = "javascript", !.positive = FALSE],
   [Claim EXCEPT !.kind = "project", !.applied = TRUE, !.start = 1, !.end = 3, !.evidence = {"e2"}],
   [Claim EXCEPT !.kind = "experience", !.label = "javascript", !.start = 2, !.end = 3],
   [Claim EXCEPT !.kind = "experience", !.start = 4, !.completed = "no", !.evidence = {"e2"}],
   [School EXCEPT !.degree = 2, !.completed = "no"],
   [School EXCEPT !.degree = 1, !.completed = "yes"],
   [School EXCEPT !.degree = 2, !.positive = FALSE]}

Quotes == [e \in {"e1", "e2"} |-> IF e = "e1" THEN InChars(12050, FALSE) ELSE InChars(15, TRUE)]
Texts == {Word, InFigures(12050, FALSE), InFigures(15, TRUE), InChars(15, FALSE), InWan(20000)}
=============================================================================
