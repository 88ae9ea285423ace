------------------------------ MODULE Appraisal -----------------------------
(***************************************************************************)
(* One job on its way from the extracted draft to a finished diagnosis:    *)
(* intake/validation.py and platform/validation.py accept the draft, the   *)
(* user confirms it, scoring/matcher.py and calculator.py judge it against *)
(* a frozen profile, platform/validation.py guards the score, a model      *)
(* writes the report, reporting/validation.py and then the worker judge    *)
(* that.  Ids are numbers, in their order as strings.                      *)
(***************************************************************************)
EXTENDS Integers, FiniteSets, Sequences, SequencesExt, FiniteSetsExt, ReportNumbers

CONSTANTS
  Requirement,   \* requirements a draft is made of: see RequirementRecord
  Fact,          \* facts a confirmed profile is made of: see FactRecord
  Policy,        \* Policy[q]: what quote q says of students
  Says,          \* Says[e]: the text evidence e quotes
  Text,          \* texts a rewritten line may be
  AsOf,          \* as_of_month of the profile
  MaxDraft, MaxFacts, MaxGaps  \* bounds: sizes of drafts, profiles and answers

(* label is the subject of min_months, else the target; amount the months  *)
(* or the rank of a degree; personal what _PERSONAL_LABELS and             *)
(* _PERSONAL_QUOTE find.                                                   *)
RequirementRecord(r) ==
  /\ r.op \in {"has_skill", "has_evidence", "min_months", "degree_at_least", "manual_review"}
  /\ r.id \in Nat /\ r.amount \in Nat
  /\ r.importance \in {"must", "preferred"}
  /\ r.ignored \in BOOLEAN /\ r.personal \in BOOLEAN
  /\ r.quote \in DOMAIN Policy
  /\ r.op \in {"min_months", "degree_at_least"} => r.amount > 0

(* degree is the rank of the value, 0 where it is none of DEGREES; a month *)
(* of 0 is not given; every fact cites evidence.                           *)
FactRecord(f) ==
  /\ f.kind \in {"skill", "experience", "project", "education"}
  /\ f.positive \in BOOLEAN /\ f.applied \in BOOLEAN
  /\ f.completed \in {"yes", "no", "unsaid"}
  /\ f.degree \in Nat /\ f.start \in Nat /\ f.end \in Nat
  /\ f.evidence # {} /\ f.evidence \subseteq DOMAIN Says
  /\ f.start > 0 /\ f.end > 0 => f.start <= f.end
  /\ f.end <= AsOf

ASSUME AppraisalAssumption ==
  /\ \A r \in Requirement : RequirementRecord(r)
  /\ \A f \in Fact : FactRecord(f)
  /\ \A q \in DOMAIN Policy : Policy[q] \in {"accept", "reject", "unspecified", "conflict"}
  /\ AsOf \in Nat /\ MaxDraft \in Nat /\ MaxFacts \in Nat /\ MaxGaps \in Nat

VARIABLES
  stage,         \* how far the job is
  job,           \* its requirements, in their order
  profile,       \* the facts of the confirmed profile
  score,         \* the saved ScoreResult
  report         \* the saved ReportContent

vars == <<stage, job, profile, score, report>>

NoScore == [assessments |-> {}, total |-> 0, unknown |-> 0, dimensions |-> {}]
NoReport == [gaps |-> <<>>, suggestions |-> {}, actions |-> {}, claimed |-> -1]

Scorable(reqs) == {r \in ToSet(reqs) : ~r.ignored}
Evidence == UNION {f.evidence : f \in profile}

(*----------------------------- Accepting a job --------------------------*)

(* Definitions named X_How state a plausible mistake in X; nothing uses    *)
(* them but the experiments that show which property each mistake breaks.  *)

UniqueIds(reqs) == \A i, j \in DOMAIN reqs : reqs[i].id = reqs[j].id => i = j

(* validate_job, which every version of a job passes.                      *)
ValidJob(reqs) == UniqueIds(reqs) /\ \A i \in DOMAIN reqs : RequirementRecord(reqs[i])

(* _requirement_key without and with the quote.                            *)
Structure(r) == <<r.op, r.label, r.amount, r.category>>
Same(r, s) == Structure(r) = Structure(s) /\ r.quote = s.quote

(* _merge_duplicate_requirements, one requirement at a time.               *)
AddDuplicate(acc, r) ==
  LET twins == {i \in DOMAIN acc.kept : Same(acc.kept[i], r)}
      alike == {i \in DOMAIN acc.kept : Structure(acc.kept[i]) = Structure(r)}
  IN  CASE twins = {} /\ alike # {} -> [acc EXCEPT !.conflict = TRUE]
        [] twins = {} /\ alike = {} -> [acc EXCEPT !.kept = Append(@, r)]
        [] twins # {} ->
             LET i == CHOOSE j \in twins : TRUE
             IN  CASE acc.kept[i].ignored # r.ignored -> [acc EXCEPT !.conflict = TRUE]
                   [] acc.kept[i].importance = "preferred" /\ r.importance = "must" ->
                        [acc EXCEPT !.kept[i] = r]
                   [] OTHER -> acc

MergeDuplicates(reqs) == FoldLeft(AddDuplicate, [kept |-> <<>>, conflict |-> FALSE], reqs)

(* The model's draft passes validate_job_content, and what that leaves     *)
(* passes validate_job.                                                    *)
Extract(reqs) ==
  LET merged == MergeDuplicates(reqs)
  IN  /\ stage = "posted" /\ UniqueIds(reqs)
      /\ ~merged.conflict /\ ValidJob(merged.kept)
      /\ job' = merged.kept /\ stage' = "draft"
      /\ UNCHANGED <<profile, score, report>>

(* job_update: an edit by hand passes validate_job alone, and makes a new  *)
(* version to confirm.                                                     *)
Edit(reqs) ==
  /\ stage \in {"draft", "confirmed"} /\ ValidJob(reqs)
  /\ job' = reqs /\ stage' = "draft"
  /\ UNCHANGED <<profile, score, report>>

Confirm ==
  /\ stage = "draft" /\ stage' = "confirmed"
  /\ UNCHANGED <<job, profile, score, report>>

(*------------------------------- Matching -------------------------------*)

ALIASES == [js |-> "javascript", ts |-> "typescript", postgres |-> "postgresql"]
Normal(label) == IF label \in DOMAIN ALIASES THEN ALIASES[label] ELSE label

Key(r) == <<r.op, Normal(r.label), r.amount, r.category>>

(* prepare_job.  A group shares a key; personal requirements are set aside.*)
Groups(reqs) ==
  LET scored == {r \in Scorable(reqs) : ~r.personal}
  IN  {{r \in scored : Key(r) = k} : k \in {Key(r) : r \in scored}}

First(group) == CHOOSE r \in group : \A s \in group : r.id <= s.id
EnrollmentUnclear(group) ==
  LET policies == {Policy[r.quote] : r \in group}
  IN  /\ \A r \in group : r.op = "degree_at_least"
      /\ "conflict" \in policies \/ Cardinality(policies) > 1
ImportanceUnclear(group) == Cardinality({r.importance : r \in group}) > 1

NeedsConfirmation(reqs) ==
  \E group \in Groups(reqs) : EnrollmentUnclear(group) \/ ImportanceUnclear(group)
Prepared(reqs) == {First(group) : group \in Groups(reqs)}

References(facts) == UNION {f.evidence : f \in facts}
Assessed(status, facts) == [status |-> status, evidence |-> References(facts)]

(* _degree.                                                                *)
Degree(r) ==
  LET facts == {f \in profile : f.kind = "education"}
      positive == {f \in facts : f.positive /\ f.degree > 0}
      negative == {f \in facts : ~f.positive /\ f.degree > 0}
      qualifying == {f \in positive : f.degree >= r.amount}
      denied == {f \in negative : f.degree = r.amount}
      completed == {f \in positive : f.completed = "yes"}
      studying == {f \in qualifying : f.completed = "no"}
  IN  CASE \/ qualifying # {} /\ denied # {}
           \/ \E p \in positive, n \in negative : p.degree = n.degree -> Assessed("unknown", facts)
        [] OTHER ->
             CASE denied # {} -> Assessed("unmet", denied)
               [] denied = {} /\ completed \cap qualifying # {} ->
                    Assessed("met", completed \cap qualifying)
               [] denied = {} /\ completed \cap qualifying = {} /\ qualifying # {} ->
                    IF Policy[r.quote] = "accept" /\ studying # {} THEN Assessed("met", studying)
                    ELSE Assessed("unknown", qualifying)
               [] denied = {} /\ qualifying = {} /\ completed # {} -> Assessed("unmet", completed)
               [] OTHER -> Assessed("unknown", facts)

(* _union_months takes the intervals in the order of their starts and      *)
(* merges those that overlap: total counts the closed runs, left and right *)
(* are the run that is open.  Months start at 1.                           *)
Before(i, j) == i[1] < j[1] \/ (i[1] = j[1] /\ i[2] <= j[2])
Latest(intervals) == CHOOSE i \in intervals : \A j \in intervals : Before(j, i)

Sweep(i, run) ==
  IF i[1] <= run.right THEN [run EXCEPT !.right = IF i[2] > @ THEN i[2] ELSE @]
  ELSE [total |-> run.total + run.right - run.left, left |-> i[1], right |-> i[2]]
NoRun == [total |-> 0, left |-> 0, right |-> 0]

UnionMonths_Adds(intervals) ==
  MapThenSumSet(LAMBDA i : i[2] - i[1], intervals)
UnionMonths(intervals) ==
  LET swept == MapThenFoldSet(Sweep, NoRun, LAMBDA i : i, Latest, intervals)
  IN  swept.total + swept.right - swept.left

(* A fact that goes on ends at as_of_month.                                *)
EndOf(f) == IF f.end = 0 /\ f.completed = "no" THEN AsOf ELSE f.end
Dated(f) == f.start > 0 /\ EndOf(f) > 0 /\ f.start <= EndOf(f) /\ EndOf(f) <= AsOf

Months(r, positive) ==
  LET months == UnionMonths({<<f.start, EndOf(f)>> : f \in positive})
  IN  CASE \E f \in positive : ~Dated(f) -> "unknown"
        [] OTHER -> CASE months >= r.amount -> "met"
                      [] months < r.amount /\ 2 * months >= r.amount -> "partial"
                      [] OTHER -> "unmet"

Kinds(r) ==
  CASE r.op = "min_months" -> {"experience", "project"}
    [] r.op = "has_skill" -> {"skill", "experience", "project"}
    [] OTHER -> {"skill", "experience", "project", "education"}
About(r) == {f \in profile : f.kind \in Kinds(r) /\ Normal(f.label) = Normal(r.label)}

(* _assess for the operators that look for a label.                        *)
Label(r) ==
  LET facts == About(r)
      positive == {f \in facts : f.positive}
      negative == facts \ positive
      applied == {f \in positive : f.kind # "skill" /\ f.applied}
  IN  CASE positive # {} /\ negative # {} -> Assessed("unknown", facts)
        [] positive = {} /\ negative # {} -> Assessed("unmet", facts)
        [] facts = {} -> Assessed("unknown", {})
        [] OTHER ->
             CASE r.op = "has_evidence" -> Assessed("met", facts)
               [] r.op = "has_skill" /\ applied # {} -> Assessed("met", applied)
               [] r.op = "has_skill" /\ applied = {} -> Assessed("partial", facts)
               [] r.op = "min_months" -> Assessed(Months(r, positive), facts)

Assess(r) ==
  CASE r.op = "manual_review" -> Assessed("unknown", {})
    [] r.op = "degree_at_least" -> Degree(r)
    [] OTHER -> Label(r)

WEIGHTS == [must |-> 2, preferred |-> 1]

Assessments(reqs) ==
  {[requirement_id |-> r.id, category |-> r.category, importance |-> r.importance,
    status |-> Assess(r).status, weight |-> WEIGHTS[r.importance],
    evidence |-> Assess(r).evidence] : r \in Prepared(reqs)}

(*------------------------------- Scoring --------------------------------*)

(* Twice COEFFICIENTS, which are whole numbers.                            *)
COEFFICIENTS == [met |-> 2, partial |-> 1, unmet |-> 0, unknown |-> 0]

Total(amounts) == FoldFunction(+, 0, amounts)
Weight(items) == Total([a \in items |-> a.weight])
Earned(items) == Total([a \in items |-> a.weight * COEFFICIENTS[a.status]])

(* n / d, halves up.                                                       *)
Rounded_Down(n, d) == n \div d
Rounded(n, d) == (2 * n + d) \div (2 * d)

(* _percentage, in tenths.                                                 *)
Percentage(items) == Rounded(1000 * Earned(items), 2 * Weight(items))

(* calculate_score; the ratio in ten-thousandths.                          *)
Calculate(items) ==
  [assessments |-> items,
   total |-> Percentage(items),
   unknown |-> Rounded(10000 * Weight({a \in items : a.status = "unknown"}), Weight(items)),
   dimensions |-> {[category |-> c, score |-> Percentage({a \in items : a.category = c})] :
                     c \in {a.category : a \in items}}]

(* validate_score: what was assessed is what the stored job asks for.      *)
ScoreFits(items) ==
  /\ {a.requirement_id : a \in items} = {r.id : r \in Scorable(job)}
  /\ \A a \in items : \E r \in Scorable(job) :
       /\ r.id = a.requirement_id /\ r.category = a.category /\ r.importance = a.importance
       /\ a.weight = WEIGHTS[r.importance]
  /\ \A a \in items : a.evidence \subseteq Evidence

(* _score of the worker: one call, saved or failed as a whole.             *)
Score ==
  LET items == Assessments(job)
      fits == ~NeedsConfirmation(job) /\ items # {} /\ ScoreFits(items)
  IN  /\ stage = "confirmed"
      /\ stage' = IF fits THEN "scored" ELSE "failed"
      /\ score' = IF fits THEN Calculate(items) ELSE NoScore
      /\ UNCHANGED <<job, profile, report>>

(*------------------------------- Reporting ------------------------------*)

StatusOf(id) == (CHOOSE a \in score.assessments : a.requirement_id = id).status
CitedBy(id) == (CHOOSE a \in score.assessments : a.requirement_id = id).evidence
Rated == {a.requirement_id : a \in score.assessments}
ToImprove == {a.requirement_id : a \in {b \in score.assessments : b.status # "met"}}

GAP_KIND_BY_STATUS ==
  [unmet |-> "explicit_gap", partial |-> "partial_gap", unknown |-> "needs_evidence"]

(* The gaps a report may list.                                             *)
GapsFit_AnyEvidence(gaps) ==
  /\ \A i \in DOMAIN gaps :
       gaps[i].id \in ToImprove /\ gaps[i].kind = GAP_KIND_BY_STATUS[StatusOf(gaps[i].id)]
  /\ \A i, j \in DOMAIN gaps : gaps[i].id = gaps[j].id => i = j
GapsFit(gaps) ==
  /\ \A i \in DOMAIN gaps :
       /\ gaps[i].id \in ToImprove
       /\ gaps[i].kind = GAP_KIND_BY_STATUS[StatusOf(gaps[i].id)]
       /\ gaps[i].evidence \subseteq CitedBy(gaps[i].id)
  /\ \A i, j \in DOMAIN gaps : gaps[i].id = gaps[j].id => i = j

(* Every must requirement that is not met is named.                        *)
GapsComplete_Unchecked(gaps) == TRUE
GapsComplete(gaps) ==
  \A a \in score.assessments :
    a.importance = "must" /\ a.status # "met" => \E i \in DOMAIN gaps : gaps[i].id = a.requirement_id

(* _check_suggestion_numbers.                                              *)
NumbersSupported(s) == Claims(s.revised) \subseteq UNION {Claims(Says[e]) : e \in s.evidence}

SuggestionFits(s) ==
  /\ s.id \in Rated /\ s.evidence \subseteq Evidence
  /\ s.original \in {"none", "verbatim"}
  /\ s.placeholder => s.requires_user_input
  /\ s.evidence = {} \/ s.original = "none" => s.requires_user_input
  /\ NumbersSupported(s)

(* validate_report of reporting/validation.py, as generate_report calls it.*)
ReporterAccepts(r) ==
  /\ r.claimed \in {-1, score.total}
  /\ GapsFit(r.gaps) /\ GapsComplete(r.gaps)
  /\ \A s \in r.suggestions : SuggestionFits(s)
  /\ r.actions \subseteq Rated

(* validate_report of jobs/worker.py, on the same frozen snapshots.        *)
WorkerAccepts(r) ==
  LET KIND == [unmet |-> "explicit_gap", partial |-> "partial_gap",
               unknown |-> "needs_evidence", met |-> "none"]
  IN  /\ \A i \in DOMAIN r.gaps :
           /\ r.gaps[i].id \in Rated /\ r.gaps[i].kind = KIND[StatusOf(r.gaps[i].id)]
           /\ r.gaps[i].evidence \subseteq Evidence
      /\ \A s \in r.suggestions : s.id \in Rated /\ s.evidence \subseteq Evidence
      /\ r.actions \subseteq Rated

(* The model answers r; an answer the reporter refuses leaves the item     *)
(* with its score only, and so does one the worker refuses after it.       *)
Verdict(r) ==
  CASE ~ReporterAccepts(r) -> "score_only"
    [] ReporterAccepts(r) /\ ~WorkerAccepts(r) -> "disputed"
    [] OTHER -> "succeeded"

Report(r) ==
  /\ stage = "scored"
  /\ stage' = Verdict(r)
  /\ report' = IF Verdict(r) = "succeeded" THEN r ELSE NoReport
  /\ UNCHANGED <<job, profile, score>>

(* The gateway fails: the item keeps its score.                            *)
NoAnswer ==
  /\ stage = "scored" /\ stage' = "score_only"
  /\ UNCHANGED <<job, profile, score, report>>

(*----------------------------- Specification ----------------------------*)

(* What the model extracts from a posting, or a user makes of it.          *)
Drafts == SeqOf(Requirement, MaxDraft)

(* Answers of the model: any gaps, or the gaps of the score with any       *)
(* suggestion, action or claimed score.  Id 0 is no requirement's.         *)
Asked == Rated \cup {0}
CiteOptions == {{}} \cup {{e} : e \in DOMAIN Says}
Gap == [id : Asked, kind : {"explicit_gap", "partial_gap", "needs_evidence"}, evidence : CiteOptions]
Suggestion == [id : Asked, original : {"none", "verbatim", "altered"}, revised : Text,
               placeholder : BOOLEAN, requires_user_input : BOOLEAN, evidence : CiteOptions]
RightGaps ==
  SetToSeq({[id |-> i, kind |-> GAP_KIND_BY_STATUS[StatusOf(i)], evidence |-> {}] : i \in ToImprove})
Answers ==
  {[NoReport EXCEPT !.gaps = gaps] : gaps \in SeqOf(Gap, MaxGaps)}
    \cup {[NoReport EXCEPT !.gaps = RightGaps, !.suggestions = {s}] : s \in Suggestion}
    \cup {[NoReport EXCEPT !.gaps = RightGaps, !.actions = {a}, !.claimed = c] :
             a \in Asked, c \in {-1, score.total, score.total + 1}}

Init ==
  /\ stage = "posted" /\ job = <<>>
  /\ profile \in {p \in SUBSET Fact : IsFiniteSet(p) /\ Cardinality(p) <= MaxFacts}
  /\ score = NoScore /\ report = NoReport

Next ==
  \/ \E reqs \in Drafts : Extract(reqs) \/ Edit(reqs)
  \/ Confirm
  \/ Score
  \/ stage = "scored" /\ \E r \in Answers : Report(r)
  \/ NoAnswer

Spec == Init /\ [][Next]_vars

(*------------------------------ Properties ------------------------------*)

(* A score is judged when it has been saved: the store never changes it.   *)
Saved == stage = "scored"

(* What the confirmed facts say of a requirement, in the words of          *)
(* docs/05-scoring.md: denied, supported, or so many months of it.         *)
Deals(r, f) == IF r.op = "degree_at_least" THEN f.kind = "education" /\ f.degree > 0 ELSE f \in About(r)
Denies(r, f) == Deals(r, f) /\ ~f.positive /\ (r.op = "degree_at_least" => f.degree = r.amount)
Supports(r, f) == Deals(r, f) /\ f.positive /\ (r.op = "degree_at_least" => f.degree >= r.amount)
Denied(r) == \E f \in profile : Denies(r, f)
Supported(r) == \E f \in profile : Supports(r, f)
Worked(r) ==
  {m \in 1 .. AsOf : \E f \in profile : Supports(r, f) /\ f.start <= m /\ m < EndOf(f)}
Short(r) ==
  \/ r.op = "min_months" /\ Supported(r) /\ 2 * Cardinality(Worked(r)) < r.amount
  \/ /\ r.op = "degree_at_least" /\ ~Supported(r)
     /\ \E f \in profile : Deals(r, f) /\ f.positive /\ f.completed = "yes"

(* Every status of a saved score rests on the confirmed facts, through     *)
(* labels, aliases, ranks and dates: silence and contradiction earn        *)
(* nothing and are no gap, unmet is denied or counted, and each month      *)
(* counts once however many facts cover it.                                *)
AssessmentsRestOnFacts ==
  Saved => \A a \in score.assessments : \A r \in Scorable(job) : r.id = a.requirement_id =>
    /\ a.status \in {"met", "partial"} =>
         /\ ~Denied(r)
         /\ \E f \in profile : Supports(r, f) /\ f.evidence \subseteq a.evidence
         /\ r.op = "min_months" =>
              Cardinality(Worked(r)) \in
                IF a.status = "met" THEN r.amount .. AsOf ELSE (r.amount + 1) \div 2 .. r.amount - 1
    /\ a.status = "unmet" => (Denied(r) /\ ~Supported(r)) \/ Short(r)
    /\ (Denied(r) /\ Supported(r)) \/ (~\E f \in profile : Deals(r, f)) => a.status = "unknown"

(* What requirements earn, in halves of a point, and at most.              *)
Points(reqs) == Total([r \in reqs |-> WEIGHTS[r.importance] * COEFFICIENTS[StatusOf(r.id)]])
Most(reqs) == Total([r \in reqs |-> WEIGHTS[r.importance]])

(* shown is n / d rounded to the nearest whole number, halves up.          *)
Nearest(shown, n, d) == 2 * n - d < 2 * d * shown /\ 2 * d * shown <= 2 * n + d

Coverage(asked) ==
  LET unknown == {r \in asked : StatusOf(r.id) = "unknown"}
      Part(c) == {r \in asked : r.category = c}
  IN  /\ Nearest(score.total, 500 * Points(asked), Most(asked))
      /\ Nearest(score.unknown, 10000 * Most(unknown), Most(asked))
      /\ \A d \in score.dimensions :
           /\ Part(d.category) # {}
           /\ Nearest(d.score, 500 * Points(Part(d.category)), Most(Part(d.category)))
      /\ {d.category : d \in score.dimensions} = {r.category : r \in asked}

(* A saved score is the weighted coverage of the job as it is stored: each *)
(* requirement that is not ignored counts once, whatever their order, and  *)
(* the tenth shown is the nearest one, halves up.                          *)
ScoreIsCoverage == Saved => Coverage(Scorable(job))

(* A finished report is honest about the facts behind the score: it calls  *)
(* a requirement missing only where the user denied it or falls short,     *)
(* passes over no must requirement the facts do not carry, and the numbers *)
(* of its rewritten lines mean what the evidence it cites says.            *)
ReportHonest ==
  stage = "succeeded" =>
    /\ \A i \in DOMAIN report.gaps : \A r \in Scorable(job) :
         r.id = report.gaps[i].id /\ report.gaps[i].kind = "explicit_gap" => Denied(r) \/ Short(r)
    /\ \A r \in Scorable(job) : r.importance = "must" /\ (Denied(r) \/ Short(r) \/ ~Supported(r)) =>
         Cardinality({i \in DOMAIN report.gaps : report.gaps[i].id = r.id}) = 1
    /\ \A s \in report.suggestions : Claims(s.revised) # {} =>
         \E e \in s.evidence : Claims(Says[e]) = Claims(s.revised)

(* The worker's own check of a report never overrules the reporter's: a    *)
(* paid answer the reporter accepts finishes the item.                     *)
ReporterDecides == stage # "disputed"

(* docs/05-scoring.md: duplicates by the normalized key are merged before  *)
(* the job is confirmed.  They are not, and prepare_job then merges them   *)
(* in a copy only, so that the score does not fit the stored job.          *)
MergedBeforeConfirmation ==
  stage \in {"confirmed", "failed"} =>
    \A r, s \in Scorable(job) : Key(r) = Key(s) => r = s
=============================================================================
