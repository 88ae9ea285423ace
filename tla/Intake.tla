-------------------------------- MODULE Intake ------------------------------
(***************************************************************************)
(* A profile as documents, conversations and edits make it: the parser     *)
(* process of intake/documents.py, the calls of llm/gateway.py with their  *)
(* timeouts and their one retry, the checks of intake/gateway_intake.py    *)
(* and platform/validation.py on what a model or a user makes of it.       *)
(* Months, labels and locators are left out; ids are unique by their type. *)
(***************************************************************************)
EXTENDS Naturals, Sequences, FiniteSets, SequencesExt

CONSTANTS
  Document, Message,   \* what a user uploads and writes
  Quote,               \* pieces of text
  TextOf,            \* TextOf[s]: the pieces source s literally has
  Filtered,            \* Filtered[q]: what the privacy filter leaves of q
  EvidenceId, FactId,
  Nothing,             \* no source, no content
  RETRY_BUDGET,        \* retries of one call of the gateway
  HISTORY_LIMIT,       \* messages a conversation turn is shown
  MaxVersion           \* bound: the profile is not saved more often

Source == Document \cup Message

ASSUME IntakeAssumption ==
  /\ TextOf \in [Source -> SUBSET Quote] /\ Filtered \in [Quote -> Quote]
  /\ Document \cap Message = {} /\ Nothing \notin Source
  /\ RETRY_BUDGET \in Nat /\ HISTORY_LIMIT \in Nat /\ MaxVersion \in Nat

VARIABLES
  profile,    \* the latest version: its number, who made it, its content
  history,    \* the messages whose turns were committed
  used,       \* sources that were submitted
  call,       \* the coroutine of the task under way
  parser      \* its document parser process

vars == <<profile, history, used, call, parser>>

Kind(s) == IF s \in Document THEN "document" ELSE "message"
Manual == [type : {"manual"}, source : {Nothing}, quote : Quote]
EvidenceRecord == [type : {"document", "message"}, source : Source, quote : Quote] \cup Manual
FactRecord == [value : Quote, evidence : (SUBSET EvidenceId) \ {{}}]
NoContent == [facts |-> <<>>, evidence |-> <<>>]

Unsaved == [version |-> 0, by |-> "nobody", content |-> NoContent]

(* at: where the coroutine awaits; base: the version it read; tries: calls *)
(* of the provider so far; draft: what it is about to commit.              *)
NoCall == [at |-> "idle", source |-> Nothing, base |-> Unsaved, tries |-> 0, draft |-> NoContent]

Init ==
  /\ profile = Unsaved
  /\ history = <<>> /\ used = {}
  /\ call = NoCall /\ parser = "none"

Ids(f) == DOMAIN f

(*-------------------------------- Checking ------------------------------*)

(* Definitions named X_How state a plausible mistake in X; nothing uses    *)
(* them but the experiments that show which property each mistake breaks.  *)

(* What the model is shown of the profile: every text filtered.            *)
Projection(c) ==
  [facts |-> [f \in Ids(c.facts) |-> [c.facts[f] EXCEPT !.value = Filtered[@]]],
   evidence |-> [e \in Ids(c.evidence) |-> [c.evidence[e] EXCEPT !.quote = Filtered[@]]]]

(* What comes back as it was shown stands for what was stored.             *)
Restored(new, old) ==
  LET shown == Projection(old)
      Back(n, s, o) == [i \in Ids(n) |-> IF i \in Ids(o) /\ n[i] = s[i] THEN o[i] ELSE n[i]]
  IN  [facts |-> Back(new.facts, shown.facts, old.facts),
       evidence |-> Back(new.evidence, shown.evidence, old.evidence)]

Cited(c) == {c.evidence[e].source : e \in Ids(c.evidence)}

(* The sources whose text is at hand in a turn.                            *)
Texts(s) ==
  LET recent == IF Len(history) <= HISTORY_LIMIT THEN history
                ELSE SubSeq(history, Len(history) - HISTORY_LIMIT + 1, Len(history))
  IN  {s} \cup IF s \in Message THEN ToSet(recent) ELSE {}

(* New evidence quotes its own source, under that source's type.           *)
QuotesSource_Any(e, texts) ==
  /\ e.source \in texts /\ e.type = Kind(e.source)
  /\ \E s \in texts : e.quote \in TextOf[s]
QuotesSource(e, texts) ==
  /\ e.source \in texts /\ e.type = Kind(e.source)
  /\ e.quote \in TextOf[e.source]

(* Evidence of a source the profile has not cited yet.                     *)
Fresh_AnyNew(new, old) == Ids(new.evidence) \ Ids(old.evidence)
Fresh(new, old) ==
  {e \in Ids(new.evidence) \ Ids(old.evidence) : new.evidence[e].source \notin Cited(old)}

FactsResolve(c) == \A f \in Ids(c.facts) : c.facts[f].evidence \subseteq Ids(c.evidence)

(* _validate_draft on the restored content.                                *)
ValidDraft(new, old, texts) ==
  /\ \A e \in Ids(old.evidence) : e \in Ids(new.evidence) /\ new.evidence[e] = old.evidence[e]
  /\ Ids(old.facts) \subseteq Ids(new.facts)
  /\ \A e \in Ids(new.evidence) \ Ids(old.evidence) : QuotesSource(new.evidence[e], texts)
  /\ FactsResolve(new)
  /\ \A f \in Ids(old.facts) : new.facts[f] # old.facts[f] =>
       new.facts[f].evidence \cap Fresh(new, old) # {}

(* validate_profile_sources: a user may drop evidence or write their own.  *)
ValidEdit(new, old) ==
  /\ FactsResolve(new)
  /\ \A e \in Ids(new.evidence) :
       IF e \in Ids(old.evidence) /\ old.evidence[e].type # "manual"
       THEN new.evidence[e] = old.evidence[e]
       ELSE new.evidence[e].type = "manual"

(*-------------------------------- The task ------------------------------*)

Ends == call' = NoCall

(* The worker takes up a document: the parser is spawned.                  *)
TakeDocument(d) ==
  /\ call.at = "idle" /\ d \notin used /\ profile.version = 0
  /\ used' = used \cup {d}
  /\ call' = [NoCall EXCEPT !.at = "extracting", !.source = d]
  /\ parser' = "running"
  /\ UNCHANGED <<profile, history>>

(* The gateway is asked unless the model is off or the input too long.     *)
Ask(s) ==
  \/ call' = [NoCall EXCEPT !.at = "asking", !.source = s, !.base = profile, !.tries = 1]
  \/ Ends

(* The worker takes up a turn of the conversation.                         *)
TakeMessage(m) ==
  /\ call.at = "idle" /\ m \notin used /\ profile.version > 0
  /\ used' = used \cup {m} /\ Ask(m)
  /\ UNCHANGED <<profile, history, parser>>

(* The parser writes its answer, or crashes.                               *)
ParserExits ==
  /\ parser = "running" /\ parser' \in {"answered", "crashed"}
  /\ UNCHANGED <<profile, history, used, call>>

(* communicate() returns, which also reaps.                                *)
Extracted ==
  /\ call.at = "extracting" /\ parser \in {"answered", "crashed"}
  /\ parser' = "none"
  /\ IF parser = "answered" THEN Ask(call.source) ELSE Ends
  /\ UNCHANGED <<profile, history, used>>

(* The finally clause: whatever left the wait, a parser that still runs is *)
(* killed, and waited for.                                                 *)
Killed_OnTimeoutOnly(cancelled) == IF parser = "running" /\ ~cancelled THEN "killed" ELSE parser
Killed(cancelled) == IF parser = "running" THEN "killed" ELSE parser
LeavesParser(cancelled) ==
  /\ call.at = "extracting"
  /\ parser' = Killed(cancelled)
  /\ call' = [NoCall EXCEPT !.at = IF parser' = "running" THEN "idle" ELSE "closing"]

ExtractTimeout == LeavesParser(FALSE) /\ UNCHANGED <<profile, history, used>>

Reaped ==
  /\ call.at = "closing" /\ parser # "running"
  /\ parser' = "none" /\ Ends
  /\ UNCHANGED <<profile, history, used>>

(* A process nobody waits for any more is reaped by the loop.              *)
LoopReaps ==
  /\ call.at \notin {"extracting", "closing"} /\ parser \in {"answered", "crashed", "killed"}
  /\ parser' = "none"
  /\ UNCHANGED <<profile, history, used, call>>

(* 429, 5xx, or an answer that is not what the schema asks for: one budget *)
(* for both.                                                               *)
MayRetry_Always(tries) == TRUE
MayRetry(tries) == tries <= RETRY_BUDGET
Fails ==
  /\ call.at = "asking"
  /\ IF MayRetry(call.tries) THEN call' = [call EXCEPT !.at = "backoff"] ELSE Ends
  /\ UNCHANGED <<profile, history, used, parser>>

Retries ==
  /\ call.at = "backoff"
  /\ call' = [call EXCEPT !.at = "asking",
                          !.tries = IF @ <= RETRY_BUDGET THEN @ + 1 ELSE @]
  /\ UNCHANGED <<profile, history, used, parser>>

CallTimeout ==
  /\ call.at = "asking" /\ Ends
  /\ UNCHANGED <<profile, history, used, parser>>

(* The model answers with a content.                                       *)
Answers(content) ==
  LET old == call.base.content
      new == Restored(content, old)
  IN  /\ call.at = "asking"
      /\ IF ValidDraft(new, old, Texts(call.source))
         THEN call' = [call EXCEPT !.at = "committing", !.draft = new] ELSE Ends
      /\ UNCHANGED <<profile, history, used, parser>>

(* commit_document, commit_chat: nothing that a user saved meanwhile is    *)
(* written over.                                                           *)
Commit ==
  /\ call.at = "committing" /\ Ends
  /\ \/ /\ call.base.version = profile.version /\ profile.version < MaxVersion
        /\ profile' = [version |-> profile.version + 1, by |-> "model", content |-> call.draft]
        /\ history' = IF call.source \in Message THEN Append(history, call.source) ELSE history
     \/ /\ call.base.version # profile.version \/ profile.version = MaxVersion
        /\ UNCHANGED <<profile, history>>
  /\ UNCHANGED <<used, parser>>

(* The deadline of the task, or the end of the worker.                     *)
Cancel ==
  \/ LeavesParser(TRUE) /\ UNCHANGED <<profile, history, used>>
  \/ /\ call.at \in {"closing", "asking", "backoff", "committing"} /\ Ends
     /\ UNCHANGED <<profile, history, used, parser>>

(* profile_create (a document makes a profile of its own), profile_update. *)
Edit(content) ==
  /\ profile.version < MaxVersion /\ (profile.version = 0 => call = NoCall)
  /\ ValidEdit(content, profile.content)
  /\ profile' = [version |-> profile.version + 1, by |-> "user", content |-> content]
  /\ UNCHANGED <<history, used, call, parser>>

(*----------------------------- Specification ----------------------------*)

With(f, i, v) == [j \in Ids(f) \cup {i} |-> IF j = i THEN v ELSE f[j]]
Without(f, i) == [j \in Ids(f) \ {i} |-> f[j]]

(* Bounds: a model puts in, changes or leaves out one piece of evidence    *)
(* and one fact at most, a user one of them.                               *)
Changed(f, ids, records) ==
  {f} \cup {With(f, i, v) : i \in ids, v \in records} \cup {Without(f, i) : i \in ids}
Drafts(c) ==
  [facts : Changed(c.facts, FactId, FactRecord),
   evidence : Changed(c.evidence, EvidenceId, EvidenceRecord)]
Edits(c) ==
  [facts : Changed(c.facts, FactId, FactRecord), evidence : {c.evidence}] \cup
  [facts : {c.facts}, evidence : Changed(c.evidence, EvidenceId, Manual)]

Shown == Projection(call.base.content)

Next ==
  \/ \E d \in Document : TakeDocument(d)
  \/ \E m \in Message : TakeMessage(m)
  \/ ParserExits \/ Extracted \/ ExtractTimeout \/ Reaped \/ LoopReaps
  \/ Fails \/ Retries \/ CallTimeout \/ Commit \/ Cancel
  \/ call.at = "asking" /\ \E content \in Drafts(Shown) : Answers(content)
  \/ profile.version < MaxVersion /\ \E content \in Edits(profile.content) : Edit(content)

(* Timers fire, a killed process dies and is reaped, the database answers; *)
(* a parser or a provider may never, and nobody need cancel.               *)
Fairness ==
  /\ WF_vars(ExtractTimeout) /\ WF_vars(Reaped) /\ WF_vars(LoopReaps)
  /\ WF_vars(CallTimeout) /\ WF_vars(Retries) /\ WF_vars(Commit)

Spec == Init /\ [][Next]_vars /\ Fairness

(*------------------------------ Properties ------------------------------*)

(* However long a profile was talked about, edited and shown to a model    *)
(* with its contacts removed, what it presents as said in a document or a  *)
(* message is literally there: also when that source was deleted or is out *)
(* of the window of the conversation.                                      *)
EvidenceVerbatim ==
  LET evidence == profile.content.evidence
  IN  \A e \in Ids(evidence) : evidence[e].type # "manual" =>
        evidence[e].type = Kind(evidence[e].source) /\ evidence[e].quote \in TextOf[evidence[e].source]

(* A turn of the model takes nothing away from the profile a user knows,   *)
(* and changes a fact only on the word of a source not heard before, even  *)
(* if the user edited while the model was thinking.                        *)
Kept(old, new) ==
  /\ \A e \in Ids(old.evidence) : e \in Ids(new.evidence) /\ new.evidence[e] = old.evidence[e]
  /\ \A f \in Ids(old.facts) : f \in Ids(new.facts) /\
       (new.facts[f] = old.facts[f] \/
        \E e \in new.facts[f].evidence : new.evidence[e].source \notin Cited(old))
ModelKeepsFacts ==
  [][profile'.by = "model" /\ profile' # profile => Kept(profile.content, profile'.content)]_vars

(* Every task ends, whether or not parser and provider ever answer, and    *)
(* leaves no parser behind: the retries end too.                           *)
CallsEnd == (call.at # "idle") ~> (call.at = "idle" /\ parser = "none")
=============================================================================
