---------------------------- MODULE IntakeProofs ----------------------------
(***************************************************************************)
(* Whatever documents, messages, models and users bring forth, evidence is *)
(* verbatim and a turn of the model takes nothing away: for any sources,   *)
(* any privacy filter and any number of turns.  The invariant follows a    *)
(* content through a call: what was saved, what the coroutine read, and    *)
(* what it is about to save; and it has the version a coroutine read tell  *)
(* the content.                                                            *)
(***************************************************************************)
EXTENDS Intake, TLAPS

Verbatim(c) ==
  \A e \in Ids(c.evidence) : c.evidence[e].type # "manual" =>
    c.evidence[e].type = Kind(c.evidence[e].source) /\ c.evidence[e].quote \in TextOf[c.evidence[e].source]

(* What a call has read and what it is about to save.                      *)
BaseRead ==
  /\ call.base.version <= profile.version
  /\ call.base.version = profile.version => call.base.content = profile.content
DraftChecked ==
  call.at = "committing" => \E texts : ValidDraft(call.draft, call.base.content, texts)

Versions ==
  /\ profile.version \in Nat /\ call.base.version \in Nat
  /\ profile.version = 0 => profile.content = NoContent

Shape ==
  call = [at |-> call.at, source |-> call.source, base |-> call.base, tries |-> call.tries,
          draft |-> call.draft]

IInv ==
  /\ Shape /\ Versions /\ BaseRead /\ DraftChecked
  /\ Verbatim(profile.content) /\ Verbatim(call.base.content)

(*------------------------------ The checks ------------------------------*)

(* A draft that passes is verbatim if what the model was shown was.        *)
LEMMA DraftVerbatim ==
  ASSUME NEW new, NEW old, NEW texts, Verbatim(old), ValidDraft(new, old, texts)
  PROVE  Verbatim(new)
  BY DEF Verbatim, ValidDraft, QuotesSource, Ids

(* So is an edit that passes: it brings in nothing but manual evidence.    *)
LEMMA EditVerbatim ==
  ASSUME NEW new, NEW old, Verbatim(old), ValidEdit(new, old)
  PROVE  Verbatim(new)
  BY DEF Verbatim, ValidEdit, Ids

(* A draft that passes keeps what it was made from.                        *)
LEMMA DraftKeeps ==
  ASSUME NEW new, NEW old, NEW texts, ValidDraft(new, old, texts)
  PROVE  Kept(old, new)
<1>1. \A e \in Ids(old.evidence) : e \in Ids(new.evidence) /\ new.evidence[e] = old.evidence[e]
  BY DEF ValidDraft
<1>2. ASSUME NEW f \in Ids(old.facts)
      PROVE  /\ f \in Ids(new.facts)
             /\ \/ new.facts[f] = old.facts[f]
                \/ \E e \in new.facts[f].evidence : new.evidence[e].source \notin Cited(old)
  <2>1. f \in Ids(new.facts)
    BY DEF ValidDraft
  <2>2. CASE new.facts[f] # old.facts[f]
    <3>1. PICK e : e \in new.facts[f].evidence /\ e \in Fresh(new, old)
      BY <2>2 DEF ValidDraft
    <3>2. QED
      BY <2>1, <3>1 DEF Fresh
  <2>3. QED
    BY <2>1, <2>2
<1>3. QED
  BY <1>1, <1>2 DEF Kept

(*------------------------------- The steps ------------------------------*)

LEMMA InitInvariant == Init => IInv
  BY DEF Init, IInv, Shape, Versions, BaseRead, DraftChecked, Verbatim, NoCall, Unsaved, NoContent, Ids

(* A call that reads the profile anew, or starts from nothing.             *)
LEMMA NewBase ==
  ASSUME IInv, profile' = profile, Shape', call'.at # "committing",
         call'.base \in {profile, call.base, Unsaved}
  PROVE  IInv'
<1>1. Verbatim(NoContent) /\ Unsaved.version = 0 /\ Unsaved.content = NoContent
  BY DEF Verbatim, NoContent, Unsaved, Ids
<1>2. QED
  BY <1>1 DEF IInv, Versions, BaseRead, DraftChecked, Verbatim

LEMMA Undisturbed ==
  ASSUME IInv, profile' = profile, call' = call
  PROVE  IInv'
  BY DEF IInv, Shape, Versions, BaseRead, DraftChecked, Verbatim

(* Asking the gateway reads the profile; not asking ends the call.         *)
LEMMA AskReads ==
  ASSUME NEW s, Ask(s)
  PROVE  Shape' /\ call'.at # "committing" /\ call'.base \in {profile, Unsaved}
<1>1. CASE Ends
  BY <1>1 DEF Ends, NoCall, Shape
<1>2. CASE ~Ends
  <2>1. call' = [at |-> "asking", source |-> s, base |-> profile, tries |-> 1, draft |-> NoContent]
    BY <1>2 DEF Ask, NoCall
  <2>2. QED
    BY <2>1 DEF Shape
<1>3. QED
  BY <1>1, <1>2

(* A call that waits for its parser has read nothing.                      *)
LEMMA LeavesParserStep ==
  ASSUME IInv, NEW cancelled, LeavesParser(cancelled), profile' = profile
  PROVE  IInv'
<1> DEFINE at == IF parser' = "running" THEN "idle" ELSE "closing"
<1>1. call' = [NoCall EXCEPT !.at = at]
  BY DEF LeavesParser
<1>2. call' = [at |-> at, source |-> Nothing, base |-> Unsaved, tries |-> 0, draft |-> NoContent]
  BY <1>1 DEF NoCall
<1>3. Shape' /\ call'.at # "committing" /\ call'.base = Unsaved
  BY <1>2 DEF Shape
<1>4. QED
  BY <1>3, NewBase

LEMMA EndsStep ==
  ASSUME IInv, Ends, profile' = profile
  PROVE  IInv'
<1>1. Shape' /\ call'.at # "committing" /\ call'.base = Unsaved
  BY DEF Ends, NoCall, Shape
<1>2. QED
  BY <1>1, NewBase

LEMMA AnswersStep ==
  ASSUME IInv, NEW content, Answers(content)
  PROVE  IInv'
<1> DEFINE new == Restored(content, call.base.content)
<1>1. CASE ValidDraft(new, call.base.content, Texts(call.source))
  <2>1. profile' = profile /\ call' = [call EXCEPT !.at = "committing", !.draft = new]
    BY <1>1 DEF Answers
  <2>2. call'.base = call.base /\ DraftChecked' /\ Shape'
    BY <1>1, <2>1 DEF DraftChecked, IInv, Shape
  <2>3. QED
    BY <2>1, <2>2 DEF IInv, Versions, BaseRead, Verbatim
<1>2. CASE ~ValidDraft(new, call.base.content, Texts(call.source))
  BY <1>2, EndsStep DEF Answers
<1>3. QED
  BY <1>1, <1>2

(* Saving raises the version, and leaves the content of a call that goes   *)
(* on behind.                                                              *)
LEMMA Saves ==
  ASSUME IInv, NEW content, NEW who, Verbatim(content),
         profile' = [version |-> profile.version + 1, by |-> who, content |-> content],
         call' = call \/ call' = NoCall
  PROVE  IInv'
<1>1. Verbatim(NoContent) /\ NoCall.base.version = 0 /\ NoCall.base.content = NoContent
      /\ NoCall.at # "committing" /\ Shape'
  BY DEF Verbatim, NoContent, Unsaved, Ids, NoCall, IInv, Shape
<1>2. profile'.version = profile.version + 1 /\ profile'.content = content
  OBVIOUS
<1>3. QED
  BY <1>1, <1>2 DEF IInv, Versions, BaseRead, DraftChecked, Verbatim

LEMMA CommitStep ==
  ASSUME IInv, Commit
  PROVE  IInv'
<1>1. CASE profile' = profile
  BY <1>1, EndsStep DEF Commit
<1>2. CASE profile' = [version |-> profile.version + 1, by |-> "model", content |-> call.draft]
  <2>1. Verbatim(call.draft)
    BY DraftVerbatim DEF IInv, DraftChecked, Commit
  <2>2. QED
    BY <1>2, <2>1, Saves DEF Commit, Ends
<1>3. QED
  BY <1>1, <1>2 DEF Commit

LEMMA EditStep ==
  ASSUME IInv, NEW content, Edit(content)
  PROVE  IInv'
<1>1. Verbatim(content)
  BY EditVerbatim DEF IInv, Edit
<1>2. QED
  BY <1>1, Saves DEF Edit

LEMMA NextInvariant == IInv /\ [Next]_vars => IInv'
<1> SUFFICES ASSUME IInv, [Next]_vars PROVE IInv'
  OBVIOUS
<1>1. CASE \E d \in Document : TakeDocument(d)
  <2>1. profile' = profile /\ Shape' /\ call'.at # "committing" /\ call'.base = Unsaved
    BY <1>1 DEF TakeDocument, NoCall, Shape
  <2>2. QED
    BY <2>1, NewBase
<1>2. CASE \E m \in Message : TakeMessage(m)
  BY <1>2, AskReads, NewBase DEF TakeMessage
<1>3. CASE ParserExits \/ LoopReaps
  BY <1>3, Undisturbed DEF ParserExits, LoopReaps
<1>4. CASE Extracted
  <2>1. profile' = profile /\ (Ask(call.source) \/ Ends)
    BY <1>4 DEF Extracted
  <2>2. QED
    BY <2>1, AskReads, NewBase, EndsStep
<1>5. CASE ExtractTimeout \/ Reaped \/ CallTimeout \/ Cancel
  <2>1. profile' = profile /\ (Ends \/ \E c \in BOOLEAN : LeavesParser(c))
    BY <1>5 DEF ExtractTimeout, Reaped, CallTimeout, Cancel
  <2>2. QED
    BY <2>1, EndsStep, LeavesParserStep
<1>6. CASE Fails
  <2>1. profile' = profile /\ (call' = [call EXCEPT !.at = "backoff"] \/ Ends)
    BY <1>6 DEF Fails
  <2>2. CASE call' = [call EXCEPT !.at = "backoff"]
    <3>1. Shape' /\ call'.at # "committing" /\ call'.base = call.base
      BY <2>2 DEF IInv, Shape
    <3>2. QED
      BY <2>1, <3>1, NewBase
  <2>3. QED
    BY <2>1, <2>2, EndsStep
<1>7. CASE Retries
  <2>1. profile' = profile /\ Shape' /\ call'.at # "committing" /\ call'.base = call.base
    BY <1>7 DEF Retries, IInv, Shape
  <2>2. QED
    BY <2>1, NewBase
<1>8. CASE \E content : Answers(content)
  BY <1>8, AnswersStep
<1>9. CASE Commit
  BY <1>9, CommitStep
<1>10. CASE \E content : Edit(content)
  BY <1>10, EditStep
<1>11. CASE UNCHANGED vars
  BY <1>11, Undisturbed DEF vars
<1>12. QED
  BY <1>1, <1>2, <1>3, <1>4, <1>5, <1>6, <1>7, <1>8, <1>9, <1>10, <1>11 DEF Next

(*------------------------------- Theorems -------------------------------*)

THEOREM InvariantHolds == Spec => []IInv
  BY InitInvariant, NextInvariant, PTL DEF Spec

(* What a profile presents as said in a document or a message is literally *)
(* there, after any number of turns and edits.                             *)
THEOREM AlwaysVerbatim == Spec => []EvidenceVerbatim
<1>1. IInv => EvidenceVerbatim
  BY DEF IInv, Verbatim, EvidenceVerbatim
<1>2. QED
  BY <1>1, InvariantHolds, PTL

(* A turn of the model takes nothing away and changes a fact only on the   *)
(* word of a source not heard before.                                      *)
THEOREM TurnsKeepFacts == Spec => ModelKeepsFacts
<1>1. IInv /\ [Next]_vars =>
        [profile'.by = "model" /\ profile' # profile => Kept(profile.content, profile'.content)]_vars
  <2> SUFFICES ASSUME IInv, Next, profile'.by = "model", profile' # profile
               PROVE  Kept(profile.content, profile'.content)
    OBVIOUS
  <2>1. CASE Commit
    <3>1. /\ call.base.content = profile.content
          /\ profile'.content = call.draft
      BY <2>1 DEF Commit, IInv, BaseRead
    <3>2. PICK texts : ValidDraft(call.draft, call.base.content, texts)
      BY <2>1 DEF Commit, IInv, DraftChecked
    <3>3. QED
      BY <3>1, <3>2, DraftKeeps
  <2>2. CASE \E content : Edit(content)
    BY <2>2 DEF Edit
  <2>3. QED
    BY <2>1, <2>2 DEF Next, TakeDocument, TakeMessage, ParserExits, LoopReaps, Extracted, ExtractTimeout,
       Reaped, LeavesParser, CallTimeout, Cancel, Fails, Retries, Answers
<1>2. QED
  BY <1>1, InvariantHolds, PTL DEF Spec, ModelKeepsFacts
=============================================================================
