------------------------ MODULE MemoryPlatformProofs ------------------------
(***************************************************************************)
(* A profile is reserved by exactly the conversation under way on it,      *)
(* nothing of a deleted session reappears and tasks live as TaskLifecycle  *)
(* promises, for any number of sessions, tasks and profiles.  What carries *)
(* the proofs is that the rows and the event loop agree: as long as the    *)
(* session is there, a task is unfinished in the repository exactly while  *)
(* its coroutine is on its way, and its items are as far as that is.       *)
(***************************************************************************)
EXTENDS MemoryPlatform, TLAPS

OnItsWay == Awaits \cup {"scheduled"}
Agrees(t) == status[t] \in ACTIVE <=> co[t].at \in OnItsWay
Shaped(t) == co[t] = [at |-> co[t].at, base |-> co[t].base, todo |-> co[t].todo, on |-> co[t].on]

Domains ==
  /\ DOMAIN session = Session /\ DOMAIN latest = Profile /\ DOMAIN busy = Profile
  /\ DOMAIN status = Task /\ DOMAIN item = Task /\ DOMAIN made = Task /\ DOMAIN co = Task
  /\ \A t \in Task : Shaped(t)

IInv ==
  /\ Domains
  /\ \A t \in Task : session[Owner[t]] # "gone" => Agrees(t)
  /\ ProfileReserved
  /\ NothingReappears

(* What a coroutine or a request of task t may do while its session is     *)
(* there: change what is t's, and free its profile exactly when t ends.    *)
Others(t) ==
  /\ session' = session
  /\ \A u \in Task \ {t} :
       status'[u] = status[u] /\ made'[u] = made[u] /\ item'[u] = item[u] /\ co'[u] = co[u]
  /\ \A p \in Profile : Holder[p] # Owner[t] => latest'[p] = latest[p]

LocalStep(t) ==
  /\ session[Owner[t]] # "gone" /\ Others(t)
  /\ Domains' /\ Agrees(t)'
  /\ \/ status[t] \in ACTIVE /\ status'[t] \in ACTIVE /\ busy' = busy
     \/ status'[t] \notin ACTIVE /\ busy' = Freed(t)

LEMMA Distinct ==
  /\ ACTIVE = {"queued", "running"}
  /\ OnItsWay = {"before", "intake", "scoring", "reporting", "scheduled"}
  BY DEF ACTIVE, OnItsWay, Awaits

LEMMA Owners == ASSUME NEW t \in Task PROVE Owner[t] \in Session
  BY MemoryAssumption

(* A conversation belongs to the session of its profile.                   *)
LEMMA ChatHolder ==
  ASSUME NEW p \in Profile, NEW t \in Talking(p)
  PROVE  t \in Task /\ Owner[t] = Holder[p]
  BY MemoryAssumption DEF Talking

(* A local step keeps the invariant.                                       *)
LEMMA LocalInvariant ==
  ASSUME IInv, NEW t \in Task, LocalStep(t)
  PROVE  IInv'
<1> USE DEF LocalStep, Others
<1>1. \A u \in Task : session'[Owner[u]] # "gone" => Agrees(u)'
  BY DEF IInv, Agrees
<1>2. NothingReappears'
  BY DEF IInv, NothingReappears
<1>3. ASSUME NEW p \in Profile, session'[Holder[p]] # "gone"
      PROVE  Talking(p)' = {busy'[p]} \ {Nobody}
  <2>1. Talking(p) = {busy[p]} \ {Nobody}
    BY <1>3 DEF IInv, ProfileReserved
  <2>2. CASE status[t] \in ACTIVE /\ status'[t] \in ACTIVE /\ busy' = busy
    <3>1. Talking(p)' = Talking(p)
      BY <2>2 DEF Talking
    <3>2. QED
      BY <2>1, <2>2, <3>1
  <2>3. CASE status'[t] \notin ACTIVE /\ busy' = Freed(t)
    <3>1. Talking(p)' = Talking(p) \ {t}
      BY <2>3 DEF Talking
    <3>2. busy'[p] = IF busy[p] = t THEN Nobody ELSE busy[p]
      BY <2>3 DEF Freed
    <3>3. t # Nobody
      BY MemoryAssumption
    <3>4. QED
      BY <2>1, <3>1, <3>2, <3>3
  <2>4. QED
    BY <2>2, <2>3
<1>4. QED
  BY <1>1, <1>2, <1>3 DEF IInv, ProfileReserved

(*-------------------------- Steps of a coroutine ------------------------*)

(* A coroutine nobody touched keeps its shape.                             *)
LEMMA OthersShaped ==
  ASSUME Domains, NEW u \in Task, co'[u] = co[u]
  PROVE  Shaped(u)'
  BY DEF Domains, Shaped

(* The end of a coroutine.                                                 *)
LEMMA EndsShape ==
  ASSUME Domains, NEW t \in Task, Ends(t)
  PROVE  /\ \A u \in Task \ {t} : co'[u] = co[u]
         /\ co'[t].at = "done" /\ busy' = Freed(t)
         /\ DOMAIN co' = Task /\ DOMAIN busy' = Profile /\ \A u \in Task : Shaped(u)'
<1>1. [NoCo EXCEPT !.at = "done"] = [at |-> "done", base |-> 0, todo |-> {}, on |-> {}]
  BY DEF NoCo
<1>2. co'[t] = [at |-> "done", base |-> 0, todo |-> {}, on |-> {}]
      /\ \A u \in Task \ {t} : co'[u] = co[u]
  BY <1>1 DEF Ends, Domains
<1>3. \A u \in Task : Shaped(u)'
  BY <1>2, OthersShaped DEF Shaped
<1>4. DOMAIN busy' = Profile /\ busy' = Freed(t)
  BY DEF Ends, Freed
<1>5. DOMAIN co' = Task
  BY DEF Ends, Domains
<1>6. QED
  BY <1>2, <1>3, <1>4, <1>5

LEMMA AwaitShape ==
  ASSUME Domains, NEW t \in Task, NEW at, Await(t, at)
  PROVE  /\ \A u \in Task \ {t} : co'[u] = co[u]
         /\ co'[t].at = at /\ DOMAIN co' = Task /\ \A u \in Task : Shaped(u)'
<1>1. co'[t] = [co[t] EXCEPT !.at = at] /\ \A u \in Task \ {t} : co'[u] = co[u]
  BY DEF Await, Domains
<1>2. co'[t] = [at |-> at, base |-> co[t].base, todo |-> co[t].todo, on |-> co[t].on]
  <2>1. co[t] = [at |-> co[t].at, base |-> co[t].base, todo |-> co[t].todo, on |-> co[t].on]
    BY DEF Domains, Shaped
  <2>2. QED
    BY <1>1, <2>1
<1>3. \A u \in Task : Shaped(u)'
  BY <1>1, <1>2, OthersShaped DEF Shaped
<1>4. DOMAIN co' = Task
  BY DEF Await, Domains
<1>5. QED
  BY <1>1, <1>2, <1>3, <1>4

(* A task that ends with the given rows, in a session that is there.       *)
LEMMA Finishing ==
  ASSUME IInv, NEW t \in Task, NEW rows, NEW final, final \notin ACTIVE,
         session[Owner[t]] # "gone", Ends(t),
         item' = [item EXCEPT ![t] = rows], status' = [status EXCEPT ![t] = final],
         UNCHANGED <<session, made, latest>>
  PROVE  LocalStep(t)
<1>1. Domains' /\ Agrees(t)'
  BY EndsShape, Distinct DEF IInv, Domains, Agrees
<1>2. Others(t)
  BY EndsShape DEF IInv, Domains, Others
<1>3. QED
  BY <1>1, <1>2, EndsShape DEF LocalStep, IInv, Domains

LEMMA NextItemStep ==
  ASSUME IInv, NEW t \in Task, NEW rows, NextItem(t, rows),
         session[Owner[t]] # "gone", co[t].at \in Awaits
  PROVE  LocalStep(t)
<1>1. CASE item' = [item EXCEPT ![t] = rows] /\ status' = [status EXCEPT ![t] = Summary(t, rows)]
           /\ Ends(t) /\ UNCHANGED <<session, made, latest, rounds>>
  <2>1. Summary(t, rows) \notin ACTIVE
    BY Distinct DEF Summary
  <2>2. UNCHANGED <<session, made, latest>>
    BY <1>1
  <2>3. QED
    BY <1>1, <2>1, <2>2, Finishing
<1>2. CASE \E i \in co[t].todo :
             /\ item' = [item EXCEPT ![t] = [rows EXCEPT ![i].status = "scoring"]]
             /\ co' = [co EXCEPT ![t] = [at |-> "scoring", base |-> co[t].base,
                                         todo |-> co[t].todo \ {i}, on |-> {i}]]
             /\ UNCHANGED <<session, status, made, latest, rounds, busy>>
  <2>1. PICK i \in co[t].todo :
             /\ item' = [item EXCEPT ![t] = [rows EXCEPT ![i].status = "scoring"]]
             /\ co' = [co EXCEPT ![t] = [at |-> "scoring", base |-> co[t].base,
                                         todo |-> co[t].todo \ {i}, on |-> {i}]]
             /\ UNCHANGED <<session, status, made, latest, rounds, busy>>
    BY <1>2
  <2>2. \A u \in Task \ {t} : co'[u] = co[u]
    BY <2>1 DEF IInv, Domains
  <2>3. co'[t] = [at |-> "scoring", base |-> co[t].base, todo |-> co[t].todo \ {i}, on |-> {i}]
    BY <2>1 DEF IInv, Domains
  <2>4. status[t] \in ACTIVE
    BY DEF IInv, Agrees, OnItsWay
  <2>5. Domains'
    <3>1. \A u \in Task : Shaped(u)'
      BY <2>2, <2>3, OthersShaped DEF Shaped, IInv
    <3>2. DOMAIN co' = Task /\ DOMAIN item' = Task
      BY <2>1 DEF IInv, Domains
    <3>3. QED
      BY <2>1, <3>1, <3>2 DEF IInv, Domains
  <2>6. Others(t)
    BY <2>1, <2>2 DEF IInv, Domains, Others
  <2>7. Agrees(t)'
    BY <2>1, <2>3, <2>4, Distinct DEF Agrees
  <2>8. QED
    BY <2>1, <2>4, <2>5, <2>6, <2>7 DEF LocalStep
<1>3. QED
  BY <1>1, <1>2 DEF NextItem

LEMMA RaiseStep ==
  ASSUME IInv, NEW t \in Task, Raise(t), session[Owner[t]] # "gone"
  PROVE  LocalStep(t)
<1> DEFINE rows == [i \in Item |-> GivenUp(item[t][i])]
           final == IF \E i \in Jobs[t] : rows[i].scored THEN "partial" ELSE "failed"
<1>1. /\ item' = [item EXCEPT ![t] = rows] /\ status' = [status EXCEPT ![t] = final]
      /\ Ends(t) /\ UNCHANGED <<session, made, latest>>
  BY DEF Raise
<1>2. final \notin ACTIVE
  BY Distinct
<1> HIDE DEF rows, final
<1>3. QED
  BY <1>1, <1>2, Finishing

LEMMA StoresStep ==
  ASSUME IInv, NEW t \in Task, Stores(t)
  PROVE  LocalStep(t)
<1>1. \A p \in Profile : Holder[p] # Owner[t] => latest'[p] = latest[p]
  BY MemoryAssumption DEF Stores, IInv, Domains
<1>2. Others(t)
  BY <1>1, EndsShape DEF Stores, IInv, Domains, Others
<1>3. Domains'
  BY EndsShape DEF Stores, IInv, Domains
<1>4. status'[t] = "succeeded"
  BY DEF Stores, IInv, Domains
<1>5. QED
  BY <1>2, <1>3, <1>4, EndsShape, Distinct DEF Stores, StillActive, LocalStep, Agrees, IInv

(* A coroutine that goes on to its next await.                             *)
LEMMA WaitsStep ==
  ASSUME IInv, NEW t \in Task, NEW at \in Awaits, Await(t, at),
         co[t].at \in OnItsWay, session[Owner[t]] # "gone",
         DOMAIN item' = Task, \A u \in Task \ {t} : item'[u] = item[u],
         status' \in {status, [status EXCEPT ![t] = "running"]},
         UNCHANGED <<session, made, latest, busy>>
  PROVE  LocalStep(t)
<1>1. status[t] \in ACTIVE
  BY DEF IInv, Agrees
<1>2. status'[t] \in ACTIVE /\ \A u \in Task \ {t} : status'[u] = status[u]
  BY <1>1, Distinct DEF IInv, Domains
<1>3. Others(t)
  BY <1>2, AwaitShape DEF IInv, Domains, Others
<1>4. Domains'
  BY AwaitShape DEF IInv, Domains
<1>5. Agrees(t)'
  BY <1>2, AwaitShape DEF IInv, Agrees, OnItsWay
<1>6. QED
  BY <1>1, <1>2, <1>3, <1>4, <1>5 DEF LocalStep

LEMMA StepInvariant ==
  ASSUME IInv, NEW t \in Task,
         Start(t) \/ Proceed(t) \/ Stores(t) \/ Scored(t) \/ Reported(t)
           \/ ItemFails(t) \/ WorkFails(t) \/ Timeout(t)
  PROVE  IInv'
<1>1. CASE Start(t)
  <2>1. Await(t, "before") /\ "before" \in Awaits
    BY <1>1 DEF Start, Awaits
  <2>2. LocalStep(t)
    BY <1>1, <2>1, WaitsStep DEF Start, OnItsWay, IInv, Domains
  <2>3. QED
    BY <2>2, LocalInvariant
<1>2. CASE Proceed(t)
  <2>1. CASE NextItem(t, item[t])
    BY <1>2, <2>1, NextItemStep, LocalInvariant DEF Proceed, Awaits
  <2>2. CASE Await(t, "intake") /\ UNCHANGED <<session, status, item, made, latest, rounds, busy>>
    <3>1. "intake" \in Awaits /\ co[t].at \in OnItsWay
      BY <1>2 DEF Proceed, Awaits, OnItsWay
    <3>2. LocalStep(t)
      BY <1>2, <2>2, <3>1, WaitsStep DEF Proceed, IInv, Domains
    <3>3. QED
      BY <3>2, LocalInvariant
  <2>3. QED
    BY <1>2, <2>1, <2>2 DEF Proceed
<1>3. CASE Stores(t)
  BY <1>3, StoresStep, LocalInvariant
<1>4. CASE Scored(t)
  <2>1. "reporting" \in Awaits /\ co[t].at \in OnItsWay
    BY <1>4 DEF Scored, Awaits, OnItsWay
  <2>2. LocalStep(t)
    BY <1>4, <2>1, WaitsStep DEF Scored, IInv, Domains
  <2>3. QED
    BY <2>2, LocalInvariant
<1>5. CASE Reported(t)
  BY <1>5, NextItemStep, LocalInvariant DEF Reported, Awaits
<1>6. CASE ItemFails(t)
  BY <1>6, NextItemStep, LocalInvariant DEF ItemFails, Awaits
<1>7. CASE WorkFails(t)
  BY <1>7, RaiseStep, LocalInvariant DEF WorkFails
<1>8. CASE Timeout(t)
  BY <1>8, RaiseStep, LocalInvariant DEF Timeout
<1>9. QED
  BY <1>1, <1>2, <1>3, <1>4, <1>5, <1>6, <1>7, <1>8

(* A task whose coroutine was cancelled has left the repository already.   *)
LEMMA CancelledStep ==
  ASSUME IInv, NEW t \in Task, Cancelled(t)
  PROVE  IInv'
<1>1. Domains' /\ busy' = Freed(t) /\ \A u \in Task \ {t} : co'[u] = co[u]
  BY EndsShape DEF Cancelled, IInv, Domains
<1>2. co[t].at \notin OnItsWay /\ co'[t].at \notin OnItsWay
  BY EndsShape, Distinct DEF Cancelled, IInv
<1>3. \A u \in Task : session'[Owner[u]] # "gone" => Agrees(u)'
  BY <1>1, <1>2 DEF Cancelled, IInv, Agrees
<1>4. NothingReappears'
  BY DEF Cancelled, IInv, NothingReappears
<1>5. ASSUME NEW p \in Profile, session'[Holder[p]] # "gone"
      PROVE  Talking(p)' = {busy'[p]} \ {Nobody}
  <2>1. Talking(p)' = Talking(p) /\ Talking(p) = {busy[p]} \ {Nobody}
    BY <1>5 DEF Cancelled, IInv, ProfileReserved, Talking
  <2>2. t \notin Talking(p)
    <3>1. ASSUME t \in Talking(p) PROVE FALSE
      <4>1. session[Owner[t]] # "gone" /\ status[t] \in ACTIVE
        BY <1>5, <3>1, ChatHolder DEF Cancelled, Talking
      <4>2. QED
        BY <1>2, <4>1 DEF IInv, Agrees
    <3>2. QED
      BY <3>1
  <2>3. busy[p] # t
    BY <2>1, <2>2, MemoryAssumption
  <2>4. QED
    BY <1>1, <2>1, <2>3 DEF Freed
<1>6. QED
  BY <1>1, <1>3, <1>4, <1>5 DEF IInv, ProfileReserved

(* A session is erased, while a coroutine of it perhaps ends and others of *)
(* it perhaps change where they are.                                       *)
LEMMA EraseStep ==
  ASSUME IInv, NEW s \in Session, Erase(s),
         \A u \in Task : Owner[u] # s => co'[u] = co[u],
         DOMAIN co' = Task, \A u \in Task : Shaped(u)',
         busy' = busy \/ \E t \in Task : Owner[t] = s /\ busy' = Freed(t)
  PROVE  IInv'
<1>1. Domains'
  BY DEF Erase, IInv, Domains, Freed
<1>2. \A r \in Session : session'[r] = IF r = s THEN "gone" ELSE session[r]
  BY DEF Erase, IInv, Domains
<1>3. \A u \in Task : Owner[u] # s => status'[u] = status[u]
  BY DEF Erase
<1>4. ASSUME NEW u \in Task, session'[Owner[u]] # "gone" PROVE Agrees(u)'
  <2>1. Owner[u] # s
    BY <1>2, <1>4, Owners
  <2>2. Agrees(u)
    BY <1>2, <1>4, <2>1, Owners DEF IInv
  <2>3. QED
    BY <1>3, <2>1, <2>2 DEF Agrees
<1>5. ASSUME NEW u \in Task, session'[Owner[u]] = "gone"
      PROVE  /\ status'[u] = "none" /\ made'[u] = 0 /\ \A i \in Item : item'[u][i] = NoItem
             /\ \A p \in Profile : Holder[p] = Owner[u] => latest'[p] = 0
  <2>1. CASE Owner[u] = s
    BY <2>1 DEF Erase
  <2>2. CASE Owner[u] # s
    <3>1. session[Owner[u]] = "gone"
      BY <1>2, <1>5, <2>2, Owners
    <3>2. QED
      BY <2>2, <3>1 DEF Erase, IInv, NothingReappears
  <2>3. QED
    BY <2>1, <2>2
<1>6. ASSUME NEW p \in Profile, session'[Holder[p]] # "gone"
      PROVE  Talking(p)' = {busy'[p]} \ {Nobody}
  <2>1. Holder[p] # s /\ session[Holder[p]] # "gone"
    BY <1>2, <1>6, MemoryAssumption
  <2>2. Talking(p) = {busy[p]} \ {Nobody}
    BY <2>1 DEF IInv, ProfileReserved
  <2>3. Talking(p)' = Talking(p)
    <3>1. \A u \in Task : Kind[u] = "profile_chat" /\ About[u] = p => status'[u] = status[u]
      BY <1>3, <2>1, MemoryAssumption
    <3>2. QED
      BY <3>1 DEF Talking
  <2>4. ASSUME NEW t \in Task, Owner[t] = s PROVE busy[p] # t
    BY <2>1, <2>2, <2>4, ChatHolder, MemoryAssumption
  <2>5. busy'[p] = busy[p]
    BY <2>4 DEF Freed
  <2>6. QED
    BY <2>2, <2>3, <2>5
<1>7. QED
  BY <1>1, <1>4, <1>5, <1>6 DEF IInv, ProfileReserved, NothingReappears

LEMMA GoneStep ==
  ASSUME IInv, NEW t \in Task, Gone(t)
  PROVE  IInv'
<1>1. CASE session[Owner[t]] = "expired" /\ Erase(Owner[t])
  <2>1. \A u \in Task : Owner[u] # Owner[t] => co'[u] = co[u]
    BY EndsShape DEF Gone, IInv
  <2>2. DOMAIN co' = Task /\ (\A u \in Task : Shaped(u)') /\ busy' = Freed(t)
    BY EndsShape DEF Gone, IInv
  <2>3. QED
    BY <1>1, <2>1, <2>2, EraseStep, Owners
<1>2. CASE session[Owner[t]] = "gone" /\ UNCHANGED <<session, status, item, made, latest, rounds>>
  <2>1. Domains' /\ busy' = Freed(t) /\ \A u \in Task \ {t} : co'[u] = co[u]
    BY <1>2, EndsShape DEF Gone, IInv, Domains
  <2>2. \A u \in Task : session'[Owner[u]] # "gone" => Agrees(u)'
    BY <1>2, <2>1 DEF IInv, Agrees
  <2>3. NothingReappears'
    BY <1>2 DEF IInv, NothingReappears
  <2>4. ASSUME NEW p \in Profile, session'[Holder[p]] # "gone"
        PROVE  Talking(p)' = {busy'[p]} \ {Nobody}
    <3>1. Talking(p)' = Talking(p) /\ Talking(p) = {busy[p]} \ {Nobody}
      BY <1>2, <2>4 DEF IInv, ProfileReserved, Talking
    <3>2. t \notin Talking(p)
      BY <1>2, <2>4, ChatHolder
    <3>3. busy[p] # t
      BY <3>1, <3>2, MemoryAssumption
    <3>4. QED
      BY <2>1, <3>1, <3>3 DEF Freed
  <2>5. QED
    BY <2>1, <2>2, <2>3, <2>4 DEF IInv, ProfileReserved
<1>3. QED
  BY <1>1, <1>2 DEF Gone

(*-------------------------- Steps of a request --------------------------*)

LEMMA CreateStep ==
  ASSUME IInv, NEW t \in Task, Create(t)
  PROVE  IInv'
<1>1. session[Owner[t]] = "live" /\ session' = session /\ made' = made /\ latest' = latest
  BY DEF Create
<1>2. /\ co'[t] = [at |-> "scheduled", base |-> latest[About[t]], todo |-> Jobs[t], on |-> {}]
      /\ \A u \in Task \ {t} : co'[u] = co[u]
  BY DEF Create, IInv, Domains
<1>3. Domains'
  <2>1. \A u \in Task : Shaped(u)'
    BY <1>2, OthersShaped DEF Shaped, IInv
  <2>2. DOMAIN co' = Task /\ DOMAIN status' = Task /\ DOMAIN item' = Task /\ DOMAIN busy' = Profile
    BY DEF Create, IInv, Domains
  <2>3. QED
    BY <1>1, <2>1, <2>2 DEF IInv, Domains
<1>4. status'[t] = "queued" /\ \A u \in Task \ {t} : status'[u] = status[u] /\ item'[u] = item[u]
  BY DEF Create, IInv, Domains
<1>5. \A u \in Task : session'[Owner[u]] # "gone" => Agrees(u)'
  BY <1>1, <1>2, <1>4, Distinct DEF IInv, Agrees
<1>6. NothingReappears'
  BY <1>1, <1>4 DEF IInv, NothingReappears
<1>7. status[t] \notin ACTIVE
  BY <1>1, Distinct DEF Create, IInv, Agrees
<1>8. ASSUME NEW p \in Profile, session'[Holder[p]] # "gone"
      PROVE  Talking(p)' = {busy'[p]} \ {Nobody}
  <2>1. Talking(p) = {busy[p]} \ {Nobody}
    BY <1>1, <1>8 DEF IInv, ProfileReserved
  <2>2. CASE Kind[t] = "profile_chat" /\ About[t] = p
    <3>1. busy[p] = Nobody /\ busy'[p] = t
      BY <2>2 DEF Create, IInv, Domains
    <3>2. Talking(p)' = Talking(p) \cup {t}
      BY <1>4, <2>2, Distinct DEF Talking
    <3>3. t # Nobody
      BY MemoryAssumption
    <3>4. QED
      BY <2>1, <3>1, <3>2, <3>3
  <2>3. CASE ~(Kind[t] = "profile_chat" /\ About[t] = p)
    <3>1. busy'[p] = busy[p]
      BY <2>3 DEF Create, IInv, Domains
    <3>2. Talking(p)' = Talking(p)
      BY <1>4, <2>3 DEF Talking
    <3>3. QED
      BY <2>1, <3>1, <3>2
  <2>4. QED
    BY <2>2, <2>3
<1>9. QED
  BY <1>3, <1>5, <1>6, <1>8 DEF IInv, ProfileReserved

LEMMA RevokeStep ==
  ASSUME IInv, NEW s \in Session, Revoke(s)
  PROVE  IInv'
<1>1. Erase(s) /\ busy' = busy /\ DOMAIN co' = Task
  BY DEF Revoke
<1>2. \A u \in Task : Owner[u] # s => co'[u] = co[u]
  BY DEF Revoke
<1>3. ASSUME NEW u \in Task PROVE Shaped(u)'
  <2>1. CASE co'[u] = co[u]
    BY <2>1, OthersShaped DEF IInv
  <2>2. CASE \E at \in {"cancelled", "lost"} : co'[u] = [at |-> at, base |-> 0, todo |-> {}, on |-> {}]
    BY <2>2 DEF Shaped
  <2>3. \A at : [NoCo EXCEPT !.at = at] = [at |-> at, base |-> 0, todo |-> {}, on |-> {}]
    BY DEF NoCo
  <2>4. co'[u] = co[u] \/ \E at \in {"cancelled", "lost"} : co'[u] = [NoCo EXCEPT !.at = at]
    BY DEF Revoke
  <2>5. QED
    BY <2>1, <2>2, <2>3, <2>4
<1>4. QED
  BY <1>1, <1>2, <1>3, EraseStep

(* What leaves tasks, reservations and deleted sessions alone.             *)
LEMMA Apart ==
  ASSUME IInv, Domains', UNCHANGED <<status, item, made, busy, co>>,
         \A s \in Session : session'[s] = "gone" <=> session[s] = "gone",
         \A p \in Profile : session[Holder[p]] = "gone" => latest'[p] = latest[p]
  PROVE  IInv'
<1>1. \A u \in Task : session'[Owner[u]] # "gone" => Agrees(u)'
  BY Owners DEF IInv, Agrees
<1>2. NothingReappears'
  BY Owners DEF IInv, NothingReappears
<1>3. ProfileReserved'
  BY MemoryAssumption DEF IInv, ProfileReserved, Talking
<1>4. QED
  BY <1>1, <1>2, <1>3 DEF IInv

LEMMA EditStep ==
  ASSUME IInv, NEW p \in Profile, Edit(p)
  PROVE  IInv'
<1>1. Domains'
  BY DEF Edit, IInv, Domains, Shaped
<1>2. \A q \in Profile : session[Holder[q]] = "gone" => latest'[q] = latest[q]
  BY DEF Edit, IInv, Domains
<1>3. QED
  BY <1>1, <1>2, Apart DEF Edit

LEMMA ExpireStep ==
  ASSUME IInv, NEW s \in Session, Expire(s)
  PROVE  IInv'
<1>1. Domains'
  BY DEF Expire, IInv, Domains, Shaped
<1>2. \A r \in Session : session'[r] = "gone" <=> session[r] = "gone"
  BY DEF Expire, IInv, Domains
<1>3. QED
  BY <1>1, <1>2, Apart DEF Expire

LEMMA InitInvariant == Init => IInv
<1> SUFFICES ASSUME Init PROVE IInv
  OBVIOUS
<1>1. Domains
  BY DEF Init, Domains, Shaped, NoCo
<1>2. \A t \in Task : Agrees(t)
  BY Distinct DEF Init, Agrees, NoCo
<1>3. ProfileReserved
  BY Distinct DEF Init, ProfileReserved, Talking
<1>4. NothingReappears
  BY Owners DEF Init, NothingReappears
<1>5. QED
  BY <1>1, <1>2, <1>3, <1>4 DEF IInv

LEMMA NextInvariant == IInv /\ [Next]_vars => IInv'
<1> SUFFICES ASSUME IInv, [Next]_vars PROVE IInv'
  OBVIOUS
<1>1. ASSUME NEW t \in Task, Create(t) PROVE IInv'
  BY <1>1, CreateStep
<1>2. ASSUME NEW t \in Task, Step(t) PROVE IInv'
  BY <1>2, StepInvariant, GoneStep, CancelledStep DEF Step
<1>3. ASSUME NEW p \in Profile, Edit(p) PROVE IInv'
  BY <1>3, EditStep
<1>4. ASSUME NEW s \in Session, Revoke(s) PROVE IInv'
  BY <1>4, RevokeStep
<1>5. ASSUME NEW s \in Session, Notice(s) PROVE IInv'
  <2>1. Erase(s) /\ busy' = busy /\ co' = co
    BY <1>5 DEF Notice
  <2>2. DOMAIN co' = Task /\ \A u \in Task : co'[u] = co[u] /\ Shaped(u)'
    BY <2>1 DEF IInv, Domains, Shaped
  <2>3. QED
    BY <2>1, <2>2, EraseStep
<1>6. ASSUME NEW s \in Session, Expire(s) PROVE IInv'
  BY <1>6, ExpireStep
<1>7. CASE UNCHANGED vars
  BY <1>7 DEF vars, IInv, Domains, Shaped, Agrees, ProfileReserved, Talking, NothingReappears
<1>8. QED
  BY <1>1, <1>2, <1>3, <1>4, <1>5, <1>6, <1>7 DEF Next

(* Every step keeps the invariant, with or without fairness.               *)
THEOREM InvariantHolds == Spec => []IInv
<1>1. QED
  BY InitInvariant, NextInvariant, PTL DEF Spec

(* chat() reserves a profile and the finally clause of _run frees it       *)
(* (platform/service.py): at any time the reservation names the one        *)
(* conversation that is under way, whatever was cancelled, timed out,      *)
(* expired or deleted.                                                     *)
THEOREM AlwaysReserved == Spec => []ProfileReserved
<1>1. IInv => ProfileReserved
  BY DEF IInv
<1>2. QED
  BY <1>1, InvariantHolds, PTL

(* After repo.revoke no coroutine that is still running stores anything    *)
(* of the session (StillActive in _run, platform/service.py).              *)
THEOREM DeletedStaysDeleted == Spec => []NothingReappears
<1>1. IInv => NothingReappears
  BY DEF IInv
<1>2. QED
  BY <1>1, InvariantHolds, PTL

(***************************************************************************)
(*                         The abstract life cycle                         *)
(***************************************************************************)

ItemRow == [status : Open \cup {"none", "succeeded", "score_only", "failed"}, scored : BOOLEAN]
Untouched(row) == row.status = "pending" /\ ~row.scored
Done(row) ==
  /\ row.status \in {"succeeded", "score_only", "failed"}
  /\ row.scored <=> row.status # "failed"

(* What the coroutine c of a task knows of its rows: which items are still *)
(* to do, which one it is at, and that all the others are settled.         *)
Tracked(t, state, rows, versions, c) ==
  /\ rows \in [Item -> ItemRow] /\ \A i \in Item \ Jobs[t] : rows[i].status = "none"
  /\ c.at = "none" => state = "none" /\ versions = 0 /\ \A i \in Item : rows[i].status = "none"
  /\ c.at = "scheduled" => state = "queued"
  /\ c.at \in Awaits => state = "running"
  /\ c.at = "intake" => Kind[t] # "diagnosis"
  /\ c.at \in {"scoring", "reporting"} => Kind[t] = "diagnosis"
  /\ c.at \in OnItsWay =>
       /\ versions = 0 /\ c.todo \subseteq Jobs[t] /\ c.on \subseteq Jobs[t] \ c.todo
       /\ \A i \in c.todo : Untouched(rows[i])
       /\ \A i \in Jobs[t] \ (c.todo \cup c.on) : Done(rows[i])
       /\ c.at \in {"scheduled", "before", "intake"} => c.todo = Jobs[t] /\ c.on = {}
       /\ c.at \in {"scoring", "reporting"} =>
            \E i \in Jobs[t] : /\ c.on = {i} /\ rows[i].status = c.at
                               /\ rows[i].scored <=> c.at = "reporting"

LifeInv ==
  /\ IInv
  /\ \A t \in Task : session[Owner[t]] # "gone" => Tracked(t, status[t], item[t], made[t], co[t])

(* What TaskLifecycle sees of tasks and items.                             *)
Outcome(row) == IF row.status \in Open \cup {"none"} THEN "open" ELSE row.status
PhaseMap == [t \in Task |-> IF session[Owner[t]] = "gone" THEN "erased" ELSE status[t]]
OutcomeMap == [t \in Task |-> [i \in Item |->
                 IF item[t][i].status \in Open \cup {"none"} THEN "open" ELSE item[t][i].status]]

SameOutcomes(t) == \A i \in Item : Outcome(item'[t][i]) = Outcome(item[t][i])
Same(t) == PhaseMap'[t] = PhaseMap[t] /\ SameOutcomes(t)
AbstractStep == [Lifecycle!Next]_(Lifecycle!vars)

(* A step of task t in a session that is there.                            *)
Alone(t) == session[Owner[t]] # "gone" /\ Others(t)

LEMMA Maps ==
  /\ PhaseMap = [t \in Task |-> PhaseMap[t]] /\ PhaseMap' = [t \in Task |-> PhaseMap'[t]]
  /\ OutcomeMap = [t \in Task |-> [i \in Item |-> Outcome(item[t][i])]]
  /\ OutcomeMap' = [t \in Task |-> [i \in Item |-> Outcome(item'[t][i])]]
  /\ \A t \in Task :
       /\ PhaseMap[t] = IF session[Owner[t]] = "gone" THEN "erased" ELSE status[t]
       /\ PhaseMap'[t] = IF session'[Owner[t]] = "gone" THEN "erased" ELSE status'[t]
  BY DEF PhaseMap, OutcomeMap, Outcome

(* How phase and outcomes change when those of all tasks but t stay.       *)
LEMMA MapsMove ==
  ASSUME NEW t \in Task, Alone(t)
  PROVE  /\ PhaseMap[t] = status[t] /\ PhaseMap' = [PhaseMap EXCEPT ![t] = status'[t]]
         /\ SameOutcomes(t) => OutcomeMap' = OutcomeMap
         /\ OutcomeMap' = [OutcomeMap EXCEPT ![t] = OutcomeMap'[t]]
<1>1. \A u \in Task \ {t} : PhaseMap'[u] = PhaseMap[u] /\ SameOutcomes(u)
  BY Maps DEF Alone, Others, SameOutcomes
<1>2. PhaseMap[t] = status[t] /\ PhaseMap'[t] = status'[t]
  BY Maps DEF Alone, Others
<1>3. PhaseMap' = [PhaseMap EXCEPT ![t] = status'[t]]
  BY <1>1, <1>2, Maps
<1>4. SameOutcomes(t) => OutcomeMap' = OutcomeMap
  <2>1. SameOutcomes(t) => \A u \in Task : SameOutcomes(u)
    BY <1>1
  <2>2. QED
    BY <2>1, Maps DEF SameOutcomes
<1>5. OutcomeMap' = [OutcomeMap EXCEPT ![t] = OutcomeMap'[t]]
  <2>1. \A u \in Task \ {t} : OutcomeMap'[u] = OutcomeMap[u]
    BY <1>1, Maps DEF SameOutcomes
  <2>2. QED
    BY <2>1, Maps
<1>6. QED
  BY <1>2, <1>3, <1>4, <1>5

(*----------------- Each abstract step, read off the rows ----------------*)

LEMMA AbstractStutter ==
  ASSUME \A u \in Task : Same(u), made' = made
  PROVE  AbstractStep
<1>1. PhaseMap' = PhaseMap /\ OutcomeMap' = OutcomeMap
  BY Maps DEF Same, SameOutcomes
<1>2. QED
  BY <1>1 DEF AbstractStep, Lifecycle!vars, PhaseMap, OutcomeMap

LEMMA AbstractWait ==
  ASSUME NEW t \in Task, Alone(t), SameOutcomes(t), status'[t] = status[t], made' = made
  PROVE  AbstractStep
<1>1. \A u \in Task : Same(u)
  BY Maps DEF Alone, Others, Same, SameOutcomes
<1>2. QED
  BY <1>1, AbstractStutter

LEMMA AbstractSubmit ==
  ASSUME NEW t \in Task, Alone(t), SameOutcomes(t), made' = made, status[t] = "none", status'[t] = "queued"
  PROVE  AbstractStep
<1>1. PhaseMap[t] = "none" /\ PhaseMap' = [PhaseMap EXCEPT ![t] = "queued"] /\ OutcomeMap' = OutcomeMap
  BY MapsMove
<1>2. Lifecycle!Submit(t)
  BY <1>1 DEF Lifecycle!Submit, PhaseMap, OutcomeMap
<1>3. QED
  BY <1>2 DEF AbstractStep, Lifecycle!Next

LEMMA AbstractBegin ==
  ASSUME NEW t \in Task, Alone(t), SameOutcomes(t), made' = made, status[t] = "queued", status'[t] = "running"
  PROVE  AbstractStep
<1>1. PhaseMap[t] = "queued" /\ PhaseMap' = [PhaseMap EXCEPT ![t] = "running"] /\ OutcomeMap' = OutcomeMap
  BY MapsMove
<1>2. Lifecycle!Begin(t)
  BY <1>1 DEF Lifecycle!Begin, PhaseMap, OutcomeMap
<1>3. QED
  BY <1>2 DEF AbstractStep, Lifecycle!Next

LEMMA AbstractGiveUp ==
  ASSUME NEW t \in Task, Alone(t), SameOutcomes(t), made' = made, Kind[t] # "diagnosis",
         status[t] \in ACTIVE, status'[t] = "failed"
  PROVE  AbstractStep
<1>1. PhaseMap[t] \in ACTIVE /\ PhaseMap' = [PhaseMap EXCEPT ![t] = "failed"] /\ OutcomeMap' = OutcomeMap
  BY MapsMove
<1>2. Lifecycle!GiveUp(t)
  BY <1>1 DEF Lifecycle!GiveUp, PhaseMap, OutcomeMap, ACTIVE
<1>3. QED
  BY <1>2 DEF AbstractStep, Lifecycle!Next

LEMMA AbstractSucceed ==
  ASSUME NEW t \in Task, Alone(t), SameOutcomes(t), made' = [made EXCEPT ![t] = 1], Kind[t] # "diagnosis",
         status[t] = "running", status'[t] = "succeeded"
  PROVE  AbstractStep
<1>1. PhaseMap[t] = "running" /\ PhaseMap' = [PhaseMap EXCEPT ![t] = "succeeded"] /\ OutcomeMap' = OutcomeMap
  BY MapsMove
<1>2. Lifecycle!Succeed(t)
  BY <1>1 DEF Lifecycle!Succeed, PhaseMap, OutcomeMap
<1>3. QED
  BY <1>2 DEF AbstractStep, Lifecycle!Next

LEMMA AbstractSettle ==
  ASSUME NEW t \in Task, Alone(t), made' = made, Kind[t] = "diagnosis",
         status[t] = "running", status'[t] = "running", NEW j \in Item, j \in Jobs[t],
         \A i \in Item \ {j} : Outcome(item'[t][i]) = Outcome(item[t][i]),
         Outcome(item[t][j]) = "open", Outcome(item'[t][j]) # "open", item'[t][j] \in ItemRow
  PROVE  AbstractStep
<1>0. PICK o : o = Outcome(item'[t][j])
  OBVIOUS
<1>1. PhaseMap[t] = "running" /\ PhaseMap' = PhaseMap
  <2>1. PhaseMap' = [PhaseMap EXCEPT ![t] = status'[t]] /\ PhaseMap[t] = status[t]
    BY MapsMove
  <2>2. QED
    BY <2>1, Maps
<1>2. OutcomeMap' = [OutcomeMap EXCEPT ![t][j] = o]
  <2>1. OutcomeMap' = [OutcomeMap EXCEPT ![t] = OutcomeMap'[t]]
    BY MapsMove
  <2>2. /\ OutcomeMap[t] = [i \in Item |-> Outcome(item[t][i])]
        /\ OutcomeMap'[t] = [i \in Item |-> Outcome(item'[t][i])]
    BY Maps
  <2>3. OutcomeMap'[t] = [OutcomeMap[t] EXCEPT ![j] = o]
    BY <1>0, <2>2
  <2>4. QED
    BY <2>1, <2>3
<1>3. OutcomeMap[t][j] = "open"
  BY Maps
<1>4. o \in Lifecycle!Outcomes
  BY <1>0 DEF Lifecycle!Outcomes, Outcome, ItemRow
<1>5. Lifecycle!Settle(t, j, o)
  BY <1>1, <1>2, <1>3 DEF Lifecycle!Settle, Lifecycle!Open, PhaseMap, OutcomeMap
<1>6. QED
  BY <1>4, <1>5 DEF AbstractStep, Lifecycle!Next

(* The rows a diagnosis ends with: what was settled, and the rest settled. *)
Completes(t, rows) ==
  /\ rows \in [Item -> ItemRow] /\ \A i \in Jobs[t] : Done(rows[i])
  /\ \A i \in Item :
       IF i \in Jobs[t] /\ Outcome(item[t][i]) = "open"
       THEN rows[i].status = "succeeded" => status[t] = "running"
       ELSE Outcome(rows[i]) = Outcome(item[t][i])

LEMMA AbstractComplete ==
  ASSUME NEW t \in Task, Alone(t), made' = made, Kind[t] = "diagnosis", status[t] \in ACTIVE,
         NEW rows, Completes(t, rows), item'[t] = rows, status'[t] = Summary(t, rows)
  PROVE  AbstractStep
<1> DEFINE o == [i \in Item |-> Outcome(rows[i])]
<1>1. o \in [Item -> Lifecycle!Outcomes \cup {Lifecycle!Open}]
  BY DEF Completes, ItemRow, Outcome, Lifecycle!Outcomes, Lifecycle!Open
<1>2. \A i \in Jobs[t] : /\ i \in Item /\ o[i] = rows[i].status /\ o[i] \in Lifecycle!Outcomes
                         /\ rows[i].scored <=> o[i] # "failed"
  BY MemoryAssumption DEF Completes, Done, Outcome, Open, Lifecycle!Outcomes
<1>3. status'[t] = Lifecycle!Summary(t, o)
  <2>1. Jobs[t] # {}
    BY MemoryAssumption
  <2>2. (\A i \in Jobs[t] : o[i] = "succeeded") <=> status'[t] = "succeeded"
    BY <1>2 DEF Summary
  <2>3. (\A i \in Jobs[t] : o[i] = "failed") <=> status'[t] = "failed"
    BY <1>2, <2>1 DEF Summary
  <2>4. status'[t] \in {"succeeded", "partial", "failed"}
    BY DEF Summary
  <2> HIDE DEF o
  <2>5. QED
    BY <2>1, <2>2, <2>3, <2>4 DEF Lifecycle!Summary
<1>4. /\ PhaseMap[t] = status[t] /\ PhaseMap' = [PhaseMap EXCEPT ![t] = Lifecycle!Summary(t, o)]
      /\ OutcomeMap' = [OutcomeMap EXCEPT ![t] = o]
  <2>1. OutcomeMap'[t] = o
    BY Maps
  <2>2. QED
    BY <1>3, <2>1, MapsMove
<1>5. \A i \in Item :
        IF i \in Jobs[t] /\ OutcomeMap[t][i] = "open"
        THEN o[i] \in Lifecycle!Outcomes /\ (o[i] = "succeeded" => PhaseMap[t] = "running")
        ELSE o[i] = OutcomeMap[t][i]
  <2>1. \A i \in Item : OutcomeMap[t][i] = Outcome(item[t][i])
    BY Maps
  <2>2. \A i \in Item : o[i] = Outcome(rows[i])
    OBVIOUS
  <2> HIDE DEF o
  <2>3. QED
    BY <1>2, <1>4, <2>1, <2>2 DEF Completes
<1> HIDE DEF o
<1>6. Lifecycle!CompleteDiagnosis(t)
  BY <1>1, <1>4, <1>5 DEF Lifecycle!CompleteDiagnosis, Lifecycle!Open, PhaseMap, OutcomeMap, ACTIVE
<1>7. QED
  BY <1>6 DEF AbstractStep, Lifecycle!Next

LEMMA AbstractErase ==
  ASSUME IInv, NEW s \in Session, Erase(s)
  PROVE  AbstractStep
<1> DEFINE T == {t \in Task : Owner[t] = s}
<1>1. /\ \A u \in Task : u \notin T => PhaseMap'[u] = PhaseMap[u] /\ SameOutcomes(u)
      /\ \A u \in T : PhaseMap'[u] = "erased" /\ \A i \in Item : Outcome(item'[u][i]) = "open"
  <2>1. \A r \in Session : session'[r] = IF r = s THEN "gone" ELSE session[r]
    BY DEF Erase, IInv, Domains
  <2>2. \A u \in Task : u \notin T => status'[u] = status[u] /\ item'[u] = item[u]
    BY DEF Erase
  <2>3. \A u \in T : \A i \in Item : item'[u][i] = NoItem
    BY DEF Erase
  <2>4. Outcome(NoItem) = "open"
    BY DEF Outcome, NoItem
  <2>5. QED
    BY <2>1, <2>2, <2>3, <2>4, Maps, Owners DEF SameOutcomes
<1>2. T \in SUBSET Task
  OBVIOUS
<1>3. made' = [t \in Task |-> IF t \in T THEN 0 ELSE made[t]]
  BY DEF Erase
<1> HIDE DEF T
<1>4. PhaseMap' = [t \in Task |-> IF t \in T THEN "erased" ELSE PhaseMap[t]]
  BY <1>1, <1>2, Maps
<1>5. OutcomeMap' = [t \in Task |-> IF t \in T THEN [i \in Item |-> "open"] ELSE OutcomeMap[t]]
  <2>1. \A t \in Task : OutcomeMap'[t] = IF t \in T THEN [i \in Item |-> "open"] ELSE OutcomeMap[t]
    BY <1>1, <1>2, Maps DEF SameOutcomes
  <2>2. QED
    BY <2>1, Maps
<1>6. Lifecycle!Erase(T)
  BY <1>3, <1>4, <1>5 DEF Lifecycle!Erase, Lifecycle!Open, PhaseMap, OutcomeMap
<1>7. QED
  BY <1>2, <1>6 DEF AbstractStep, Lifecycle!Next

(*------------------------ Every step maps to one ------------------------*)

(* A step of task t after which its coroutine still knows its rows.        *)
LEMMA LocalTracked ==
  ASSUME LifeInv, NEW t \in Task, LocalStep(t), Tracked(t, status'[t], item'[t], made'[t], co'[t])
  PROVE  LifeInv'
<1>1. IInv'
  BY LocalInvariant DEF LifeInv
<1>2. ASSUME NEW u \in Task, session'[Owner[u]] # "gone"
      PROVE  Tracked(u, status'[u], item'[u], made'[u], co'[u])
  BY <1>2 DEF LifeInv, LocalStep, Others
<1>3. QED
  BY <1>1, <1>2 DEF LifeInv, Tracked, Untouched, Done, ItemRow

(* A coroutine that has ended knows nothing of its rows but their shape.   *)
LEMMA EndedTracked ==
  ASSUME NEW t \in Task, NEW state, NEW rows, NEW versions, NEW c,
         c.at \notin OnItsWay \cup {"none"},
         rows \in [Item -> ItemRow], \A i \in Item \ Jobs[t] : rows[i].status = "none"
  PROVE  Tracked(t, state, rows, versions, c)
  BY Distinct DEF Tracked, Awaits, OnItsWay

LEMMA AloneStep == ASSUME NEW t \in Task, LocalStep(t) PROVE Alone(t)
  BY DEF LocalStep, Alone

(* A diagnosis ends, all its items settled.                                *)
LEMMA CompleteStep ==
  ASSUME LifeInv, NEW t \in Task, NEW rows, NEW final, final = Summary(t, rows),
         session[Owner[t]] # "gone", Ends(t), Kind[t] = "diagnosis", status[t] \in ACTIVE,
         item' = [item EXCEPT ![t] = rows], status' = [status EXCEPT ![t] = final],
         UNCHANGED <<session, made, latest>>,
         Completes(t, rows), \A i \in Item \ Jobs[t] : rows[i].status = "none"
  PROVE  LifeInv' /\ AbstractStep
<1>1. LocalStep(t)
  <2>1. final \notin ACTIVE
    BY Distinct DEF Summary
  <2>2. QED
    BY <2>1, Finishing DEF LifeInv
<1>2. item'[t] = rows /\ status'[t] = final
  BY DEF LifeInv, IInv, Domains
<1>3. co'[t].at = "done"
  BY EndsShape DEF LifeInv, IInv
<1>4. Tracked(t, status'[t], item'[t], made'[t], co'[t])
  BY <1>2, <1>3, EndedTracked, Distinct DEF Completes
<1>5. QED
  BY <1>1, <1>2, <1>4, LocalTracked, AloneStep, AbstractComplete

(* The rows a diagnosis comes to the next item with: those to do are       *)
(* untouched, the others settled, and at most the current one just now.    *)
Between(t, rows) ==
  /\ rows \in [Item -> ItemRow] /\ \A i \in Item \ Jobs[t] : rows[i].status = "none"
  /\ \A i \in Jobs[t] \ co[t].todo : Done(rows[i])
  /\ \A i \in Item \ co[t].on : rows[i] = item[t][i]

LEMMA NextItemMaps ==
  ASSUME LifeInv, NEW t \in Task, NEW rows, NextItem(t, rows), Between(t, rows),
         session[Owner[t]] # "gone", co[t].at \in {"before", "scoring", "reporting"}, Kind[t] = "diagnosis"
  PROVE  LifeInv' /\ AbstractStep
<1> DEFINE c == co[t]
<1>1. /\ Tracked(t, status[t], item[t], made[t], c) /\ c.at \in Awaits /\ c.at \in OnItsWay
      /\ status[t] = "running" /\ IInv
  BY DEF LifeInv, Tracked, Awaits, OnItsWay
<1>2. /\ c.todo \subseteq Jobs[t] /\ c.on \subseteq Jobs[t] \ c.todo /\ Jobs[t] \subseteq Item /\ Jobs[t] # {}
      /\ \A i \in c.todo : Untouched(item[t][i])
      /\ \A i \in c.on : Outcome(item[t][i]) = "open"
      /\ c.at = "before" => c.todo = Jobs[t] /\ c.on = {}
      /\ c.at \in {"scoring", "reporting"} => \E i \in Jobs[t] : c.on = {i}
  BY <1>1, MemoryAssumption DEF Tracked, Outcome, Open
<1>3. LocalStep(t)
  BY <1>1, NextItemStep
<1>4. CASE /\ c.todo = {} /\ item' = [item EXCEPT ![t] = rows]
           /\ status' = [status EXCEPT ![t] = Summary(t, rows)]
           /\ Ends(t) /\ UNCHANGED <<session, made, latest, rounds>>
  <2>1. Completes(t, rows)
    <3>1. ASSUME NEW i \in Item
          PROVE  IF i \in Jobs[t] /\ Outcome(item[t][i]) = "open"
                 THEN rows[i].status = "succeeded" => status[t] = "running"
                 ELSE Outcome(rows[i]) = Outcome(item[t][i])
      BY <1>1, <1>2 DEF Between
    <3>2. QED
      BY <1>2, <1>4, <3>1 DEF Between, Completes
  <2>2. PICK final : final = Summary(t, rows)
    OBVIOUS
  <2>3. /\ status' = [status EXCEPT ![t] = final] /\ UNCHANGED <<session, made, latest>>
        /\ status[t] \in ACTIVE
    BY <1>1, <1>4, <2>2, Distinct
  <2>4. \A i \in Item \ Jobs[t] : rows[i].status = "none"
    BY DEF Between
  <2>5. QED
    BY <1>4, <2>1, <2>2, <2>3, <2>4, CompleteStep
<1>5. ASSUME NEW j \in c.todo,
             item' = [item EXCEPT ![t] = [rows EXCEPT ![j].status = "scoring"]],
             co' = [co EXCEPT ![t] = [at |-> "scoring", base |-> c.base, todo |-> c.todo \ {j}, on |-> {j}]],
             UNCHANGED <<session, status, made, latest, rounds, busy>>
      PROVE  LifeInv' /\ AbstractStep
  <2>1. j \in Item /\ rows[j] = item[t][j] /\ rows[j].status = "pending" /\ ~rows[j].scored
    BY <1>2 DEF Between, Untouched
  <2>2. /\ \A i \in Item \ {j} : item'[t][i] = rows[i]
        /\ item'[t][j].status = "scoring" /\ item'[t][j].scored = FALSE
        /\ item'[t] \in [Item -> ItemRow]
    <3>1. item'[t] = [rows EXCEPT ![j].status = "scoring"]
      BY <1>1, <1>5 DEF IInv, Domains
    <3>2. rows \in [Item -> ItemRow] /\ rows[j] \in ItemRow
      BY <2>1 DEF Between
    <3>3. [rows[j] EXCEPT !.status = "scoring"] \in ItemRow
      BY <3>2 DEF ItemRow, Open
    <3>4. item'[t] = [rows EXCEPT ![j] = [rows[j] EXCEPT !.status = "scoring"]]
      BY <3>1, <3>2
    <3>5. item'[t][j] = [rows[j] EXCEPT !.status = "scoring"] /\ \A i \in Item \ {j} : item'[t][i] = rows[i]
      BY <2>1, <3>2, <3>4
    <3>6. item'[t][j].status = "scoring" /\ item'[t][j].scored = rows[j].scored
      BY <3>2, <3>5 DEF ItemRow
    <3>7. rows[j].scored = FALSE
      BY <2>1, <3>2 DEF ItemRow
    <3>8. item'[t] \in [Item -> ItemRow]
      BY <3>2, <3>3, <3>4
    <3>9. QED
      BY <3>5, <3>6, <3>7, <3>8
  <2>3. co'[t] = [at |-> "scoring", base |-> c.base, todo |-> c.todo \ {j}, on |-> {j}]
    BY <1>1, <1>5 DEF IInv, Domains
  <2>4. Tracked(t, status'[t], item'[t], made'[t], co'[t])
    <3>1. \A i \in Item \ Jobs[t] : item'[t][i].status = "none"
      BY <1>2, <2>2 DEF Between
    <3>2. \A i \in c.todo \ {j} : Untouched(item'[t][i])
      BY <1>2, <2>2 DEF Between
    <3>3. \A i \in Jobs[t] \ ((c.todo \ {j}) \cup {j}) : Done(item'[t][i])
      BY <1>2, <2>2 DEF Between
    <3>4. \E i \in Jobs[t] : /\ co'[t].on = {i} /\ item'[t][i].status = co'[t].at
                             /\ item'[t][i].scored <=> co'[t].at = "reporting"
      BY <1>2, <2>2, <2>3
    <3>5. status'[t] = "running" /\ made'[t] = 0
      BY <1>1, <1>5 DEF Tracked
    <3>6. co'[t].todo \subseteq Jobs[t] /\ co'[t].on \subseteq Jobs[t] \ co'[t].todo
      BY <1>2, <2>3
    <3>7. QED
      BY <2>2, <2>3, <3>1, <3>2, <3>3, <3>4, <3>5, <3>6 DEF Tracked
  <2>5. LifeInv'
    BY <1>3, <2>4, LocalTracked
  <2>6. Outcome(item'[t][j]) = "open" /\ Outcome(item[t][j]) = "open"
    BY <2>1, <2>2 DEF Outcome, Open
  <2>7. \A i \in Item \ c.on : Outcome(item'[t][i]) = Outcome(item[t][i])
    BY <2>2, <2>6 DEF Between
  <2>8. AbstractStep
    <3>1. CASE c.at = "before"
      <4>1. SameOutcomes(t)
        BY <1>2, <2>7, <3>1 DEF SameOutcomes
      <4>2. QED
        BY <1>3, <1>5, <4>1, AloneStep, AbstractWait
    <3>2. CASE c.at \in {"scoring", "reporting"}
      <4>1. PICK k \in Jobs[t] : c.on = {k}
        BY <1>2, <3>2
      <4>2. k \in Item /\ k # j /\ Done(rows[k]) /\ item'[t][k] = rows[k]
        BY <1>2, <2>2, <4>1 DEF Between
      <4>3. Outcome(item[t][k]) = "open" /\ Outcome(item'[t][k]) # "open" /\ item'[t][k] \in ItemRow
        BY <1>2, <2>2, <4>1, <4>2 DEF Outcome, Done, Open
      <4>4. \A i \in Item \ {k} : Outcome(item'[t][i]) = Outcome(item[t][i])
        BY <2>7, <4>1
      <4>5. QED
        BY <1>1, <1>3, <1>5, <4>2, <4>3, <4>4, AloneStep, AbstractSettle
    <3>3. QED
      BY <3>1, <3>2
  <2>9. QED
    BY <2>5, <2>8
<1>6. QED
  BY <1>4, <1>5 DEF NextItem

LEMMA AwaitKeeps ==
  ASSUME Domains, NEW t \in Task, NEW at, Await(t, at)
  PROVE  co'[t].at = at /\ co'[t].todo = co[t].todo /\ co'[t].on = co[t].on
<1>1. co'[t] = [co[t] EXCEPT !.at = at]
  BY DEF Await, Domains
<1>2. co[t] = [at |-> co[t].at, base |-> co[t].base, todo |-> co[t].todo, on |-> co[t].on]
  BY DEF Domains, Shaped
<1>3. QED
  BY <1>1, <1>2

LEMMA Known ==
  ASSUME LifeInv, NEW t \in Task, session[Owner[t]] # "gone"
  PROVE  Tracked(t, status[t], item[t], made[t], co[t]) /\ IInv /\ Domains
  BY DEF LifeInv, IInv

LEMMA StartMaps ==
  ASSUME LifeInv, NEW t \in Task, Start(t)
  PROVE  LifeInv' /\ AbstractStep
<1>1. /\ session[Owner[t]] # "gone" /\ Await(t, "before") /\ "before" \in Awaits
      /\ co[t].at = "scheduled" /\ co[t].at \in OnItsWay
      /\ status' = [status EXCEPT ![t] = "running"] /\ item' = item
      /\ UNCHANGED <<session, made, latest, busy>>
  BY DEF Start, Awaits, OnItsWay
<1>2. Tracked(t, status[t], item[t], made[t], co[t]) /\ IInv /\ Domains
  BY <1>1, Known
<1>3. LocalStep(t)
  BY <1>1, <1>2, WaitsStep DEF Domains
<1>4. /\ co'[t].at = "before" /\ co'[t].todo = co[t].todo /\ co'[t].on = co[t].on
      /\ status[t] = "queued" /\ status'[t] = "running"
  BY <1>1, <1>2, AwaitKeeps DEF Domains, Tracked
<1>5. Tracked(t, status'[t], item'[t], made'[t], co'[t])
  BY <1>1, <1>2, <1>4, Distinct DEF Tracked
<1>6. SameOutcomes(t)
  BY <1>1 DEF SameOutcomes
<1>7. QED
  BY <1>1, <1>3, <1>4, <1>5, <1>6, LocalTracked, AloneStep, AbstractBegin

LEMMA ProceedMaps ==
  ASSUME LifeInv, NEW t \in Task, Proceed(t)
  PROVE  LifeInv' /\ AbstractStep
<1>1. session[Owner[t]] # "gone" /\ co[t].at = "before" /\ co[t].at \in OnItsWay
  BY DEF Proceed, OnItsWay, Awaits
<1>2. Tracked(t, status[t], item[t], made[t], co[t]) /\ IInv /\ Domains
  BY <1>1, Known
<1>3. CASE Kind[t] = "diagnosis" /\ NextItem(t, item[t])
  <2>1. Between(t, item[t])
    BY <1>1, <1>2 DEF Tracked, Between
  <2>2. QED
    BY <1>1, <1>3, <2>1, NextItemMaps
<1>4. CASE /\ Kind[t] # "diagnosis" /\ Await(t, "intake")
           /\ UNCHANGED <<session, status, item, made, latest, rounds, busy>>
  <2>1. LocalStep(t)
    BY <1>1, <1>2, <1>4, WaitsStep DEF Domains, Awaits
  <2>2. co'[t].at = "intake" /\ co'[t].todo = co[t].todo /\ co'[t].on = co[t].on
    BY <1>2, <1>4, AwaitKeeps
  <2>3. Tracked(t, status'[t], item'[t], made'[t], co'[t])
    BY <1>1, <1>2, <1>4, <2>2, Distinct DEF Tracked, Awaits
  <2>4. SameOutcomes(t)
    BY <1>4 DEF SameOutcomes
  <2>5. QED
    BY <1>4, <2>1, <2>3, <2>4, LocalTracked, AloneStep, AbstractWait
<1>5. QED
  BY <1>3, <1>4 DEF Proceed

LEMMA StoresMaps ==
  ASSUME LifeInv, NEW t \in Task, Stores(t)
  PROVE  LifeInv' /\ AbstractStep
<1>1. /\ session[Owner[t]] # "gone" /\ co[t].at = "intake" /\ co[t].at \in Awaits /\ co[t].at \in OnItsWay
      /\ status' = [status EXCEPT ![t] = "succeeded"] /\ item' = item
      /\ made' = [made EXCEPT ![t] = @ + 1] /\ Ends(t)
  BY DEF Stores, StillActive, Awaits, OnItsWay
<1>2. Tracked(t, status[t], item[t], made[t], co[t]) /\ IInv /\ Domains
  BY <1>1, Known
<1>3. LocalStep(t)
  BY <1>2, StoresStep
<1>4. /\ status[t] = "running" /\ status'[t] = "succeeded" /\ made[t] = 0 /\ Kind[t] # "diagnosis"
      /\ made' = [made EXCEPT ![t] = 1]
  BY <1>1, <1>2 DEF Tracked, Domains
<1>5. Tracked(t, status'[t], item'[t], made'[t], co'[t])
  <2>1. co'[t].at \notin OnItsWay \cup {"none"}
    BY <1>1, <1>2, EndsShape, Distinct
  <2>2. item'[t] \in [Item -> ItemRow] /\ \A i \in Item \ Jobs[t] : item'[t][i].status = "none"
    BY <1>1, <1>2 DEF Tracked
  <2>3. QED
    BY <2>1, <2>2, EndedTracked
<1>6. SameOutcomes(t)
  BY <1>1 DEF SameOutcomes
<1>7. QED
  BY <1>3, <1>4, <1>5, <1>6, LocalTracked, AloneStep, AbstractSucceed

(* The rows of a diagnosis with a new status of its current item.          *)
LEMMA CurrentRows ==
  ASSUME NEW t \in Task, NEW outcome, NEW scored, NEW rows, rows = Current(t, outcome, scored)
  PROVE  \A i \in Item : rows[i] = IF i \in co[t].on THEN [status |-> outcome, scored |-> scored] ELSE item[t][i]
  BY DEF Current

LEMMA CurrentBetween ==
  ASSUME LifeInv, NEW t \in Task, session[Owner[t]] # "gone", co[t].at \in {"scoring", "reporting"},
         NEW outcome \in {"succeeded", "score_only", "failed"}, NEW scored \in BOOLEAN,
         scored <=> outcome # "failed"
  PROVE  Between(t, Current(t, outcome, scored))
<1>1. PICK rows : rows = Current(t, outcome, scored)
  OBVIOUS
<1>2. \A i \in Item : rows[i] = IF i \in co[t].on THEN [status |-> outcome, scored |-> scored] ELSE item[t][i]
  BY <1>1, CurrentRows
<1>3. Tracked(t, status[t], item[t], made[t], co[t]) /\ co[t].at \in OnItsWay
  BY Known, Distinct
<1>4. /\ co[t].on \subseteq Jobs[t] /\ Jobs[t] \subseteq Item /\ item[t] \in [Item -> ItemRow]
      /\ \A i \in Item \ Jobs[t] : item[t][i].status = "none"
      /\ \A i \in Jobs[t] \ (co[t].todo \cup co[t].on) : Done(item[t][i])
  BY <1>3, MemoryAssumption DEF Tracked
<1>5. [status |-> outcome, scored |-> scored] \in ItemRow /\ Done([status |-> outcome, scored |-> scored])
  BY DEF ItemRow, Done
<1>6. rows \in [Item -> ItemRow]
  <2>1. rows = [i \in Item |-> IF i \in co[t].on THEN [status |-> outcome, scored |-> scored] ELSE item[t][i]]
    BY <1>1 DEF Current
  <2>2. QED
    BY <1>4, <1>5, <2>1
<1>7. \A i \in Jobs[t] \ co[t].todo : Done(rows[i])
  BY <1>2, <1>4, <1>5
<1>8. Between(t, rows)
  BY <1>2, <1>4, <1>6, <1>7 DEF Between
<1>9. QED
  BY <1>1, <1>8

LEMMA ScoredMaps ==
  ASSUME LifeInv, NEW t \in Task, Scored(t)
  PROVE  LifeInv' /\ AbstractStep
<1>1. /\ session[Owner[t]] # "gone" /\ co[t].at = "scoring" /\ co[t].at \in OnItsWay
      /\ Await(t, "reporting") /\ "reporting" \in Awaits
      /\ UNCHANGED <<session, status, made, latest, rounds, busy>>
  BY DEF Scored, Awaits, OnItsWay
<1>2. Tracked(t, status[t], item[t], made[t], co[t]) /\ IInv /\ Domains
  BY <1>1, Known
<1>3. PICK rows : rows = Current(t, "reporting", TRUE)
  OBVIOUS
<1>4. item' = [item EXCEPT ![t] = rows] /\ item'[t] = rows
  BY <1>2, <1>3 DEF Scored, Domains
<1>5. \A i \in Item : rows[i] = IF i \in co[t].on THEN [status |-> "reporting", scored |-> TRUE] ELSE item[t][i]
  BY <1>3 DEF Current
<1>6. LocalStep(t)
  BY <1>1, <1>2, <1>4, WaitsStep DEF Domains
<1>7. co'[t].at = "reporting" /\ co'[t].todo = co[t].todo /\ co'[t].on = co[t].on
  BY <1>1, <1>2, AwaitKeeps
<1>8. PICK k \in Jobs[t] : /\ co[t].on = {k} /\ item[t][k].status = "scoring" /\ k \in Item
                           /\ k \notin co[t].todo
  BY <1>1, <1>2, MemoryAssumption DEF Tracked
<1>9. /\ rows[k].status = "reporting" /\ rows[k].scored = TRUE
      /\ \A i \in Item \ {k} : rows[i] = item[t][i]
      /\ Jobs[t] \subseteq Item
  BY <1>5, <1>8, MemoryAssumption
<1>10. rows \in [Item -> ItemRow]
  <2>1. [status |-> "reporting", scored |-> TRUE] \in ItemRow /\ item[t] \in [Item -> ItemRow]
    BY <1>2 DEF ItemRow, Open, Tracked
  <2>2. rows = [i \in Item |-> IF i \in co[t].on THEN [status |-> "reporting", scored |-> TRUE] ELSE item[t][i]]
    BY <1>3 DEF Current
  <2>3. QED
    BY <2>1, <2>2
<1>11. Tracked(t, status'[t], item'[t], made'[t], co'[t])
  <2>1. \A i \in Item \ Jobs[t] : rows[i].status = "none"
    BY <1>2, <1>8, <1>9 DEF Tracked
  <2>2. \A i \in co[t].todo : Untouched(rows[i])
    BY <1>1, <1>2, <1>8, <1>9 DEF Tracked
  <2>3. \A i \in Jobs[t] \ (co[t].todo \cup co[t].on) : Done(rows[i])
    BY <1>1, <1>2, <1>8, <1>9 DEF Tracked
  <2>4. status'[t] = "running" /\ made'[t] = 0 /\ Kind[t] = "diagnosis"
        /\ co[t].todo \subseteq Jobs[t] /\ co[t].on \subseteq Jobs[t] \ co[t].todo
    BY <1>1, <1>2 DEF Tracked, Awaits
  <2>5. QED
    BY <1>4, <1>7, <1>8, <1>9, <1>10, <2>1, <2>2, <2>3, <2>4 DEF Tracked
<1>12. SameOutcomes(t)
  BY <1>4, <1>8, <1>9 DEF SameOutcomes, Outcome, Open
<1>13. QED
  BY <1>1, <1>6, <1>11, <1>12, LocalTracked, AloneStep, AbstractWait

LEMMA ItemEndMaps ==
  ASSUME LifeInv, NEW t \in Task, Reported(t) \/ ItemFails(t)
  PROVE  LifeInv' /\ AbstractStep
<1>1. PICK outcome \in {"succeeded", "score_only", "failed"}, scored \in BOOLEAN :
        /\ scored <=> outcome # "failed"
        /\ NextItem(t, Current(t, outcome, scored))
        /\ session[Owner[t]] # "gone" /\ co[t].at \in {"scoring", "reporting"}
  BY DEF Reported, ItemFails
<1>2. Kind[t] = "diagnosis"
  BY <1>1, Known DEF Tracked
<1>3. Between(t, Current(t, outcome, scored))
  BY <1>1, CurrentBetween
<1>4. QED
  BY <1>1, <1>2, <1>3, NextItemMaps

(* A task whose coroutine raises settles what is open, without success.    *)
LEMMA RaiseMaps ==
  ASSUME LifeInv, NEW t \in Task, Raise(t), session[Owner[t]] # "gone", co[t].at \in Awaits
  PROVE  LifeInv' /\ AbstractStep
<1>1. /\ Tracked(t, status[t], item[t], made[t], co[t]) /\ IInv /\ Domains
      /\ co[t].at \in OnItsWay /\ status[t] = "running" /\ status[t] \in ACTIVE
  BY Known, Distinct DEF Tracked, OnItsWay
<1>2. PICK rows : rows = [i \in Item |-> GivenUp(item[t][i])]
  OBVIOUS
<1>3. PICK final : final = IF \E i \in Jobs[t] : rows[i].scored THEN "partial" ELSE "failed"
  OBVIOUS
<1>4. /\ item' = [item EXCEPT ![t] = rows] /\ status' = [status EXCEPT ![t] = final]
      /\ Ends(t) /\ UNCHANGED <<session, made, latest>>
  BY <1>2, <1>3 DEF Raise
<1>5. item'[t] = rows /\ status'[t] = final /\ co'[t].at = "done"
  BY <1>1, <1>4, EndsShape DEF Domains
<1>6. \A i \in Item : rows[i] = GivenUp(item[t][i]) /\ item[t][i] \in ItemRow
  BY <1>1, <1>2 DEF Tracked
<1>7. \A i \in Item :
        /\ rows[i] \in ItemRow
        /\ item[t][i].status \in Open =>
             rows[i].status = (IF item[t][i].scored THEN "score_only" ELSE "failed")
             /\ rows[i].scored = item[t][i].scored
        /\ item[t][i].status \notin Open => rows[i] = item[t][i]
  BY <1>6, ZenonT(60) DEF GivenUp, ItemRow, Open
<1>8. rows \in [Item -> ItemRow] /\ \A i \in Item \ Jobs[t] : rows[i].status = "none"
  <2>1. \A i \in Item \ Jobs[t] : item[t][i].status = "none"
    BY <1>1 DEF Tracked
  <2>2. "none" \notin Open
    BY DEF Open
  <2>3. QED
    BY <1>2, <1>7, <2>1, <2>2
<1>9. CASE Kind[t] = "diagnosis"
  <2>1. Jobs[t] # {} /\ Jobs[t] \subseteq Item
    BY <1>9, MemoryAssumption
  <2>2. \A i \in Jobs[t] : Done(rows[i])
    <3>1. ASSUME NEW i \in co[t].todo PROVE Done(rows[i])
      <4>1. i \in Item /\ item[t][i].status \in Open /\ ~item[t][i].scored
        BY <1>1, <2>1 DEF Tracked, Untouched, Open
      <4>2. QED
        BY <1>7, <4>1 DEF Done
    <3>2. ASSUME NEW i \in co[t].on PROVE Done(rows[i])
      <4>1. i \in Item /\ item[t][i].status \in Open
        BY <1>1, <2>1 DEF Tracked, Open, Awaits
      <4>2. QED
        BY <1>7, <4>1 DEF Done
    <3>3. ASSUME NEW i \in Jobs[t] \ (co[t].todo \cup co[t].on) PROVE Done(rows[i])
      <4>1. i \in Item /\ Done(item[t][i]) /\ item[t][i].status \notin Open
        BY <1>1, <2>1 DEF Tracked, Done, Open
      <4>2. QED
        BY <1>7, <4>1
    <3>4. QED
      BY <3>1, <3>2, <3>3
  <2>3. \E i \in Jobs[t] : rows[i].status # "succeeded"
    <3>1. PICK i \in Jobs[t] : i \in Item /\ item[t][i].status \in Open
      <4>1. CASE co[t].at = "before"
        BY <1>1, <2>1, <4>1 DEF Tracked, Untouched, Open
      <4>2. CASE co[t].at \in {"scoring", "reporting"}
        BY <1>1, <2>1, <4>2 DEF Tracked, Open
      <4>3. QED
        BY <1>1, <1>9, <4>1, <4>2 DEF Tracked, Awaits
    <3>2. QED
      BY <1>7, <3>1
  <2>4. final = Summary(t, rows)
    BY <1>3, <2>3 DEF Summary
  <2>5. Completes(t, rows)
    <3>1. ASSUME NEW i \in Item, Outcome(item[t][i]) # "open" \/ i \notin Jobs[t]
          PROVE  rows[i] = item[t][i]
      BY <1>1, <1>7, <3>1 DEF Outcome, Open, Tracked
    <3>2. QED
      BY <1>1, <1>8, <2>2, <3>1 DEF Completes
  <2>6. QED
    BY <1>1, <1>4, <1>8, <1>9, <2>4, <2>5, CompleteStep
<1>10. CASE Kind[t] # "diagnosis"
  <2>1. Jobs[t] = {}
    BY <1>10, MemoryAssumption
  <2>2. final = "failed"
    BY <1>3, <2>1
  <2>3. \A i \in Item : rows[i].status = "none" /\ item[t][i].status = "none"
    BY <1>1, <1>8, <2>1 DEF Tracked
  <2>4. SameOutcomes(t)
    BY <1>5, <2>3 DEF SameOutcomes, Outcome
  <2>5. LocalStep(t)
    BY <1>1, RaiseStep
  <2>6. Tracked(t, status'[t], item'[t], made'[t], co'[t])
    BY <1>5, <1>8, EndedTracked, Distinct
  <2>7. QED
    BY <1>1, <1>4, <1>5, <1>10, <2>2, <2>4, <2>5, <2>6, LocalTracked, AloneStep, AbstractGiveUp
<1>11. QED
  BY <1>9, <1>10

(*------------------ Steps of requests and of no coroutine ---------------*)

LEMMA CreateMaps ==
  ASSUME LifeInv, NEW t \in Task, Create(t)
  PROVE  LifeInv' /\ AbstractStep
<1>1. /\ session[Owner[t]] # "gone" /\ co[t].at = "none" /\ session' = session /\ made' = made
      /\ status' = [status EXCEPT ![t] = "queued"]
      /\ item' = [item EXCEPT ![t] = [i \in Item |-> IF i \in Jobs[t]
                                        THEN [NoItem EXCEPT !.status = "pending"] ELSE NoItem]]
      /\ co' = [co EXCEPT ![t] = [at |-> "scheduled", base |-> latest[About[t]],
                                  todo |-> Jobs[t], on |-> {}]]
      /\ latest' = latest
  BY DEF Create
<1>2. Tracked(t, status[t], item[t], made[t], co[t]) /\ IInv /\ Domains
  BY <1>1, Known
<1>3. /\ status[t] = "none" /\ made[t] = 0 /\ \A i \in Item : item[t][i].status = "none"
  BY <1>1, <1>2 DEF Tracked
<1>4. /\ status'[t] = "queued" /\ made'[t] = 0
      /\ co'[t] = [at |-> "scheduled", base |-> latest[About[t]], todo |-> Jobs[t], on |-> {}]
      /\ \A u \in Task \ {t} :
           status'[u] = status[u] /\ made'[u] = made[u] /\ item'[u] = item[u] /\ co'[u] = co[u]
  BY <1>1, <1>2, <1>3 DEF Domains
<1>5. /\ item'[t] \in [Item -> ItemRow]
      /\ \A i \in Jobs[t] : item'[t][i].status = "pending" /\ ~item'[t][i].scored
      /\ \A i \in Item \ Jobs[t] : item'[t][i].status = "none"
  <2>1. PICK new : new = [NoItem EXCEPT !.status = "pending"]
    OBVIOUS
  <2>2. item'[t] = [i \in Item |-> IF i \in Jobs[t] THEN new ELSE NoItem]
    BY <1>1, <1>2, <2>1 DEF Domains
  <2>3. new.status = "pending" /\ new.scored = FALSE /\ new \in [status : {"pending"}, scored : BOOLEAN]
    BY <2>1 DEF NoItem
  <2>4. NoItem.status = "none" /\ NoItem \in ItemRow
    BY DEF NoItem, ItemRow
  <2>5. new \in ItemRow
    BY <2>3 DEF ItemRow, Open
  <2>6. \A i \in Item : item'[t][i] = IF i \in Jobs[t] THEN new ELSE NoItem
    BY <2>2
  <2>7. Jobs[t] \subseteq Item
    BY MemoryAssumption
  <2>8. item'[t] \in [Item -> ItemRow]
    BY <2>2, <2>4, <2>5
  <2>9. QED
    BY <2>3, <2>4, <2>6, <2>7, <2>8
<1>6. Tracked(t, status'[t], item'[t], made'[t], co'[t])
  <2>1. co'[t].at = "scheduled" /\ co'[t].todo = Jobs[t] /\ co'[t].on = {}
    BY <1>4
  <2>2. \A i \in Jobs[t] : Untouched(item'[t][i])
    BY <1>5 DEF Untouched
  <2>3. "scheduled" \notin Awaits
    BY DEF Awaits
  <2>4. QED
    BY <1>4, <1>5, <2>1, <2>2, <2>3 DEF Tracked
<1>7. LifeInv'
  <2>1. IInv'
    BY <1>2, CreateStep
  <2>2. ASSUME NEW u \in Task, session'[Owner[u]] # "gone"
        PROVE  Tracked(u, status'[u], item'[u], made'[u], co'[u])
    BY <1>1, <1>4, <1>6, <2>2 DEF LifeInv
  <2>3. QED
    BY <2>1, <2>2 DEF LifeInv, Tracked, Untouched, Done, ItemRow
<1>8. Alone(t)
  BY <1>1, <1>4 DEF Alone, Others
<1>9. SameOutcomes(t)
  <2>1. \A i \in Item : item'[t][i].status \in {"pending", "none"} /\ item[t][i].status = "none"
    BY <1>3, <1>5
  <2>2. QED
    BY <2>1 DEF SameOutcomes, Outcome, Open
<1>10. QED
  BY <1>1, <1>3, <1>4, <1>7, <1>8, <1>9, AbstractSubmit

(* A session goes with all its tasks.                                      *)
LEMMA EraseMaps ==
  ASSUME LifeInv, NEW s \in Session, Erase(s), IInv', \A u \in Task : Owner[u] # s => co'[u] = co[u]
  PROVE  LifeInv' /\ AbstractStep
<1>1. \A r \in Session : session'[r] = IF r = s THEN "gone" ELSE session[r]
  BY DEF Erase, LifeInv, IInv, Domains
<1>2. \A u \in Task : Owner[u] # s => status'[u] = status[u] /\ made'[u] = made[u] /\ item'[u] = item[u]
  BY DEF Erase
<1>3. ASSUME NEW u \in Task, session'[Owner[u]] # "gone"
      PROVE  Tracked(u, status'[u], item'[u], made'[u], co'[u])
  BY <1>1, <1>2, <1>3, Owners DEF LifeInv
<1>4. LifeInv'
  BY <1>3 DEF LifeInv, Tracked, Untouched, Done, ItemRow
<1>5. QED
  BY <1>4, AbstractErase DEF LifeInv

(* Nothing happens to tasks, but a coroutine may end that is not under way.*)
LEMMA QuietMaps ==
  ASSUME LifeInv, IInv', status' = status, item' = item, made' = made,
         \A s \in Session : session'[s] = "gone" <=> session[s] = "gone",
         \A u \in Task : session[Owner[u]] # "gone" => co'[u] = co[u] \/ co'[u].at = "done"
  PROVE  LifeInv' /\ AbstractStep
<1>1. ASSUME NEW u \in Task, session'[Owner[u]] # "gone"
      PROVE  Tracked(u, status'[u], item'[u], made'[u], co'[u])
  <2>1. Tracked(u, status[u], item[u], made[u], co[u])
    BY <1>1, Owners, Known
  <2>2. CASE co'[u] = co[u]
    BY <2>1, <2>2
  <2>3. CASE co'[u].at = "done"
    <3>1. item'[u] \in [Item -> ItemRow] /\ \A i \in Item \ Jobs[u] : item'[u][i].status = "none"
      BY <2>1 DEF Tracked
    <3>2. QED
      BY <2>3, <3>1, EndedTracked, Distinct
  <2>4. QED
    BY <1>1, <2>2, <2>3, Owners
<1>2. LifeInv'
  BY <1>1 DEF LifeInv, Tracked, Untouched, Done, ItemRow
<1>3. \A u \in Task : Same(u)
  BY Maps, Owners DEF Same, SameOutcomes
<1>4. QED
  BY <1>2, <1>3, AbstractStutter

LEMMA NextMaps ==
  ASSUME LifeInv, [Next]_vars
  PROVE  LifeInv' /\ AbstractStep
<1>1. IInv' /\ IInv /\ Domains
  BY NextInvariant DEF LifeInv, IInv
<1>2. ASSUME NEW t \in Task, Start(t) \/ Proceed(t) \/ Stores(t) \/ Scored(t) \/ Reported(t) \/ ItemFails(t)
      PROVE  LifeInv' /\ AbstractStep
  BY <1>2, StartMaps, ProceedMaps, StoresMaps, ScoredMaps, ItemEndMaps
<1>3. ASSUME NEW t \in Task, WorkFails(t) \/ Timeout(t) PROVE LifeInv' /\ AbstractStep
  <2>1. Raise(t) /\ session[Owner[t]] # "gone" /\ co[t].at \in Awaits
    BY <1>3 DEF WorkFails, Timeout, Timed, Awaits
  <2>2. QED
    BY <2>1, RaiseMaps
<1>4. ASSUME NEW t \in Task, Gone(t) PROVE LifeInv' /\ AbstractStep
  <2>1. \A u \in Task \ {t} : co'[u] = co[u]
    BY <1>1, <1>4, EndsShape DEF Gone
  <2>2. CASE session[Owner[t]] = "expired" /\ Erase(Owner[t])
    BY <1>1, <2>1, <2>2, EraseMaps, Owners
  <2>3. CASE session[Owner[t]] = "gone" /\ UNCHANGED <<session, status, item, made, latest, rounds>>
    BY <1>1, <2>1, <2>3, QuietMaps
  <2>4. QED
    BY <1>4, <2>2, <2>3 DEF Gone
<1>5. ASSUME NEW t \in Task, Cancelled(t) PROVE LifeInv' /\ AbstractStep
  <2>1. /\ \A u \in Task \ {t} : co'[u] = co[u]
        /\ co'[t].at = "done" /\ UNCHANGED <<session, status, item, made>>
    BY <1>1, <1>5, EndsShape DEF Cancelled
  <2>2. QED
    BY <1>1, <2>1, QuietMaps
<1>6. ASSUME NEW p \in Profile, Edit(p) PROVE LifeInv' /\ AbstractStep
  BY <1>1, <1>6, QuietMaps DEF Edit
<1>7. ASSUME NEW s \in Session, Revoke(s) \/ Notice(s) PROVE LifeInv' /\ AbstractStep
  <2>1. Erase(s) /\ \A u \in Task : Owner[u] # s => co'[u] = co[u]
    BY <1>7 DEF Revoke, Notice
  <2>2. QED
    BY <1>1, <2>1, EraseMaps
<1>8. ASSUME NEW s \in Session, Expire(s) PROVE LifeInv' /\ AbstractStep
  <2>1. \A r \in Session : session'[r] = "gone" <=> session[r] = "gone"
    BY <1>1, <1>8 DEF Expire, Domains
  <2>2. QED
    BY <1>1, <1>8, <2>1, QuietMaps DEF Expire
<1>9. CASE UNCHANGED vars
  BY <1>1, <1>9, QuietMaps DEF vars
<1>10. QED
  BY <1>2, <1>3, <1>4, <1>5, <1>6, <1>7, <1>8, <1>9, CreateMaps DEF Next, Step

LEMMA InitMaps == Init => LifeInv /\ Lifecycle!Init
<1> SUFFICES ASSUME Init PROVE LifeInv /\ Lifecycle!Init
  OBVIOUS
<1>1. \A t \in Task : /\ status[t] = "none" /\ made[t] = 0 /\ co[t].at = "none"
                      /\ session[Owner[t]] = "live" /\ item[t] = [i \in Item |-> NoItem]
  BY Owners DEF Init, NoCo
<1>2. NoItem \in ItemRow /\ NoItem.status = "none"
  BY DEF NoItem, ItemRow
<1>3. \A t \in Task : Tracked(t, status[t], item[t], made[t], co[t])
  BY <1>1, <1>2, Distinct DEF Tracked, Awaits
<1>4. made = [t \in Task |-> 0]
  BY DEF Init
<1>5. PhaseMap = [t \in Task |-> "none"] /\ OutcomeMap = [t \in Task |-> [i \in Item |-> "open"]]
  BY <1>1, <1>2, Maps DEF Outcome
<1>6. Lifecycle!Init
  BY <1>4, <1>5 DEF Lifecycle!Init, Lifecycle!Open, PhaseMap, OutcomeMap
<1>7. QED
  BY <1>3, <1>6, InitInvariant DEF LifeInv

(* The platform without a database keeps the same promises as the store:   *)
(* however its coroutines are cancelled, time out or find their session    *)
(* gone, each step submits, begins, settles, completes or erases a task as *)
(* TaskLifecycle allows, or changes nothing that a client sees.            *)
THEOREM PlatformImplementsLifecycle == Spec => ImplementsLifecycle
<1>1. LifeInv /\ [Next]_vars => LifeInv' /\ [Lifecycle!Next]_(Lifecycle!vars)
  BY NextMaps DEF AbstractStep
<1>2. Init => LifeInv /\ Lifecycle!Init
  BY InitMaps
<1>3. QED
  BY <1>1, <1>2, PTL DEF Spec, ImplementsLifecycle, Lifecycle!Spec
=============================================================================
