---------------------------- MODULE FanoutProofs ----------------------------
(***************************************************************************)
(* Proofs about Fanout.  The invariants rest on one fact, HeldRowsAreOpen: *)
(* a row that a pass holds stays as the pass read it, because nobody else  *)
(* holds it and only its holder's commit changes it.                       *)
(***************************************************************************)
EXTENDS FanoutRefinement, TLAPS

----------------------------------------------------------------------------
(* Rows of the ledger *)

\* A wait never becomes negative and never grows with time.
LEMMA MonusType == ASSUME NEW m \in Nat, NEW n \in Nat
                   PROVE  Monus(m, n) \in Nat /\ Monus(m, n) <= m
BY DEF Monus

\* Every failed attempt is put off by a number of minutes.
LEMMA BackoffType == ASSUME NEW n \in Nat, n > 0 PROVE Backoff(n) \in Nat
BY LedgerAssumption DEF Backoff

\* An entry keeps its type and all but its wait as time passes.
LEMMA LaterType ==
    ASSUME NEW e \in Entry, NEW m \in Nat
    PROVE  /\ Later(e, m) \in Entry
           /\ Later(e, m).status = e.status
           /\ Later(e, m).attempts = e.attempts
           /\ Later(e, m).wait <= e.wait
           /\ e.wait = 0 => Later(e, m) = e
<1>1. e.wait \in Nat
  BY DEF Entry
<1>. DEFINE w == Monus(e.wait, m)
<1>2. w \in Nat /\ w <= e.wait
  BY <1>1, MonusType
<1>3. Later(e, m) = [e EXCEPT !.wait = w]
  BY DEF Later
<1>4. e.wait = 0 => w = 0
  BY DEF Monus
<1>. HIDE DEF w
<1>5. /\ [e EXCEPT !.wait = w] \in Entry
      /\ [e EXCEPT !.wait = w].status = e.status
      /\ [e EXCEPT !.wait = w].attempts = e.attempts
      /\ [e EXCEPT !.wait = w].wait = w
  BY <1>2 DEF Entry
<1>6. e.wait = 0 => [e EXCEPT !.wait = w] = e
  BY <1>4 DEF Entry
<1>. QED BY <1>2, <1>3, <1>5, <1>6

\* What an attempt makes of a row that has had n of them.
LEMMA OutcomeType ==
    ASSUME NEW n \in Nat
    PROVE  /\ Missing(n) \in Entry /\ Missing(n).attempts = n
           /\ Delivered(n) \in Entry /\ Delivered(n).attempts = n + 1
           /\ Failed(n) \in Entry /\ Failed(n).attempts = n + 1
<1>1. Backoff(n + 1) \in Nat
  BY BackoffType
<1>. QED BY <1>1 DEF Missing, Delivered, Failed, Entry, Statuses

----------------------------------------------------------------------------
(* Types *)

\* A row written by a pass keeps the pass's type and everything else of it.
LEMMA WriteType ==
    ASSUME TypeOK, NEW t \in Passes, NEW d \in Deliveries, NEW entry \in Entry,
           pass[t] # Null, Write(t, d, entry)
    PROVE  /\ pass' \in [Passes -> Pass \cup {Null}]
           /\ pass'[t] # Null
           /\ pass'[t].age = pass[t].age
           /\ pass'[t].held = pass[t].held
           /\ pass'[t].done = [pass[t].done EXCEPT ![d] = entry]
           /\ \A u \in Passes : u # t => pass'[u] = pass[u]
<1>1. pass[t] \in Pass
  BY DEF TypeOK
<1>. DEFINE new == [pass[t] EXCEPT !.done[d] = entry]
<1>2. new.age = pass[t].age /\ new.held = pass[t].held
      /\ new.done = [pass[t].done EXCEPT ![d] = entry]
  BY <1>1 DEF Pass
<1>3. new \in Pass
  BY <1>1 DEF Pass
<1>4. new # Null
  BY <1>3, FanoutAssumption
<1>5. pass' = [pass EXCEPT ![t] = new]
  BY DEF Write
<1>. HIDE DEF new
<1>. QED BY <1>2, <1>3, <1>4, <1>5 DEF TypeOK

\* What a pass may make of row d.
Outcomes(t, d) ==
    {Delivered(pass[t].held[d]), Failed(pass[t].held[d])}
        \cup IF d \in orphans THEN {Missing(pass[t].held[d])} ELSE {}

\* What the three ways to handle a row have in common.
LEMMA HandleShape ==
    ASSUME TypeOK, NEW t \in Passes, NEW d \in Deliveries, Handle(t, d)
    PROVE  /\ d \in Todo(t)
           /\ UNCHANGED <<ledger, orphans, known, losses>>
           /\ \A q \in Deliveries : q # d => posts'[q] = posts[q]
           /\ posts'[d] \in {posts[d], posts[d] + 1}
           /\ posts' \in [Deliveries -> Nat]
           /\ \E entry \in Outcomes(t, d) :
                 /\ Write(t, d, entry)
                 /\ entry \in Entry
                 /\ entry.attempts \in {pass[t].held[d], pass[t].held[d] + 1}
                 /\ posts'[d] = posts[d] \/ entry.attempts = pass[t].held[d] + 1
<1>1. d \in Todo(t) /\ UNCHANGED <<ledger, orphans, known, losses>>
  BY DEF Handle, GiveUpMissing, Deliver, Fail
<1>2. pass[t].held[d] \in Nat
  BY <1>1 DEF Todo, Holds, TypeOK, Pass
<1>3. posts' = posts \/ posts' = [posts EXCEPT ![d] = @ + 1]
  BY DEF Handle, GiveUpMissing, Deliver, Fail
<1>4. /\ \A q \in Deliveries : q # d => posts'[q] = posts[q]
      /\ posts'[d] \in {posts[d], posts[d] + 1}
      /\ posts' \in [Deliveries -> Nat]
  BY <1>3 DEF TypeOK
<1>5. \/ /\ Write(t, d, Missing(pass[t].held[d])) /\ d \in orphans
         /\ posts' = posts
      \/ Write(t, d, Delivered(pass[t].held[d]))
      \/ Write(t, d, Failed(pass[t].held[d]))
  BY DEF Handle, GiveUpMissing, Deliver, Fail
<1>. QED BY <1>1, <1>2, <1>4, <1>5, OutcomeType DEF Outcomes

\* The pass that Claim opens on the rows claimed.
ClaimedPass(claimed) ==
    [age  |-> 0,
     held |-> [d \in Deliveries |-> IF d \in claimed THEN ledger[d].attempts ELSE Null],
     done |-> [d \in Deliveries |-> Null]]

LEMMA ClaimShape ==
    ASSUME TypeOK, NEW t \in Passes, Claim(t)
    PROVE  \E claimed \in SUBSET {d \in Deliveries : Due(d) /\ ~ Locked(d)} :
              /\ pass' = [pass EXCEPT ![t] = ClaimedPass(claimed)]
              /\ ClaimedPass(claimed) \in Pass
              /\ ClaimedPass(claimed) # Null
<1>1. PICK claimed \in SUBSET {d \in Deliveries : Due(d) /\ ~ Locked(d)} :
          pass' = [pass EXCEPT ![t] = ClaimedPass(claimed)]
  BY DEF Claim, ClaimedPass
<1>2. \A d \in claimed : ledger[d].attempts \in Nat
  BY DEF Due, TypeOK, Entry
<1>3. [d \in Deliveries |-> IF d \in claimed THEN ledger[d].attempts ELSE Null]
         \in [Deliveries -> Nat \cup {Null}]
  BY <1>2
<1>4. ClaimedPass(claimed) \in Pass
  BY <1>3 DEF ClaimedPass, Pass
<1>. QED BY <1>1, <1>4, FanoutAssumption

----------------------------------------------------------------------------
(* Type correctness *)

LEMMA TickType ==
    ASSUME TypeOK, AdvanceTime
    PROVE  /\ \A d \in Deliveries :
                 IF ledger[d] = Null THEN ledger'[d] = Null
                 ELSE /\ ledger'[d] \in Entry
                      /\ ledger'[d].status = ledger[d].status
                      /\ ledger'[d].attempts = ledger[d].attempts
                      /\ ledger'[d].wait <= ledger[d].wait
                      /\ ledger'[d] = Later(ledger[d], 1)
                      /\ ledger[d].wait = 0 => ledger'[d] = ledger[d]
           /\ \A t \in Passes :
                 IF pass[t] = Null THEN pass'[t] = Null
                 ELSE /\ pass'[t] \in Pass
                      /\ pass'[t].held = pass[t].held
                      /\ pass'[t].done = pass[t].done
                      /\ pass[t].age <= LongestPass => pass'[t].age <= LongestPass
           /\ ledger' \in [Deliveries -> Entry \cup {Null}]
           /\ pass' \in [Passes -> Pass \cup {Null}]
<1>1. ASSUME NEW d \in Deliveries, ledger[d] # Null
      PROVE  /\ ledger'[d] \in Entry
             /\ ledger'[d].status = ledger[d].status
             /\ ledger'[d].attempts = ledger[d].attempts
             /\ ledger'[d].wait <= ledger[d].wait
             /\ ledger'[d] = Later(ledger[d], 1)
             /\ ledger[d].wait = 0 => ledger'[d] = ledger[d]
  <2>1. ledger[d] \in Entry
    BY <1>1 DEF TypeOK
  <2>2. ledger'[d] = Later(ledger[d], 1)
    BY <1>1 DEF AdvanceTime
  <2>. QED BY <2>1, <2>2, LaterType
<1>2. ASSUME NEW t \in Passes, pass[t] # Null
      PROVE  /\ pass'[t] \in Pass
             /\ pass'[t].held = pass[t].held
             /\ pass'[t].done = pass[t].done
             /\ pass[t].age <= LongestPass => pass'[t].age <= LongestPass
  <2>. DEFINE q == pass[t]
              a == IF q.age < LongestPass THEN q.age + 1 ELSE q.age
  <2>1. q \in Pass /\ q.age \in Nat
    BY <1>2 DEF TypeOK, Pass
  <2>2. a \in Nat /\ (q.age <= LongestPass => a <= LongestPass)
    BY <2>1, FanoutAssumption
  <2>3. pass'[t] = [q EXCEPT !.age = a]
    BY <1>2 DEF AdvanceTime
  <2>. HIDE DEF q, a
  <2>. QED BY <2>1, <2>2, <2>3 DEF q, Pass
<1>3. /\ \A d \in Deliveries : ledger[d] = Null => ledger'[d] = Null
      /\ \A t \in Passes : pass[t] = Null => pass'[t] = Null
      /\ DOMAIN ledger' = Deliveries /\ DOMAIN pass' = Passes
      /\ ledger' = [d \in Deliveries |-> ledger'[d]]
      /\ pass' = [t \in Passes |-> pass'[t]]
  BY DEF AdvanceTime
<1>4. ledger' \in [Deliveries -> Entry \cup {Null}]
  BY <1>1, <1>3
<1>5. pass' \in [Passes -> Pass \cup {Null}]
  BY <1>2, <1>3
<1>. QED BY <1>1, <1>2, <1>3, <1>4, <1>5

\* A row that the committing pass has written becomes what the pass wrote, its
\* wait shortened; every other row stays.
LEMMA CommitShape ==
    ASSUME TypeOK, NEW t \in Passes, Commit(t)
    PROVE  /\ \A d \in Deliveries :
                 IF pass[t].done[d] = Null THEN ledger'[d] = ledger[d]
                 ELSE /\ ledger'[d] \in Entry
                      /\ ledger'[d].status = pass[t].done[d].status
                      /\ ledger'[d].attempts = pass[t].done[d].attempts
                      /\ ledger'[d] = Later(pass[t].done[d], pass[t].age)
           /\ ledger' \in [Deliveries -> Entry \cup {Null}]
           /\ pass' \in [Passes -> Pass \cup {Null}]
           /\ pass'[t] = Null /\ \A u \in Passes : u # t => pass'[u] = pass[u]
<1>1. pass[t] \in Pass /\ pass[t].age \in Nat
  BY DEF Commit, TypeOK, Pass
<1>2. ASSUME NEW d \in Deliveries, pass[t].done[d] # Null
      PROVE  /\ ledger'[d] \in Entry
             /\ ledger'[d].status = pass[t].done[d].status
             /\ ledger'[d].attempts = pass[t].done[d].attempts
             /\ ledger'[d] = Later(pass[t].done[d], pass[t].age)
  <2>1. pass[t].done[d] \in Entry
    BY <1>1, <1>2 DEF Pass
  <2>2. ledger'[d] = Later(pass[t].done[d], pass[t].age)
    BY <1>2 DEF Commit
  <2>. QED BY <1>1, <2>1, <2>2, LaterType
<1>3. \A d \in Deliveries : pass[t].done[d] = Null => ledger'[d] = ledger[d]
  BY DEF Commit
<1>4. ledger' = [d \in Deliveries |-> ledger'[d]]
  BY DEF Commit
<1>5. ledger' \in [Deliveries -> Entry \cup {Null}]
  BY <1>2, <1>3, <1>4 DEF TypeOK
<1>. QED BY <1>2, <1>3, <1>5 DEF Commit, TypeOK

LEMMA TypeStep == TypeOK /\ [Next]_vars => TypeOK'
<1>. SUFFICES ASSUME TypeOK, [Next]_vars PROVE TypeOK'
  OBVIOUS
<1>1. ASSUME NEW D \in SUBSET Deliveries, Enqueue(D) PROVE TypeOK'
  <2>1. NewEntry \in Entry
    BY DEF NewEntry, Entry, Statuses
  <2>. QED BY <1>1, <2>1 DEF Enqueue, TypeOK
<1>2. ASSUME NEW d \in Deliveries, LoseAnnouncement(d) PROVE TypeOK'
  BY <1>2 DEF LoseAnnouncement, TypeOK
<1>3. CASE AdvanceTime
  <2>1. UNCHANGED <<orphans, known, posts, losses>>
    BY <1>3 DEF AdvanceTime
  <2>. QED BY <1>3, <2>1, TickType DEF TypeOK
<1>4. ASSUME NEW t \in Passes, Claim(t) PROVE TypeOK'
  <2>1. UNCHANGED <<ledger, orphans, known, posts, losses>>
    BY <1>4 DEF Claim
  <2>. QED BY <1>4, <2>1, ClaimShape DEF TypeOK
<1>5. ASSUME NEW t \in Passes, Commit(t) PROVE TypeOK'
  <2>1. UNCHANGED <<orphans, known, posts, losses>>
    BY <1>5 DEF Commit
  <2>. QED BY <1>5, <2>1, CommitShape DEF TypeOK
<1>6. ASSUME NEW t \in Passes, LosePass(t) PROVE TypeOK'
  BY <1>6 DEF LosePass, TypeOK
<1>7. ASSUME NEW t \in Passes, NEW d \in Deliveries, Handle(t, d) PROVE TypeOK'
  <2>1. PICK entry \in Entry : Write(t, d, entry)
    BY <1>7, HandleShape
  <2>2. pass[t] # Null
    BY <1>7, HandleShape DEF Todo, Holds
  <2>3. pass' \in [Passes -> Pass \cup {Null}]
    BY <2>1, <2>2, WriteType
  <2>. QED BY <1>7, <2>3, HandleShape DEF TypeOK
<1>8. ASSUME NEW K \in SUBSET Channels, Restart(K) PROVE TypeOK'
  BY <1>8 DEF Restart, TypeOK
<1>9. CASE UNCHANGED vars
  BY <1>9 DEF TypeOK, vars
<1>. QED BY <1>1, <1>2, <1>3, <1>4, <1>5, <1>6, <1>7, <1>8, <1>9 DEF Next

\* Every variable of the fan-out has its type.
THEOREM FanoutTypes == Spec => []TypeOK
<1>1. Init => TypeOK
  BY LedgerAssumption, FanoutAssumption DEF Init, TypeOK
<1>. QED BY <1>1, TypeStep, PTL DEF Spec

----------------------------------------------------------------------------
(* The inductive invariant *)

\* The rows a pass holds are due all the time, of channels its process serves.
HeldRowsAreDue == \A t \in Passes, d \in Deliveries : Holds(t, d) => Due(d)

\* A pass works only on rows it holds.
TriedRowsAreHeld == \A t \in Passes, d \in Deliveries : Tried(t, d) => Holds(t, d)

\* What it has written is what an attempt makes of the row.
WrittenRowsAreOutcomes ==
    \A t \in Passes, d \in Deliveries : Tried(t, d) => pass[t].done[d] \in Outcomes(t, d)

\* A pass is no older than its age can tell.
AgesAreBounded == \A t \in Passes : pass[t] # Null => pass[t].age <= LongestPass

Recorded(d) == IF ledger[d] = Null THEN 0 ELSE ledger[d].attempts

\* While a pass has tried a row, its own count covers the copies that are out;
\* while none has, the ledger's does.
CopiesAreCounted ==
    \A d \in Deliveries :
        /\ (\A t \in Passes : ~ Tried(t, d)) => posts[d] <= Recorded(d) + losses
        /\ \A t \in Passes : Tried(t, d) =>
              /\ pass[t].done[d].attempts \in {Recorded(d), Recorded(d) + 1}
              /\ posts[d] <= pass[t].done[d].attempts + losses

FanoutInv ==
    /\ HeldRowsAreOpen /\ HeldRowsAreDue
    /\ TriedRowsAreHeld /\ WrittenRowsAreOutcomes
    /\ AgesAreBounded /\ CopiesAreCounted

\* The invariant only looks at the attempts of rows, at what passes hold and have
\* tried, at the copies out and at the losses: a step that keeps these and
\* releases locks at most keeps it.
LEMMA Frame ==
    ASSUME TypeOK, TypeOK', FanoutInv,
           UNCHANGED <<known, posts, losses>>, orphans \subseteq orphans',
           \A d \in Deliveries : ledger[d] # Null =>
              /\ ledger'[d] # Null
              /\ ledger'[d].status = ledger[d].status
              /\ ledger'[d].attempts = ledger[d].attempts
              /\ ledger[d].wait = 0 => ledger'[d] = ledger[d],
           \A d \in Deliveries : Recorded(d)' = Recorded(d),
           \A t \in Passes : IF pass[t] = Null THEN pass'[t] = Null
                             ELSE /\ pass'[t] # Null
                                  /\ pass'[t].held = pass[t].held
                                  /\ pass'[t].done = pass[t].done
                                  /\ pass'[t].age <= LongestPass
    PROVE  FanoutInv'
<1>1. \A t \in Passes, d \in Deliveries :
         /\ Holds(t, d)' <=> Holds(t, d)
         /\ Tried(t, d)' <=> Tried(t, d)
         /\ Holds(t, d) => pass'[t].held[d] = pass[t].held[d]
         /\ Tried(t, d) => pass'[t].done[d] = pass[t].done[d] /\ pass'[t].held = pass[t].held
  BY DEF Holds, Tried
<1>2. HeldRowsAreOpen'
  BY <1>1 DEF FanoutInv, HeldRowsAreOpen
<1>3. HeldRowsAreDue'
  BY <1>1 DEF FanoutInv, HeldRowsAreDue, Due
<1>4. TriedRowsAreHeld'
  BY <1>1 DEF FanoutInv, TriedRowsAreHeld
<1>5. \A t \in Passes, d \in Deliveries : Tried(t, d) => Outcomes(t, d) \subseteq Outcomes(t, d)'
  BY <1>1 DEF Outcomes
<1>6. WrittenRowsAreOutcomes'
  BY <1>1, <1>5 DEF FanoutInv, WrittenRowsAreOutcomes
<1>7. AgesAreBounded'
  BY DEF FanoutInv, AgesAreBounded
<1>8. CopiesAreCounted'
  BY <1>1 DEF FanoutInv, CopiesAreCounted
<1>. QED BY <1>2, <1>3, <1>4, <1>6, <1>7, <1>8 DEF FanoutInv

LEMMA RecordedType == ASSUME TypeOK, NEW d \in Deliveries PROVE Recorded(d) \in Nat
BY DEF TypeOK, Recorded, Entry

\* When transactions are lost, the copies they sent are covered by the losses.
LEMMA LossKeeps ==
    ASSUME TypeOK, TypeOK', FanoutInv, NEW lost \in SUBSET Passes,
           UNCHANGED <<ledger, orphans, posts>>, losses' = losses + 1,
           \A t \in Passes : pass'[t] = IF t \in lost THEN Null ELSE pass[t],
           known' = known \/ lost = Passes
    PROVE  FanoutInv'
<1>1. \A t \in Passes, d \in Deliveries :
         /\ Holds(t, d)' <=> (Holds(t, d) /\ t \notin lost)
         /\ Tried(t, d)' <=> (Tried(t, d) /\ t \notin lost)
         /\ Holds(t, d)' => pass'[t].held[d] = pass[t].held[d]
         /\ Tried(t, d)' => pass'[t].done[d] = pass[t].done[d] /\ pass'[t] = pass[t]
  BY DEF Holds, Tried
<1>2. HeldRowsAreOpen'
  BY <1>1 DEF FanoutInv, HeldRowsAreOpen
<1>3. HeldRowsAreDue' /\ TriedRowsAreHeld'
  BY <1>1 DEF FanoutInv, HeldRowsAreDue, Due, TriedRowsAreHeld
<1>6. WrittenRowsAreOutcomes' /\ AgesAreBounded'
  BY <1>1 DEF FanoutInv, WrittenRowsAreOutcomes, AgesAreBounded, Outcomes
<1>4. ASSUME NEW d \in Deliveries
      PROVE  /\ (\A t \in Passes : ~ Tried(t, d)') => posts'[d] <= Recorded(d)' + losses'
             /\ \A t \in Passes : Tried(t, d)' =>
                   /\ pass'[t].done[d].attempts \in {Recorded(d)', Recorded(d)' + 1}
                   /\ posts'[d] <= pass'[t].done[d].attempts + losses'
  <2>1. Recorded(d) \in Nat /\ Recorded(d)' = Recorded(d) /\ posts[d] \in Nat /\ losses \in Nat
    BY RecordedType DEF Recorded, TypeOK
  <2>2. posts[d] <= Recorded(d) + losses + 1
    <3>1. CASE \A t \in Passes : ~ Tried(t, d)
      BY <2>1, <3>1 DEF FanoutInv, CopiesAreCounted
    <3>2. CASE \E t \in Passes : Tried(t, d)
      BY <2>1, <3>2 DEF FanoutInv, CopiesAreCounted
    <3>. QED BY <3>1, <3>2
  <2>3. ASSUME NEW t \in Passes, Tried(t, d)'
        PROVE  /\ pass'[t].done[d].attempts \in {Recorded(d)', Recorded(d)' + 1}
               /\ posts'[d] <= pass'[t].done[d].attempts + losses'
    <3>1. pass'[t].done[d] = pass[t].done[d] /\ Tried(t, d)
      BY <1>1, <2>3
    <3>. QED BY <2>1, <3>1 DEF FanoutInv, CopiesAreCounted
  <2>. QED BY <2>1, <2>2, <2>3
<1>5. CopiesAreCounted'
  BY <1>4 DEF CopiesAreCounted
<1>. QED BY <1>2, <1>3, <1>5, <1>6 DEF FanoutInv

\* A new pass has tried nothing, and holds rows that were due and unlocked.
LEMMA ClaimKeeps ==
    ASSUME TypeOK, FanoutInv, NEW t \in Passes, Claim(t)
    PROVE  FanoutInv'
<1>1. PICK claimed \in SUBSET {d \in Deliveries : Due(d) /\ ~ Locked(d)} :
         pass' = [pass EXCEPT ![t] = ClaimedPass(claimed)] /\ ClaimedPass(claimed) # Null
  BY ClaimShape
<1>2. pass[t] = Null /\ UNCHANGED <<ledger, known, posts, losses>>
  BY DEF Claim
<1>3. \A u \in Passes : u # t => pass'[u] = pass[u]
  BY <1>1 DEF TypeOK
<1>4. pass'[t] = ClaimedPass(claimed)
  BY <1>1 DEF TypeOK
<1>5. \A d \in Deliveries : /\ Holds(t, d)' => d \in claimed
                            /\ d \in claimed => pass'[t].held[d] = ledger[d].attempts
                            /\ ~ Tried(t, d)'
                            /\ ~ Tried(t, d) /\ ~ Holds(t, d)
  BY <1>1, <1>2, <1>4 DEF ClaimedPass, Holds, Tried
<1>6. \A u \in Passes, d \in Deliveries : u # t =>
         /\ Holds(u, d)' <=> Holds(u, d)
         /\ Tried(u, d)' <=> Tried(u, d)
         /\ Holds(u, d) => pass'[u].held[d] = pass[u].held[d]
         /\ Tried(u, d) => pass'[u].done[d] = pass[u].done[d]
  BY <1>3 DEF Holds, Tried
<1>7. \A d \in claimed : Due(d) /\ \A u \in Passes : ~ Holds(u, d)
  BY DEF Locked
<1>8. HeldRowsAreOpen'
  <2>. SUFFICES ASSUME NEW u \in Passes, NEW d \in Deliveries, Holds(u, d)'
                PROVE  /\ ledger'[d] # Null
                       /\ ledger'[d].status \in {"pending", "failed"}
                       /\ ledger'[d].attempts = pass'[u].held[d]
                       /\ \A v \in Passes : Holds(v, d)' => v = u
    BY DEF HeldRowsAreOpen
  <2>1. CASE u = t
    BY <1>2, <1>5, <1>6, <1>7, <2>1 DEF Due
  <2>2. CASE u # t
    BY <1>2, <1>5, <1>6, <1>7, <2>2 DEF FanoutInv, HeldRowsAreOpen
  <2>. QED BY <2>1, <2>2
<1>9. HeldRowsAreDue' /\ TriedRowsAreHeld'
  BY <1>2, <1>5, <1>6, <1>7 DEF FanoutInv, HeldRowsAreDue, TriedRowsAreHeld, Due
<1>11. WrittenRowsAreOutcomes'
  BY <1>2, <1>3, <1>5, <1>6 DEF FanoutInv, WrittenRowsAreOutcomes, Outcomes, Claim
<1>12. AgesAreBounded'
  BY <1>3, <1>4, FanoutAssumption DEF FanoutInv, AgesAreBounded, ClaimedPass
<1>10. CopiesAreCounted'
  BY <1>2, <1>5, <1>6 DEF FanoutInv, CopiesAreCounted, Recorded
<1>. QED BY <1>8, <1>9, <1>10, <1>11, <1>12 DEF FanoutInv

\* A row is handled once per pass, and the copy sent is in the pass's count.
LEMMA HandleKeeps ==
    ASSUME TypeOK, FanoutInv, NEW t \in Passes, NEW d \in Deliveries, Handle(t, d)
    PROVE  FanoutInv'
<1>1. /\ Holds(t, d) /\ ~ Tried(t, d) /\ pass[t] # Null
      /\ UNCHANGED <<ledger, known, losses>>
      /\ \A q \in Deliveries : q # d => posts'[q] = posts[q]
      /\ posts'[d] \in {posts[d], posts[d] + 1}
  BY HandleShape DEF Todo, Holds, Tried
<1>2. PICK entry \in Entry :
         /\ entry \in Outcomes(t, d)
         /\ Write(t, d, entry)
         /\ entry.attempts \in {pass[t].held[d], pass[t].held[d] + 1}
         /\ posts'[d] = posts[d] \/ entry.attempts = pass[t].held[d] + 1
  BY HandleShape
<1>3. /\ pass'[t] # Null
      /\ pass'[t].age = pass[t].age
      /\ pass'[t].held = pass[t].held
      /\ pass'[t].done = [pass[t].done EXCEPT ![d] = entry]
      /\ \A u \in Passes : u # t => pass'[u] = pass[u]
  BY <1>1, <1>2, WriteType
<1>4. pass[t].done \in [Deliveries -> Entry \cup {Null}]
  BY <1>1 DEF TypeOK, Pass
<1>5. \A u \in Passes, q \in Deliveries :
         /\ Holds(u, q)' <=> Holds(u, q)
         /\ Holds(u, q) => pass'[u].held[q] = pass[u].held[q]
  BY <1>1, <1>3 DEF Holds
<1>6. \A u \in Passes, q \in Deliveries : u # t \/ q # d =>
         /\ Tried(u, q)' <=> Tried(u, q)
         /\ Tried(u, q) => pass'[u].done[q] = pass[u].done[q]
  BY <1>1, <1>3, <1>4 DEF Tried
<1>7. pass'[t].done[d] = entry
  BY <1>3, <1>4
<1>8. HeldRowsAreOpen'
  BY <1>1, <1>5 DEF FanoutInv, HeldRowsAreOpen
<1>9. HeldRowsAreDue' /\ TriedRowsAreHeld'
  BY <1>1, <1>5, <1>6 DEF FanoutInv, HeldRowsAreDue, Due, TriedRowsAreHeld
<1>16. AgesAreBounded'
  BY <1>1, <1>3 DEF FanoutInv, AgesAreBounded
<1>17. \A u \in Passes, q \in Deliveries : Outcomes(u, q)' = Outcomes(u, q)
  BY <1>1, <1>3, HandleShape DEF Outcomes
<1>18. WrittenRowsAreOutcomes'
  BY <1>2, <1>6, <1>7, <1>17 DEF FanoutInv, WrittenRowsAreOutcomes
<1>10. \A u \in Passes : u # t => ~ Tried(u, d)
  BY <1>1 DEF FanoutInv, HeldRowsAreOpen, TriedRowsAreHeld
<1>11. Recorded(d) = pass[t].held[d] /\ posts[d] <= Recorded(d) + losses
  BY <1>1, <1>10 DEF FanoutInv, HeldRowsAreOpen, CopiesAreCounted, Recorded
<1>12. entry.attempts \in {Recorded(d), Recorded(d) + 1} /\ posts'[d] <= entry.attempts + losses
  BY <1>1, <1>2, <1>11, RecordedType DEF TypeOK
<1>13. \A q \in Deliveries : Recorded(q)' = Recorded(q)
  BY <1>1 DEF Recorded
<1>14. ASSUME NEW q \in Deliveries
       PROVE  /\ (\A u \in Passes : ~ Tried(u, q)') => posts'[q] <= Recorded(q)' + losses'
              /\ \A u \in Passes : Tried(u, q)' =>
                    /\ pass'[u].done[q].attempts \in {Recorded(q)', Recorded(q)' + 1}
                    /\ posts'[q] <= pass'[u].done[q].attempts + losses'
  <2>1. CASE q = d
    <3>1. Tried(t, d)'
      BY <1>3, <1>7, LedgerAssumption DEF Tried
    <3>2. \A u \in Passes : Tried(u, d)' => u = t
      BY <1>6, <1>10
    <3>. QED BY <1>1, <1>7, <1>12, <1>13, <2>1, <3>1, <3>2
  <2>2. CASE q # d
    BY <1>1, <1>6, <1>13, <2>2 DEF FanoutInv, CopiesAreCounted
  <2>. QED BY <2>1, <2>2
<1>15. CopiesAreCounted'
  BY <1>14 DEF CopiesAreCounted
<1>. QED BY <1>8, <1>9, <1>15, <1>16, <1>18 DEF FanoutInv

\* The committing pass moves its counts to the ledger.
LEMMA CommitKeeps ==
    ASSUME TypeOK, FanoutInv, NEW t \in Passes, Commit(t)
    PROVE  FanoutInv'
<1>1. /\ pass[t] # Null /\ UNCHANGED <<known, posts, losses>>
      /\ pass'[t] = Null /\ \A u \in Passes : u # t => pass'[u] = pass[u]
  BY CommitShape DEF Commit
<1>2. \A u \in Passes, d \in Deliveries :
         /\ Holds(u, d)' <=> (Holds(u, d) /\ u # t)
         /\ Tried(u, d)' <=> (Tried(u, d) /\ u # t)
         /\ u # t => pass'[u] = pass[u]
  BY <1>1 DEF Holds, Tried
<1>3. \A d \in Deliveries : ~ Tried(t, d) => ledger'[d] = ledger[d]
  BY <1>1, CommitShape DEF Tried
<1>4. \A d \in Deliveries, u \in Passes : u # t /\ Holds(u, d) => ~ Tried(t, d)
  BY DEF FanoutInv, HeldRowsAreOpen, TriedRowsAreHeld
<1>5. HeldRowsAreOpen'
  BY <1>2, <1>3, <1>4 DEF FanoutInv, HeldRowsAreOpen
<1>6. HeldRowsAreDue' /\ TriedRowsAreHeld'
  BY <1>1, <1>2, <1>3, <1>4 DEF FanoutInv, HeldRowsAreDue, Due, TriedRowsAreHeld
<1>9. WrittenRowsAreOutcomes' /\ AgesAreBounded'
  BY <1>1, <1>2 DEF FanoutInv, WrittenRowsAreOutcomes, AgesAreBounded, Outcomes, Commit
<1>7. ASSUME NEW d \in Deliveries
      PROVE  /\ (\A u \in Passes : ~ Tried(u, d)') => posts'[d] <= Recorded(d)' + losses'
             /\ \A u \in Passes : Tried(u, d)' =>
                   /\ pass'[u].done[d].attempts \in {Recorded(d)', Recorded(d)' + 1}
                   /\ posts'[d] <= pass'[u].done[d].attempts + losses'
  <2>1. CASE Tried(t, d)
    <3>1. \A u \in Passes : ~ Tried(u, d)'
      BY <1>2, <1>4, <2>1 DEF FanoutInv, TriedRowsAreHeld
    <3>2. ledger'[d] \in Entry /\ ledger'[d].attempts = pass[t].done[d].attempts
      BY <2>1, CommitShape DEF Tried
    <3>3. Recorded(d)' = pass[t].done[d].attempts
      BY <3>2, LedgerAssumption DEF Recorded
    <3>4. posts[d] <= pass[t].done[d].attempts + losses
      BY <2>1 DEF FanoutInv, CopiesAreCounted
    <3>. QED BY <1>1, <3>1, <3>3, <3>4
  <2>2. CASE ~ Tried(t, d)
    <3>1. Recorded(d)' = Recorded(d)
      BY <1>3, <2>2 DEF Recorded
    <3>2. \A u \in Passes : Tried(u, d)' <=> Tried(u, d)
      BY <1>2, <2>2
    <3>3. \A u \in Passes : Tried(u, d)' => pass'[u] = pass[u]
      BY <1>2
    <3>. QED BY <1>1, <3>1, <3>2, <3>3 DEF FanoutInv, CopiesAreCounted
  <2>. QED BY <2>1, <2>2
<1>8. CopiesAreCounted'
  BY <1>7 DEF CopiesAreCounted
<1>. QED BY <1>5, <1>6, <1>8, <1>9 DEF FanoutInv

LEMMA InvStep == TypeOK /\ FanoutInv /\ [Next]_vars => FanoutInv'
<1>. SUFFICES ASSUME TypeOK, FanoutInv, [Next]_vars PROVE FanoutInv'
  OBVIOUS
<1>0. TypeOK'
  BY TypeStep
<1>1. ASSUME NEW D \in SUBSET Deliveries, Enqueue(D) PROVE FanoutInv'
  <2>1. \A d \in Deliveries : ledger[d] # Null => ledger'[d] = ledger[d]
    BY <1>1 DEF Enqueue
  <2>2. NewEntry \in Entry /\ NewEntry.attempts = 0 /\ NewEntry # Null
    BY LedgerAssumption DEF NewEntry, Entry, Statuses
  <2>3. \A d \in Deliveries : Recorded(d)' = Recorded(d)
    BY <1>1, <2>2 DEF Enqueue, Recorded
  <2>4. UNCHANGED <<orphans, known, pass, posts, losses>>
    BY <1>1 DEF Enqueue
  <2>5. \A t \in Passes : pass[t] # Null => pass[t].age <= LongestPass
    BY DEF FanoutInv, AgesAreBounded
  <2>. QED BY <1>0, <2>1, <2>3, <2>4, <2>5, Frame
<1>2. ASSUME NEW d \in Deliveries, LoseAnnouncement(d) PROVE FanoutInv'
  <2>1. UNCHANGED <<ledger, known, pass, posts, losses>> /\ orphans \subseteq orphans'
    BY <1>2 DEF LoseAnnouncement
  <2>3. \A t \in Passes : pass[t] # Null => pass[t].age <= LongestPass
    BY DEF FanoutInv, AgesAreBounded
  <2>2. \A q \in Deliveries : Recorded(q)' = Recorded(q)
    BY <2>1 DEF Recorded
  <2>. QED BY <1>0, <2>1, <2>2, <2>3, Frame
<1>3. CASE AdvanceTime
  <2>1. UNCHANGED <<orphans, known, posts, losses>>
    BY <1>3 DEF AdvanceTime
  <2>2. \A d \in Deliveries : ledger[d] # Null =>
           /\ ledger'[d] # Null
           /\ ledger'[d].status = ledger[d].status
           /\ ledger'[d].attempts = ledger[d].attempts
           /\ ledger[d].wait = 0 => ledger'[d] = ledger[d]
    BY <1>3, TickType, LedgerAssumption
  <2>3. \A d \in Deliveries : Recorded(d)' = Recorded(d)
    BY <1>3, <2>2, TickType DEF Recorded
  <2>4. \A t \in Passes : IF pass[t] = Null THEN pass'[t] = Null
                          ELSE /\ pass'[t] # Null
                               /\ pass'[t].held = pass[t].held
                               /\ pass'[t].done = pass[t].done
                               /\ pass'[t].age <= LongestPass
    BY <1>3, TickType, FanoutAssumption DEF FanoutInv, AgesAreBounded
  <2>. QED BY <1>0, <2>1, <2>2, <2>3, <2>4, Frame
<1>4. ASSUME NEW t \in Passes, LosePass(t) PROVE FanoutInv'
  <2>1. /\ UNCHANGED <<ledger, orphans, known, posts>> /\ losses' = losses + 1
        /\ \A u \in Passes : pass'[u] = IF u \in {t} THEN Null ELSE pass[u]
    BY <1>4 DEF LosePass, TypeOK
  <2>. QED BY <1>0, <2>1, LossKeeps
<1>5. ASSUME NEW K \in SUBSET Channels, Restart(K) PROVE FanoutInv'
  <2>1. /\ UNCHANGED <<ledger, orphans, posts>> /\ losses' = losses + 1
        /\ \A u \in Passes : pass'[u] = IF u \in Passes THEN Null ELSE pass[u]
    BY <1>5 DEF Restart
  <2>. QED BY <1>0, <2>1, LossKeeps
<1>6. CASE UNCHANGED vars
  <2>1. \A d \in Deliveries : Recorded(d)' = Recorded(d)
    BY <1>6 DEF vars, Recorded
  <2>2. \A t \in Passes : pass[t] # Null => pass[t].age <= LongestPass
    BY DEF FanoutInv, AgesAreBounded
  <2>. QED BY <1>0, <1>6, <2>1, <2>2, Frame DEF vars
<1>. QED BY <1>1, <1>2, <1>3, <1>4, <1>5, <1>6, ClaimKeeps, HandleKeeps, CommitKeeps DEF Next

LEMMA InvHolds == Spec => []FanoutInv
<1>1. Init => FanoutInv
  BY DEF Init, FanoutInv, HeldRowsAreOpen, HeldRowsAreDue, TriedRowsAreHeld,
         WrittenRowsAreOutcomes, AgesAreBounded, CopiesAreCounted, Holds, Tried, Recorded
<1>. QED BY <1>1, InvStep, FanoutTypes, PTL DEF Spec

----------------------------------------------------------------------------
(* Theorems *)

\* The rows a pass holds are as it read them and nobody else's: skip locked.
THEOREM LocksHold == Spec => []HeldRowsAreOpen
BY InvHolds, PTL DEF FanoutInv

\* A target gets a copy again only for an attempt on record or a transaction
\* lost, however many passes overlap and however long they take.
THEOREM CopiesAreAccountedFor == Spec => []EveryCopyIsAccountedFor
<1>1. ASSUME TypeOK, FanoutInv, NEW d \in Deliveries
      PROVE  posts[d] <= Recorded(d) + InFlight(d) + losses
  <2>1. Recorded(d) \in Nat /\ posts[d] \in Nat /\ losses \in Nat
    BY <1>1, RecordedType DEF TypeOK
  <2>2. CASE \A t \in Passes : ~ Tried(t, d)
    <3>1. InFlight(d) = 0
      BY <2>2 DEF InFlight
    <3>. QED BY <1>1, <2>1, <2>2, <3>1 DEF FanoutInv, CopiesAreCounted
  <2>3. CASE \E t \in Passes : Tried(t, d)
    <3>1. InFlight(d) = 1
      BY <2>3 DEF InFlight
    <3>2. PICK t \in Passes : Tried(t, d)
      BY <2>3
    <3>. QED BY <1>1, <2>1, <3>1, <3>2 DEF FanoutInv, CopiesAreCounted
  <2>. QED BY <2>2, <2>3
<1>2. TypeOK /\ FanoutInv => EveryCopyIsAccountedFor
  BY <1>1 DEF EveryCopyIsAccountedFor, Recorded
<1>. QED BY <1>2, FanoutTypes, InvHolds, PTL

\* A row that no pass holds is not sent, and keeps its status and attempts; its
\* wait at most runs down.
LEMMA UnheldRowStays ==
    ASSUME TypeOK, FanoutInv, [Next]_vars, NEW d \in Deliveries,
           ledger[d] # Null, \A t \in Passes : ~ Holds(t, d)
    PROVE  /\ ledger'[d].status = ledger[d].status
           /\ ledger'[d].attempts = ledger[d].attempts
           /\ ledger'[d].wait <= ledger[d].wait
           /\ posts'[d] = posts[d]
<1>1. ledger[d].wait \in Nat
  BY DEF TypeOK, Entry
<1>2. CASE AdvanceTime
  BY <1>2, TickType DEF AdvanceTime
<1>3. ASSUME NEW t \in Passes, Commit(t)
      PROVE  ledger'[d] = ledger[d] /\ posts' = posts
  <2>1. ~ Tried(t, d)
    BY DEF FanoutInv, TriedRowsAreHeld
  <2>. QED BY <1>3, <2>1, CommitShape DEF Tried, Commit
<1>4. ASSUME NEW t \in Passes, NEW q \in Deliveries, Handle(t, q)
      PROVE  ledger' = ledger /\ posts'[d] = posts[d]
  <2>1. q # d
    BY <1>4, HandleShape DEF Todo
  <2>. QED BY <1>4, <2>1, HandleShape
<1>5. CASE \/ \E D \in SUBSET Deliveries : Enqueue(D)
           \/ \E q \in Deliveries : LoseAnnouncement(q)
           \/ \E t \in Passes : Claim(t) \/ LosePass(t)
           \/ \E K \in SUBSET Channels : Restart(K)
           \/ UNCHANGED vars
  <2>1. ledger'[d] = ledger[d] /\ posts' = posts
    BY <1>5 DEF Enqueue, LoseAnnouncement, Claim, LosePass, Restart, vars
  <2>. QED BY <1>1, <2>1
<1>. QED BY <1>1, <1>2, <1>3, <1>4, <1>5 DEF Next

\* A delivered row is never sent again, an exhausted one never revived.
THEOREM FinishedStaysFinished == Spec => FinishedIsFrozen
<1>1. ASSUME TypeOK, FanoutInv, [Next]_vars, NEW d \in Deliveries, Finished(d)
      PROVE  /\ ledger'[d].status = ledger[d].status
             /\ ledger'[d].attempts = ledger[d].attempts
             /\ ledger'[d].wait <= ledger[d].wait
             /\ posts'[d] = posts[d]
  <2>1. \A t \in Passes : ~ Holds(t, d)
    BY <1>1 DEF FanoutInv, HeldRowsAreOpen, Finished
  <2>. QED BY <1>1, <2>1, UnheldRowStays DEF Finished
<1>2. TypeOK /\ FanoutInv /\ [Next]_vars =>
         [\A d \in Deliveries : Finished(d) =>
             /\ ledger'[d].status = ledger[d].status
             /\ ledger'[d].attempts = ledger[d].attempts
             /\ ledger'[d].wait <= ledger[d].wait
             /\ posts'[d] = posts[d]]_vars
  BY <1>1
<1>. QED BY <1>2, FanoutTypes, InvHolds, PTL DEF Spec, FinishedIsFrozen

\* A row of a channel that is switched off is not sent and not changed, even by
\* a pass that a redeployment interrupts.
THEOREM OffIsLeftAlone == Spec => SwitchedOffIsLeftAlone
<1>1. ASSUME TypeOK, FanoutInv, [Next]_vars, NEW d \in Deliveries,
             ledger[d] # Null, d[1] \notin known
      PROVE  /\ ledger'[d].status = ledger[d].status
             /\ ledger'[d].attempts = ledger[d].attempts
             /\ posts'[d] = posts[d]
  <2>1. \A t \in Passes : ~ Holds(t, d)
    BY <1>1 DEF FanoutInv, HeldRowsAreDue, Due
  <2>. QED BY <1>1, <2>1, UnheldRowStays
<1>2. TypeOK /\ FanoutInv /\ [Next]_vars =>
         [\A d \in Deliveries : ledger[d] # Null /\ d[1] \notin known =>
             /\ ledger'[d].status = ledger[d].status
             /\ ledger'[d].attempts = ledger[d].attempts
             /\ posts'[d] = posts[d]]_vars
  BY <1>1
<1>. QED BY <1>2, FanoutTypes, InvHolds, PTL DEF Spec, SwitchedOffIsLeftAlone

----------------------------------------------------------------------------
(* What the ledger tells *)

\* Entry e tells the truth of a row whose message is out or not, and whose
\* announcement is gone or not.
Truthful(e, out, gone) ==
    /\ e.status = "pending" => e.attempts = 0
    /\ e.status = "failed" => e.attempts \in 1 .. MaxAttempts - 1
    /\ e.status = "delivered" => e.attempts \in 1 .. MaxAttempts /\ out
    /\ e.status = "exhausted" => e.attempts = MaxAttempts \/ gone

\* StatusTellsWhatHappened strengthened: so do the entries a pass has written.
TruthInv ==
    \A d \in Deliveries :
        /\ ledger[d] # Null => Truthful(ledger[d], posts[d] > 0, d \in orphans)
        /\ \A t \in Passes : Tried(t, d) => Truthful(pass[t].done[d], posts[d] > 0, d \in orphans)

\* What an attempt makes of a row with attempts left.
LEMMA OutcomesAreTruthful ==
    ASSUME NEW n \in 0 .. MaxAttempts - 1
    PROVE  /\ Delivered(n).status = "delivered" /\ Delivered(n).attempts \in 1 .. MaxAttempts
           /\ \/ Failed(n).status = "failed" /\ Failed(n).attempts \in 1 .. MaxAttempts - 1
              \/ Failed(n).status = "exhausted" /\ Failed(n).attempts = MaxAttempts
           /\ Missing(n).status = "exhausted"
BY LedgerAssumption DEF Delivered, Failed, Missing, GivesUp

\* What a pass writes about a row it handles is true.
LEMMA HandlingIsTruthful ==
    ASSUME TypeOK, FanoutInv, TruthInv, NEW t \in Passes, NEW d \in Deliveries, Handle(t, d)
    PROVE  \E entry \in Entry : /\ Write(t, d, entry)
                                /\ Truthful(entry, posts'[d] > 0, d \in orphans)
<1>. DEFINE n == pass[t].held[d]
<1>1. Holds(t, d)
  BY HandleShape DEF Todo
<1>2. /\ ledger[d] # Null /\ ledger[d].status \in {"pending", "failed"}
      /\ ledger[d].attempts = n
  BY <1>1 DEF FanoutInv, HeldRowsAreOpen
<1>3. n \in 0 .. MaxAttempts - 1
  BY <1>2, LedgerAssumption DEF TruthInv, Truthful
<1>4. n \in Nat
  BY <1>3, LedgerAssumption
<1>5. /\ Delivered(n) \in Entry /\ Failed(n) \in Entry /\ Missing(n) \in Entry
      /\ Delivered(n).status = "delivered" /\ Delivered(n).attempts \in 1 .. MaxAttempts
      /\ \/ Failed(n).status = "failed" /\ Failed(n).attempts \in 1 .. MaxAttempts - 1
         \/ Failed(n).status = "exhausted" /\ Failed(n).attempts = MaxAttempts
      /\ Missing(n).status = "exhausted"
  BY <1>3, <1>4, OutcomeType, OutcomesAreTruthful
<1>6. \/ Write(t, d, Missing(n)) /\ d \in orphans
      \/ Write(t, d, Delivered(n)) /\ posts'[d] = posts[d] + 1
      \/ Write(t, d, Failed(n))
  BY DEF Handle, GiveUpMissing, Deliver, Fail, TypeOK, n
<1>7. posts[d] + 1 > 0
  BY DEF TypeOK
<1>. HIDE DEF n
<1>8. CASE Write(t, d, Missing(n)) /\ d \in orphans
  BY <1>5, <1>8 DEF Truthful
<1>9. CASE Write(t, d, Delivered(n)) /\ posts'[d] = posts[d] + 1
  BY <1>5, <1>7, <1>9 DEF Truthful
<1>10. CASE Write(t, d, Failed(n))
  BY <1>5, <1>10 DEF Truthful
<1>. QED BY <1>6, <1>8, <1>9, <1>10

\* A message that is out stays out, an announcement that is gone stays gone: an
\* entry stays true while its status and attempts stay.
LEMMA TruthStays ==
    ASSUME TypeOK, TruthInv, orphans \subseteq orphans',
           \A d \in Deliveries : posts[d] > 0 => posts'[d] > 0,
           \A d \in Deliveries : ledger'[d] # Null =>
              \/ ledger'[d] = NewEntry
              \/ /\ ledger[d] # Null
                 /\ ledger'[d].status = ledger[d].status
                 /\ ledger'[d].attempts = ledger[d].attempts
              \/ \E t \in Passes : /\ Tried(t, d)
                                   /\ ledger'[d].status = pass[t].done[d].status
                                   /\ ledger'[d].attempts = pass[t].done[d].attempts,
           \A t \in Passes, d \in Deliveries : Tried(t, d)' =>
              \/ Tried(t, d) /\ pass'[t].done[d] = pass[t].done[d]
              \/ Truthful(pass'[t].done[d], posts'[d] > 0, d \in orphans')
    PROVE  TruthInv'
<1>1. ASSUME NEW e, NEW f, NEW d \in Deliveries, Truthful(e, posts[d] > 0, d \in orphans),
             f.status = e.status, f.attempts = e.attempts
      PROVE  Truthful(f, posts'[d] > 0, d \in orphans')
  BY <1>1 DEF Truthful
<1>2. Truthful(NewEntry, FALSE, FALSE)
  BY DEF Truthful, NewEntry
<1>3. ASSUME NEW d \in Deliveries, ledger'[d] # Null
      PROVE  Truthful(ledger'[d], posts'[d] > 0, d \in orphans')
  <2>1. CASE ledger'[d] = NewEntry
    BY <1>2, <2>1 DEF Truthful
  <2>2. CASE /\ ledger[d] # Null
             /\ ledger'[d].status = ledger[d].status
             /\ ledger'[d].attempts = ledger[d].attempts
    BY <1>1, <2>2 DEF TruthInv
  <2>3. ASSUME NEW t \in Passes, Tried(t, d),
               ledger'[d].status = pass[t].done[d].status,
               ledger'[d].attempts = pass[t].done[d].attempts
        PROVE  Truthful(ledger'[d], posts'[d] > 0, d \in orphans')
    BY <1>1, <2>3 DEF TruthInv
  <2>. QED BY <1>3, <2>1, <2>2, <2>3
<1>4. ASSUME NEW t \in Passes, NEW d \in Deliveries, Tried(t, d)'
      PROVE  Truthful(pass'[t].done[d], posts'[d] > 0, d \in orphans')
  BY <1>1, <1>4 DEF TruthInv
<1>. QED BY <1>3, <1>4 DEF TruthInv

LEMMA TruthStep == TypeOK /\ FanoutInv /\ TruthInv /\ [Next]_vars => TruthInv'
<1>. SUFFICES ASSUME TypeOK, FanoutInv, TruthInv, [Next]_vars PROVE TruthInv'
  OBVIOUS
<1>1. ASSUME NEW D \in SUBSET Deliveries, Enqueue(D) PROVE TruthInv'
  <2>1. \A d \in Deliveries : ledger'[d] \in {NewEntry, ledger[d]}
    BY <1>1 DEF Enqueue
  <2>. QED BY <1>1, <2>1, TruthStays DEF Enqueue, Tried
<1>2. ASSUME NEW d \in Deliveries, LoseAnnouncement(d) PROVE TruthInv'
  BY <1>2, TruthStays DEF LoseAnnouncement, Tried
<1>3. CASE AdvanceTime
  <2>1. UNCHANGED <<orphans, posts>>
    BY <1>3 DEF AdvanceTime
  <2>2. \A d \in Deliveries : ledger'[d] # Null =>
           /\ ledger[d] # Null
           /\ ledger'[d].status = ledger[d].status
           /\ ledger'[d].attempts = ledger[d].attempts
    BY <1>3, TickType
  <2>3. \A t \in Passes, d \in Deliveries : Tried(t, d)' =>
           Tried(t, d) /\ pass'[t].done[d] = pass[t].done[d]
    BY <1>3, TickType DEF Tried
  <2>. QED BY <2>1, <2>2, <2>3, TruthStays
<1>4. ASSUME NEW t \in Passes, Claim(t) PROVE TruthInv'
  <2>1. PICK claimed \in SUBSET Deliveries : pass' = [pass EXCEPT ![t] = ClaimedPass(claimed)]
    BY <1>4, ClaimShape
  <2>2. \A u \in Passes, d \in Deliveries : Tried(u, d)' =>
           Tried(u, d) /\ pass'[u].done[d] = pass[u].done[d]
    BY <2>1 DEF Tried, ClaimedPass, TypeOK
  <2>. QED BY <1>4, <2>2, TruthStays DEF Claim
<1>5. ASSUME NEW t \in Passes, Commit(t) PROVE TruthInv'
  <2>1. UNCHANGED <<orphans, posts>> /\ pass[t] # Null
    BY <1>5 DEF Commit
  <2>2. \A d \in Deliveries : ledger'[d] # Null =>
           \/ ledger'[d] = ledger[d]
           \/ /\ Tried(t, d)
              /\ ledger'[d].status = pass[t].done[d].status
              /\ ledger'[d].attempts = pass[t].done[d].attempts
    BY <1>5, <2>1, CommitShape DEF Tried
  <2>3. \A u \in Passes, d \in Deliveries : Tried(u, d)' =>
           Tried(u, d) /\ pass'[u].done[d] = pass[u].done[d]
    BY <1>5, CommitShape DEF Tried
  <2>. QED BY <2>1, <2>2, <2>3, TruthStays
<1>6. ASSUME NEW t \in Passes, LosePass(t) PROVE TruthInv'
  BY <1>6, TruthStays DEF LosePass, Tried, TypeOK
<1>7. ASSUME NEW K \in SUBSET Channels, Restart(K) PROVE TruthInv'
  BY <1>7, TruthStays DEF Restart, Tried
<1>8. ASSUME NEW t \in Passes, NEW d \in Deliveries, Handle(t, d) PROVE TruthInv'
  <2>1. /\ UNCHANGED <<ledger, orphans>> /\ pass[t] # Null
        /\ \A q \in Deliveries : posts[q] > 0 => posts'[q] > 0
    BY <1>8, HandleShape DEF Todo, Holds, TypeOK
  <2>2. PICK entry \in Entry : /\ Write(t, d, entry)
                               /\ Truthful(entry, posts'[d] > 0, d \in orphans)
    BY <1>8, HandlingIsTruthful
  <2>3. /\ pass'[t].done = [pass[t].done EXCEPT ![d] = entry]
        /\ \A u \in Passes : u # t => pass'[u] = pass[u]
    BY <2>1, <2>2, WriteType
  <2>4. pass[t].done \in [Deliveries -> Entry \cup {Null}]
    BY <2>1 DEF TypeOK, Pass
  <2>5. ASSUME NEW u \in Passes, NEW q \in Deliveries, Tried(u, q)'
        PROVE  \/ Tried(u, q) /\ pass'[u].done[q] = pass[u].done[q]
               \/ Truthful(pass'[u].done[q], posts'[q] > 0, q \in orphans')
    <3>1. CASE u = t /\ q = d
      BY <2>1, <2>2, <2>3, <2>4, <3>1
    <3>2. CASE u = t /\ q # d
      BY <2>1, <2>3, <2>4, <2>5, <3>2 DEF Tried
    <3>3. CASE u # t
      BY <2>3, <2>5, <3>3 DEF Tried
    <3>. QED BY <3>1, <3>2, <3>3
  <2>. QED BY <2>1, <2>5, TruthStays
<1>9. CASE UNCHANGED vars
  BY <1>9, TruthStays DEF vars, Tried
<1>. QED BY <1>1, <1>2, <1>3, <1>4, <1>5, <1>6, <1>7, <1>8, <1>9 DEF Next

\* An entry tells what happened: 'delivered' only with the message out and
\* 'exhausted' only with no attempt, or no announcement, left, also when the
\* transaction that had tried before was lost.
THEOREM TheLedgerIsTrue == Spec => []StatusTellsWhatHappened
<1>1. Init => TruthInv
  BY DEF Init, TruthInv, Tried
<1>2. ASSUME TypeOK, TruthInv, NEW d \in Deliveries, ledger[d] # Null
      PROVE  StatusTellsWhatHappened!(d)!2
  <2>1. Truthful(ledger[d], posts[d] > 0, d \in orphans)
    BY <1>2 DEF TruthInv
  <2>2. ledger[d].status \in Statuses
    BY <1>2 DEF TypeOK, Entry
  <2>. QED BY <2>1, <2>2 DEF Truthful, Statuses
<1>3. TypeOK /\ TruthInv => StatusTellsWhatHappened
  BY <1>2 DEF StatusTellsWhatHappened
<1>. QED BY <1>1, <1>3, TruthStep, FanoutTypes, InvHolds, PTL DEF Spec

----------------------------------------------------------------------------
(* Fanout implements DeliveryLadder *)

\* The two instances of Ledger are one.
LEMMA SameLedger ==
    /\ Ladder!Deliveries = Deliveries /\ Ladder!NewEntry = NewEntry
    /\ \A n : /\ Ladder!Delivered(n) = Delivered(n)
              /\ Ladder!Failed(n) = Failed(n)
              /\ Ladder!Missing(n) = Missing(n)
    /\ \A e, m : Ladder!Later(e, m) = Later(e, m)
<1>1. Ladder!Deliveries = Deliveries /\ Ladder!NewEntry = NewEntry
  BY DEF Deliveries, Ladder!Deliveries, NewEntry, Ladder!NewEntry
<1>2. ASSUME NEW n
      PROVE  /\ Ladder!Delivered(n) = Delivered(n)
             /\ Ladder!Failed(n) = Failed(n)
             /\ Ladder!Missing(n) = Missing(n)
  BY DEF Delivered, Failed, Missing, GivesUp, Backoff,
         Ladder!Delivered, Ladder!Failed, Ladder!Missing, Ladder!GivesUp, Ladder!Backoff
<1>3. ASSUME NEW e, NEW m
      PROVE  Ladder!Later(e, m) = Later(e, m)
  BY DEF Later, Monus, Ladder!Later, Ladder!Monus
<1>. QED BY <1>1, <1>2, <1>3

\* The commit of a pass settles the rows it has written.
LEMMA CommitSettles ==
    ASSUME TypeOK, FanoutInv, NEW t \in Passes, Commit(t)
    PROVE  \E D \in SUBSET {d \in Deliveries : Ladder!Due(d)} :
              \E written \in Ladder!AnyOutcomes(D), age \in 0 .. LongestPass :
                 Ladder!Settle(D, written, age)
<1>. DEFINE D       == {d \in Deliveries : Tried(t, d)}
            written == [d \in D |-> pass[t].done[d]]
            age     == pass[t].age
<1>1. pass[t] # Null /\ UNCHANGED <<orphans, known>>
  BY DEF Commit
<1>2. age \in 0 .. LongestPass
  BY <1>1, FanoutAssumption DEF FanoutInv, AgesAreBounded, TypeOK, Pass
<1>3. ASSUME NEW d \in D
      PROVE  Ladder!Due(d) /\ written[d] \in Ladder!Outcomes(d)
  <2>1. Holds(t, d) /\ Tried(t, d)
    BY <1>3 DEF FanoutInv, TriedRowsAreHeld
  <2>2. Due(d) /\ pass[t].held[d] = ledger[d].attempts
    BY <2>1 DEF FanoutInv, HeldRowsAreDue, HeldRowsAreOpen
  <2>3. pass[t].done[d] \in Outcomes(t, d)
    BY <2>1 DEF FanoutInv, WrittenRowsAreOutcomes
  <2>4. Outcomes(t, d) = Ladder!Outcomes(d)
    BY <2>2, SameLedger DEF Outcomes, Ladder!Outcomes
  <2>5. Ladder!Due(d)
    BY <2>2 DEF Due, Ladder!Due
  <2>. QED BY <2>3, <2>4, <2>5
<1>4. written \in Ladder!AnyOutcomes(D)
  BY <1>3 DEF Ladder!AnyOutcomes
<1>5. \A d \in Deliveries :
         ledger'[d] = IF d \in D THEN Later(written[d], age) ELSE ledger[d]
  BY <1>1 DEF Commit, Tried
<1>6. ledger' = [d \in Deliveries |-> IF d \in D THEN Later(written[d], age) ELSE ledger[d]]
  BY <1>5 DEF Commit
<1>7. Ladder!Settle(D, written, age)
  BY <1>1, <1>3, <1>6, SameLedger DEF Ladder!Settle
<1>8. D \in SUBSET {d \in Deliveries : Ladder!Due(d)}
  BY <1>3
<1>. HIDE DEF D, written, age
<1>. QED BY <1>2, <1>4, <1>7, <1>8

\* The ledger changes only as the ladder allows, however passes overlap, end late
\* or are lost: this is what the health checks build on.
THEOREM FanoutIsALadder == Spec => ImplementsLadder
<1>1. Init => Ladder!Init
  BY SameLedger DEF Init, Ladder!Init
<1>2. ASSUME TypeOK, FanoutInv, [Next]_vars
      PROVE  [Ladder!Next]_(Ladder!vars)
  <2>1. ASSUME NEW D \in SUBSET Deliveries, Enqueue(D)
        PROVE  Ladder!Next
    BY <2>1, SameLedger DEF Enqueue, Ladder!Enqueue, Ladder!Next
  <2>2. ASSUME NEW d \in Deliveries, LoseAnnouncement(d)
        PROVE  Ladder!Next
    <3>1. Ladder!LoseAnnouncement({d})
      BY <2>2 DEF LoseAnnouncement, Ladder!LoseAnnouncement
    <3>. QED BY <3>1, SameLedger DEF Ladder!Next
  <2>3. CASE AdvanceTime
    BY <2>3, SameLedger DEF AdvanceTime, Ladder!AdvanceTime, Ladder!Next
  <2>4. ASSUME NEW t \in Passes, Commit(t)
        PROVE  Ladder!Next
    BY <1>2, <2>4, CommitSettles, SameLedger DEF Ladder!Next
  <2>5. ASSUME NEW K \in SUBSET Channels, Restart(K)
        PROVE  Ladder!Next
    BY <2>5 DEF Restart, Ladder!Serve, Ladder!Next
  <2>6. CASE \/ \E t \in Passes : Claim(t) \/ LosePass(t)
             \/ \E t \in Passes, d \in Deliveries : Handle(t, d)
             \/ UNCHANGED vars
    BY <2>6 DEF Claim, LosePass, Handle, GiveUpMissing, Deliver, Fail, vars, Ladder!vars
  <2>. QED BY <1>2, <2>1, <2>2, <2>3, <2>4, <2>5, <2>6 DEF Next
<1>3. TypeOK /\ FanoutInv /\ [Next]_vars => [Ladder!Next]_(Ladder!vars)
  BY <1>2
<1>. QED BY <1>1, <1>3, FanoutTypes, InvHolds, PTL DEF Spec, ImplementsLadder, Ladder!Spec

============================================================================
