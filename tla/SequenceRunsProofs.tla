------------------------- MODULE SequenceRunsProofs -------------------------
(***************************************************************************)
(* Theorems about SequenceRuns, for every set of sequences, runs and       *)
(* requests and every length of chain.                                     *)
(***************************************************************************)
EXTENDS SequenceRuns, TLAPS

\* A run lasts a whole, non-negative number of seconds (runLengthSeconds).
LEMMA RunLengthNat ==
  ASSUME NEW rule \in Rule, NEW cycle \in Nat
  PROVE  RunLength(rule, cycle) \in Nat
<1>1. AtLeast(1, rule.n) \in Nat /\ AtLeast(0, rule.n) \in Nat
  BY DEF Rule, AtLeast
<1>2. cycle * AtLeast(1, rule.n) \in Nat
  BY <1>1
<1>3. QED
  BY <1>1, <1>2 DEF RunLength, Rule

\* Finishing never lies before starting.
LEMMA FinishedAfterStart ==
  ASSUME NEW rule \in Rule, NEW cycle \in Nat, NEW started \in Nat, NEW at \in Nat,
         HasFinished(rule, cycle, started, at)
  PROVE  at >= started /\ at >= started + RunLength(rule, cycle)
BY RunLengthNat DEF HasFinished, RunEndsAt

\* The empty tables and blank requests of a fresh start are well typed.
LEMMA InitTypeOK == Init => TypeOK
BY DEF Init, TypeOK, Blank, Request, PCs, AllOps, Rule

\* The cycle a sequence's stored steps add up to is a natural number of seconds.
LEMMA CycleNowNat == TypeOK => \A s : CycleNow(s) \in Nat
BY SequenceRunsAssumption DEF TypeOK, CycleNow, SequenceRow

\* A step that changes nothing but the record of one request.
LEMMA BecomeTypeOK ==
  ASSUME TypeOK, NEW p \in Places, NEW q \in Request, Become(p, q),
         UNCHANGED <<now, sequences, runs, issued, edits>>
  PROVE  TypeOK'
BY DEF TypeOK, Become, SequenceRow, RunRow

\* An idle place holds a well-typed request.
LEMMA BlankRequest == Blank \in Request
BY DEF Blank, Request, PCs, AllOps, Rule

\* A request that has loaded its sequence is still a well-typed request.
LEMMA LoadedRequest ==
  ASSUME NEW q \in Request, NEW run \in Runs \cup {None}
  PROVE  Loaded(q, run) \in Request
BY DEF Loaded, Blank, Request, PCs, AllOps, Rule

\* A request sent back to load a sequence again is well typed.
LEMMA ReloadRequest ==
  ASSUME TypeOK, NEW p \in Places, NEW s \in Sequences \cup {None}
  PROVE  Reloading(p, s) \in Request
BY DEF TypeOK, Reloading, Blank, Request, PCs, AllOps, Rule

\* Every step of every request keeps the tables and the requests well typed.
LEMMA ReadsTypeOK ==
  ASSUME TypeOK, NEW p \in Places,
         \/ ReadRow(p) \/ ReadSteps(p) \/ ReadRun(p) \/ Settle(p)
         \/ Answer(p) \/ DecidePut(p) \/ DecideDelete(p) \/ DecideActivate(p)
         \/ DecideDeactivate(p) \/ PollRuns(p) \/ PollSteps(p) \/ Fail(p)
  PROVE  TypeOK'
<1> USE SequenceRunsAssumption, BlankRequest
<1>1. req[p] \in Request /\ now \in Nat
  BY DEF TypeOK
<1>2. CASE ReadRow(p)
  <2>1. sequences[req[p].seq].rule \in Rule \/ req[p].seq \notin DOMAIN sequences
    BY DEF TypeOK, SequenceRow
  <2>2. PICK q \in Request : Become(p, q)
    BY <1>1, <1>2, <2>1 DEF ReadRow, Finish, Become, Request, PCs
  <2>3. QED
    BY <2>2, <1>2, BecomeTypeOK DEF ReadRow
<1>3. CASE ReadSteps(p)
  <2>1. PICK q \in Request : Become(p, q)
    BY <1>1, <1>3, CycleNowNat DEF ReadSteps, Become, Request, PCs
  <2>2. QED
    BY <2>1, <1>3, BecomeTypeOK DEF ReadSteps
<1>4. CASE ReadRun(p)
  <2>1. \A r \in ActiveOf(req[p].seq) : r \in Runs /\ runs[r].started \in Nat
    BY DEF TypeOK, ActiveOf, RunRow
  <2>2. PICK q \in Request : Become(p, q)
    BY <1>1, <1>4, <2>1 DEF ReadRun, Become, Request, PCs
  <2>3. QED
    BY <2>2, <1>4, BecomeTypeOK DEF ReadRun
<1>5. CASE Settle(p)
  <2>1. Loaded(req[p], req[p].run) \in Request
    BY <1>1, LoadedRequest DEF Request
  <2>2. PICK q \in Request : Become(p, q)
    BY <1>1, <1>5, <2>1 DEF Settle, Become, Request, PCs
  <2>3. QED
    BY <2>2, <1>5, BecomeTypeOK DEF Settle
<1>6. CASE Answer(p)
  <2>1. PICK q \in Request : Become(p, q)
    BY <1>1, <1>6 DEF Answer, Finish, Become, Request, PCs
  <2>2. QED
    BY <2>1, <1>6, BecomeTypeOK DEF Answer
<1>7. CASE DecidePut(p)
  <2>1. PICK q \in Request : Become(p, q)
    BY <1>1, <1>7 DEF DecidePut, Finish, Become, Request, PCs
  <2>2. QED
    BY <2>1, <1>7, BecomeTypeOK DEF DecidePut
<1>8. CASE DecideDelete(p)
  <2>1. PICK q \in Request : Become(p, q)
    BY <1>1, <1>8 DEF DecideDelete, Become, Request, PCs
  <2>2. QED
    BY <2>1, <1>8, BecomeTypeOK DEF DecideDelete
<1>9. CASE DecideActivate(p)
  <2>1. PICK q \in Request : Become(p, q)
    BY <1>1, <1>9 DEF DecideActivate, Finish, Become, Request, PCs
  <2>2. QED
    BY <2>1, <1>9, BecomeTypeOK DEF DecideActivate
<1>10. CASE DecideDeactivate(p)
  <2>1. Reloading(p, req[p].seq) \in Request
    BY <1>1, ReloadRequest DEF Request
  <2>2. PICK q \in Request : Become(p, q)
    BY <1>1, <1>10, <2>1 DEF DecideDeactivate, Reload, Become, Request, PCs
  <2>3. QED
    BY <2>2, <1>10, BecomeTypeOK DEF DecideDeactivate
<1>11. CASE PollRuns(p)
  <2>1. \A r \in ActiveOf(req[p].seq) :
          r \in Runs /\ runs[r].started \in Nat /\ sequences[req[p].seq].rule \in Rule
    BY DEF TypeOK, ActiveOf, RunRow, SequenceRow
  <2>2. PICK q \in Request : Become(p, q)
    BY <1>1, <1>11, <2>1 DEF PollRuns, Finish, Become, Request, PCs
  <2>3. QED
    BY <2>2, <1>11, BecomeTypeOK DEF PollRuns
<1>12. CASE PollSteps(p)
  <2>1. PICK q \in Request : Become(p, q)
    BY <1>1, <1>12, CycleNowNat DEF PollSteps, Finish, Become, Request, PCs
  <2>2. QED
    BY <2>1, <1>12, BecomeTypeOK DEF PollSteps
<1>13. CASE Fail(p)
  <2>1. PICK q \in Request : Become(p, q)
    BY <1>1, <1>13 DEF Fail, Finish, Become, Request, PCs
  <2>2. QED
    BY <2>1, <1>13, BecomeTypeOK DEF Fail
<1>20. QED
  BY <1>2, <1>3, <1>4, <1>5, <1>6, <1>7, <1>8, <1>9, <1>10, <1>11, <1>12, <1>13

\* A request that arrives keeps everything well typed.
LEMMA ArriveTypeOK ==
  ASSUME TypeOK, NEW p \in Places, NEW s \in Sequences, NEW op \in Ops, Arrive(p, op, s)
  PROVE  TypeOK'
<1>1. ActiveOf(s) \subseteq Runs /\ op \in AllOps
  BY SequenceRunsAssumption DEF ActiveOf, TypeOK, AllOps
<1>2. [Blank EXCEPT !.pc = "row", !.op = op, !.seq = s,
                    !.began = IF op \in {"deactivate", "put"} THEN ActiveOf(s) ELSE {}] \in Request
  BY <1>1, BlankRequest DEF Request, PCs
<1>3. QED
  BY <1>2, BecomeTypeOK DEF Arrive

\* What the two statements that close a run do to its row.
LEMMA CompleteTypeOK ==
  ASSUME TypeOK, NEW p \in Places, NEW q \in Request, NEW r, NEW at \in Nat,
         NEW torn \in BOOLEAN, Complete(r, at, torn), Become(p, q),
         UNCHANGED <<now, sequences, issued, edits>>
  PROVE  TypeOK'
<1>1. DOMAIN runs' = DOMAIN runs
  BY DEF Complete
<1>2. ASSUME NEW x \in DOMAIN runs'
      PROVE  runs'[x] \in RunRow /\ runs'[x].seq = runs[x].seq
  BY <1>1 DEF Complete, TypeOK, RunRow
<1>3. QED
  BY <1>1, <1>2 DEF TypeOK, Become, SequenceRow

\* Closing a finished run, by a load or by the poll, keeps everything well typed.
LEMMA ClosesTypeOK ==
  ASSUME TypeOK, NEW p \in Places, CloseIfFinished(p) \/ PollClose(p)
  PROVE  TypeOK'
<1>1. req[p] \in Request
  BY DEF TypeOK
<1>2. CASE CloseIfFinished(p)
  <2>1. Loaded(req[p], None) \in Request
    BY <1>1, LoadedRequest
  <2>2. QED
    BY <1>1, <1>2, <2>1, CompleteTypeOK DEF CloseIfFinished, Request
<1>3. CASE PollClose(p)
  BY <1>1, <1>3, BlankRequest, CompleteTypeOK DEF PollClose, Finish, Request
<1>4. QED
  BY <1>2, <1>3

\* POST /sequences keeps everything well typed.
LEMMA CreateSequenceTypeOK ==
  ASSUME TypeOK, NEW p \in Places, CreateSequence(p)
  PROVE  TypeOK'
<1>1. PICK s \in Sequences \ issued, row \in SequenceRow :
        IF NameTaken(s, row.name)
          THEN Finish(p) /\ UNCHANGED <<sequences, issued>>
          ELSE /\ sequences' = [x \in DOMAIN sequences \cup {s} |->
                                  IF x = s THEN row ELSE sequences[x]]
               /\ issued' = issued \cup {s}
               /\ Reload(p, s)
  BY DEF CreateSequence
<1>2. UNCHANGED <<now, runs, edits>>
  BY DEF CreateSequence
<1>3. CASE NameTaken(s, row.name)
  BY <1>1, <1>2, <1>3, BlankRequest, BecomeTypeOK DEF Finish
<1>4. CASE ~NameTaken(s, row.name)
  <2>1. /\ sequences' = [x \in DOMAIN sequences \cup {s} |->
                           IF x = s THEN row ELSE sequences[x]]
        /\ issued' = issued \cup {s}
        /\ Reload(p, s)
    BY <1>1, <1>4
  <2>2. req' \in [Places -> Request]
    BY <2>1, ReloadRequest DEF Reload, Become, TypeOK
  <2>3. \A x \in DOMAIN sequences' : sequences'[x] \in SequenceRow
    BY <2>1 DEF TypeOK
  <2>4. QED
    BY <1>2, <2>1, <2>2, <2>3 DEF TypeOK
<1>5. QED
  BY <1>3, <1>4

\* PUT /sequences/:id keeps everything well typed, with or without its new steps.
LEMMA WriteSequenceTypeOK ==
  ASSUME TypeOK, NEW p \in Places, WriteSequence(p)
  PROVE  TypeOK'
<1> DEFINE s == req[p].seq
<1>1. PICK row \in SequenceRow :
        IF s \notin DOMAIN sequences \/ NameTaken(s, row.name)
          THEN Finish(p) /\ UNCHANGED <<sequences, runs, edits>>
          ELSE /\ sequences' = [sequences EXCEPT ![s] = row]
               /\ runs' = [r \in DOMAIN runs |->
                             IF r \in ActiveOf(s) THEN [runs[r] EXCEPT !.tainted = TRUE]
                                                  ELSE runs[r]]
               /\ req' = [q \in Places |->
                            IF q = p
                              THEN Reloading(p, s)
                              ELSE [req[q] EXCEPT
                                      !.torn = @ \/ (req[q].seq = s /\ HoldsView(req[q]))]]
               /\ edits' = edits + 1
  BY DEF WriteSequence
<1>2. UNCHANGED <<now, issued>>
  BY DEF WriteSequence
<1>3. CASE s \notin DOMAIN sequences \/ NameTaken(s, row.name)
  BY <1>1, <1>2, <1>3, BlankRequest, BecomeTypeOK DEF Finish
<1>4. CASE ~(s \notin DOMAIN sequences \/ NameTaken(s, row.name))
  <2>1. /\ sequences' = [sequences EXCEPT ![s] = row]
        /\ runs' = [r \in DOMAIN runs |->
                      IF r \in ActiveOf(s) THEN [runs[r] EXCEPT !.tainted = TRUE]
                                           ELSE runs[r]]
        /\ req' = [q \in Places |->
                     IF q = p
                       THEN Reloading(p, s)
                       ELSE [req[q] EXCEPT
                               !.torn = @ \/ (req[q].seq = s /\ HoldsView(req[q]))]]
        /\ edits' = edits + 1
    BY <1>1, <1>4
  <2>2. ASSUME NEW q \in Places
        PROVE  req'[q] \in Request
    <3>1. req[q] \in Request /\ s \in Sequences \cup {None}
      BY DEF TypeOK, Request
    <3>2. CASE q = p
      BY <2>1, <3>1, <3>2, ReloadRequest
    <3>3. CASE q # p
      <4> DEFINE t == req[q].torn \/ (req[q].seq = s /\ HoldsView(req[q]))
      <4>1. t \in BOOLEAN
        OBVIOUS
      <4>2. req'[q] = [req[q] EXCEPT !.torn = t]
        BY <2>1, <3>3
      <4>3. QED
        BY <3>1, <4>1, <4>2 DEF Request
    <3>4. QED
      BY <3>2, <3>3
  <2>3. req' \in [Places -> Request]
    BY <2>1, <2>2
  <2>4. \A r \in DOMAIN runs' : runs'[r] \in RunRow /\ runs'[r].seq = runs[r].seq
    BY <2>1 DEF TypeOK, RunRow
  <2>5. /\ DOMAIN sequences' = DOMAIN sequences /\ DOMAIN runs' = DOMAIN runs
        /\ \A x \in DOMAIN sequences' : sequences'[x] \in SequenceRow
    BY <2>1 DEF TypeOK
  <2>6. QED
    BY <1>2, <2>1, <2>3, <2>4, <2>5 DEF TypeOK
<1>5. QED
  BY <1>3, <1>4

\* DELETE /sequences/:id and its cascade over the runs keep everything well typed.
LEMMA RemoveSequenceTypeOK ==
  ASSUME TypeOK, NEW p \in Places, RemoveSequence(p)
  PROVE  TypeOK'
<1>1. req' \in [Places -> Request]
  BY BlankRequest DEF RemoveSequence, Finish, Become, TypeOK
<1>2. /\ \A x \in DOMAIN sequences' : sequences'[x] \in SequenceRow
      /\ DOMAIN sequences' \subseteq DOMAIN sequences
  BY DEF RemoveSequence, TypeOK
<1>3. /\ DOMAIN runs' \subseteq DOMAIN runs
      /\ \A r \in DOMAIN runs' : runs'[r] = runs[r] /\ runs'[r].seq \in DOMAIN sequences'
  BY DEF RemoveSequence, TypeOK
<1>4. QED
  BY <1>1, <1>2, <1>3 DEF RemoveSequence, TypeOK

\* Starting a run, or being refused one, keeps everything well typed.
LEMMA InsertRunTypeOK ==
  ASSUME TypeOK, NEW p \in Places, InsertRun(p)
  PROVE  TypeOK'
<1> DEFINE q == req[p]
<1>1. q \in Request /\ UNCHANGED <<now, sequences, edits>>
  BY DEF TypeOK, InsertRun
<1>2. CASE RunRefused(q.seq)
  BY <1>1, <1>2, BlankRequest, BecomeTypeOK DEF InsertRun, Finish
<1>3. CASE ~RunRefused(q.seq)
  <2>1. q.seq \in DOMAIN sequences /\ q.seq \in Sequences
    BY <1>3 DEF RunRefused, TypeOK
  <2>2. PICK r \in Runs \ issued :
          /\ runs' = [x \in DOMAIN runs \cup {r} |->
                        IF x = r
                          THEN [seq |-> q.seq, started |-> q.at, state |-> "active",
                                ended |-> 0, tainted |-> FALSE,
                                basis |-> RunLength(sequences[q.seq].rule,
                                                    sequences[q.seq].cycle)]
                          ELSE runs[x]]
          /\ issued' = issued \cup {r}
          /\ Reload(p, q.seq)
    BY <1>3 DEF InsertRun
  <2>3. RunLength(sequences[q.seq].rule, sequences[q.seq].cycle) \in Nat
    BY <2>1, RunLengthNat, SequenceRunsAssumption DEF TypeOK, SequenceRow
  <2>4. \A x \in DOMAIN runs' : runs'[x] \in RunRow /\ runs'[x].seq \in DOMAIN sequences
    BY <1>1, <2>1, <2>2, <2>3 DEF TypeOK, RunRow, Request
  <2>5. req' \in [Places -> Request]
    BY <2>1, <2>2, ReloadRequest DEF Reload, Become, TypeOK
  <2>6. QED
    BY <1>1, <2>2, <2>4, <2>5 DEF TypeOK
<1>4. QED
  BY <1>2, <1>3

\* Stopping a run keeps everything well typed.
LEMMA StopRunTypeOK ==
  ASSUME TypeOK, NEW p \in Places, StopRun(p)
  PROVE  TypeOK'
<1>1. req[p] \in Request
  BY DEF TypeOK
<1>2. /\ DOMAIN runs' = DOMAIN runs
      /\ \A r \in DOMAIN runs' : runs'[r] \in RunRow /\ runs'[r].seq = runs[r].seq
  <2>1. /\ req[p].at \in Nat
        /\ runs' = [r \in DOMAIN runs |->
                      IF r = req[p].run
                        THEN [runs[r] EXCEPT !.state = "stopped", !.ended = req[p].at]
                        ELSE runs[r]]
    BY <1>1 DEF StopRun, Request
  <2>2. QED
    BY <2>1 DEF TypeOK, RunRow
<1>3. req' \in [Places -> Request]
  BY <1>1, ReloadRequest DEF StopRun, Reload, Become, TypeOK, Request
<1>4. QED
  BY <1>2, <1>3 DEF StopRun, TypeOK

\* Every step of the routes, the poll and the clock keeps everything well typed.
LEMMA NextTypeOK == TypeOK /\ [Next]_vars => TypeOK'
<1> SUFFICES ASSUME TypeOK, [Next]_vars
             PROVE  TypeOK'
  OBVIOUS
<1>1. CASE UNCHANGED vars
  BY <1>1 DEF vars, TypeOK, SequenceRow, RunRow
<1>2. CASE Tick
  BY <1>2 DEF Tick, TypeOK, SequenceRow, RunRow
<1>3. ASSUME NEW p \in Requests,
             ArriveCreate(p) \/ \E s \in Sequences, op \in Ops : Arrive(p, op, s)
      PROVE  TypeOK'
  <2>1. p \in Places
    BY DEF Places
  <2>2. CASE ArriveCreate(p)
    BY <2>1, <2>2, BlankRequest, BecomeTypeOK DEF ArriveCreate, Request, PCs, AllOps
  <2>3. CASE \E s \in Sequences, op \in Ops : Arrive(p, op, s)
    BY <2>1, <2>3, ArriveTypeOK
  <2>4. QED
    BY <1>3, <2>2, <2>3
<1>4. ASSUME NEW p \in Tabs, NEW s \in Sequences, ArrivePoll(p, s)
      PROVE  TypeOK'
  <2>1. p \in Places
    BY DEF Places
  <2>2. [Blank EXCEPT !.pc = "pollRuns", !.op = "poll", !.seq = s, !.at = now] \in Request
    BY BlankRequest DEF TypeOK, Request, PCs, AllOps
  <2>3. QED
    BY <1>4, <2>1, <2>2, BecomeTypeOK DEF ArrivePoll
<1>5. ASSUME NEW p \in Places, Proceed(p) \/ Fail(p)
      PROVE  TypeOK'
  BY <1>5, ReadsTypeOK, ClosesTypeOK, CreateSequenceTypeOK, WriteSequenceTypeOK,
     RemoveSequenceTypeOK, InsertRunTypeOK, StopRunTypeOK DEF Proceed
<1>6. QED
  BY <1>1, <1>2, <1>3, <1>4, <1>5 DEF Next

\* Every reachable state is well typed, and no run outlives its sequence.
THEOREM TypeInvariant == Spec => []TypeOK
<1>1. QED
  BY InitTypeOK, NextTypeOK, PTL DEF Spec

-----------------------------------------------------------------------------
(* The tables: what each statement does to the runs.                       *)

\* Both UPDATEs that write 'completed' wrote an instant at which the view of
\* the request was over; when the view is not torn it was the table's.
LEMMA CompleteTable ==
  ASSUME TypeOK, TableInv, NEW p \in Places, ViewOK(req[p]),
         req[p].pc \in {"close", "pollClose"},
         Complete(req[p].run, req[p].at, req[p].torn), UNCHANGED <<now, sequences>>
  PROVE  TableInv'
<1> DEFINE q == req[p]
<1>1. q \in Request /\ HoldsView(q)
  BY DEF TypeOK, HoldsView
<1>2. q.at >= q.started /\ q.at >= q.started + RunLength(q.rule, q.cycle)
  BY <1>1, FinishedAfterStart DEF ViewOK, Request
<1> DEFINE Closed(x) == [runs[x] EXCEPT !.state = "completed", !.ended = q.at,
                                       !.tainted = runs[x].tainted \/ q.torn]
<1>3. DOMAIN runs' = DOMAIN runs
  BY DEF Complete
<1>4. ASSUME NEW x \in DOMAIN runs
      PROVE  /\ runs[x] \in RunRow
             /\ \/ runs'[x] = runs[x]
                \/ x = q.run /\ runs[x].state = "active" /\ runs'[x] = Closed(x)
  BY DEF Complete, TypeOK
<1>5. ASSUME NEW x \in DOMAIN runs, runs'[x] # runs[x]
      PROVE  /\ x = q.run /\ runs[x].state = "active"
             /\ runs'[x].seq = runs[x].seq /\ runs'[x].started = runs[x].started
             /\ runs'[x].basis = runs[x].basis /\ runs'[x].state = "completed"
             /\ runs'[x].ended = q.at
             /\ ~runs'[x].tainted => ~runs[x].tainted /\ ~q.torn
  BY <1>4, <1>5 DEF RunRow
<1>6. OneActiveRun' /\ RunInv' /\ EndedAfterStarted'
  <2>1. OneActiveRun'
    BY <1>3, <1>5 DEF TableInv, OneActiveRun
  <2>2. RunInv'
    BY <1>3, <1>5 DEF TableInv, RunInv
  <2>3. EndedAfterStarted'
    BY <1>1, <1>2, <1>3, <1>5 DEF TableInv, EndedAfterStarted, ViewOK
  <2>4. QED
    BY <2>1, <2>2, <2>3
<1>7. CompletedReachedEnd'
  <2>1. ASSUME q.run \in DOMAIN runs, runs[q.run].state = "active",
               ~runs[q.run].tainted, ~q.torn
        PROVE  runs[q.run].basis = RunLength(q.rule, q.cycle)
    BY <1>1, <2>1 DEF TableInv, RunInv, ViewOK, TypeOK
  <2>2. SUFFICES ASSUME NEW x \in DOMAIN runs,
                        runs'[x].state = "completed", ~runs'[x].tainted
                 PROVE  runs'[x].ended >= runs'[x].started + runs'[x].basis
    BY <1>3 DEF CompletedReachedEnd
  <2>3. CASE runs'[x] = runs[x]
    BY <2>2, <2>3 DEF TableInv, CompletedReachedEnd
  <2>4. CASE runs'[x] # runs[x]
    <3>3. runs'[x].ended = q.at /\ runs'[x].started = q.started
            /\ runs'[x].basis = RunLength(q.rule, q.cycle)
      BY <1>1, <1>5, <2>1, <2>2, <2>4 DEF ViewOK
    <3>4. QED
      BY <1>2, <3>3
  <2>5. QED
    BY <2>3, <2>4
<1>8. QED
  BY <1>6, <1>7 DEF TableInv

\* Creating a sequence touches no run, so the facts about the runs stand.
LEMMA CreateSequenceTable ==
  ASSUME TypeOK, TableInv, NEW p \in Places, CreateSequence(p)
  PROVE  TableInv'
<1>1. /\ UNCHANGED <<now, runs>>
      /\ \A s \in DOMAIN sequences : sequences'[s] = sequences[s]
  BY DEF CreateSequence, TypeOK
<1>2. OneActiveRun' /\ EndedAfterStarted' /\ CompletedReachedEnd'
  BY <1>1 DEF TableInv, OneActiveRun, EndedAfterStarted, CompletedReachedEnd
<1>3. RunInv'
  BY <1>1 DEF TableInv, RunInv, TypeOK
<1>4. QED
  BY <1>2, <1>3 DEF TableInv

\* An edit that lands under an active run taints it; what holds of the other runs stands.
LEMMA WriteSequenceTable ==
  ASSUME TypeOK, TableInv, NEW p \in Places, WriteSequence(p)
  PROVE  TableInv'
<1> DEFINE s == req[p].seq
<1>1. now' = now
  BY DEF WriteSequence
<1>2. CASE UNCHANGED <<sequences, runs>>
  BY <1>1, <1>2 DEF TableInv, OneActiveRun, EndedAfterStarted, CompletedReachedEnd, RunInv
<1>3. CASE ~UNCHANGED <<sequences, runs>>
  <2>1. PICK row \in SequenceRow :
          /\ sequences' = [sequences EXCEPT ![s] = row]
          /\ runs' = [r \in DOMAIN runs |->
                        IF r \in ActiveOf(s) THEN [runs[r] EXCEPT !.tainted = TRUE]
                                             ELSE runs[r]]
    BY <1>3 DEF WriteSequence
  <2>2. DOMAIN runs' = DOMAIN runs
    BY <2>1
  <2>3. ASSUME NEW r \in DOMAIN runs
        PROVE  /\ runs'[r].seq = runs[r].seq /\ runs'[r].started = runs[r].started
               /\ runs'[r].state = runs[r].state /\ runs'[r].ended = runs[r].ended
               /\ runs'[r].basis = runs[r].basis
               /\ ~runs'[r].tainted => r \notin ActiveOf(s) /\ ~runs[r].tainted
    BY <2>1 DEF TypeOK, RunRow
  <2>4. OneActiveRun' /\ EndedAfterStarted' /\ CompletedReachedEnd'
    BY <2>2, <2>3 DEF TableInv, OneActiveRun, EndedAfterStarted, CompletedReachedEnd
  <2>5. ASSUME NEW r \in DOMAIN runs, runs'[r].state = "active", ~runs'[r].tainted
        PROVE  sequences'[runs'[r].seq] = sequences[runs[r].seq]
    BY <2>1, <2>3, <2>5 DEF ActiveOf, TypeOK
  <2>6. RunInv'
    BY <1>1, <2>2, <2>3, <2>5 DEF TableInv, RunInv
  <2>7. QED
    BY <2>4, <2>6 DEF TableInv
<1>4. QED
  BY <1>2, <1>3

\* Deleting a sequence takes its runs along and leaves the others as they were.
LEMMA RemoveSequenceTable ==
  ASSUME TypeOK, TableInv, NEW p \in Places, RemoveSequence(p)
  PROVE  TableInv'
<1>1. /\ now' = now /\ DOMAIN runs' \subseteq DOMAIN runs
      /\ \A r \in DOMAIN runs' : runs'[r] = runs[r] /\ runs[r].seq # req[p].seq
  BY DEF RemoveSequence
<1>2. \A r \in DOMAIN runs' : sequences'[runs[r].seq] = sequences[runs[r].seq]
  BY <1>1 DEF RemoveSequence, TypeOK
<1>3. OneActiveRun' /\ EndedAfterStarted' /\ CompletedReachedEnd'
  BY <1>1 DEF TableInv, OneActiveRun, EndedAfterStarted, CompletedReachedEnd
<1>4. RunInv'
  BY <1>1, <1>2 DEF TableInv, RunInv
<1>5. QED
  BY <1>3, <1>4 DEF TableInv

\* A run starts only where none is active: the facts about the runs stand.
LEMMA InsertRunTable ==
  ASSUME TypeOK, TableInv, NEW p \in Places, ViewOK(req[p]), InsertRun(p)
  PROVE  TableInv'
<1> DEFINE q == req[p]
<1>1. UNCHANGED <<now, sequences>>
  BY DEF InsertRun
<1>2. CASE UNCHANGED runs
  BY <1>1, <1>2 DEF TableInv, OneActiveRun, EndedAfterStarted, CompletedReachedEnd, RunInv
<1>3. CASE ~UNCHANGED runs
  <2>1. ~RunRefused(q.seq)
    BY <1>3 DEF InsertRun
  <2>2. PICK r \in Runs \ issued :
          runs' = [x \in DOMAIN runs \cup {r} |->
                    IF x = r
                      THEN [seq |-> q.seq, started |-> q.at, state |-> "active",
                            ended |-> 0, tainted |-> FALSE,
                            basis |-> RunLength(sequences[q.seq].rule,
                                                sequences[q.seq].cycle)]
                      ELSE runs[x]]
    BY <2>1 DEF InsertRun
  <2>3. /\ r \notin DOMAIN runs /\ DOMAIN runs' = DOMAIN runs \cup {r}
        /\ \A x \in DOMAIN runs : runs'[x] = runs[x]
        /\ runs'[r].seq = q.seq /\ runs'[r].started = q.at /\ runs'[r].state = "active"
        /\ runs'[r].basis = RunLength(sequences[q.seq].rule, sequences[q.seq].cycle)
    BY <2>2 DEF TypeOK
  <2>4. \A x \in DOMAIN runs : runs[x].seq = q.seq => runs[x].state # "active"
    BY <2>1 DEF RunRefused, ActiveOf
  <2>5. OneActiveRun'
    BY <2>3, <2>4 DEF TableInv, OneActiveRun
  <2>6. EndedAfterStarted' /\ CompletedReachedEnd'
    BY <2>3 DEF TableInv, EndedAfterStarted, CompletedReachedEnd
  <2>7. RunInv'
    BY <1>1, <2>3 DEF TableInv, RunInv, ViewOK
  <2>8. QED
    BY <2>5, <2>6, <2>7 DEF TableInv
<1>4. QED
  BY <1>2, <1>3

\* Stopping a run ends it at the present time: the facts about the runs stand.
LEMMA StopRunTable ==
  ASSUME TypeOK, TableInv, NEW p \in Places, ViewOK(req[p]), StopRun(p)
  PROVE  TableInv'
<1> DEFINE q == req[p]
<1>1. UNCHANGED <<now, sequences>> /\ DOMAIN runs' = DOMAIN runs
  BY DEF StopRun
<1>2. ASSUME NEW r \in DOMAIN runs, runs'[r] # runs[r]
      PROVE  /\ runs'[r].seq = runs[r].seq /\ runs'[r].started = runs[r].started
             /\ runs'[r].state = "stopped" /\ runs'[r].ended = q.at
             /\ runs[r].started <= q.at
  <2>1. runs[r] \in RunRow /\ r = q.run
    BY <1>2 DEF StopRun, TypeOK
  <2>2. runs'[r] = [runs[r] EXCEPT !.state = "stopped", !.ended = q.at]
    BY <2>1 DEF StopRun
  <2>3. runs[r].started <= q.at
    BY <2>1 DEF ViewOK, StopRun
  <2>4. QED
    BY <2>1, <2>2, <2>3 DEF RunRow
<1>3. OneActiveRun'
  BY <1>1, <1>2 DEF TableInv, OneActiveRun
<1>4. CompletedReachedEnd'
  BY <1>1, <1>2 DEF TableInv, CompletedReachedEnd
<1>5. EndedAfterStarted'
  <2>1. q.at \in Nat
    BY DEF TypeOK, Request
  <2>2. ASSUME NEW r \in DOMAIN runs
        PROVE  runs[r].started \in Nat
    BY DEF TypeOK, RunRow
  <2>3. QED
    BY <1>1, <1>2, <2>1, <2>2 DEF TableInv, EndedAfterStarted
<1>6. RunInv'
  BY <1>1, <1>2 DEF TableInv, RunInv
<1>7. QED
  BY <1>3, <1>4, <1>5, <1>6 DEF TableInv

\* Time passing ends no run and moves no end before its start.
LEMMA TickTable ==
  ASSUME TypeOK, TableInv, Tick
  PROVE  TableInv'
<1>1. OneActiveRun' /\ EndedAfterStarted' /\ CompletedReachedEnd'
  BY DEF Tick, TableInv, OneActiveRun, EndedAfterStarted, CompletedReachedEnd
<1>2. \A r \in DOMAIN runs : runs[r].started \in Nat
  BY DEF TypeOK, RunRow
<1>3. RunInv'
  BY <1>2 DEF Tick, TableInv, RunInv, TypeOK
<1>4. QED
  BY <1>1, <1>3 DEF TableInv

\* Every other step leaves both tables and the clock as they are.
LEMMA QuietTable ==
  ASSUME TableInv, UNCHANGED <<now, sequences, runs>>
  PROVE  TableInv'
BY DEF TableInv, OneActiveRun, EndedAfterStarted, CompletedReachedEnd, RunInv

-----------------------------------------------------------------------------
(* The requests: what one holds stays good whatever the others commit.     *)

HoldsGood(q) == ViewOK(q) /\ StopOK(q)

\* No step gives a run back its life, changes whose it is or when it started,
\* reuses an id or turns back the clock.
OnlyForward ==
  /\ issued \subseteq issued' /\ now <= now'
  /\ \A r \in DOMAIN runs' \cap issued :
       /\ r \in DOMAIN runs
       /\ runs'[r].seq = runs[r].seq /\ runs'[r].started = runs[r].started
       /\ runs'[r].state = "active" => runs[r].state = "active"

\* A request that nobody has overtaken with an edit keeps what it holds.
LEMMA StillGood ==
  ASSUME TypeOK, TypeOK', NEW q \in Request, HoldsGood(q), OnlyForward,
         HoldsView(q) /\ ~q.torn /\ q.seq \in DOMAIN sequences'
           => q.seq \in DOMAIN sequences /\ sequences'[q.seq] = sequences[q.seq]
  PROVE  ViewOK(q)' /\ StopOK(q)'
<1>1. now \in Nat /\ now' \in Nat /\ q.at \in Nat /\ q.began \subseteq Runs
  BY DEF TypeOK, Request
<1>2. (q.at <= now)'
  BY <1>1 DEF HoldsGood, ViewOK, OnlyForward
<1>3. q.run \in DOMAIN runs' => /\ q.run \in DOMAIN runs
                               /\ runs'[q.run].seq = runs[q.run].seq
                               /\ runs'[q.run].started = runs[q.run].started
  <2>1. q.run \in DOMAIN runs' => q.run # None
    BY SequenceRunsAssumption DEF TypeOK
  <2>2. QED
    BY <2>1 DEF HoldsGood, ViewOK, OnlyForward
<1>4. ViewOK(q)'
  BY <1>2, <1>3 DEF HoldsGood, ViewOK, OnlyForward, HoldsView
<1>5. StopOK(q)'
  BY DEF HoldsGood, StopOK, OnlyForward
<1>6. QED
  BY <1>4, <1>5

\* So a step of one request need only account for that request.
LEMMA OneRequest ==
  ASSUME TypeOK, TypeOK', ViewInv, StopInv, NEW p \in Places, NEW q, Become(p, q),
         OnlyForward,
         \A s \in DOMAIN sequences' \cap issued :
           s \in DOMAIN sequences /\ sequences'[s] = sequences[s],
         ViewOK(q)', StopOK(q)'
  PROVE  ViewInv' /\ StopInv'
<1>1. ASSUME NEW x \in Places, NEW h, h = req'[x]
      PROVE  ViewOK(h)' /\ StopOK(h)'
  <2>1. CASE x = p
    BY <1>1, <2>1 DEF Become, TypeOK
  <2>2. CASE x # p
    <3>1. h = req[x] /\ h \in Request
      BY <1>1, <2>2 DEF Become, TypeOK
    <3>2. HoldsGood(h)
      BY <3>1 DEF ViewInv, StopInv, HoldsGood
    <3>3. HoldsView(h) => h.seq \in issued
      BY <3>2 DEF HoldsGood, ViewOK, HoldsView
    <3>4. QED
      BY <3>1, <3>2, <3>3, StillGood
  <2>3. QED
    BY <2>1, <2>2
<1>2. ASSUME NEW x \in Places
      PROVE  ViewOK(req[x])' /\ StopOK(req[x])'
  BY <1>1 DEF ViewOK, StopOK, HoldsView
<1>3. QED
  BY <1>2 DEF ViewInv, StopInv

\* A step of one request that leaves the tables alone only has to leave itself good.
LEMMA QuietRequest ==
  ASSUME TypeOK, TypeOK', ViewInv, StopInv, NEW p \in Places, NEW q, Become(p, q),
         UNCHANGED <<now, sequences, runs, issued>>, HoldsGood(q)
  PROVE  ViewInv' /\ StopInv'
<1>1. OnlyForward
  BY DEF OnlyForward, TypeOK
<1>2. ViewOK(q)' /\ StopOK(q)'
  BY DEF HoldsGood, ViewOK, StopOK, HoldsView
<1>3. QED
  BY <1>1, <1>2, OneRequest

\* An empty place holds nothing.
LEMMA BlankGood == TypeOK => HoldsGood(Blank)
BY SequenceRunsAssumption DEF TypeOK, HoldsGood, ViewOK, StopOK, HoldsView, Blank

\* A request about to load again knows only its sequence.
LEMMA ReloadingGood ==
  ASSUME TypeOK, NEW p \in Places, NEW s \in issued \cap Sequences,
         req[p].op \in {"deactivate", "put"} =>
           /\ req[p].began \subseteq issued
           /\ \A r \in req[p].began \cap DOMAIN runs :
                runs[r].seq = s /\ runs[r].state # "active"
  PROVE  HoldsGood(Reloading(p, s))
<1>1. /\ Reloading(p, s).pc = "row" /\ Reloading(p, s).seq = s
      /\ Reloading(p, s).at = 0 /\ Reloading(p, s).run = None
      /\ Reloading(p, s).op = req[p].op /\ Reloading(p, s).began = req[p].began
  BY DEF Reloading, Blank
<1>2. None \notin DOMAIN runs
  BY SequenceRunsAssumption DEF TypeOK
<1>3. ViewOK(Reloading(p, s))
  BY <1>1, <1>2 DEF ViewOK, HoldsView, TypeOK
<1>4. StopOK(Reloading(p, s))
  BY <1>1 DEF StopOK
<1>5. QED
  BY <1>3, <1>4 DEF HoldsGood

\* What loadOne hands back, when it keeps the run it read or drops one that
\* is not active any more.
LEMMA LoadedGood ==
  ASSUME TypeOK, NEW q \in Request, HoldsGood(q), q.pc \in {"settle", "close"},
         NEW run, run \in {q.run, None},
         run = None => \A r \in q.began \cap DOMAIN runs : r = q.run => runs[r].state # "active"
  PROVE  HoldsGood(Loaded(q, run))
<1> DEFINE h == Loaded(q, run)
<1>1. /\ h.pc = "decide" /\ h.seq = q.seq /\ h.at = 0 /\ h.run = run
      /\ h.op = q.op /\ h.began = q.began /\ h.acted = q.acted
  BY DEF Loaded, Blank
<1> HIDE DEF h
<1>2. None \notin DOMAIN runs
  BY SequenceRunsAssumption DEF TypeOK
<1>3. ViewOK(h)
  BY <1>1, <1>2 DEF HoldsGood, ViewOK, HoldsView, TypeOK
<1>4. StopOK(h)
  BY <1>1 DEF HoldsGood, StopOK
<1>5. QED
  BY <1>3, <1>4 DEF HoldsGood, h

\* Reading the row of a sequence leaves every request with a true view.
LEMMA ReadRowGood ==
  ASSUME TypeOK, TypeOK', ViewInv, StopInv, NEW p \in Places, ReadRow(p)
  PROVE  ViewInv' /\ StopInv'
<1> DEFINE q == req[p]
           h == [q EXCEPT !.pc = "steps", !.rule = sequences[q.seq].rule]
<1>1. q \in Request /\ HoldsGood(q)
  BY DEF TypeOK, ViewInv, StopInv, HoldsGood
<1>2. /\ h.pc = "steps" /\ h.rule = sequences[q.seq].rule /\ h.seq = q.seq
      /\ h.at = q.at /\ h.run = q.run /\ h.op = q.op /\ h.began = q.began
      /\ h.acted = q.acted /\ h.torn = q.torn /\ h.started = q.started
  BY <1>1 DEF Request
<1>3. CASE q.seq \in DOMAIN sequences
  <2>1. Become(p, h) /\ UNCHANGED <<now, sequences, runs, issued>>
    BY <1>3 DEF ReadRow
  <2>2. HoldsGood(h)
    <3> HIDE DEF h
    <3>1. StopOK(h)
      BY <1>1, <1>2 DEF HoldsGood, StopOK
    <3>2. ViewOK(h)
      BY <1>1, <1>2, SequenceRunsAssumption DEF HoldsGood, ViewOK, HoldsView, ReadRow, TypeOK
    <3>3. QED
      BY <3>1, <3>2 DEF HoldsGood
  <2>3. QED
    BY <2>1, <2>2, QuietRequest
<1>4. CASE q.seq \notin DOMAIN sequences
  BY <1>4, BlankGood, QuietRequest DEF ReadRow, Finish
<1>5. QED
  BY <1>3, <1>4

\* Reading the steps of a sequence leaves every request with a true view.
LEMMA ReadStepsGood ==
  ASSUME TypeOK, TypeOK', ViewInv, StopInv, NEW p \in Places, ReadSteps(p)
  PROVE  ViewInv' /\ StopInv'
<1> DEFINE q == req[p]
           h == [q EXCEPT !.pc = "run", !.cycle = CycleNow(q.seq)]
<1>1. q \in Request /\ HoldsGood(q) /\ q.pc = "steps"
  BY DEF TypeOK, ViewInv, StopInv, HoldsGood, ReadSteps
<1>2. /\ h.pc = "run" /\ h.cycle = CycleNow(q.seq) /\ h.seq = q.seq /\ h.rule = q.rule
      /\ h.at = q.at /\ h.run = q.run /\ h.op = q.op /\ h.began = q.began
      /\ h.acted = q.acted /\ h.torn = q.torn /\ h.started = q.started
  BY <1>1 DEF Request
<1>3. Become(p, h) /\ UNCHANGED <<now, sequences, runs, issued>>
  BY DEF ReadSteps
<1> HIDE DEF h
<1>4. StopOK(h)
  BY <1>1, <1>2 DEF HoldsGood, StopOK
<1>5. ViewOK(h)
  BY <1>1, <1>2 DEF HoldsGood, ViewOK, HoldsView, CycleNow
<1>6. QED
  BY <1>3, <1>4, <1>5, QuietRequest DEF HoldsGood

\* Reading the active run of a sequence leaves every request with a true view.
LEMMA ReadRunGood ==
  ASSUME TypeOK, TypeOK', OneActiveRun, ViewInv, StopInv, NEW p \in Places, ReadRun(p)
  PROVE  ViewInv' /\ StopInv'
<1> DEFINE q == req[p]
<1>1. q \in Request /\ HoldsGood(q) /\ q.pc = "run"
  BY DEF TypeOK, ViewInv, StopInv, HoldsGood, ReadRun
<1>2. UNCHANGED <<now, sequences, runs, issued>>
  BY DEF ReadRun
<1>3. CASE ActiveOf(q.seq) = {} /\ Become(p, [q EXCEPT !.pc = "settle", !.run = None])
  <2> DEFINE h == [q EXCEPT !.pc = "settle", !.run = None]
  <2>1. /\ h.pc = "settle" /\ h.cycle = q.cycle /\ h.seq = q.seq /\ h.rule = q.rule
        /\ h.at = q.at /\ h.run = None /\ h.op = q.op /\ h.began = q.began
        /\ h.acted = q.acted /\ h.torn = q.torn /\ h.started = q.started
    BY <1>1 DEF Request
  <2> HIDE DEF h
  <2>2. StopOK(h)
    BY <1>1, <1>3, <2>1 DEF HoldsGood, StopOK, ActiveOf
  <2>3. ViewOK(h)
    BY <1>1, <2>1, SequenceRunsAssumption DEF HoldsGood, ViewOK, HoldsView, TypeOK
  <2>4. QED
    BY <1>2, <1>3, <2>2, <2>3, QuietRequest DEF HoldsGood, h
<1>4. ASSUME NEW r \in ActiveOf(q.seq),
             Become(p, [q EXCEPT !.pc = "settle", !.run = r, !.started = runs[r].started])
      PROVE  ViewInv' /\ StopInv'
  <2> DEFINE h == [q EXCEPT !.pc = "settle", !.run = r, !.started = runs[r].started]
  <2>1. /\ h.pc = "settle" /\ h.cycle = q.cycle /\ h.seq = q.seq /\ h.rule = q.rule
        /\ h.at = q.at /\ h.run = r /\ h.op = q.op /\ h.began = q.began
        /\ h.acted = q.acted /\ h.torn = q.torn /\ h.started = runs[r].started
    BY <1>1 DEF Request
  <2> HIDE DEF h
  <2>2. r \in DOMAIN runs /\ r \in issued /\ runs[r].seq = q.seq /\ runs[r].state = "active"
    BY DEF ActiveOf, TypeOK
  <2>3. StopOK(h)
    BY <1>1, <2>1, <2>2 DEF HoldsGood, StopOK, OneActiveRun
  <2>4. ViewOK(h)
    BY <1>1, <2>1, <2>2 DEF HoldsGood, ViewOK, HoldsView
  <2>5. QED
    BY <1>2, <1>4, <2>3, <2>4, QuietRequest DEF HoldsGood, h
<1>5. QED
  BY <1>3, <1>4 DEF ReadRun

\* Judging at the clock whether the run has finished leaves every request with a true view.
LEMMA SettleGood ==
  ASSUME TypeOK, TypeOK', ViewInv, StopInv, NEW p \in Places, Settle(p)
  PROVE  ViewInv' /\ StopInv'
<1> DEFINE q == req[p]
<1>1. q \in Request /\ HoldsGood(q) /\ q.pc = "settle"
  BY DEF TypeOK, ViewInv, StopInv, HoldsGood, Settle
<1>2. UNCHANGED <<now, sequences, runs, issued>>
  BY DEF Settle
<1>3. CASE q.run # None /\ HasFinished(q.rule, q.cycle, q.started, now)
  <2> DEFINE h == [q EXCEPT !.pc = "close", !.at = now]
  <2>1. /\ h.pc = "close" /\ h.cycle = q.cycle /\ h.seq = q.seq /\ h.rule = q.rule
        /\ h.at = now /\ h.run = q.run /\ h.op = q.op /\ h.began = q.began
        /\ h.acted = q.acted /\ h.torn = q.torn /\ h.started = q.started
    BY <1>1 DEF Request
  <2>2. Become(p, h)
    BY <1>3 DEF Settle
  <2> HIDE DEF h
  <2>3. StopOK(h)
    BY <1>1, <2>1 DEF HoldsGood, StopOK
  <2>4. ViewOK(h)
    BY <1>1, <1>3, <2>1 DEF HoldsGood, ViewOK, HoldsView, TypeOK
  <2>5. QED
    BY <1>2, <2>2, <2>3, <2>4, QuietRequest DEF HoldsGood
<1>4. CASE ~(q.run # None /\ HasFinished(q.rule, q.cycle, q.started, now))
  <2>1. Become(p, Loaded(q, q.run))
    BY <1>4 DEF Settle
  <2>2. HoldsGood(Loaded(q, q.run))
    <3>1. q.run = None => \A r \in q.began \cap DOMAIN runs : r # q.run
      BY SequenceRunsAssumption DEF TypeOK
    <3>2. QED
      BY <1>1, <3>1, LoadedGood
  <2>3. QED
    BY <1>2, <2>1, <2>2, QuietRequest
<1>5. QED
  BY <1>3, <1>4

\* A request that ends leaves the other requests good.
LEMMA FinishGood ==
  ASSUME TypeOK, TypeOK', ViewInv, StopInv, NEW p \in Places, Finish(p),
         UNCHANGED <<now, sequences, runs, issued>>
  PROVE  ViewInv' /\ StopInv'
BY BlankGood, QuietRequest DEF Finish

\* What PUT, DELETE, activate and deactivate decide rests on a true view.
LEMMA DecidesGood ==
  ASSUME TypeOK, TypeOK', RunInv, ViewInv, StopInv, NEW p \in Places,
         \/ DecidePut(p) \/ DecideDelete(p) \/ DecideActivate(p) \/ DecideDeactivate(p)
  PROVE  ViewInv' /\ StopInv'
<1> DEFINE q == req[p]
<1>1. q \in Request /\ HoldsGood(q) /\ q.pc = "decide"
  BY DEF TypeOK, ViewInv, StopInv, HoldsGood,
         DecidePut, DecideDelete, DecideActivate, DecideDeactivate
<1>2. UNCHANGED <<now, sequences, runs, issued>>
  BY DEF DecidePut, DecideDelete, DecideActivate, DecideDeactivate
<1>3. None \notin DOMAIN runs
  BY SequenceRunsAssumption DEF TypeOK
<1>4. CASE Finish(p)
  BY <1>2, <1>4, FinishGood
<1>5. CASE DecidePut(p) /\ ~Finish(p)
  <2> DEFINE h == [q EXCEPT !.pc = "write", !.cycle = 0]
  <2>1. /\ h.pc = "write" /\ h.op = "put" /\ h.run = q.run /\ h.seq = q.seq /\ h.at = q.at
        /\ h.began = q.began /\ q.op = "put" /\ q.run = None /\ h.acted = q.acted
    BY <1>1, <1>5 DEF Request, DecidePut
  <2>2. Become(p, h)
    BY <1>5 DEF DecidePut
  <2> HIDE DEF h
  <2>3. StopOK(h)
    BY <1>1, <1>3, <2>1 DEF HoldsGood, StopOK
  <2>4. ViewOK(h)
    BY <1>1, <2>1 DEF HoldsGood, ViewOK, HoldsView
  <2>5. QED
    BY <1>2, <2>2, <2>3, <2>4, QuietRequest DEF HoldsGood
<1>6. CASE DecideDelete(p)
  <2> DEFINE h == [q EXCEPT !.pc = "remove", !.cycle = 0, !.run = None]
  <2>1. /\ h.pc = "remove" /\ h.op = "delete" /\ h.run = None /\ h.seq = q.seq /\ h.at = q.at
    BY <1>1, <1>6 DEF Request, DecideDelete
  <2>2. Become(p, h)
    BY <1>6 DEF DecideDelete
  <2> HIDE DEF h
  <2>3. StopOK(h)
    BY <2>1 DEF StopOK
  <2>4. ViewOK(h)
    BY <1>1, <1>3, <2>1 DEF HoldsGood, ViewOK, HoldsView
  <2>5. QED
    BY <1>2, <2>2, <2>3, <2>4, QuietRequest DEF HoldsGood
<1>7. CASE DecideActivate(p) /\ ~Finish(p)
  <2> DEFINE h == [q EXCEPT !.pc = "insert", !.cycle = 0, !.at = now]
  <2>1. /\ h.pc = "insert" /\ h.op = "activate" /\ h.run = q.run /\ h.seq = q.seq /\ h.at = now
    BY <1>1, <1>7 DEF Request, DecideActivate
  <2>2. Become(p, h)
    BY <1>7 DEF DecideActivate
  <2> HIDE DEF h
  <2>3. StopOK(h)
    BY <2>1 DEF StopOK
  <2>4. ViewOK(h)
    BY <1>1, <2>1 DEF HoldsGood, ViewOK, HoldsView, TypeOK
  <2>5. QED
    BY <1>2, <2>2, <2>3, <2>4, QuietRequest DEF HoldsGood
<1>8. CASE DecideDeactivate(p) /\ q.run # None
  <2> DEFINE h == [q EXCEPT !.pc = "stop", !.cycle = 0, !.at = now]
  <2>1. /\ h.pc = "stop" /\ h.op = q.op /\ h.run = q.run /\ h.seq = q.seq /\ h.at = now
        /\ h.began = q.began /\ h.acted = q.acted
    BY <1>1 DEF Request
  <2>2. Become(p, h)
    BY <1>8 DEF DecideDeactivate
  <2> HIDE DEF h
  <2>3. StopOK(h)
    BY <1>1, <2>1 DEF HoldsGood, StopOK
  <2>4. ViewOK(h)
    BY <1>1, <2>1 DEF HoldsGood, ViewOK, HoldsView, RunInv, TypeOK
  <2>5. QED
    BY <1>2, <2>2, <2>3, <2>4, QuietRequest DEF HoldsGood
<1>9. CASE DecideDeactivate(p) /\ q.run = None
  <2>1. Become(p, Reloading(p, q.seq))
    BY <1>9 DEF DecideDeactivate, Reload
  <2>2. HoldsGood(Reloading(p, q.seq))
    <3>1. q.seq \in issued \cap Sequences
      BY <1>1 DEF HoldsGood, ViewOK
    <3>2. q.op \in {"deactivate", "put"} =>
            /\ q.began \subseteq issued
            /\ \A r \in q.began \cap DOMAIN runs :
                 runs[r].seq = q.seq /\ runs[r].state # "active"
      BY <1>1, <1>3, <1>9 DEF HoldsGood, StopOK, DecideDeactivate
    <3>3. QED
      BY <3>1, <3>2, ReloadingGood
  <2>3. QED
    BY <1>2, <2>1, <2>2, QuietRequest
<1>10. QED
  BY <1>4, <1>5, <1>6, <1>7, <1>8, <1>9

\* The two reads of the poll leave every request with a true view.
LEMMA PollsGood ==
  ASSUME TypeOK, TypeOK', ViewInv, StopInv, NEW p \in Places, PollRuns(p) \/ PollSteps(p)
  PROVE  ViewInv' /\ StopInv'
<1> DEFINE q == req[p]
<1>1. q \in Request /\ HoldsGood(q) /\ q.pc \in {"pollRuns", "pollSteps"}
  BY DEF TypeOK, ViewInv, StopInv, HoldsGood, PollRuns, PollSteps
<1>2. UNCHANGED <<now, sequences, runs, issued>>
  BY DEF PollRuns, PollSteps
<1>3. CASE Finish(p)
  BY <1>2, <1>3, FinishGood
<1>4. ASSUME PollRuns(p), NEW r \in ActiveOf(q.seq),
             Become(p, [q EXCEPT !.pc = "pollSteps", !.run = r, !.started = runs[r].started,
                                 !.rule = sequences[q.seq].rule])
      PROVE  ViewInv' /\ StopInv'
  <2> DEFINE h == [q EXCEPT !.pc = "pollSteps", !.run = r, !.started = runs[r].started,
                            !.rule = sequences[q.seq].rule]
  <2>1. /\ h.pc = "pollSteps" /\ h.rule = sequences[q.seq].rule /\ h.seq = q.seq
        /\ h.at = q.at /\ h.run = r /\ h.op = q.op /\ h.began = q.began
        /\ h.acted = q.acted /\ h.torn = q.torn /\ h.started = runs[r].started
    BY <1>1 DEF Request
  <2> HIDE DEF h
  <2>2. r \in DOMAIN runs /\ r \in issued /\ runs[r].seq = q.seq
    BY DEF ActiveOf, TypeOK
  <2>3. StopOK(h)
    BY <1>1, <2>1 DEF HoldsGood, StopOK
  <2>4. ViewOK(h)
    BY <1>1, <2>1, <2>2 DEF HoldsGood, ViewOK, HoldsView
  <2>5. QED
    BY <1>2, <1>4, <2>3, <2>4, QuietRequest DEF HoldsGood, h
<1>5. CASE PollSteps(p) /\ HasFinished(q.rule, CycleNow(q.seq), q.started, q.at)
  <2> DEFINE h == [q EXCEPT !.pc = "pollClose", !.cycle = CycleNow(q.seq)]
  <2>1. /\ h.pc = "pollClose" /\ h.cycle = CycleNow(q.seq) /\ h.seq = q.seq
        /\ h.rule = q.rule /\ h.at = q.at /\ h.run = q.run /\ h.op = q.op
        /\ h.began = q.began /\ h.acted = q.acted /\ h.torn = q.torn
        /\ h.started = q.started
    BY <1>1 DEF Request
  <2>2. Become(p, h) /\ q.pc = "pollSteps"
    BY <1>5 DEF PollSteps
  <2> HIDE DEF h
  <2>3. StopOK(h)
    BY <1>1, <2>1 DEF HoldsGood, StopOK
  <2>4. ViewOK(h)
    BY <1>1, <1>5, <2>1, <2>2 DEF HoldsGood, ViewOK, HoldsView, CycleNow
  <2>5. QED
    BY <1>2, <2>2, <2>3, <2>4, QuietRequest DEF HoldsGood
<1>6. CASE PollSteps(p) /\ ~Finish(p)
  <2>1. HasFinished(q.rule, CycleNow(q.seq), q.started, q.at)
    BY <1>6 DEF PollSteps
  <2>2. QED
    BY <1>5, <1>6, <2>1
<1>7. QED
  BY <1>3, <1>4, <1>6 DEF PollRuns

\* A request that arrives holds no view yet.
LEMMA ArriveGood ==
  ASSUME TypeOK, TypeOK', ViewInv, StopInv, NEW p \in Places, NEW s \in Sequences,
         NEW op \in Ops, Arrive(p, op, s)
  PROVE  ViewInv' /\ StopInv'
<1> DEFINE h == [Blank EXCEPT !.pc = "row", !.op = op, !.seq = s,
                              !.began = IF op \in {"deactivate", "put"} THEN ActiveOf(s) ELSE {}]
<1>1. /\ h.pc = "row" /\ h.seq = s /\ h.at = 0 /\ h.run = None /\ ~h.acted
      /\ h.began \subseteq ActiveOf(s)
  BY DEF Blank
<1>2. Become(p, h) /\ s \in issued /\ UNCHANGED <<now, sequences, runs, issued>>
  BY DEF Arrive
<1> HIDE DEF h
<1>3. \A r \in ActiveOf(s) : r \in issued /\ runs[r].seq = s
  BY DEF ActiveOf, TypeOK
<1>4. ViewOK(h) /\ StopOK(h)
  BY <1>1, <1>2, <1>3, SequenceRunsAssumption DEF ViewOK, StopOK, HoldsView, TypeOK
<1>5. QED
  BY <1>2, <1>4, QuietRequest DEF HoldsGood

-----------------------------------------------------------------------------
(* The statements that change the tables, as the requests see them.        *)

\* Time passing makes no view false: what had finished is still finished.
LEMMA TickGood ==
  ASSUME TypeOK, TypeOK', ViewInv, StopInv, Tick
  PROVE  ViewInv' /\ StopInv'
<1>1. OnlyForward
  BY DEF OnlyForward, Tick, TypeOK
<1>2. ASSUME NEW x \in Places
      PROVE  ViewOK(req[x])' /\ StopOK(req[x])'
  <2>1. req[x] \in Request /\ HoldsGood(req[x])
    BY DEF TypeOK, ViewInv, StopInv, HoldsGood
  <2>2. ASSUME NEW h, h = req[x]
        PROVE  ViewOK(h)' /\ StopOK(h)'
    BY <1>1, <2>1, <2>2, StillGood DEF Tick
  <2>3. QED
    BY <2>2 DEF Tick, ViewOK, StopOK, HoldsView
<1>3. QED
  BY <1>2 DEF ViewInv, StopInv

\* A run ends, by whichever of the three UPDATEs.
LEMMA EndsForward ==
  ASSUME TypeOK, UNCHANGED <<now, issued>>, DOMAIN runs' = DOMAIN runs, NEW e,
         \A r \in DOMAIN runs : runs'[r] # runs[r] =>
           /\ runs'[r].seq = runs[r].seq /\ runs'[r].started = runs[r].started
           /\ runs'[r].state = e,
         e # "active"
  PROVE  OnlyForward
BY DEF OnlyForward, TypeOK

\* Completing a run changes that run only, and leaves it not active.
LEMMA CompleteRow ==
  ASSUME TypeOK, NEW r, NEW at, NEW torn, Complete(r, at, torn)
  PROVE  /\ DOMAIN runs' = DOMAIN runs
         /\ \A x \in DOMAIN runs : runs'[x] # runs[x] =>
              /\ runs'[x].seq = runs[x].seq /\ runs'[x].started = runs[x].started
              /\ runs'[x].state = "completed"
         /\ r \in DOMAIN runs => runs'[r].state # "active"
<1>1. \A x \in DOMAIN runs : runs[x] \in RunRow
  BY DEF TypeOK
<1>2. DOMAIN runs' = DOMAIN runs
  BY DEF Complete
<1>3. ASSUME NEW x \in DOMAIN runs, runs'[x] # runs[x]
      PROVE  /\ runs'[x].seq = runs[x].seq /\ runs'[x].started = runs[x].started
             /\ runs'[x].state = "completed"
  BY <1>1, <1>3 DEF Complete, RunRow
<1>4. r \in DOMAIN runs => runs'[r].state # "active"
  <2>1. CASE r \in DOMAIN runs /\ runs[r].state = "active"
    <3>1. runs'[r] = [runs[r] EXCEPT !.state = "completed", !.ended = at,
                                     !.tainted = runs[r].tainted \/ torn]
      BY <2>1 DEF Complete
    <3>2. QED
      BY <1>1, <2>1, <3>1 DEF RunRow
  <2>2. CASE r \in DOMAIN runs /\ runs[r].state # "active"
    BY <2>2 DEF Complete
  <2>3. QED
    BY <2>1, <2>2
<1>5. QED
  BY <1>2, <1>3, <1>4

\* Closing a finished run leaves every request good.
LEMMA ClosesGood ==
  ASSUME TypeOK, TypeOK', ViewInv, StopInv, NEW p \in Places,
         CloseIfFinished(p) \/ PollClose(p)
  PROVE  ViewInv' /\ StopInv'
<1> DEFINE q == req[p]
<1>1. q \in Request /\ HoldsGood(q)
  BY DEF TypeOK, ViewInv, StopInv, HoldsGood
<1>2. Complete(q.run, q.at, q.torn) /\ UNCHANGED <<now, sequences, issued>>
  BY DEF CloseIfFinished, PollClose
<1>3. /\ DOMAIN runs' = DOMAIN runs
      /\ \A x \in DOMAIN runs : runs'[x] # runs[x] =>
           /\ runs'[x].seq = runs[x].seq /\ runs'[x].started = runs[x].started
           /\ runs'[x].state = "completed"
      /\ q.run \in DOMAIN runs => runs'[q.run].state # "active"
  BY <1>2, CompleteRow
<1>4. OnlyForward
  BY <1>2, <1>3, EndsForward
<1>5. CASE PollClose(p)
  <2>1. ViewOK(Blank)' /\ StopOK(Blank)'
    BY SequenceRunsAssumption DEF TypeOK, ViewOK, StopOK, HoldsView, Blank
  <2>2. QED
    BY <1>2, <1>4, <1>5, <2>1, OneRequest DEF PollClose, Finish, TypeOK
<1>6. CASE CloseIfFinished(p)
  <2>1. PICK h : h = Loaded(q, None)
    OBVIOUS
  <2>2. /\ h.pc = "decide" /\ h.seq = q.seq /\ h.at = 0 /\ h.run = None
        /\ h.op = q.op /\ h.began = q.began /\ h.acted = q.acted
    BY <2>1 DEF Loaded, Blank
  <2>3. q.pc = "close" /\ Become(p, h)
    BY <1>6, <2>1 DEF CloseIfFinished
  <2>4. ViewOK(h)'
    BY <1>1, <1>2, <2>2, <2>3, SequenceRunsAssumption
    DEF HoldsGood, ViewOK, HoldsView, TypeOK
  <2>5. StopOK(h)'
    BY <1>1, <1>2, <1>3, <2>2, <2>3 DEF HoldsGood, StopOK
  <2>6. QED
    BY <1>2, <1>4, <2>3, <2>4, <2>5, OneRequest DEF TypeOK
<1>7. QED
  BY <1>5, <1>6

\* Stopping a run leaves every request good, and the run stopped.
LEMMA StopRunGood ==
  ASSUME TypeOK, TypeOK', ViewInv, StopInv, NEW p \in Places, StopRun(p)
  PROVE  ViewInv' /\ StopInv'
<1> DEFINE q == req[p]
<1>1. q \in Request /\ HoldsGood(q) /\ q.pc = "stop"
  BY DEF TypeOK, ViewInv, StopInv, HoldsGood, StopRun
<1>2. /\ UNCHANGED <<now, sequences, issued>> /\ DOMAIN runs' = DOMAIN runs
      /\ Become(p, Reloading(p, q.seq))
  BY DEF StopRun, Reload
<1>3. ASSUME NEW r \in DOMAIN runs
      PROVE  /\ runs'[r] # runs[r] => /\ runs'[r].seq = runs[r].seq
                                     /\ runs'[r].started = runs[r].started
                                     /\ runs'[r].state = "stopped"
             /\ r = q.run => runs'[r].state = "stopped"
             /\ r # q.run => runs'[r] = runs[r]
  <2>1. runs[r] \in RunRow
    BY DEF TypeOK
  <2>2. r = q.run => runs'[r] = [runs[r] EXCEPT !.state = "stopped", !.ended = q.at]
    BY DEF StopRun
  <2>3. r # q.run => runs'[r] = runs[r]
    BY DEF StopRun
  <2>4. QED
    BY <2>1, <2>2, <2>3 DEF RunRow
<1>4. OnlyForward
  BY <1>2, <1>3, EndsForward
<1>5. PICK h : h = Reloading(p, q.seq)
  OBVIOUS
<1>6. /\ h.pc = "row" /\ h.seq = q.seq /\ h.at = 0 /\ h.run = None
      /\ h.op = q.op /\ h.began = q.began /\ h.acted
  BY <1>5 DEF Reloading, Blank
<1>7. ViewOK(h)'
  BY <1>1, <1>2, <1>6, SequenceRunsAssumption DEF HoldsGood, ViewOK, HoldsView, TypeOK
<1>8. StopOK(h)'
  BY <1>1, <1>2, <1>3, <1>6 DEF HoldsGood, StopOK
<1>9. QED
  BY <1>2, <1>4, <1>5, <1>7, <1>8, OneRequest DEF TypeOK

\* A new sequence is one that no request in progress knows.
LEMMA CreateSequenceGood ==
  ASSUME TypeOK, TypeOK', ViewInv, StopInv, NEW p \in Places, CreateSequence(p)
  PROVE  ViewInv' /\ StopInv'
<1>1. UNCHANGED <<now, runs>> /\ req[p].op \notin {"deactivate", "put"}
  BY DEF CreateSequence, StopInv, StopOK
<1>2. CASE Finish(p) /\ UNCHANGED <<sequences, issued>>
  BY <1>1, <1>2, FinishGood
<1>3. CASE ~(Finish(p) /\ UNCHANGED <<sequences, issued>>)
  <2>1. PICK s \in Sequences \ issued, row \in SequenceRow :
          /\ sequences' = [x \in DOMAIN sequences \cup {s} |->
                             IF x = s THEN row ELSE sequences[x]]
          /\ issued' = issued \cup {s}
          /\ Become(p, Reloading(p, s))
    BY <1>3 DEF CreateSequence, Reload
  <2>2. OnlyForward
    BY <1>1, <2>1 DEF OnlyForward, TypeOK
  <2>3. PICK h : h = Reloading(p, s)
    OBVIOUS
  <2>4. h.pc = "row" /\ h.seq = s /\ h.at = 0 /\ h.run = None /\ h.op = req[p].op
    BY <2>3 DEF Reloading, Blank
  <2>5. ViewOK(h)' /\ StopOK(h)'
    BY <1>1, <2>1, <2>4, SequenceRunsAssumption DEF ViewOK, StopOK, HoldsView, TypeOK
  <2>6. QED
    BY <2>1, <2>2, <2>3, <2>5, OneRequest
<1>4. QED
  BY <1>2, <1>3

\* A deleted sequence leaves the views of the other sequences as they were.
LEMMA RemoveSequenceGood ==
  ASSUME TypeOK, TypeOK', ViewInv, StopInv, NEW p \in Places, RemoveSequence(p)
  PROVE  ViewInv' /\ StopInv'
<1>1. OnlyForward
  BY DEF OnlyForward, RemoveSequence, TypeOK
<1>2. \A s \in DOMAIN sequences' \cap issued :
        s \in DOMAIN sequences /\ sequences'[s] = sequences[s]
  BY DEF RemoveSequence
<1>3. ViewOK(Blank)' /\ StopOK(Blank)'
  BY SequenceRunsAssumption DEF TypeOK, ViewOK, StopOK, HoldsView, Blank
<1>4. QED
  BY <1>1, <1>2, <1>3, OneRequest DEF RemoveSequence, Finish

\* A run that starts is one no request in progress could have seen.
LEMMA InsertRunGood ==
  ASSUME TypeOK, TypeOK', ViewInv, StopInv, NEW p \in Places, InsertRun(p)
  PROVE  ViewInv' /\ StopInv'
<1> DEFINE q == req[p]
<1>1. /\ UNCHANGED <<now, sequences>> /\ q.op \notin {"deactivate", "put"}
      /\ q.seq \in issued \cap Sequences
  BY DEF InsertRun, StopInv, StopOK, ViewInv, ViewOK
<1>2. CASE Finish(p) /\ UNCHANGED <<runs, issued>>
  BY <1>1, <1>2, FinishGood
<1>3. CASE ~(Finish(p) /\ UNCHANGED <<runs, issued>>)
  <2>1. PICK r \in Runs \ issued :
          /\ DOMAIN runs' = DOMAIN runs \cup {r}
          /\ \A x \in DOMAIN runs : x # r => runs'[x] = runs[x]
          /\ issued' = issued \cup {r}
          /\ Become(p, Reloading(p, q.seq))
    BY <1>3 DEF InsertRun, Reload
  <2>2. OnlyForward
    BY <1>1, <2>1 DEF OnlyForward, TypeOK
  <2>3. PICK h : h = Reloading(p, q.seq)
    OBVIOUS
  <2>4. h.pc = "row" /\ h.seq = q.seq /\ h.at = 0 /\ h.run = None /\ h.op = q.op
    BY <2>3 DEF Reloading, Blank
  <2>5. ViewOK(h)' /\ StopOK(h)'
    BY <1>1, <2>1, <2>4, SequenceRunsAssumption DEF ViewOK, StopOK, HoldsView, TypeOK
  <2>6. QED
    BY <1>1, <2>1, <2>2, <2>3, <2>5, OneRequest DEF TypeOK
<1>4. QED
  BY <1>2, <1>3

\* PUT is the one step that spoils what another request has read, and it says so.
LEMMA WriteSequenceGood ==
  ASSUME TypeOK, TypeOK', ViewInv, StopInv, NEW p \in Places, WriteSequence(p)
  PROVE  ViewInv' /\ StopInv'
<1> DEFINE s == req[p].seq
<1>1. /\ UNCHANGED <<now, issued>> /\ req[p].op # "deactivate"
      /\ s \in issued \cap Sequences
  BY DEF WriteSequence, StopInv, StopOK, ViewInv, ViewOK
<1>2. CASE Finish(p) /\ UNCHANGED <<sequences, runs, edits>>
  BY <1>1, <1>2, FinishGood
<1>3. CASE ~(Finish(p) /\ UNCHANGED <<sequences, runs, edits>>)
  <2>1. PICK row \in SequenceRow :
          /\ sequences' = [sequences EXCEPT ![s] = row]
          /\ runs' = [r \in DOMAIN runs |->
                        IF r \in ActiveOf(s) THEN [runs[r] EXCEPT !.tainted = TRUE]
                                             ELSE runs[r]]
          /\ req' = [q \in Places |->
                       IF q = p
                         THEN Reloading(p, s)
                         ELSE [req[q] EXCEPT
                                 !.torn = @ \/ (req[q].seq = s /\ HoldsView(req[q]))]]
    BY <1>3 DEF WriteSequence
  <2>2. OnlyForward
    <3>1. ASSUME NEW r \in DOMAIN runs
          PROVE  /\ runs'[r].seq = runs[r].seq /\ runs'[r].started = runs[r].started
                 /\ runs'[r].state = runs[r].state
      BY <2>1 DEF TypeOK, RunRow
    <3>2. DOMAIN runs' = DOMAIN runs
      BY <2>1
    <3>3. QED
      BY <1>1, <3>1, <3>2 DEF OnlyForward, TypeOK
  <2>3. ASSUME NEW x \in Places, NEW h, h = req'[x]
        PROVE  ViewOK(h)' /\ StopOK(h)'
    <3>1. CASE x = p
      <4>1. h = Reloading(p, s)
        BY <2>1, <2>3, <3>1
      <4>2. /\ h.pc = "row" /\ h.seq = s /\ h.at = 0 /\ h.run = None /\ h.op = req[p].op
            /\ h.began = req[p].began
        BY <4>1 DEF Reloading, Blank
      <4>3. ViewOK(h)'
        BY <1>1, <4>2, SequenceRunsAssumption DEF ViewOK, HoldsView, TypeOK
      <4>4. StopOK(req[p]) /\ req[p].pc = "write"
        BY DEF StopInv, WriteSequence
      <4>5. StopOK(h)'
        BY <1>1, <2>2, <4>2, <4>4 DEF StopOK, OnlyForward
      <4>6. QED
        BY <4>3, <4>5
    <3>2. CASE x # p
      <4> DEFINE q == req[x]
                 t == q.torn \/ (q.seq = s /\ HoldsView(q))
      <4>1. h = [q EXCEPT !.torn = t]
        BY <2>1, <2>3, <3>2
      <4>2. q \in Request /\ HoldsGood(q)
        BY DEF TypeOK, ViewInv, StopInv, HoldsGood
      <4>3. /\ h.pc = q.pc /\ h.op = q.op /\ h.seq = q.seq /\ h.rule = q.rule
            /\ h.cycle = q.cycle /\ h.run = q.run /\ h.started = q.started /\ h.at = q.at
            /\ h.acted = q.acted /\ h.began = q.began /\ h.torn = t
        BY <4>1, <4>2 DEF Request
      <4>4. h \in Request
        BY <2>3 DEF TypeOK
      <4>5. HoldsGood(h)
        BY <4>2, <4>3 DEF HoldsGood, ViewOK, StopOK, HoldsView
      <4>6. HoldsView(h) /\ ~h.torn => h.seq # s
        BY <4>3 DEF HoldsView
      <4>7. HoldsView(h) /\ ~h.torn /\ h.seq \in DOMAIN sequences'
              => h.seq \in DOMAIN sequences /\ sequences'[h.seq] = sequences[h.seq]
        BY <2>1, <4>6 DEF TypeOK
      <4>8. QED
        BY <2>2, <4>4, <4>5, <4>7, StillGood
    <3>3. QED
      BY <3>1, <3>2
  <2>4. ASSUME NEW x \in Places
        PROVE  ViewOK(req[x])' /\ StopOK(req[x])'
    BY <2>3 DEF ViewOK, StopOK, HoldsView
  <2>5. QED
    BY <2>4 DEF ViewInv, StopInv
<1>4. QED
  BY <1>2, <1>3

-----------------------------------------------------------------------------
(* The inductive invariant, and what it gives.                             *)

\* The inductive invariant holds at the start.
LEMMA InitIInv == Init => IInv
<1> SUFFICES ASSUME Init
             PROVE  IInv
  OBVIOUS
<1>1. TypeOK
  BY InitTypeOK
<1>2. TableInv
  BY DEF Init, TableInv, OneActiveRun, EndedAfterStarted, CompletedReachedEnd, RunInv
<1>3. ViewInv /\ StopInv
  BY <1>1, BlankGood DEF Init, ViewInv, StopInv, HoldsGood
<1>4. QED
  BY <1>1, <1>2, <1>3 DEF IInv

\* Every step of a request in progress keeps the inductive invariant.
LEMMA ProceedIInv ==
  ASSUME IInv, TypeOK', NEW p \in Places, Proceed(p) \/ Fail(p)
  PROVE  TableInv' /\ ViewInv' /\ StopInv'
<1> USE DEF IInv
<1>1. ViewOK(req[p]) /\ OneActiveRun /\ RunInv
  BY DEF ViewInv, TableInv
<1>2. CASE ReadRow(p) \/ ReadSteps(p) \/ ReadRun(p) \/ Settle(p)
  <2>1. ViewInv' /\ StopInv'
    BY <1>1, <1>2, ReadRowGood, ReadStepsGood, ReadRunGood, SettleGood
  <2>2. UNCHANGED <<now, sequences, runs>>
    BY <1>2 DEF ReadRow, ReadSteps, ReadRun, Settle
  <2>3. QED
    BY <2>1, <2>2, QuietTable
<1>3. CASE Answer(p) \/ Fail(p)
  BY <1>3, FinishGood, QuietTable DEF Answer, Fail
<1>4. CASE DecidePut(p) \/ DecideDelete(p) \/ DecideActivate(p) \/ DecideDeactivate(p)
  <2>1. UNCHANGED <<now, sequences, runs>>
    BY <1>4 DEF DecidePut, DecideDelete, DecideActivate, DecideDeactivate
  <2>2. QED
    BY <1>1, <1>4, <2>1, DecidesGood, QuietTable
<1>5. CASE PollRuns(p) \/ PollSteps(p)
  <2>1. UNCHANGED <<now, sequences, runs>>
    BY <1>5 DEF PollRuns, PollSteps
  <2>2. QED
    BY <1>5, <2>1, PollsGood, QuietTable
<1>6. CASE CloseIfFinished(p) \/ PollClose(p)
  <2>1. /\ req[p].pc \in {"close", "pollClose"}
        /\ Complete(req[p].run, req[p].at, req[p].torn)
        /\ UNCHANGED <<now, sequences>>
    BY <1>6 DEF CloseIfFinished, PollClose
  <2>2. QED
    BY <1>1, <1>6, <2>1, CompleteTable, ClosesGood
<1>7. CASE CreateSequence(p)
  BY <1>7, CreateSequenceTable, CreateSequenceGood
<1>8. CASE WriteSequence(p)
  BY <1>8, WriteSequenceTable, WriteSequenceGood
<1>9. CASE RemoveSequence(p)
  BY <1>9, RemoveSequenceTable, RemoveSequenceGood
<1>10. CASE InsertRun(p)
  BY <1>1, <1>10, InsertRunTable, InsertRunGood
<1>11. CASE StopRun(p)
  BY <1>1, <1>11, StopRunTable, StopRunGood
<1>12. QED
  BY <1>2, <1>3, <1>4, <1>5, <1>6, <1>7, <1>8, <1>9, <1>10, <1>11 DEF Proceed

\* Every step keeps the inductive invariant.
LEMMA NextIInv == IInv /\ [Next]_vars => IInv'
<1> SUFFICES ASSUME IInv, [Next]_vars
             PROVE  IInv'
  OBVIOUS
<1>1. TypeOK'
  BY NextTypeOK DEF IInv
<1>2. TableInv' /\ ViewInv' /\ StopInv'
  <2> USE <1>1 DEF IInv
  <2>1. CASE UNCHANGED vars
    <3>1. TableInv'
      BY <2>1, QuietTable DEF vars
    <3>2. ViewInv' /\ StopInv'
      BY <2>1 DEF vars, ViewInv, StopInv, ViewOK, StopOK, HoldsView
    <3>3. QED
      BY <3>1, <3>2
  <2>2. CASE Tick
    BY <2>2, TickTable, TickGood
  <2>3. ASSUME NEW p \in Requests,
               ArriveCreate(p) \/ \E s \in Sequences, op \in Ops : Arrive(p, op, s)
        PROVE  TableInv' /\ ViewInv' /\ StopInv'
    <3>1. p \in Places /\ UNCHANGED <<now, sequences, runs, issued>>
      BY <2>3 DEF Places, ArriveCreate, Arrive
    <3>2. CASE ArriveCreate(p)
      <4>1. HoldsGood([Blank EXCEPT !.pc = "create", !.op = "create"])
        BY SequenceRunsAssumption
        DEF Blank, HoldsGood, ViewOK, StopOK, HoldsView, TypeOK
      <4>2. QED
        BY <3>1, <3>2, <4>1, QuietRequest, QuietTable DEF ArriveCreate
    <3>3. CASE \E s \in Sequences, op \in Ops : Arrive(p, op, s)
      BY <3>1, <3>3, ArriveGood, QuietTable
    <3>4. QED
      BY <2>3, <3>2, <3>3
  <2>4. ASSUME NEW p \in Tabs, NEW s \in Sequences, ArrivePoll(p, s)
        PROVE  TableInv' /\ ViewInv' /\ StopInv'
    <3>1. p \in Places /\ UNCHANGED <<now, sequences, runs, issued>>
      BY <2>4 DEF Places, ArrivePoll
    <3>2. HoldsGood([Blank EXCEPT !.pc = "pollRuns", !.op = "poll", !.seq = s, !.at = now])
      BY <2>4, SequenceRunsAssumption
      DEF Blank, HoldsGood, ViewOK, StopOK, HoldsView, ArrivePoll, TypeOK
    <3>3. QED
      BY <2>4, <3>1, <3>2, QuietRequest, QuietTable DEF ArrivePoll
  <2>5. ASSUME NEW p \in Places, Proceed(p) \/ Fail(p)
        PROVE  TableInv' /\ ViewInv' /\ StopInv'
    BY <2>5, ProceedIInv
  <2>6. QED
    BY <2>1, <2>2, <2>3, <2>4, <2>5 DEF Next
<1>3. QED
  BY <1>1, <1>2 DEF IInv

\* The facts about the runs, the views and the stops hold in every reachable state.
THEOREM InductiveInvariant == Spec => []IInv
<1>1. QED
  BY InitIInv, NextIInv, PTL DEF Spec

\* A sequence never has two runs in progress, however requests interleave.
THEOREM AtMostOneActiveRun == Spec => []OneActiveRun
<1>1. IInv => OneActiveRun
  BY DEF IInv, TableInv
<1>2. QED
  BY <1>1, InductiveInvariant, PTL

\* No run is recorded as ending before it started.
THEOREM NoRunEndsEarly == Spec => []EndedAfterStarted
<1>1. IInv => EndedAfterStarted
  BY DEF IInv, TableInv
<1>2. QED
  BY <1>1, InductiveInvariant, PTL

\* A run that no edit overlapped is "completed" only at or after its end.
THEOREM CompletedMeansComplete == Spec => []CompletedReachedEnd
<1>1. IInv => CompletedReachedEnd
  BY DEF IInv, TableInv
<1>2. QED
  BY <1>1, InductiveInvariant, PTL

\* A deactivate that has acted leaves the run it arrived to stop stopped.
THEOREM DeactivateTakes == Spec => []StopTakes
<1>1. IInv => StopTakes
  BY DEF IInv, StopInv, StopOK, StopTakes
<1>2. QED
  BY <1>1, InductiveInvariant, PTL

\* A PUT finds the run that was going when it arrived over by the time it writes.
THEOREM EditsSpareRuns == Spec => []EditSparesRun
<1>1. IInv => EditSparesRun
  BY DEF IInv, StopInv, StopOK, EditSparesRun
<1>2. QED
  BY <1>1, InductiveInvariant, PTL

-----------------------------------------------------------------------------
(* SequenceRuns implements RunLifecycle.                                   *)

\* At the start no run has a life, as the abstraction says.
LEMMA InitLifecycle == Init => Lifecycle!Init
BY DEF Init, Lifecycle!Init, Life, On

\* Nothing that leaves the lives of the runs alone is seen by the abstraction.
LEMMA SameLives ==
  ASSUME issued' \cap Runs = issued \cap Runs, DOMAIN runs' = DOMAIN runs,
         \A r \in DOMAIN runs : runs'[r].seq = runs[r].seq /\ runs'[r].state = runs[r].state
  PROVE  UNCHANGED Lifecycle!lifeVars
<1>1. ASSUME NEW r \in Runs
      PROVE  Life'[r] = Life[r] /\ On'[r] = On[r]
  BY DEF Life, On
<1>2. Life' = Life /\ On' = On
  BY <1>1 DEF Life, On
<1>3. QED
  BY <1>2 DEF Lifecycle!lifeVars

\* A statement that writes one run and leaves it ended is End or a stutter.
LEMMA OneRunEnds ==
  ASSUME TypeOK, issued' = issued, DOMAIN runs' = DOMAIN runs, NEW e,
         \A r \in DOMAIN runs :
           runs'[r] = runs[r] \/ (r = e /\ runs'[r].seq = runs[r].seq
                                       /\ runs'[r].state # "active")
  PROVE  [Lifecycle!Next]_(Lifecycle!lifeVars)
<1>1. CASE e \in DOMAIN runs /\ runs[e].state = "active" /\ runs'[e] # runs[e]
  <2>1. e \in Runs /\ e \in issued
    BY <1>1 DEF TypeOK
  <2>2. /\ Life[e] = "running" /\ Life'[e] = "ended"
        /\ \A r \in Runs \ {e} : Life'[r] = Life[r]
        /\ \A r \in Runs : On'[r] = On[r]
    BY <1>1, <2>1 DEF Life, On
  <2>3. Life' = [Life EXCEPT ![e] = "ended"] /\ On' = On
    <3>1. /\ DOMAIN Life = Runs /\ DOMAIN Life' = Runs
          /\ Life = [r \in Runs |-> Life[r]] /\ Life' = [r \in Runs |-> Life'[r]]
          /\ On = [r \in Runs |-> On[r]] /\ On' = [r \in Runs |-> On'[r]]
      BY DEF Life, On
    <3>2. QED
      BY <2>2, <3>1
  <2>4. Lifecycle!End(e)
    BY <2>2, <2>3 DEF Lifecycle!End
  <2>5. QED
    BY <2>1, <2>4 DEF Lifecycle!Next
<1>2. CASE ~(e \in DOMAIN runs /\ runs[e].state = "active" /\ runs'[e] # runs[e])
  <2>1. ASSUME NEW r \in Runs
        PROVE  Life'[r] = Life[r] /\ On'[r] = On[r]
    BY <1>2 DEF Life, On
  <2>2. Life' = Life /\ On' = On
    BY <2>1 DEF Life, On
  <2>3. QED
    BY <2>2 DEF Lifecycle!lifeVars
<1>3. QED
  BY <1>1, <1>2

\* Inserting a run is a start of the abstraction, or nothing to it.
LEMMA InsertRunStarts ==
  ASSUME IInv, NEW p \in Places, InsertRun(p)
  PROVE  [Lifecycle!Next]_(Lifecycle!lifeVars)
<1> DEFINE s == req[p].seq
<1> USE DEF IInv
<1>1. CASE UNCHANGED <<runs, issued>>
  BY <1>1, SameLives
<1>2. CASE ~UNCHANGED <<runs, issued>>
  <2>1. ~RunRefused(s)
    BY <1>2 DEF InsertRun
  <2>2. PICK r \in Runs \ issued :
          /\ DOMAIN runs' = DOMAIN runs \cup {r}
          /\ \A x \in DOMAIN runs : x # r => runs'[x] = runs[x]
          /\ runs'[r].seq = s /\ runs'[r].state = "active"
          /\ issued' = issued \cup {r}
    <3>1. PICK r \in Runs \ issued :
            /\ runs' = [x \in DOMAIN runs \cup {r} |->
                          IF x = r
                            THEN [seq |-> s, started |-> req[p].at, state |-> "active",
                                  ended |-> 0, tainted |-> FALSE,
                                  basis |-> RunLength(sequences[s].rule, sequences[s].cycle)]
                            ELSE runs[x]]
            /\ issued' = issued \cup {r}
      BY <2>1 DEF InsertRun
    <3>2. QED
      BY <3>1
  <2>3. s \in Sequences /\ r \notin DOMAIN runs
    BY <2>1 DEF RunRefused, TypeOK
  <2>4. \A x \in Runs : Life[x] = "running" => On[x] # s
    BY <2>1 DEF Life, On, RunRefused, ActiveOf
  <2>5. /\ Life[r] = "unborn" /\ Life'[r] = "running" /\ On'[r] = s
        /\ \A x \in Runs \ {r} : Life'[x] = Life[x] /\ On'[x] = On[x]
    BY <2>2, <2>3 DEF Life, On
  <2>6. Life' = [Life EXCEPT ![r] = "running"] /\ On' = [On EXCEPT ![r] = s]
    BY <2>5 DEF Life, On
  <2>7. Lifecycle!Start(r, s)
    BY <2>4, <2>5, <2>6 DEF Lifecycle!Start
  <2>8. QED
    BY <2>3, <2>7 DEF Lifecycle!Next
<1>3. QED
  BY <1>1, <1>2

\* Deleting a sequence is the abstraction forgetting its runs.
LEMMA RemoveSequenceForgets ==
  ASSUME IInv, NEW p \in Places, RemoveSequence(p)
  PROVE  [Lifecycle!Next]_(Lifecycle!lifeVars)
<1> DEFINE s == req[p].seq
<1> USE DEF IInv
<1>1. s \in Sequences /\ s # None
  BY SequenceRunsAssumption DEF RemoveSequence, ViewInv, ViewOK
<1>2. /\ issued' = issued
      /\ \A r \in Runs : r \in DOMAIN runs' <=> r \in DOMAIN runs /\ runs[r].seq # s
      /\ \A r \in DOMAIN runs' : runs'[r] = runs[r]
  BY DEF RemoveSequence
<1>3. \A r \in DOMAIN runs : r \in issued
  BY DEF TypeOK
<1>4. ASSUME NEW r \in Runs
      PROVE  /\ Life'[r] = IF On[r] = s THEN "forgotten" ELSE Life[r]
             /\ On'[r] = IF On[r] = s THEN None ELSE On[r]
  BY <1>1, <1>2, <1>3 DEF Life, On
<1>5. /\ Life' = [r \in Runs |-> IF On[r] = s THEN "forgotten" ELSE Life[r]]
      /\ On' = [r \in Runs |-> IF On[r] = s THEN None ELSE On[r]]
  BY <1>4 DEF Life, On
<1>6. Lifecycle!Forget(s)
  BY <1>5 DEF Lifecycle!Forget
<1>7. QED
  BY <1>1, <1>6 DEF Lifecycle!Next

\* Every step of the routes is a step of the abstraction, or none to it.
LEMMA NextLifecycle == IInv /\ [Next]_vars => [Lifecycle!Next]_(Lifecycle!lifeVars)
<1> SUFFICES ASSUME IInv, [Next]_vars
             PROVE  [Lifecycle!Next]_(Lifecycle!lifeVars)
  OBVIOUS
<1> USE DEF IInv
<1>1. CASE UNCHANGED <<runs, issued>>
  BY <1>1, SameLives
<1>2. ASSUME NEW p \in Places, CreateSequence(p) \/ WriteSequence(p)
      PROVE  [Lifecycle!Next]_(Lifecycle!lifeVars)
  <2>1. issued' \cap Runs = issued \cap Runs
    BY <1>2, SequenceRunsAssumption DEF CreateSequence, WriteSequence
  <2>2. DOMAIN runs' = DOMAIN runs
    BY <1>2 DEF CreateSequence, WriteSequence
  <2>3. ASSUME NEW r \in DOMAIN runs
        PROVE  runs'[r].seq = runs[r].seq /\ runs'[r].state = runs[r].state
    BY <1>2 DEF CreateSequence, WriteSequence, TypeOK, RunRow
  <2>4. QED
    BY <2>1, <2>2, <2>3, SameLives
<1>3. ASSUME NEW p \in Places, CloseIfFinished(p) \/ PollClose(p)
      PROVE  [Lifecycle!Next]_(Lifecycle!lifeVars)
  <2>1. Complete(req[p].run, req[p].at, req[p].torn) /\ issued' = issued
    BY <1>3 DEF CloseIfFinished, PollClose
  <2>2. /\ DOMAIN runs' = DOMAIN runs
        /\ \A x \in DOMAIN runs : runs'[x] # runs[x] =>
             x = req[p].run /\ runs'[x].seq = runs[x].seq /\ runs'[x].state # "active"
    <3>1. \A x \in DOMAIN runs : runs'[x] # runs[x] => x = req[p].run
      BY <2>1 DEF Complete
    <3>2. QED
      BY <2>1, <3>1, CompleteRow
  <2>3. QED
    BY <2>1, <2>2, OneRunEnds
<1>4. ASSUME NEW p \in Places, StopRun(p)
      PROVE  [Lifecycle!Next]_(Lifecycle!lifeVars)
  <2>1. issued' = issued /\ DOMAIN runs' = DOMAIN runs
    BY <1>4 DEF StopRun
  <2>2. ASSUME NEW r \in DOMAIN runs, runs'[r] # runs[r]
        PROVE  r = req[p].run /\ runs'[r].seq = runs[r].seq /\ runs'[r].state # "active"
    <3>1. runs[r] \in RunRow /\ r = req[p].run
      BY <1>4, <2>2 DEF StopRun, TypeOK
    <3>2. runs'[r] = [runs[r] EXCEPT !.state = "stopped", !.ended = req[p].at]
      BY <1>4, <3>1 DEF StopRun
    <3>3. QED
      BY <3>1, <3>2 DEF RunRow
  <2>3. QED
    BY <2>1, <2>2, OneRunEnds
<1>5. CASE Tick \/ UNCHANGED vars
  BY <1>1, <1>5 DEF Tick, vars
<1>6. ASSUME NEW p \in Places, NEW s, NEW op,
             ArriveCreate(p) \/ Arrive(p, op, s) \/ ArrivePoll(p, s)
      PROVE  [Lifecycle!Next]_(Lifecycle!lifeVars)
  BY <1>1, <1>6 DEF ArriveCreate, Arrive, ArrivePoll
<1>7. ASSUME NEW p \in Places, Proceed(p) \/ Fail(p)
      PROVE  [Lifecycle!Next]_(Lifecycle!lifeVars)
  <2>1. CASE \/ ReadRow(p) \/ ReadSteps(p) \/ ReadRun(p) \/ Settle(p) \/ Answer(p)
             \/ DecidePut(p) \/ DecideDelete(p) \/ DecideActivate(p) \/ DecideDeactivate(p)
             \/ PollRuns(p) \/ PollSteps(p) \/ Fail(p)
    BY <1>1, <2>1 DEF ReadRow, ReadSteps, ReadRun, Settle, Answer, DecidePut, DecideDelete,
       DecideActivate, DecideDeactivate, PollRuns, PollSteps, Fail
  <2>2. QED
    BY <1>2, <1>3, <1>4, <1>7, <2>1, InsertRunStarts, RemoveSequenceForgets DEF Proceed
<1>8. QED
  BY <1>5, <1>6, <1>7 DEF Next, Places

\* The routes, statement by statement, keep the promise of RunLifecycle.
THEOREM RoutesImplementLifecycle == Spec => ImplementsLifecycle
<1>1. QED
  BY InitLifecycle, NextLifecycle, InductiveInvariant, PTL
  DEF Spec, ImplementsLifecycle, Lifecycle!Spec
=============================================================================
