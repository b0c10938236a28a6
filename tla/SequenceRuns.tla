---------------------------- MODULE SequenceRuns ----------------------------
(***************************************************************************)
(* The sequence routes of the API (src/api/src/routes/sequences.ts) and    *)
(* the run-closing half of the poll (src/api/src/routes/occurrences.ts)    *)
(* over the tables of db/migrations/0013_sequences.sql.                    *)
(*                                                                         *)
(* Every SQL statement outside withTransaction commits on its own, and     *)
(* every await lets another request in.  A request is therefore a small    *)
(* process whose steps are its statements, and whose record holds what it  *)
(* has read so far; between two steps anything may change under it.  What  *)
(* the code does between two awaits is one step, and it reads the clock    *)
(* where the code calls clock.now().                                       *)
(*                                                                         *)
(* GET /sequences and /me/upcoming work on several sequences with the same *)
(* statements; nothing they do to one sequence depends on another, so they *)
(* appear here as the request they are for one sequence.                   *)
(***************************************************************************)
EXTENDS SequenceSpec, FiniteSets

CONSTANTS
  Sequences,    \* the uuids POST /sequences may mint
  Runs,         \* the uuids activate may mint
  Requests,     \* places for requests in flight
  Tabs,         \* browser tabs that poll, each with one poll in flight at most
  Names,        \* names, up to the lower(btrim(name)) the unique index compares
  Rules,        \* the repeat rules a body may carry
  Cycles,       \* the total lengths a chain of steps may have
  Ops,          \* the operations clients call; AllOps, or some for a smaller instance
  None,         \* SQL NULL and JavaScript null
  MaxTime,      \* bound: the clock stops here
  MaxStart,     \* bound: no run starts later than this
  MaxEdits      \* bound: PUTs that commit

ASSUME SequenceRunsAssumption ==
  /\ Rules \subseteq Rule
  /\ Cycles \subseteq Nat \ {0}
  /\ Ops \subseteq {"get", "create", "put", "delete", "activate", "deactivate", "poll"}
  /\ Requests \cap Tabs = {}
  /\ Sequences \cap Runs = {}
  /\ None \notin Sequences /\ None \notin Runs
  /\ MaxTime \in Nat /\ MaxStart \in Nat /\ MaxEdits \in Nat

VARIABLES
  now,          \* the server's clock
  sequences,    \* table: id -> [name, rule, cycle]
  runs,         \* table: id -> run
  req,          \* place -> the request it holds
  issued,       \* history: every uuid handed out, deleted rows included
  edits         \* how many PUTs have committed

vars == <<now, sequences, runs, req, issued, edits>>

AllOps == {"get", "create", "put", "delete", "activate", "deactivate", "poll"}

Places == Requests \cup Tabs

PCs == {"idle", "create", "row", "steps", "run", "settle", "close", "decide",
        "write", "remove", "insert", "stop", "pollRuns", "pollSteps", "pollClose"}

SequenceRow == [name : Names, rule : Rules, cycle : Cycles]

\* state stands for ended_at and ended_reason together, which every statement
\* writes together: "active" is ended_at IS NULL.  basis and tainted are
\* history: the length the run had when it was inserted, and whether an edit
\* has overlapped it.  No guard reads them.
RunRow == [seq : Sequences, started : Nat, state : {"active", "completed", "stopped"},
           ended : Nat, basis : Nat, tainted : BOOLEAN]

\* began is history: the run, if any, that was active when a deactivate or a PUT
\* arrived.
\* torn is history: an edit has committed since the request first read the row.
Request == [pc : PCs, op : AllOps, seq : Sequences \cup {None}, rule : Rule, cycle : Nat,
            run : Runs \cup {None}, started : Nat, at : Nat, acted : BOOLEAN,
            began : SUBSET Runs, torn : BOOLEAN]

Blank == [pc |-> "idle", op |-> "get", seq |-> None, rule |-> [mode |-> "once", n |-> 0],
          cycle |-> 0, run |-> None, started |-> 0, at |-> 0, acted |-> FALSE,
          began |-> {}, torn |-> FALSE]

ActiveOf(s) == {r \in DOMAIN runs : runs[r].seq = s /\ runs[r].state = "active"}

NameTaken(s, name) == \E t \in DOMAIN sequences \ {s} : sequences[t].name = name

Become(p, request) == req' = [req EXCEPT ![p] = request]
Finish(p) == Become(p, Blank)

\* The second loadOne of create, put, activate and deactivate, which only
\* serves the answer: nothing of the first one is kept.
Reloading(p, s) ==
  [Blank EXCEPT !.pc = "row", !.op = req[p].op, !.seq = s,
                !.began = req[p].began, !.acted = TRUE]
Reload(p, s) == Become(p, Reloading(p, s))

Init ==
  /\ now = 0
  /\ sequences = [s \in {} |-> None]
  /\ runs = [r \in {} |-> None]
  /\ req = [p \in Places |-> Blank]
  /\ issued = {}
  /\ edits = 0

-----------------------------------------------------------------------------
\* A request arrives.  A client only knows ids that were once answered.

Arrive(p, op, s) ==
  /\ req[p].pc = "idle"
  /\ s \in issued
  /\ op \in Ops \ {"create", "poll"}
  /\ Become(p, [Blank EXCEPT !.pc = "row", !.op = op, !.seq = s,
                             !.began = IF op \in {"deactivate", "put"} THEN ActiveOf(s) ELSE {}])
  /\ UNCHANGED <<now, sequences, runs, issued, edits>>

\* GET /me/upcoming takes its only look at the clock before its first query.
ArrivePoll(p, s) ==
  /\ req[p].pc = "idle" /\ "poll" \in Ops
  /\ s \in issued
  /\ Become(p, [Blank EXCEPT !.pc = "pollRuns", !.op = "poll", !.seq = s, !.at = now])
  /\ UNCHANGED <<now, sequences, runs, issued, edits>>

ArriveCreate(p) ==
  /\ req[p].pc = "idle" /\ "create" \in Ops
  /\ Become(p, [Blank EXCEPT !.pc = "create", !.op = "create"])
  /\ UNCHANGED <<now, sequences, runs, issued, edits>>

-----------------------------------------------------------------------------
\* loadOne: the row, then its steps, then the run in progress, each in a
\* statement of its own, then closeIfFinished.

ReadRow(p) ==
  LET q == req[p] IN
  /\ q.pc = "row"
  /\ IF q.seq \in DOMAIN sequences
       THEN Become(p, [q EXCEPT !.pc = "steps", !.rule = sequences[q.seq].rule])
       ELSE Finish(p)                                  \* notFound
  /\ UNCHANGED <<now, sequences, runs, issued, edits>>

\* No rows come back once the sequence has gone: the chain then measures 0.
CycleNow(s) == IF s \in DOMAIN sequences THEN sequences[s].cycle ELSE 0

ReadSteps(p) ==
  LET q == req[p] IN
  /\ q.pc = "steps"
  /\ Become(p, [q EXCEPT !.pc = "run", !.cycle = CycleNow(q.seq)])
  /\ UNCHANGED <<now, sequences, runs, issued, edits>>

ReadRun(p) ==
  LET q == req[p] IN
  /\ q.pc = "run"
  /\ \/ /\ ActiveOf(q.seq) = {}
        /\ Become(p, [q EXCEPT !.pc = "settle", !.run = None])
     \/ \E r \in ActiveOf(q.seq) :
          Become(p, [q EXCEPT !.pc = "settle", !.run = r, !.started = runs[r].started])
  /\ UNCHANGED <<now, sequences, runs, issued, edits>>

\* What loadOne returns that a handler looks at: the steps, the run or null.
Loaded(q, run) ==
  [Blank EXCEPT !.pc = "decide", !.op = q.op, !.seq = q.seq, !.began = q.began,
                !.acted = q.acted, !.cycle = q.cycle, !.run = run]

Settle(p) ==
  LET q == req[p] IN
  /\ q.pc = "settle"
  /\ IF q.run # None /\ HasFinished(q.rule, q.cycle, q.started, now)
       THEN Become(p, [q EXCEPT !.pc = "close", !.at = now])
       ELSE Become(p, Loaded(q, q.run))
  /\ UNCHANGED <<now, sequences, runs, issued, edits>>

\* UPDATE ... 'completed' WHERE id = $1 AND ended_at IS NULL
Complete(r, at, torn) ==
  runs' = [x \in DOMAIN runs |->
             IF x = r /\ runs[x].state = "active"
               THEN [runs[x] EXCEPT !.state = "completed", !.ended = at,
                                    !.tainted = @ \/ torn]
               ELSE runs[x]]

\* Broken: a finished run is left out of the answer but never closed.
CloseInAnswer(p) ==
  /\ req[p].pc = "close"
  /\ Become(p, Loaded(req[p], None))
  /\ UNCHANGED <<now, sequences, runs, issued, edits>>

CloseIfFinished(p) ==
  LET q == req[p] IN
  /\ q.pc = "close"
  /\ Complete(q.run, q.at, q.torn)
  /\ Become(p, Loaded(q, None))
  /\ UNCHANGED <<now, sequences, issued, edits>>

-----------------------------------------------------------------------------
\* What each handler does with what loadOne returned.

Answer(p) ==
  /\ req[p].pc = "decide"
  /\ req[p].op = "get" \/ req[p].acted
  /\ Finish(p)
  /\ UNCHANGED <<now, sequences, runs, issued, edits>>

DecidePut(p) ==
  LET q == req[p] IN
  /\ q.pc = "decide" /\ q.op = "put" /\ ~q.acted
  /\ IF q.run # None THEN Finish(p)                    \* conflict
                     ELSE Become(p, [q EXCEPT !.pc = "write", !.cycle = 0])
  /\ UNCHANGED <<now, sequences, runs, issued, edits>>

DecideDelete(p) ==
  LET q == req[p] IN
  /\ q.pc = "decide" /\ q.op = "delete"
  /\ Become(p, [q EXCEPT !.pc = "remove", !.cycle = 0, !.run = None])
  /\ UNCHANGED <<now, sequences, runs, issued, edits>>

DecideActivate(p) ==
  LET q == req[p] IN
  /\ q.pc = "decide" /\ q.op = "activate" /\ ~q.acted
  /\ IF q.run # None \/ q.cycle = 0 THEN Finish(p)     \* conflict
     ELSE /\ now <= MaxStart
          /\ Become(p, [q EXCEPT !.pc = "insert", !.cycle = 0, !.at = now])
  /\ UNCHANGED <<now, sequences, runs, issued, edits>>

DecideDeactivate(p) ==
  LET q == req[p] IN
  /\ q.pc = "decide" /\ q.op = "deactivate" /\ ~q.acted
  /\ IF q.run # None THEN Become(p, [q EXCEPT !.pc = "stop", !.cycle = 0, !.at = now])
                     ELSE Reload(p, q.seq)
  /\ UNCHANGED <<now, sequences, runs, issued, edits>>

-----------------------------------------------------------------------------
\* The statements that change the tables.

\* The transaction of POST: the row and its chain appear together, or the
\* unique name refuses both.
CreateSequence(p) ==
  /\ req[p].pc = "create"
  /\ \E s \in Sequences \ issued, row \in SequenceRow :
       IF NameTaken(s, row.name)
         THEN Finish(p) /\ UNCHANGED <<sequences, issued>>
         ELSE /\ sequences' = [x \in DOMAIN sequences \cup {s} |->
                                 IF x = s THEN row ELSE sequences[x]]
              /\ issued' = issued \cup {s}
              /\ Reload(p, s)
  /\ UNCHANGED <<now, runs, edits>>

\* Who has read the row and may still act on what the chain was.
HoldsView(q) == q.pc \in {"steps", "run", "settle", "close", "pollSteps", "pollClose"}

\* The transaction of PUT.  It does not look at the runs again: between the
\* check in DecidePut and this commit an activate may have inserted one.
\* Against a sequence deleted meanwhile the steps violate their foreign key.
WriteSequence(p) ==
  LET s == req[p].seq IN
  /\ req[p].pc = "write"
  /\ edits < MaxEdits
  /\ \E row \in SequenceRow :
       IF s \notin DOMAIN sequences \/ NameTaken(s, row.name)
         THEN Finish(p) /\ UNCHANGED <<sequences, runs, edits>>
         ELSE /\ sequences' = [sequences EXCEPT ![s] = row]
              /\ runs' = [r \in DOMAIN runs |->
                            IF r \in ActiveOf(s) THEN [runs[r] EXCEPT !.tainted = TRUE]
                                                 ELSE runs[r]]
              /\ req' = [q \in Places |->
                           IF q = p
                             THEN Reloading(p, s)
                             ELSE [req[q] EXCEPT
                                     !.torn = @ \/ (req[q].seq = s /\ HoldsView(req[q]))]]
              /\ edits' = edits + 1
  /\ UNCHANGED <<now, issued>>

\* Broken: the rows of sequence_runs outlive their sequence.
RemoveSequenceNoCascade(p) ==
  /\ req[p].pc = "remove"
  /\ sequences' = [x \in DOMAIN sequences \ {req[p].seq} |-> sequences[x]]
  /\ Finish(p)
  /\ UNCHANGED <<now, runs, issued, edits>>

\* DELETE FROM sequences; the steps and the runs go with it (ON DELETE CASCADE).
RemoveSequence(p) ==
  LET s == req[p].seq IN
  /\ req[p].pc = "remove"
  /\ sequences' = [x \in DOMAIN sequences \ {s} |-> sequences[x]]
  /\ runs' = [r \in {x \in DOMAIN runs : runs[x].seq # s} |-> runs[r]]
  /\ Finish(p)
  /\ UNCHANGED <<now, issued, edits>>

\* Broken: the check in DecideActivate is all that keeps a second run out.
RunRefusedNoIndex(s) == s \notin DOMAIN sequences

\* INSERT INTO sequence_runs: the foreign key refuses it when the sequence has
\* gone, the partial unique index when a run is already active.
RunRefused(s) == s \notin DOMAIN sequences \/ ActiveOf(s) # {}

InsertRun(p) ==
  LET q == req[p] IN
  /\ q.pc = "insert"
  /\ IF RunRefused(q.seq)
       THEN Finish(p) /\ UNCHANGED <<runs, issued>>
       ELSE \E r \in Runs \ issued :
              /\ runs' = [x \in DOMAIN runs \cup {r} |->
                            IF x = r
                              THEN [seq |-> q.seq, started |-> q.at, state |-> "active",
                                    ended |-> 0, tainted |-> FALSE,
                                    basis |-> RunLength(sequences[q.seq].rule,
                                                        sequences[q.seq].cycle)]
                              ELSE runs[x]]
              /\ issued' = issued \cup {r}
              /\ Reload(p, q.seq)
  /\ UNCHANGED <<now, sequences, edits>>

\* Broken: a run stopped at the instant it started is not matched.
StopRunStarted(p) ==
  LET q == req[p] IN
  /\ q.pc = "stop"
  /\ runs' = [r \in DOMAIN runs |->
                IF r = q.run /\ runs[r].started < q.at
                  THEN [runs[r] EXCEPT !.state = "stopped", !.ended = q.at]
                  ELSE runs[r]]
  /\ Reload(p, q.seq)
  /\ UNCHANGED <<now, sequences, issued, edits>>

\* UPDATE ... 'stopped' WHERE id = $1, whatever has become of the run.
StopRun(p) ==
  LET q == req[p] IN
  /\ q.pc = "stop"
  /\ runs' = [r \in DOMAIN runs |->
                IF r = q.run THEN [runs[r] EXCEPT !.state = "stopped", !.ended = q.at]
                             ELSE runs[r]]
  /\ Reload(p, q.seq)
  /\ UNCHANGED <<now, sequences, issued, edits>>

-----------------------------------------------------------------------------
\* upcomingSequenceSteps: the runs joined to their rows, then the steps, then
\* one UPDATE for the runs that were over at the instant the poll began.

PollRuns(p) ==
  LET q == req[p] IN
  /\ q.pc = "pollRuns"
  /\ \/ ActiveOf(q.seq) = {} /\ Finish(p)
     \/ \E r \in ActiveOf(q.seq) :
          Become(p, [q EXCEPT !.pc = "pollSteps", !.run = r, !.started = runs[r].started,
                              !.rule = sequences[q.seq].rule])
  /\ UNCHANGED <<now, sequences, runs, issued, edits>>

\* Broken: whatever the poll finds is taken to be over.
PollStepsUnchecked(p) ==
  /\ req[p].pc = "pollSteps"
  /\ Become(p, [req[p] EXCEPT !.pc = "pollClose", !.cycle = CycleNow(req[p].seq)])
  /\ UNCHANGED <<now, sequences, runs, issued, edits>>

\* Broken: a finished run is left out of the answer but never closed.
PollStepsForgetful(p) ==
  /\ req[p].pc = "pollSteps"
  /\ Finish(p)
  /\ UNCHANGED <<now, sequences, runs, issued, edits>>

PollSteps(p) ==
  LET q == req[p] IN
  /\ q.pc = "pollSteps"
  /\ IF HasFinished(q.rule, CycleNow(q.seq), q.started, q.at)
       THEN Become(p, [q EXCEPT !.pc = "pollClose", !.cycle = CycleNow(q.seq)])
       ELSE Finish(p)
  /\ UNCHANGED <<now, sequences, runs, issued, edits>>

PollClose(p) ==
  LET q == req[p] IN
  /\ q.pc = "pollClose"
  /\ Complete(q.run, q.at, q.torn)
  /\ Finish(p)
  /\ UNCHANGED <<now, sequences, issued, edits>>

-----------------------------------------------------------------------------
\* A statement fails - no pooled connection in time, the database gone, the
\* process killed - and the request dies where it stands.  What it committed
\* stays; a transaction it was in rolls back.
Fail(p) ==
  /\ req[p].pc # "idle"
  /\ Finish(p)
  /\ UNCHANGED <<now, sequences, runs, issued, edits>>

Tick ==
  /\ now < MaxTime
  /\ now' = now + 1
  /\ UNCHANGED <<sequences, runs, req, issued, edits>>

\* The steps a request takes once it has arrived.
Proceed(p) ==
  \/ ReadRow(p) \/ ReadSteps(p) \/ ReadRun(p) \/ Settle(p) \/ CloseIfFinished(p)
  \/ Answer(p) \/ DecidePut(p) \/ DecideDelete(p) \/ DecideActivate(p) \/ DecideDeactivate(p)
  \/ CreateSequence(p) \/ WriteSequence(p) \/ RemoveSequence(p) \/ InsertRun(p) \/ StopRun(p)
  \/ PollRuns(p) \/ PollSteps(p) \/ PollClose(p)

Next ==
  \/ Tick
  \/ \E p \in Requests : ArriveCreate(p) \/ \E s \in Sequences, op \in Ops : Arrive(p, op, s)
  \/ \E p \in Tabs, s \in Sequences : ArrivePoll(p, s)
  \/ \E p \in Places : Proceed(p) \/ Fail(p)

Spec == Init /\ [][Next]_vars

\* A tab that is open and signed in keeps polling, time passes, and a poll that
\* is tried again and again does not fail at the same statement every time.
FairSpec ==
  /\ Spec
  /\ WF_vars(Tick)
  /\ \A p \in Tabs :
       /\ \A s \in Sequences : SF_vars(ArrivePoll(p, s))
       /\ SF_vars(PollRuns(p)) /\ SF_vars(PollSteps(p)) /\ SF_vars(PollClose(p))

-----------------------------------------------------------------------------
\* Every row and every request is of its type, and every run belongs to a
\* sequence that exists: DELETE leaves no run behind.
TypeOK ==
  /\ now \in Nat /\ edits \in Nat
  /\ issued \subseteq Sequences \cup Runs
  /\ DOMAIN sequences \subseteq issued \cap Sequences
  /\ \A s \in DOMAIN sequences : sequences[s] \in SequenceRow
  /\ DOMAIN runs \subseteq issued \cap Runs
  /\ \A r \in DOMAIN runs : runs[r] \in RunRow /\ runs[r].seq \in DOMAIN sequences
  /\ req \in [Places -> Request]

\* However many activates race - a double click, two tabs - a sequence has at
\* most one run in progress (sequence_runs_one_active_per_sequence).
OneActiveRun ==
  \A r1, r2 \in DOMAIN runs :
    runs[r1].seq = runs[r2].seq /\ runs[r1].state = "active" /\ runs[r2].state = "active"
      => r1 = r2

\* No run is recorded as ending before it started, although the instant an
\* UPDATE writes was read from the clock before the statement ran: the check
\* sequence_runs_ended_after_started never turns a stop into a 500.
EndedAfterStarted ==
  \A r \in DOMAIN runs : runs[r].state # "active" => runs[r].ended >= runs[r].started

\* "completed" says the run reached the end of its chain.  It did, whichever
\* request closed it and however old its view was, unless a PUT committed
\* while the run was active or between the closer's first read and its UPDATE.
CompletedReachedEnd ==
  \A r \in DOMAIN runs :
    runs[r].state = "completed" /\ ~runs[r].tainted
      => runs[r].ended >= runs[r].started + runs[r].basis

\* Once a deactivate has done its work, the run that was going when it arrived
\* is not going any more, whatever raced it.
StopTakes ==
  \A p \in Places :
    req[p].op = "deactivate" /\ req[p].acted
      => \A r \in req[p].began \cap DOMAIN runs : runs[r].state # "active"

\* A PUT does not change the chain under a run that was going when it arrived
\* (sequences.ts:379), though it asks long before it writes and the run may be
\* finished and still open, or closed by others, in between: by the time it writes
\* that run is over.  Only a run started since may find its chain changed.
EditSparesRun ==
  \A p \in Places :
    req[p].op = "put" /\ req[p].pc = "write"
      => \A r \in req[p].began \cap DOMAIN runs : runs[r].state # "active"

-----------------------------------------------------------------------------
(* Why they hold: what a request has read, and how old it may be.          *)

\* A run that no edit has overlapped still has the length it started with.
RunInv ==
  \A r \in DOMAIN runs :
    LET row == sequences[runs[r].seq] IN
    /\ runs[r].started <= now
    /\ runs[r].state = "active" /\ ~runs[r].tainted
         => runs[r].basis = RunLength(row.rule, row.cycle)

\* A view that is not torn is the table's, as long as the sequence exists; the
\* run a request holds is of its sequence and started when it says.
ViewOK(q) ==
  /\ q.at <= now
  /\ q.pc \notin {"idle", "create"} => q.seq \in issued \cap Sequences
  /\ HoldsView(q) /\ ~q.torn /\ q.seq \in DOMAIN sequences
       => /\ q.rule = sequences[q.seq].rule
          /\ q.pc \notin {"steps", "pollSteps"} => q.cycle = sequences[q.seq].cycle
  /\ q.pc = "row" => q.run = None
  /\ q.run # None => q.run \in issued
  /\ q.run \in DOMAIN runs => /\ runs[q.run].seq = q.seq
                              /\ HoldsView(q) => runs[q.run].started = q.started
                              /\ q.pc = "stop" => runs[q.run].started <= q.at
  /\ q.pc \in {"close", "pollClose"} => HasFinished(q.rule, q.cycle, q.started, q.at)

ViewInv == \A p \in Places : ViewOK(req[p])

\* Until a deactivate has acted, or a PUT has decided, the run that was going when
\* it arrived is either over or the one it will read, holds, or is about to stop.
StopOK(q) ==
  q.op \in {"deactivate", "put"} =>
    /\ q.pc \notin {"create", "insert"}
    /\ q.op = "deactivate" => q.pc # "write"
    /\ q.began \subseteq issued
    /\ \A r \in q.began \cap DOMAIN runs :
         /\ runs[r].seq = q.seq
         /\ q.acted \/ q.pc = "write" => runs[r].state # "active"
         /\ q.pc \in {"settle", "close", "decide", "stop"} /\ runs[r].state = "active"
              => r = q.run

StopInv == \A p \in Places : StopOK(req[p])

TableInv == OneActiveRun /\ EndedAfterStarted /\ CompletedReachedEnd /\ RunInv

IInv == TypeOK /\ TableInv /\ ViewInv /\ StopInv

-----------------------------------------------------------------------------
\* The life of a run in the terms of RunLifecycle, and the sequence it is on.
Life == [r \in Runs |-> IF r \notin issued THEN "unborn"
                        ELSE IF r \notin DOMAIN runs THEN "forgotten"
                        ELSE IF runs[r].state = "active" THEN "running" ELSE "ended"]
On == [r \in Runs |-> IF r \in DOMAIN runs THEN runs[r].seq ELSE None]

Lifecycle == INSTANCE RunLifecycle WITH life <- Life, on <- On

\* Together the routes keep the promise of RunLifecycle: one run going per
\* sequence, a run that has ended or gone never runs again, no run changes
\* sequence, and a delete takes every run of its sequence and no other.
ImplementsLifecycle == Lifecycle!Spec

\* Whether or not the browser that started it is still there, a run does not
\* stay active for ever while somebody on the account polls.
RunEnds ==
  \A r \in Runs :
    (r \in DOMAIN runs /\ runs[r].state = "active")
      ~> (r \notin DOMAIN runs \/ runs[r].state # "active")
=============================================================================
