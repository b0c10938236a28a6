---------------------------- MODULE Notifications ----------------------------
(***************************************************************************)
(* How an occurrence comes to sound: the upcoming feed of the API          *)
(* (GET /me/upcoming, src/api/src/routes/occurrences.ts) and the scheduler *)
(* in each browser tab (src/web/src/hooks/useAlarmNotifications.ts).       *)
(*                                                                         *)
(* A tab polls, arms a timer for what is due soon, and remembers what has  *)
(* fired in a ref and in localStorage, which the tabs of a browser share.  *)
(* Its event loop is awake or asleep; while it is awake it does what is    *)
(* due before time moves on.  The query library (one request in flight,    *)
(* refetch on enabling and on invalidation, the interval counted from the  *)
(* last answer) is modelled from how the hook uses it.                     *)
(*                                                                         *)
(* now is the browser's clock; the server's reads now + Skew.  When an     *)
(* alarm next occurs is a constant here: Schedule[a].                      *)
(***************************************************************************)
EXTENDS SequenceEngine, FiniteSets

CONSTANTS
  Tabs, Alarms, Runs,
  Schedule,     \* alarm -> the instants of its occurrences
  RunSpec,      \* the sequence every run is a run of
  Poll,         \* POLL_INTERVAL_MS
  Lookahead,    \* LOOKAHEAD_MS
  Horizon,      \* withinMinutes, the hour a poll asks for
  Grace,        \* STEP_GRACE_MS
  FeedLimit,    \* the 50 occurrences a poll returns
  Retention,    \* the day after which a fired key is dropped
  Latency,      \* bound: a request is answered and delivered within this time
  Skew,         \* how far the server's clock is ahead, or (negative) behind
  Events,       \* which of the things people and machines may do are in play
  Elsewhere,    \* another device, whose changes this browser learns by polling
  MaxTime       \* bound: the clock stops here

ASSUME NotificationsAssumption ==
  /\ Schedule \in [Alarms -> SUBSET Nat]
  /\ {Poll, Lookahead, Horizon, Grace, Retention, Latency, MaxTime} \subseteq Nat
  /\ Skew \in Int /\ FeedLimit \in Nat \ {0} /\ Poll > 0
  /\ Events \subseteq {"turn", "activate", "stop", "switch", "sleep", "reload", "lose"}
  /\ Elsewhere \notin Tabs /\ Alarms \cap Runs = {}
  /\ IsSequence(RunSpec)

VARIABLES
  now,        \* the browser's clock
  on,         \* alarm -> is it enabled
  changed,    \* history: when each alarm was last switched, each run last stopped
  run,        \* run -> its state, when it started, and (history) from where
  tab,        \* tab -> what the page holds
  stored,     \* localStorage: the keys of fired occurrences
  storedOn,   \* localStorage: whether notifications are switched on
  sounded,    \* history: tab -> what it has sounded, over all its reloads
  repeated    \* history: what some tab has sounded twice

vars == <<now, on, changed, run, tab, stored, storedOn, sounded, repeated>>

\* keyFor and stepKeyFor: the alarm or the run, and the instant.
Key == [kind : {"alarm"}, of : Alarms, at : Nat] \cup [kind : {"step"}, of : Runs, at : Nat]

\* loaded says whether there has been an answer yet, asked when the request in flight
\* was sent.  since and renewed are history: how long the page has been loaded, awake,
\* switched on and answered, and when a request of its was last given up for another.
Tab == [awake : BOOLEAN, active : BOOLEAN, loaded : BOOLEAN, data : SUBSET Key,
        timers : SUBSET Key, fired : SUBSET Key, phone : {"idle", "asked", "answered"},
        asked : Nat, reply : SUBSET Key, nextPoll : Nat, since : Nat, renewed : Nat]

Loading(memory, switched) ==
  [awake |-> TRUE, active |-> switched, loaded |-> FALSE, data |-> {}, timers |-> {},
   fired |-> memory, phone |-> "idle", asked |-> 0, reply |-> {}, nextPoll |-> now,
   since |-> now, renewed |-> now]

Become(t, page) == tab' = [tab EXCEPT ![t] = page]

Init ==
  /\ now = 0
  /\ on \in [Alarms -> BOOLEAN]
  /\ changed = [x \in Alarms \cup Runs |-> 0]
  /\ run = [r \in Runs |-> [state |-> "idle", started |-> 0, by |-> Elsewhere]]
  /\ tab = [t \in Tabs |-> Loading({}, TRUE)]
  /\ stored = {}
  /\ storedOn = TRUE
  /\ sounded = [t \in Tabs |-> {}]
  /\ repeated = {}

-----------------------------------------------------------------------------
\* The feed, as the server sees it at one instant.

Finished(r, at) ==
  HasFinished(RunSpec.rule, CycleSeconds(RunSpec.steps), run[r].started, at)

DueAlarms(at) ==
  {[kind |-> "alarm", of |-> a, at |-> u] :
     a \in {b \in Alarms : on[b]}, u \in UNION {Schedule[b] : b \in Alarms}}
  \cap {k \in [kind : {"alarm"}, of : Alarms, at : at..(at + Horizon)] :
          k.at \in Schedule[k.of]}

\* Sorted by instant and cut: any order among equals, nothing after a gap.
Heads(due) ==
  {s \in SUBSET due :
     /\ Cardinality(s) = Atmost(FeedLimit, Cardinality(due))
     /\ \A k \in s, l \in due \ s : k.at <= l.at}

\* Broken: the window of the steps starts now, as that of the alarms does.
GraceNone == 0

\* How far into the past the window of the steps reaches.
GraceFrom == Grace

DueSteps(at) ==
  UNION {{[kind |-> "step", of |-> r, at |-> run[r].started + o.at] :
            o \in Range(StepOccurrences(RunSpec,
                          [from |-> at - GraceFrom - run[r].started,
                           to   |-> at + Horizon - run[r].started],
                          MaxStepOccurrences))} :
         r \in {q \in Runs : run[q].state = "active" /\ ~Finished(q, at)}}

\* GET /me/upcoming: both halves of the feed, and the runs it finds over closed.
ServerAnswers(t) ==
  LET at == now + Skew IN
  /\ tab[t].phone = "asked"
  /\ \E items \in Heads(DueAlarms(at)) :
       Become(t, [tab[t] EXCEPT !.phone = "answered", !.reply = items \cup DueSteps(at)])
  /\ run' = [r \in Runs |-> IF run[r].state = "active" /\ Finished(r, at)
                              THEN [run[r] EXCEPT !.state = "completed"] ELSE run[r]]
  /\ UNCHANGED <<now, on, changed, stored, storedOn, sounded, repeated>>

-----------------------------------------------------------------------------
\* The tab.

Overdue(page) == {k \in page.timers : k.at <= now}

\* The interval has run out, or enabling asked for fresh data.  Timers run in
\* the order they fall due, so what is due sounds first.
Ask(t) ==
  /\ tab[t].awake /\ tab[t].active /\ tab[t].phone = "idle"
  /\ now >= tab[t].nextPoll
  /\ Overdue(tab[t]) = {}
  /\ Become(t, [tab[t] EXCEPT !.phone = "asked", !.asked = now])
  /\ UNCHANGED <<now, on, changed, run, stored, storedOn, sounded, repeated>>

\* The poll fails, and is not retried before the next interval.
Lose(t) ==
  /\ "lose" \in Events
  /\ tab[t].phone # "idle" /\ tab[t].awake
  /\ Become(t, [tab[t] EXCEPT !.phone = "idle", !.reply = {}, !.nextPoll = now + Poll,
                              !.since = now])
  /\ UNCHANGED <<now, on, changed, run, stored, storedOn, sounded, repeated>>

\* Broken: timers whose occurrence is not offered any more stay armed.
ReconcileKeeping(page, data) ==
  [page EXCEPT !.data = data,
               !.timers = @ \cup {k \in data \ page.fired : k.at - now <= Lookahead}]

\* Broken: the lookahead does not exceed the poll interval.
ReconcileShort(page, data) ==
  [page EXCEPT !.data = data,
               !.timers = (@ \cap data) \cup
                            {k \in data \ page.fired : k.at - now < Poll}]

\* The arming effect: disarm what is not offered, then arm what is due soon and
\* has neither fired nor a timer.
Reconcile(page, data) ==
  [page EXCEPT !.data = data,
               !.timers = (@ \cap data) \cup
                            {k \in data \ page.fired : k.at - now <= Lookahead}]

\* The answer reaches the page.  The library hands it on in a timer of its own, so
\* what fell due before that has sounded.
Deliver(t) ==
  LET page   == tab[t]
      polled == [page EXCEPT !.phone = "idle", !.reply = {}, !.nextPoll = now + Poll,
                             !.loaded = TRUE, !.since = IF page.loaded THEN @ ELSE now]
  IN
  /\ page.awake /\ page.phone = "answered" /\ Overdue(page) = {}
  /\ Become(t, IF page.active THEN Reconcile(polled, page.reply)
                              ELSE [polled EXCEPT !.data = page.reply])
  /\ UNCHANGED <<now, on, changed, run, stored, storedOn, sounded, repeated>>

\* saveFired: the instant is read from after the first colon, which is there in
\* the key of an alarm and not in that of a step.
Kept(fired) == {k \in fired : k.kind = "step" \/ k.at >= now - Retention}

\* Broken: the ref remembers, localStorage does not.
FireUnsaved(t, k) ==
  /\ tab[t].awake /\ k \in Overdue(tab[t])
  /\ Become(t, [tab[t] EXCEPT !.timers = @ \ {k}, !.fired = @ \cup {k}])
  /\ sounded' = [sounded EXCEPT ![t] = @ \cup {k}]
  /\ repeated' = repeated \cup ({k} \cap sounded[t])
  /\ UNCHANGED <<now, on, changed, run, stored, storedOn>>

\* A timer goes off: show or showStep.
Fire(t, k) ==
  /\ tab[t].awake /\ k \in Overdue(tab[t])
  /\ Become(t, [tab[t] EXCEPT !.timers = @ \ {k}, !.fired = @ \cup {k}])
  /\ IF k \in tab[t].fired
       THEN UNCHANGED <<stored, sounded, repeated>>
       ELSE /\ stored' = Kept(tab[t].fired \cup {k})
            /\ sounded' = [sounded EXCEPT ![t] = @ \cup {k}]
            /\ repeated' = repeated \cup ({k} \cap sounded[t])
  /\ UNCHANGED <<now, on, changed, run, storedOn>>

\* The switch under Settings, off: every pending timer is dropped.
SwitchOff(t) ==
  /\ "switch" \in Events
  /\ tab[t].awake /\ tab[t].active
  /\ Become(t, [tab[t] EXCEPT !.active = FALSE, !.timers = {}])
  /\ storedOn' = FALSE
  /\ UNCHANGED <<now, on, changed, run, stored, sounded, repeated>>

\* And on: the arming effect runs over the data of the last poll there was,
\* and fresh data is asked for.
SwitchOn(t) ==
  /\ "switch" \in Events
  /\ tab[t].awake /\ ~tab[t].active
  /\ Become(t, Reconcile([tab[t] EXCEPT !.active = TRUE, !.nextPoll = now, !.since = now],
                         tab[t].data))
  /\ storedOn' = TRUE
  /\ UNCHANGED <<now, on, changed, run, stored, sounded, repeated>>

Reload(t) ==
  /\ "reload" \in Events
  /\ Become(t, Loading(stored, storedOn))
  /\ UNCHANGED <<now, on, changed, run, stored, storedOn, sounded, repeated>>

Sleep(t) ==
  /\ "sleep" \in Events
  /\ tab[t].awake
  /\ Become(t, [tab[t] EXCEPT !.awake = FALSE])
  /\ UNCHANGED <<now, on, changed, run, stored, storedOn, sounded, repeated>>

\* The bound on a request counts anew: it is the network's, not the sleeper's.
Wake(t) ==
  /\ ~tab[t].awake
  /\ Become(t, [tab[t] EXCEPT !.awake = TRUE, !.since = now, !.asked = now])
  /\ UNCHANGED <<now, on, changed, run, stored, storedOn, sounded, repeated>>

-----------------------------------------------------------------------------
\* Somebody changes something, in a tab or elsewhere.  A tab invalidates its feed once
\* the change has gone through: a poll replaces the one in flight, unless that is the
\* first, which the library does not give up.
First(page) == page.phone # "idle" /\ ~page.loaded

Invalidate(where) ==
  tab' = [t \in Tabs |->
            IF t = where /\ tab[t].active /\ ~First(tab[t])
              THEN [tab[t] EXCEPT !.phone = "asked", !.asked = now, !.reply = {},
                                  !.renewed = IF tab[t].phone = "idle" THEN @ ELSE now]
              ELSE tab[t]]

Acts(where) == where = Elsewhere \/ (where \in Tabs /\ tab[where].awake)

Turn(a, where) ==
  /\ "turn" \in Events /\ Acts(where)
  /\ on' = [on EXCEPT ![a] = ~@]
  /\ changed' = [changed EXCEPT ![a] = now]
  /\ Invalidate(where)
  /\ UNCHANGED <<now, run, stored, storedOn, sounded, repeated>>

\* One run at a time: SequenceRuns shows that activate keeps it so.
Activate(r, where) ==
  /\ "activate" \in Events /\ Acts(where)
  /\ run[r].state = "idle" /\ \A q \in Runs : run[q].state # "active"
  /\ run' = [run EXCEPT ![r] = [state |-> "active", started |-> now + Skew, by |-> where]]
  /\ Invalidate(where)
  /\ UNCHANGED <<now, on, changed, stored, storedOn, sounded, repeated>>

Stop(r, where) ==
  /\ "stop" \in Events /\ Acts(where)
  /\ run[r].state = "active"
  /\ run' = [run EXCEPT ![r].state = "stopped"]
  /\ changed' = [changed EXCEPT ![r] = now]
  /\ Invalidate(where)
  /\ UNCHANGED <<now, on, stored, storedOn, sounded, repeated>>

\* A page that runs does what is due, and no request outlasts Latency.
Settled(page) ==
  page.awake => /\ Overdue(page) = {}
                /\ page.active /\ page.phone = "idle" => now < page.nextPoll
                /\ page.phone # "idle" => now < page.asked + Latency

Tick ==
  /\ now < MaxTime
  /\ \A t \in Tabs : Settled(tab[t])
  /\ now' = now + 1
  /\ UNCHANGED <<on, changed, run, tab, stored, storedOn, sounded, repeated>>

\* The bound of the clock is the only place the model may stop.
OutOfTime == now = MaxTime /\ UNCHANGED vars

Next ==
  \/ Tick \/ OutOfTime
  \/ \E t \in Tabs :
       \/ Ask(t) \/ ServerAnswers(t) \/ Lose(t) \/ Deliver(t)
       \/ \E k \in tab[t].timers : Fire(t, k)
       \/ SwitchOff(t) \/ SwitchOn(t) \/ Reload(t) \/ Sleep(t) \/ Wake(t)
  \/ \E where \in Tabs \cup {Elsewhere} :
       \/ \E a \in Alarms : Turn(a, where)
       \/ \E r \in Runs : Activate(r, where) \/ Stop(r, where)

Spec == Init /\ [][Next]_vars

-----------------------------------------------------------------------------
\* The longest a steady tab goes without knowing of a change: asked just
\* before it, answered late, then the interval, then another late answer.
Window == Poll + 2 * Latency

Steady(t) == tab[t].awake /\ tab[t].active
Heard(t, a, u) == [kind |-> "alarm", of |-> a, at |-> u] \in sounded[t]

\* "An enabled alarm raises a browser notification at each occurrence ... for as
\* long as the application is open" (R-32): every occurrence of an alarm that
\* has been enabled, in a tab that has been open, awake and answered, for long
\* enough to have heard of it.  A tab that gives up one poll for the next hears nothing.
AlarmsHeard ==
  \A t \in Tabs, a \in Alarms : \A u \in Schedule[a] :
    /\ Steady(t) /\ tab[t].since + Window <= u /\ tab[t].renewed + Window <= u
    /\ on[a] /\ changed[a] + Window <= u
    /\ u < now
    => Heard(t, a, u)

\* A sequence started in a tab that is there all along says every one of its steps
\* there, the first and the closing line included, unless it is stopped: as long as
\* the answer to the poll that follows comes within the grace and before the end.
StepsHeard ==
  \A t \in Tabs, r \in Runs :
    LET started == run[r].started
        said    == StepOccurrences(RunSpec, [from |-> 0, to |-> LengthOf(RunSpec)],
                                   MaxStepOccurrences)
    IN /\ run[r].by = t /\ run[r].state \in {"active", "completed"}
       /\ Steady(t) /\ tab[t].since < started /\ tab[t].renewed <= started
       /\ Latency <= Grace /\ Latency < LengthOf(RunSpec)
       => \A o \in Range(said) :
            AtLeast(started + Latency, started + o.at) < now
              => [kind |-> "step", of |-> r, at |-> started + o.at] \in sounded[t]

\* "Fired occurrences are remembered here so a reload cannot repeat them": no
\* tab sounds an occurrence twice, over any number of reloads.
OncePerTab == repeated = {}

Off(k) == IF k.kind = "alarm" THEN ~on[k.of] ELSE run[k.of].state = "stopped"
LongOff(k) == Off(k) /\ changed[k.of] + Window < now

\* What was switched off or stopped goes quiet, in a tab that was there to hear
\* of it, within one poll and the time two answers take.
QuietAfterOff ==
  [][\A t \in Tabs : \A k \in sounded'[t] \ sounded[t] :
       LongOff(k) => \/ tab[t].since > changed[k.of]
                     \/ tab[t].renewed > changed[k.of]]_vars

\* "A disabled alarm leaves the upcoming feed immediately, raises no
\* notification" (R-28), given the time a poll takes, in every tab.
DisabledSilent ==
  [][\A t \in Tabs : \A k \in sounded'[t] \ sounded[t] : ~LongOff(k)]_vars

=============================================================================
