------------------------- MODULE NotificationsProofs -------------------------
(***************************************************************************)
(* Theorems about Notifications, for every number of tabs, alarms and      *)
(* runs, every schedule and every length of poll, latency and window.      *)
(*                                                                         *)
(* Each is an argument about time.  A page that is awake has asked within  *)
(* one poll and is answered within one latency; so what it does not know   *)
(* yet is bounded by when it last asked, and the invariants say how.       *)
(***************************************************************************)
EXTENDS Notifications, SequenceEngineProofs

AlarmKey == [kind : {"alarm"}, of : Alarms, at : Nat]

\* What the feed offers: of a step no more than whose it is.
IsKey(k) == k \in AlarmKey \/ (k.kind = "step" /\ k.of \in Runs)

Paged(p) ==
  /\ p = [awake |-> p.awake, active |-> p.active, loaded |-> p.loaded, data |-> p.data,
          timers |-> p.timers, fired |-> p.fired, phone |-> p.phone, asked |-> p.asked,
          reply |-> p.reply, nextPoll |-> p.nextPoll, since |-> p.since, renewed |-> p.renewed]
  /\ p.awake \in BOOLEAN /\ p.active \in BOOLEAN /\ p.loaded \in BOOLEAN
  /\ p.phone \in {"idle", "asked", "answered"}
  /\ p.asked \in Nat /\ p.nextPoll \in Nat /\ p.since \in Nat /\ p.renewed \in Nat
  /\ \A k \in p.data \cup p.timers \cup p.fired \cup p.reply : IsKey(k)

RunRow(r) ==
  /\ r = [state |-> r.state, started |-> r.started, by |-> r.by]
  /\ r.state \in {"idle", "active", "stopped", "completed"}

Typed ==
  /\ now \in Nat
  /\ on \in [Alarms -> BOOLEAN]
  /\ changed \in [Alarms \cup Runs -> Nat] /\ \A x \in Alarms \cup Runs : changed[x] <= now
  /\ run = [r \in Runs |-> run[r]] /\ \A r \in Runs : RunRow(run[r])
  /\ tab = [t \in Tabs |-> tab[t]] /\ \A t \in Tabs : Paged(tab[t])
  /\ sounded = [t \in Tabs |-> sounded[t]]
  /\ storedOn \in BOOLEAN /\ \A k \in stored : IsKey(k)

\* What the clock makes of a page at instant n: nothing it holds lies ahead by more than
\* a poll, and while it is awake it is not behind.
Clocked(p, n) ==
  /\ p.asked <= n /\ p.nextPoll <= n + Poll /\ p.since <= n /\ p.renewed <= n
  /\ ~p.active => p.timers = {}
  /\ p.awake /\ p.phone # "idle" => n <= p.asked + Latency
  /\ p.awake /\ p.active /\ p.phone = "idle" => n <= p.nextPoll \/ n <= p.since

Timely == \A t \in Tabs : Clocked(tab[t], now)

-----------------------------------------------------------------------------
\* What each step makes of the page it is about.

Page(awake, active, loaded, data, timers, fired, phone, asked, reply, nextPoll, since, renewed) ==
  [awake |-> awake, active |-> active, loaded |-> loaded, data |-> data, timers |-> timers,
   fired |-> fired, phone |-> phone, asked |-> asked, reply |-> reply, nextPoll |-> nextPoll,
   since |-> since, renewed |-> renewed]

OthersStay(t) == tab' = [x \in Tabs |-> tab'[x]] /\ \A x \in Tabs \ {t} : tab'[x] = tab[x]

\* A step that does no more than make tab t hold page q.
Makes(t, q) == OthersStay(t) /\ tab'[t] = q

\* And that page, field by field.
Whole(p) == p = Page(p.awake, p.active, p.loaded, p.data, p.timers, p.fired, p.phone, p.asked,
                     p.reply, p.nextPoll, p.since, p.renewed)

Made(t, awake, active, loaded, data, timers, fired, phone, asked, reply, nextPoll, since,
     renewed) ==
  LET q == tab'[t] IN
  /\ OthersStay(t) /\ Whole(q)
  /\ q.awake = awake /\ q.active = active /\ q.loaded = loaded /\ q.data = data
  /\ q.timers = timers /\ q.fired = fired /\ q.phone = phone /\ q.asked = asked
  /\ q.reply = reply /\ q.nextPoll = nextPoll /\ q.since = since /\ q.renewed = renewed

LEMMA BecomeIs ==
  ASSUME Typed, NEW t \in Tabs, NEW q, Become(t, q)
  PROVE  Makes(t, q)
BY DEF Become, Typed, OthersStay, Makes, Made, Whole

LEMMA AskIs ==
  ASSUME Typed, NEW t \in Tabs, Ask(t), NEW p, p = tab[t]
  PROVE  /\ p.awake /\ p.active /\ p.phone = "idle" /\ now >= p.nextPoll
         /\ Made(t, p.awake, p.active, p.loaded, p.data, p.timers, p.fired, "asked", now,
                          p.reply, p.nextPoll, p.since, p.renewed)
<1>1. Paged(p)
  BY DEF Typed
<1>2. Makes(t, [p EXCEPT !.phone = "asked", !.asked = now])
  BY BecomeIs DEF Ask
<1>3. QED
  BY <1>1, <1>2 DEF Ask, Paged, Page, Makes, Made, Whole

LEMMA AnswerIs ==
  ASSUME Typed, NEW t \in Tabs, ServerAnswers(t), NEW p, p = tab[t]
  PROVE  /\ p.phone = "asked"
         /\ \E items \in Heads(DueAlarms(now + Skew)) :
              Made(t, p.awake, p.active, p.loaded, p.data, p.timers, p.fired, "answered",
                            p.asked, items \cup DueSteps(now + Skew), p.nextPoll, p.since,
                            p.renewed)
<1>1. Paged(p)
  BY DEF Typed
<1>2. PICK items \in Heads(DueAlarms(now + Skew)) :
        Become(t, [p EXCEPT !.phone = "answered", !.reply = items \cup DueSteps(now + Skew)])
  BY DEF ServerAnswers
<1>3. Makes(t, [p EXCEPT !.phone = "answered", !.reply = items \cup DueSteps(now + Skew)])
  BY <1>2, BecomeIs
<1>4. PICK reply : reply = items \cup DueSteps(now + Skew)
  OBVIOUS
<1>5. Made(t, p.awake, p.active, p.loaded, p.data, p.timers, p.fired, "answered", p.asked,
                    reply, p.nextPoll, p.since, p.renewed)
  BY <1>1, <1>3, <1>4 DEF Paged, Page, Makes, Made, Whole
<1>6. QED
  BY <1>4, <1>5 DEF ServerAnswers

LEMMA LoseIs ==
  ASSUME Typed, NEW t \in Tabs, Lose(t), NEW p, p = tab[t]
  PROVE  /\ p.awake /\ p.phone # "idle"
         /\ Made(t, p.awake, p.active, p.loaded, p.data, p.timers, p.fired, "idle", p.asked,
                          {}, now + Poll, now, p.renewed)
<1>1. Paged(p)
  BY DEF Typed
<1>2. Makes(t, [p EXCEPT !.phone = "idle", !.reply = {}, !.nextPoll = now + Poll, !.since = now])
  BY BecomeIs DEF Lose
<1>3. QED
  BY <1>1, <1>2 DEF Lose, Paged, Page, Makes, Made, Whole

\* The timers the arming effect leaves, over the data it gets.
Armed(p, data) == (p.timers \cap data) \cup {k \in data \ p.fired : k.at - now <= Lookahead}

LEMMA ReconcileIs ==
  ASSUME NEW p, NEW data, Whole(p)
  PROVE  Reconcile(p, data) = Page(p.awake, p.active, p.loaded, data, Armed(p, data), p.fired,
                                   p.phone, p.asked, p.reply, p.nextPoll, p.since, p.renewed)
<1>1. PICK armed : armed = Armed(p, data)
  OBVIOUS
<1>2. PICK q : q = [p EXCEPT !.data = data, !.timers = armed]
  OBVIOUS
<1>3. Reconcile(p, data) = q
  BY <1>1, <1>2 DEF Reconcile, Armed
<1>4. q = Page(p.awake, p.active, p.loaded, data, armed, p.fired, p.phone, p.asked, p.reply,
               p.nextPoll, p.since, p.renewed)
  BY <1>2 DEF Page, Whole
<1>5. QED
  BY <1>1, <1>3, <1>4

LEMMA DeliverIs ==
  ASSUME Typed, NEW t \in Tabs, Deliver(t), NEW p, p = tab[t]
  PROVE  /\ p.awake /\ p.phone = "answered" /\ Overdue(p) = {}
         /\ Made(t, p.awake, p.active, TRUE, p.reply,
                          IF p.active THEN Armed(p, p.reply) ELSE p.timers, p.fired, "idle",
                          p.asked, {}, now + Poll, IF p.loaded THEN p.since ELSE now, p.renewed)
<1>1. Paged(p)
  BY DEF Typed
<1>2. PICK s : s = IF p.loaded THEN p.since ELSE now
  OBVIOUS
<1>3. PICK n : n = now + Poll
  OBVIOUS
<1>4. PICK q : q = [p EXCEPT !.phone = "idle", !.reply = {}, !.nextPoll = n, !.loaded = TRUE,
                             !.since = s]
  OBVIOUS
<1>5. q = Page(p.awake, p.active, TRUE, p.data, p.timers, p.fired, "idle", p.asked, {}, n, s,
               p.renewed)
  BY <1>1, <1>4 DEF Paged, Page
<1>6. /\ Whole(q) /\ q.awake = p.awake /\ q.active = p.active /\ q.loaded = TRUE
      /\ q.timers = p.timers /\ q.fired = p.fired /\ q.phone = "idle" /\ q.asked = p.asked
      /\ q.reply = {} /\ q.nextPoll = n /\ q.since = s /\ q.renewed = p.renewed
  BY <1>5 DEF Whole, Page
<1>7. Become(t, IF p.active THEN Reconcile(q, p.reply) ELSE [q EXCEPT !.data = p.reply])
  BY <1>2, <1>3, <1>4 DEF Deliver
<1>8. p.awake /\ p.phone = "answered" /\ Overdue(p) = {}
  BY DEF Deliver
<1>9. CASE p.active
  <2>1. Makes(t, Reconcile(q, p.reply))
    BY <1>7, <1>9, BecomeIs
  <2>2. Armed(q, p.reply) = Armed(p, p.reply)
    BY <1>6 DEF Armed
  <2>3. Reconcile(q, p.reply) = Page(q.awake, q.active, q.loaded, p.reply, Armed(q, p.reply),
          q.fired, q.phone, q.asked, q.reply, q.nextPoll, q.since, q.renewed)
    <3>1. Whole(q)
      BY <1>6
    <3>2. QED
      BY ONLY <3>1, ReconcileIs
  <2>4. Reconcile(q, p.reply) = Page(p.awake, p.active, TRUE, p.reply, Armed(p, p.reply),
                                     p.fired, "idle", p.asked, {}, n, s, p.renewed)
    BY ONLY <1>6, <2>2, <2>3
  <2>5. Made(t, p.awake, p.active, TRUE, p.reply, Armed(p, p.reply), p.fired, "idle", p.asked, {},
             n, s, p.renewed)
    BY ONLY <2>1, <2>4 DEF Makes, Made, Page, Whole
  <2>6. QED
    BY <1>2, <1>3, <1>9, <1>8, <2>5
<1>10. CASE ~p.active
  <2>1. Makes(t, [q EXCEPT !.data = p.reply])
    BY <1>7, <1>10, BecomeIs
  <2>2. PICK w : w = [q EXCEPT !.data = p.reply]
    OBVIOUS
  <2>3. w = Page(q.awake, q.active, q.loaded, p.reply, q.timers, q.fired, q.phone, q.asked,
                 q.reply, q.nextPoll, q.since, q.renewed)
    BY ONLY <1>6, <2>2 DEF Page, Whole
  <2>4. w = Page(p.awake, p.active, TRUE, p.reply, p.timers, p.fired, "idle", p.asked, {}, n, s,
                 p.renewed)
    BY ONLY <1>6, <2>3
  <2>5. Made(t, p.awake, p.active, TRUE, p.reply, p.timers, p.fired, "idle", p.asked, {}, n, s,
             p.renewed)
    <3>1. Makes(t, w)
      BY ONLY <2>1, <2>2
    <3>2. QED
      BY ONLY <2>4, <3>1 DEF Makes, Made, Page, Whole
  <2>6. QED
    BY <1>2, <1>3, <1>10, <1>8, <2>5
<1>11. QED
  BY <1>9, <1>10

LEMMA FireIs ==
  ASSUME Typed, NEW t \in Tabs, NEW k, Fire(t, k), NEW p, p = tab[t]
  PROVE  /\ p.awake /\ k \in p.timers /\ k.at <= now
         /\ Made(t, p.awake, p.active, p.loaded, p.data, p.timers \ {k}, p.fired \cup {k},
                          p.phone, p.asked, p.reply, p.nextPoll, p.since, p.renewed)
<1>1. Paged(p)
  BY DEF Typed
<1>2. Makes(t, [p EXCEPT !.timers = @ \ {k}, !.fired = @ \cup {k}])
  BY BecomeIs DEF Fire
<1>3. PICK q : q = [p EXCEPT !.timers = @ \ {k}, !.fired = @ \cup {k}]
  OBVIOUS
<1>4. q = Page(p.awake, p.active, p.loaded, p.data, p.timers \ {k}, p.fired \cup {k},
               p.phone, p.asked, p.reply, p.nextPoll, p.since, p.renewed)
  BY <1>1, <1>3 DEF Paged, Page
<1>5. Makes(t, q)
  BY ONLY <1>2, <1>3
<1>6. Made(t, p.awake, p.active, p.loaded, p.data, p.timers \ {k}, p.fired \cup {k}, p.phone,
           p.asked, p.reply, p.nextPoll, p.since, p.renewed)
  BY ONLY <1>4, <1>5 DEF Makes, Made, Page, Whole
<1>7. QED
  BY <1>6 DEF Fire, Overdue

LEMMA SwitchOffIs ==
  ASSUME Typed, NEW t \in Tabs, SwitchOff(t), NEW p, p = tab[t]
  PROVE  /\ p.awake /\ p.active
         /\ Made(t, p.awake, FALSE, p.loaded, p.data, {}, p.fired, p.phone, p.asked,
                          p.reply, p.nextPoll, p.since, p.renewed)
<1>1. Paged(p)
  BY DEF Typed
<1>2. Makes(t, [p EXCEPT !.active = FALSE, !.timers = {}])
  BY BecomeIs DEF SwitchOff
<1>3. QED
  BY <1>1, <1>2 DEF SwitchOff, Paged, Page, Makes, Made, Whole

LEMMA SwitchOnIs ==
  ASSUME Typed, NEW t \in Tabs, SwitchOn(t), NEW p, p = tab[t]
  PROVE  /\ p.awake /\ ~p.active
         /\ Made(t, p.awake, TRUE, p.loaded, p.data, Armed(p, p.data), p.fired, p.phone,
                          p.asked, p.reply, now, now, p.renewed)
<1>1. Paged(p)
  BY DEF Typed
<1>2. PICK q : q = [p EXCEPT !.active = TRUE, !.nextPoll = now, !.since = now]
  OBVIOUS
<1>3. q = Page(p.awake, TRUE, p.loaded, p.data, p.timers, p.fired, p.phone, p.asked, p.reply,
               now, now, p.renewed)
  BY <1>1, <1>2 DEF Paged, Page
<1>4. /\ Whole(q) /\ q.awake = p.awake /\ q.active = TRUE /\ q.loaded = p.loaded
      /\ q.timers = p.timers /\ q.fired = p.fired /\ q.phone = p.phone /\ q.asked = p.asked
      /\ q.reply = p.reply /\ q.nextPoll = now /\ q.since = now /\ q.renewed = p.renewed
  BY <1>3 DEF Whole, Page
<1>5. Makes(t, Reconcile(q, p.data))
  BY <1>2, BecomeIs DEF SwitchOn
<1>6. Armed(q, p.data) = Armed(p, p.data)
  BY <1>4 DEF Armed
<1>7. Reconcile(q, p.data) = Page(p.awake, TRUE, p.loaded, p.data, Armed(p, p.data), p.fired,
                                  p.phone, p.asked, p.reply, now, now, p.renewed)
  <2>1. Reconcile(q, p.data) = Page(q.awake, q.active, q.loaded, p.data, Armed(q, p.data),
          q.fired, q.phone, q.asked, q.reply, q.nextPoll, q.since, q.renewed)
    <3>1. Whole(q)
      BY <1>4
    <3>2. QED
      BY ONLY <3>1, ReconcileIs
  <2>2. q.awake = p.awake
    BY <1>4
  <2>3. QED
    BY ONLY <1>4, <1>6, <2>1, <2>2
<1>8. Made(t, p.awake, TRUE, p.loaded, p.data, Armed(p, p.data), p.fired, p.phone, p.asked,
           p.reply, now, now, p.renewed)
  BY ONLY <1>5, <1>7 DEF Makes, Made, Page, Whole
<1>9. QED
  BY <1>8 DEF SwitchOn

LEMMA ReloadIs ==
  ASSUME Typed, NEW t \in Tabs, Reload(t)
  PROVE  /\ "reload" \in Events
         /\ Made(t, TRUE, storedOn, FALSE, {}, {}, stored, "idle", 0, {}, now, now, now)
BY BecomeIs DEF Reload, Loading, Page, Makes, Made, Whole

LEMMA SleepIs ==
  ASSUME Typed, NEW t \in Tabs, Sleep(t), NEW p, p = tab[t]
  PROVE  Made(t, FALSE, p.active, p.loaded, p.data, p.timers, p.fired, p.phone, p.asked,
                       p.reply, p.nextPoll, p.since, p.renewed)
<1>1. Paged(p)
  BY DEF Typed
<1>2. Makes(t, [p EXCEPT !.awake = FALSE])
  BY BecomeIs DEF Sleep
<1>3. QED
  BY <1>1, <1>2 DEF Paged, Page, Makes, Made, Whole

LEMMA WakeIs ==
  ASSUME Typed, NEW t \in Tabs, Wake(t), NEW p, p = tab[t]
  PROVE  Made(t, TRUE, p.active, p.loaded, p.data, p.timers, p.fired, p.phone, now,
                       p.reply, p.nextPoll, now, p.renewed)
<1>1. Paged(p)
  BY DEF Typed
<1>2. Makes(t, [p EXCEPT !.awake = TRUE, !.since = now, !.asked = now])
  BY BecomeIs DEF Wake
<1>3. QED
  BY <1>1, <1>2 DEF Paged, Page, Makes, Made, Whole

\* After an invalidation a tab holds what it held, or a poll is on its way anew.
Polls(p) == Page(p.awake, p.active, p.loaded, p.data, p.timers, p.fired, "asked", now, {},
                 p.nextPoll, p.since, IF p.phone = "idle" THEN p.renewed ELSE now)

LEMMA InvalidateIs ==
  ASSUME Typed, NEW where, Invalidate(where)
  PROVE  /\ tab' = [t \in Tabs |-> tab'[t]]
         /\ \A t \in Tabs : \/ tab'[t] = tab[t]
                            \/ /\ tab[t].active /\ ~First(tab[t]) /\ t = where
                               /\ tab'[t] = Polls(tab[t])
<1>1. tab' = [t \in Tabs |-> tab'[t]]
  BY DEF Invalidate
<1>2. SUFFICES ASSUME NEW t \in Tabs, tab'[t] # tab[t]
               PROVE  tab[t].active /\ ~First(tab[t]) /\ t = where /\ tab'[t] = Polls(tab[t])
  BY <1>1
<1>3. PICK p : p = tab[t]
  OBVIOUS
<1>4. Paged(p)
  BY <1>3 DEF Typed
<1>5. PICK rn : rn = IF p.phone = "idle" THEN p.renewed ELSE now
  OBVIOUS
<1>6. /\ t = where /\ p.active /\ ~First(p)
      /\ tab'[t] = [p EXCEPT !.phone = "asked", !.asked = now, !.reply = {}, !.renewed = rn]
  BY <1>2, <1>3, <1>5 DEF Invalidate
<1>7. PICK q : q = [p EXCEPT !.phone = "asked", !.asked = now, !.reply = {}, !.renewed = rn]
  OBVIOUS
<1>8. q = Page(p.awake, p.active, p.loaded, p.data, p.timers, p.fired, "asked", now, {},
               p.nextPoll, p.since, rn)
  BY <1>4, <1>7 DEF Paged, Page
<1>9. QED
  BY <1>3, <1>5, <1>6, <1>7, <1>8 DEF Polls

-----------------------------------------------------------------------------
\* The feed offers what lies ahead of the server's clock, and the steps of runs.

LEMMA DueIs ==
  ASSUME NEW at \in Int, NEW k \in DueAlarms(at)
  PROVE  /\ k \in AlarmKey /\ k.at \in at..(at + Horizon)
         /\ on[k.of] /\ k.at \in Schedule[k.of]
<1> USE NotificationsAssumption
<1>1. k \in [kind : {"alarm"}, of : Alarms, at : at..(at + Horizon)] /\ k.at \in Schedule[k.of]
  BY DEF DueAlarms
<1>2. k \in AlarmKey /\ k.at \in at..(at + Horizon)
  BY <1>1 DEF AlarmKey
<1>3. PICK a \in {b \in Alarms : on[b]}, u \in UNION {Schedule[b] : b \in Alarms} :
        k = [kind |-> "alarm", of |-> a, at |-> u]
  BY DEF DueAlarms
<1>4. QED
  BY <1>1, <1>2, <1>3

LEMMA HeadsAreDue ==
  ASSUME NEW due, NEW items \in Heads(due)
  PROVE  items \subseteq due
BY DEF Heads

LEMMA DueStepIs ==
  ASSUME NEW at, NEW k \in DueSteps(at)
  PROVE  k.kind = "step" /\ k.of \in Runs /\ run[k.of].state = "active"
<1>1. PICK r \in Runs :
        /\ run[r].state = "active"
        /\ k \in {[kind |-> "step", of |-> r, at |-> run[r].started + o.at] :
                    o \in Range(StepOccurrences(RunSpec,
                                  [from |-> at - GraceFrom - run[r].started,
                                   to   |-> at + Horizon - run[r].started],
                                  MaxStepOccurrences))}
  BY DEF DueSteps
<1>2. PICK i : k = [kind |-> "step", of |-> r, at |-> i]
  BY <1>1
<1>3. QED
  BY <1>1, <1>2

LEMMA FeedIs ==
  ASSUME NEW at \in Int, NEW items \in Heads(DueAlarms(at)), NEW k \in items \cup DueSteps(at)
  PROVE  /\ IsKey(k)
         /\ \/ k.kind = "step" /\ run[k.of].state = "active"
            \/ k.kind = "alarm" /\ k.at >= at /\ on[k.of]
<1>1. CASE k \in items
  <2>1. k \in DueAlarms(at)
    BY <1>1, HeadsAreDue
  <2>2. k \in AlarmKey /\ k.at \in at..(at + Horizon) /\ on[k.of]
    BY <2>1, DueIs
  <2>3. k.kind = "alarm" /\ k.at \in Nat
    BY <2>2 DEF AlarmKey
  <2>4. QED
    BY <2>2, <2>3, NotificationsAssumption DEF IsKey
<1>2. CASE k \in DueSteps(at)
  BY <1>2, DueStepIs DEF IsKey
<1>3. QED
  BY <1>1, <1>2

-----------------------------------------------------------------------------
\* What the state holds has its type, in every reachable state.

Keyed(S) == \A k \in S : IsKey(k)

LEMMA PageIs ==
  ASSUME NEW p, Whole(p), p.awake \in BOOLEAN, p.active \in BOOLEAN, p.loaded \in BOOLEAN,
         p.phone \in {"idle", "asked", "answered"},
         p.asked \in Nat, p.nextPoll \in Nat, p.since \in Nat, p.renewed \in Nat,
         Keyed(p.data), Keyed(p.timers), Keyed(p.fired), Keyed(p.reply)
  PROVE  Paged(p)
<1>1. \A k \in p.data \cup p.timers \cup p.fired \cup p.reply : IsKey(k)
  BY DEF Keyed
<1>2. QED
  BY <1>1 DEF Paged, Whole, Page

LEMMA PageOf ==
  ASSUME NEW p, Paged(p)
  PROVE  /\ p.awake \in BOOLEAN /\ p.active \in BOOLEAN /\ p.loaded \in BOOLEAN
         /\ p.phone \in {"idle", "asked", "answered"}
         /\ p.asked \in Nat /\ p.nextPoll \in Nat /\ p.since \in Nat /\ p.renewed \in Nat
         /\ Keyed(p.data) /\ Keyed(p.timers) /\ Keyed(p.fired) /\ Keyed(p.reply)
BY DEF Paged, Keyed

LEMMA ArmedIs ==
  ASSUME NEW p, NEW data, Keyed(p.timers), Keyed(data)
  PROVE  Keyed(Armed(p, data))
BY DEF Armed, Keyed

PagesTyped == tab = [t \in Tabs |-> tab[t]] /\ \A t \in Tabs : Paged(tab[t])

LEMMA PagesStay ==
  ASSUME Typed, NEW t \in Tabs, OthersStay(t), Paged(tab'[t])
  PROVE  PagesTyped'
BY DEF Typed, OthersStay, PagesTyped

LEMMA InvalidateTyped ==
  ASSUME Typed, NEW where, Invalidate(where)
  PROVE  PagesTyped'
<1>1. tab' = [t \in Tabs |-> tab'[t]]
  BY InvalidateIs
<1>2. ASSUME NEW t \in Tabs
      PROVE  Paged(tab'[t])
  <2>1. Paged(tab[t])
    BY DEF Typed
  <2>2. CASE tab'[t] = tab[t]
    BY <2>1, <2>2
  <2>3. CASE tab'[t] = Polls(tab[t])
    <3>1. PICK rn \in Nat : rn = IF tab[t].phone = "idle" THEN tab[t].renewed ELSE now
      BY <2>1, PageOf DEF Typed
    <3>2. PICK p : p = tab[t]
      OBVIOUS
    <3>3. PICK q : q = Page(p.awake, p.active, p.loaded, p.data, p.timers, p.fired, "asked", now,
                            {}, p.nextPoll, p.since, rn)
      OBVIOUS
    <3>4. /\ Whole(q) /\ q.awake = p.awake /\ q.active = p.active /\ q.loaded = p.loaded
          /\ q.data = p.data /\ q.timers = p.timers /\ q.fired = p.fired /\ q.phone = "asked"
          /\ q.asked = now /\ q.reply = {} /\ q.nextPoll = p.nextPoll /\ q.since = p.since
          /\ q.renewed = rn
      BY <3>3 DEF Page, Whole
    <3>5. Paged(q)
      <4>1. Keyed({}) /\ now \in Nat
        BY DEF Keyed, Typed
      <4>2. /\ p.awake \in BOOLEAN /\ p.active \in BOOLEAN /\ p.loaded \in BOOLEAN
            /\ p.nextPoll \in Nat /\ p.since \in Nat
            /\ Keyed(p.data) /\ Keyed(p.timers) /\ Keyed(p.fired)
        BY <2>1, <3>2, PageOf
      <4>3. QED
        BY <3>1, <3>4, <4>1, <4>2, PageIs
    <3>6. tab'[t] = q
      BY <2>3, <3>1, <3>2, <3>3 DEF Polls
    <3>7. QED
      BY <3>5, <3>6
  <2>4. QED
    BY <2>2, <2>3, InvalidateIs
<1>3. QED
  BY <1>1, <1>2 DEF PagesTyped

\* One step of the pages, as Next has it.
OnePage(t) ==
  \/ Ask(t) \/ ServerAnswers(t) \/ Lose(t) \/ Deliver(t)
  \/ \E k \in tab[t].timers : Fire(t, k)
  \/ SwitchOff(t) \/ SwitchOn(t) \/ Reload(t) \/ Sleep(t) \/ Wake(t)

LEMMA OnePageTyped ==
  ASSUME Typed, NEW t \in Tabs, OnePage(t)
  PROVE  PagesTyped'
<1> USE NotificationsAssumption
<1>1. PICK p : p = tab[t]
  OBVIOUS
<1>2. now \in Nat /\ now + Poll \in Nat /\ Paged(p)
  BY <1>1 DEF Typed
<1>3. /\ p.awake \in BOOLEAN /\ p.active \in BOOLEAN /\ p.loaded \in BOOLEAN
      /\ p.phone \in {"idle", "asked", "answered"}
      /\ p.asked \in Nat /\ p.nextPoll \in Nat /\ p.since \in Nat /\ p.renewed \in Nat
      /\ Keyed(p.data) /\ Keyed(p.timers) /\ Keyed(p.fired) /\ Keyed(p.reply)
  BY <1>2, PageOf
<1>4. Keyed({}) /\ Keyed(stored)
  BY DEF Keyed, Typed
<1> DEFINE q == tab'[t]
<1> SUFFICES OthersStay(t) /\ Paged(q)
  BY PagesStay
<1> HIDE DEF q
<1>5. CASE Ask(t)
  <2>1. Made(t, p.awake, p.active, p.loaded, p.data, p.timers, p.fired, "asked", now, p.reply,
             p.nextPoll, p.since, p.renewed)
    BY <1>1, <1>5, AskIs
  <2>2. QED
    BY <1>2, <1>3, <2>1, PageIs DEF Made, q
<1>6. CASE ServerAnswers(t)
  <2>1. PICK items \in Heads(DueAlarms(now + Skew)) :
          Made(t, p.awake, p.active, p.loaded, p.data, p.timers, p.fired, "answered", p.asked,
               items \cup DueSteps(now + Skew), p.nextPoll, p.since, p.renewed)
    BY <1>1, <1>6, AnswerIs
  <2>2. now + Skew \in Int
    BY <1>2
  <2>3. Keyed(items \cup DueSteps(now + Skew))
    BY <2>2, FeedIs DEF Keyed
  <2>4. QED
    BY <1>3, <2>1, <2>3, PageIs DEF Made, q
<1>7. CASE Lose(t)
  <2>1. Made(t, p.awake, p.active, p.loaded, p.data, p.timers, p.fired, "idle", p.asked, {},
             now + Poll, now, p.renewed)
    BY <1>1, <1>7, LoseIs
  <2>2. QED
    BY <1>2, <1>3, <1>4, <2>1, PageIs DEF Made, q
<1>8. CASE Deliver(t)
  <2>1. PICK timers : timers = IF p.active THEN Armed(p, p.reply) ELSE p.timers
    OBVIOUS
  <2>2. PICK s : s = IF p.loaded THEN p.since ELSE now
    OBVIOUS
  <2>3. Keyed(timers) /\ s \in Nat
    BY <1>2, <1>3, <2>1, <2>2, ArmedIs
  <2>4. Made(t, p.awake, p.active, TRUE, p.reply, timers, p.fired, "idle", p.asked, {},
             now + Poll, s, p.renewed)
    BY <1>1, <1>8, <2>1, <2>2, DeliverIs
  <2>5. QED
    BY <1>2, <1>3, <1>4, <2>3, <2>4, PageIs DEF Made, q
<1>9. ASSUME NEW k \in p.timers, Fire(t, k)
      PROVE  OthersStay(t) /\ Paged(q)
  <2>1. Made(t, p.awake, p.active, p.loaded, p.data, p.timers \ {k}, p.fired \cup {k}, p.phone,
             p.asked, p.reply, p.nextPoll, p.since, p.renewed)
    BY <1>1, <1>9, FireIs
  <2>2. Keyed(p.timers \ {k}) /\ Keyed(p.fired \cup {k})
    BY <1>3 DEF Keyed
  <2>3. QED
    BY <1>3, <2>1, <2>2, PageIs DEF Made, q
<1>10. CASE SwitchOff(t)
  <2>1. Made(t, p.awake, FALSE, p.loaded, p.data, {}, p.fired, p.phone, p.asked, p.reply,
             p.nextPoll, p.since, p.renewed)
    BY <1>1, <1>10, SwitchOffIs
  <2>2. QED
    BY <1>3, <1>4, <2>1, PageIs DEF Made, q
<1>11. CASE SwitchOn(t)
  <2>1. Made(t, p.awake, TRUE, p.loaded, p.data, Armed(p, p.data), p.fired, p.phone, p.asked,
             p.reply, now, now, p.renewed)
    BY <1>1, <1>11, SwitchOnIs
  <2>2. Keyed(Armed(p, p.data))
    BY <1>3, ArmedIs
  <2>3. QED
    BY <1>2, <1>3, <2>1, <2>2, PageIs DEF Made, q
<1>12. CASE Reload(t)
  <2>1. Made(t, TRUE, storedOn, FALSE, {}, {}, stored, "idle", 0, {}, now, now, now)
    BY <1>12, ReloadIs
  <2>2. storedOn \in BOOLEAN
    BY DEF Typed
  <2>3. /\ OthersStay(t) /\ Whole(q) /\ q.awake \in BOOLEAN /\ q.active \in BOOLEAN
        /\ q.loaded \in BOOLEAN /\ q.phone \in {"idle", "asked", "answered"}
    BY <2>1, <2>2 DEF Made, q
  <2>4. /\ q.asked \in Nat /\ q.nextPoll \in Nat /\ q.since \in Nat /\ q.renewed \in Nat
        /\ Keyed(q.data) /\ Keyed(q.timers) /\ Keyed(q.fired) /\ Keyed(q.reply)
    BY <1>2, <1>4, <2>1 DEF Made, q
  <2>5. QED
    BY <2>3, <2>4, PageIs
<1>13. CASE Sleep(t)
  <2>1. Made(t, FALSE, p.active, p.loaded, p.data, p.timers, p.fired, p.phone, p.asked, p.reply,
             p.nextPoll, p.since, p.renewed)
    BY <1>1, <1>13, SleepIs
  <2>2. QED
    BY <1>3, <2>1, PageIs DEF Made, q
<1>14. CASE Wake(t)
  <2>1. Made(t, TRUE, p.active, p.loaded, p.data, p.timers, p.fired, p.phone, now, p.reply,
             p.nextPoll, now, p.renewed)
    BY <1>1, <1>14, WakeIs
  <2>2. QED
    BY <1>2, <1>3, <2>1, PageIs DEF Made, q
<1>15. QED
  BY <1>1, <1>5, <1>6, <1>7, <1>8, <1>9, <1>10, <1>11, <1>12, <1>13, <1>14 DEF OnePage

\* A step of one tab leaves the clock, the alarms and what has been changed alone.
LEMMA OnePageRest ==
  ASSUME Typed, NEW t \in Tabs, OnePage(t)
  PROVE  /\ UNCHANGED <<now, on, changed>>
         /\ run' = run \/ ServerAnswers(t)
         /\ <<stored, sounded>>' = <<stored, sounded>> \/ \E k \in tab[t].timers : Fire(t, k)
<1>1. CASE Ask(t) \/ Lose(t) \/ Sleep(t) \/ Wake(t)
  BY <1>1 DEF Ask, Lose, Sleep, Wake
<1>2. CASE Reload(t)
  BY <1>2 DEF Reload
<1>3. CASE ServerAnswers(t)
  BY <1>3 DEF ServerAnswers
<1>4. CASE Deliver(t)
  BY <1>4 DEF Deliver
<1>5. CASE \E k \in tab[t].timers : Fire(t, k)
  BY <1>5 DEF Fire
<1>6. CASE SwitchOff(t)
  BY <1>6 DEF SwitchOff
<1>7. CASE SwitchOn(t)
  BY <1>7 DEF SwitchOn
<1>8. QED
  BY <1>1, <1>2, <1>3, <1>4, <1>5, <1>6, <1>7 DEF OnePage

LEMMA OnePageOthers ==
  ASSUME Typed, NEW t \in Tabs, OnePage(t)
  PROVE  OthersStay(t)
<1>1. PICK p : p = tab[t]
  OBVIOUS
<1>2. CASE Ask(t)
  BY <1>1, <1>2, AskIs DEF Made
<1>3. CASE ServerAnswers(t)
  BY <1>1, <1>3, AnswerIs DEF Made
<1>4. CASE Lose(t)
  BY <1>1, <1>4, LoseIs DEF Made
<1>5. CASE Deliver(t)
  BY <1>1, <1>5, DeliverIs DEF Made
<1>6. CASE \E k \in tab[t].timers : Fire(t, k)
  BY <1>1, <1>6, FireIs DEF Made
<1>7. CASE SwitchOff(t)
  BY <1>1, <1>7, SwitchOffIs DEF Made
<1>8. CASE SwitchOn(t)
  BY <1>1, <1>8, SwitchOnIs DEF Made
<1>9. CASE Reload(t)
  BY <1>9, ReloadIs DEF Made
<1>10. CASE Sleep(t)
  BY <1>1, <1>10, SleepIs DEF Made
<1>11. CASE Wake(t)
  BY <1>1, <1>11, WakeIs DEF Made
<1>12. QED
  BY <1>2, <1>3, <1>4, <1>5, <1>6, <1>7, <1>8, <1>9, <1>10, <1>11 DEF OnePage

\* An answer closes the runs that are over, and changes no other.
LEMMA AnswerRuns ==
  ASSUME Typed, NEW t \in Tabs, ServerAnswers(t)
  PROVE  /\ run' = [r \in Runs |-> run'[r]]
         /\ \A r \in Runs : /\ RunRow(run'[r])
                            /\ run[r].state # "active" => run'[r] = run[r]
                            /\ run'[r] # run[r] => run'[r].state = "completed"
<1>1. run' = [r \in Runs |-> run'[r]]
  BY DEF ServerAnswers
<1>2. ASSUME NEW r \in Runs
      PROVE  /\ RunRow(run'[r])
             /\ run[r].state # "active" => run'[r] = run[r]
             /\ run'[r] # run[r] => run'[r].state = "completed"
  <2>1. PICK w : w = run[r]
    OBVIOUS
  <2>2. RunRow(w)
    BY <2>1 DEF Typed
  <2>3. PICK v : v = [w EXCEPT !.state = "completed"]
    OBVIOUS
  <2>4. RunRow(v) /\ v.state = "completed"
    BY <2>2, <2>3 DEF RunRow
  <2>5. \/ run'[r] = w
        \/ w.state = "active" /\ run'[r] = v
    BY <2>1, <2>3 DEF ServerAnswers
  <2>6. QED
    BY <2>1, <2>2, <2>4, <2>5
<1>3. QED
  BY <1>1, <1>2

LEMMA KeptIs ==
  ASSUME NEW fired, Keyed(fired)
  PROVE  Keyed(Kept(fired))
BY DEF Kept, Keyed

\* One change, made in a tab or elsewhere.
Change(where) ==
  \/ \E a \in Alarms : Turn(a, where)
  \/ \E r \in Runs : Activate(r, where) \/ Stop(r, where)

LEMMA StepIs ==
  ASSUME [Next]_vars
  PROVE  \/ UNCHANGED vars
         \/ Tick
         \/ \E t \in Tabs : OnePage(t)
         \/ \E where \in Tabs \cup {Elsewhere} : Change(where)
BY DEF Next, OutOfTime, OnePage, Change

LEMMA ChangeRest ==
  ASSUME Typed, NEW where, Change(where)
  PROVE  Invalidate(where) /\ UNCHANGED <<now, stored, storedOn, sounded, repeated>>
BY DEF Change, Turn, Activate, Stop

\* Switching an alarm and stopping a run are noted; nothing else is.
LEMMA ChangeRows ==
  ASSUME Typed, NEW where, Change(where)
  PROVE  /\ on' \in [Alarms -> BOOLEAN]
         /\ changed' \in [Alarms \cup Runs -> Nat]
         /\ \A x \in Alarms \cup Runs : changed'[x] = changed[x] \/ changed'[x] = now
         /\ \A a \in Alarms : on'[a] = on[a] \/ changed'[a] = now
         /\ run' = [r \in Runs |-> run'[r]]
         /\ \A r \in Runs : /\ RunRow(run'[r])
                            /\ \/ run'[r] = run[r]
                               \/ run'[r].state = "active"
                               \/ run'[r].state = "stopped" /\ changed'[r] = now
<1>0. now \in Nat /\ on \in [Alarms -> BOOLEAN] /\ changed \in [Alarms \cup Runs -> Nat]
  BY DEF Typed
<1>1. ASSUME NEW a \in Alarms, Turn(a, where)
      PROVE  /\ on' \in [Alarms -> BOOLEAN]
             /\ changed' \in [Alarms \cup Runs -> Nat]
             /\ \A x \in Alarms \cup Runs : changed'[x] = changed[x] \/ changed'[x] = now
             /\ \A b \in Alarms : on'[b] = on[b] \/ changed'[b] = now
             /\ run' = run
  <2>1. on' = [on EXCEPT ![a] = ~on[a]] /\ changed' = [changed EXCEPT ![a] = now] /\ run' = run
    BY <1>1 DEF Turn
  <2>2. QED
    BY <1>0, <2>1
<1>2. ASSUME NEW r \in Runs, Stop(r, where)
      PROVE  /\ on' = on
             /\ changed' \in [Alarms \cup Runs -> Nat]
             /\ \A x \in Alarms \cup Runs : changed'[x] = changed[x] \/ changed'[x] = now
             /\ changed'[r] = now
             /\ run' = [run EXCEPT ![r].state = "stopped"]
  <2>1. on' = on /\ changed' = [changed EXCEPT ![r] = now]
        /\ run' = [run EXCEPT ![r].state = "stopped"]
    BY <1>2 DEF Stop
  <2>2. QED
    BY <1>0, <2>1
<1>3. ASSUME NEW r \in Runs, Activate(r, where)
      PROVE  /\ on' = on /\ changed' = changed
             /\ run' = [run EXCEPT ![r] = [state |-> "active", started |-> now + Skew,
                                           by |-> where]]
  BY <1>3 DEF Activate
<1>4. run = [r \in Runs |-> run[r]] /\ \A r \in Runs : RunRow(run[r])
  BY DEF Typed
<1>5. ASSUME NEW r \in Runs, Stop(r, where)
      PROVE  /\ run' = [q \in Runs |-> run'[q]] /\ \A q \in Runs \ {r} : run'[q] = run[q]
             /\ RunRow(run'[r]) /\ run'[r].state = "stopped"
  <2>1. PICK w : w = run[r]
    OBVIOUS
  <2>2. PICK v : v = [w EXCEPT !.state = "stopped"]
    OBVIOUS
  <2>3. RunRow(v) /\ v.state = "stopped"
    BY <1>4, <2>1, <2>2 DEF RunRow
  <2>4. run' = [run EXCEPT ![r] = v]
    BY <1>2, <1>5, <2>1, <2>2
  <2>5. QED
    BY <1>4, <2>3, <2>4
<1>6. ASSUME NEW r \in Runs, Activate(r, where)
      PROVE  /\ run' = [q \in Runs |-> run'[q]] /\ \A q \in Runs \ {r} : run'[q] = run[q]
             /\ RunRow(run'[r]) /\ run'[r].state = "active"
  <2>1. PICK v : v = [state |-> "active", started |-> now + Skew, by |-> where]
    OBVIOUS
  <2>2. RunRow(v) /\ v.state = "active"
    BY <2>1 DEF RunRow
  <2>3. run' = [run EXCEPT ![r] = v]
    BY <1>3, <1>6, <2>1
  <2>4. QED
    BY <1>4, <2>2, <2>3
<1>7. CASE \E a \in Alarms : Turn(a, where)
  BY <1>1, <1>4, <1>7
<1>8. CASE \E r \in Runs : Stop(r, where)
  BY <1>0, <1>2, <1>4, <1>5, <1>8
<1>9. CASE \E r \in Runs : Activate(r, where)
  BY <1>0, <1>3, <1>4, <1>6, <1>9
<1>10. QED
  BY <1>7, <1>8, <1>9 DEF Change

LEMMA StayTyped ==
  ASSUME Typed, UNCHANGED vars
  PROVE  Typed'
<1>1. UNCHANGED <<now, on, changed, run, tab, stored, storedOn, sounded>>
  BY DEF vars
<1>2. QED
  BY <1>1 DEF Typed

LEMMA TickTyped ==
  ASSUME Typed, Tick
  PROVE  Typed'
<1>1. now' = now + 1 /\ UNCHANGED <<on, changed, run, tab, stored, storedOn, sounded>>
  BY DEF Tick
<1>2. now' \in Nat /\ \A x \in Alarms \cup Runs : changed'[x] <= now'
  BY <1>1 DEF Typed
<1>3. QED
  BY <1>1, <1>2 DEF Typed

LEMMA OnePageKeepsTyped ==
  ASSUME Typed, NEW t \in Tabs, OnePage(t)
  PROVE  Typed'
<1>1. PagesTyped'
  BY OnePageTyped
<1>2. UNCHANGED <<now, on, changed>>
  BY OnePageRest
<1>3. run' = [r \in Runs |-> run'[r]] /\ \A r \in Runs : RunRow(run'[r])
  <2>1. CASE run' = run
    BY <2>1 DEF Typed
  <2>2. CASE ServerAnswers(t)
    BY <2>2, AnswerRuns
  <2>3. QED
    BY <2>1, <2>2, OnePageRest
<1>4. sounded' = [x \in Tabs |-> sounded'[x]] /\ \A k \in stored' : IsKey(k)
  <2>1. CASE <<stored, sounded>>' = <<stored, sounded>>
    BY <2>1 DEF Typed
  <2>2. ASSUME NEW k \in tab[t].timers, Fire(t, k)
        PROVE  sounded' = [x \in Tabs |-> sounded'[x]] /\ \A l \in stored' : IsKey(l)
    <3>1. CASE k \in tab[t].fired
      BY <2>2, <3>1 DEF Fire, Typed
    <3>2. CASE k \notin tab[t].fired
      <4>1. /\ stored' = Kept(tab[t].fired \cup {k})
            /\ sounded' = [sounded EXCEPT ![t] = @ \cup {k}]
        BY <2>2, <3>2 DEF Fire
      <4>2. Paged(tab[t])
        BY DEF Typed
      <4>3. Keyed(tab[t].fired \cup {k})
        BY <4>2 DEF Paged, Keyed
      <4>4. Keyed(stored')
        BY <4>1, <4>3, KeptIs
      <4>5. QED
        BY <4>1, <4>4 DEF Typed, Keyed
    <3>3. QED
      BY <3>1, <3>2
  <2>3. QED
    BY <2>1, <2>2, OnePageRest
<1>5. storedOn' \in BOOLEAN
  <2>1. storedOn' = storedOn \/ storedOn' = TRUE \/ storedOn' = FALSE
    BY DEF OnePage, Ask, ServerAnswers, Lose, Deliver, Fire, SwitchOff, SwitchOn, Reload, Sleep,
           Wake
  <2>2. QED
    BY <2>1 DEF Typed
<1>6. QED
  BY <1>1, <1>2, <1>3, <1>4, <1>5 DEF Typed, PagesTyped

LEMMA ChangeKeepsTyped ==
  ASSUME Typed, NEW where, Change(where)
  PROVE  Typed'
<1>1. Invalidate(where) /\ UNCHANGED <<now, stored, storedOn, sounded, repeated>>
  BY ChangeRest
<1>2. PagesTyped'
  BY <1>1, InvalidateTyped
<1>3. /\ now' \in Nat /\ sounded' = [x \in Tabs |-> sounded'[x]]
      /\ storedOn' \in BOOLEAN /\ \A k \in stored' : IsKey(k)
  BY <1>1 DEF Typed
<1>4. \A x \in Alarms \cup Runs : changed'[x] <= now'
  BY <1>1, ChangeRows DEF Typed
<1>5. QED
  BY <1>2, <1>3, <1>4, ChangeRows DEF Typed, PagesTyped

LEMMA TypedHolds ==
  ASSUME Typed, [Next]_vars
  PROVE  Typed'
BY StepIs, StayTyped, TickTyped, OnePageKeepsTyped, ChangeKeepsTyped

-----------------------------------------------------------------------------
\* The clock and the pages.

LEMMA TimelyStep ==
  ASSUME Typed, Timely, NEW t \in Tabs, OnePage(t)
  PROVE  Clocked(tab'[t], now)
<1>1. PICK p : p = tab[t]
  OBVIOUS
<1>2. now \in Nat /\ Poll \in Nat /\ Latency \in Nat /\ Paged(p) /\ Clocked(p, now)
  BY <1>1, NotificationsAssumption DEF Typed, Timely
<1>3. /\ p.awake \in BOOLEAN /\ p.active \in BOOLEAN
      /\ p.phone \in {"idle", "asked", "answered"}
      /\ p.asked \in Nat /\ p.nextPoll \in Nat /\ p.since \in Nat /\ p.renewed \in Nat
  BY <1>2, PageOf
<1> DEFINE q == tab'[t]
<1> SUFFICES Clocked(q, now)
  OBVIOUS
<1> HIDE DEF q
<1>4. CASE Ask(t)
  <2>1. Made(t, p.awake, p.active, p.loaded, p.data, p.timers, p.fired, "asked", now,
             p.reply, p.nextPoll, p.since, p.renewed)
    BY <1>1, <1>4, AskIs
  <2>2. QED
    BY <1>2, <1>3, <2>1 DEF Made, Clocked, q
<1>5. CASE ServerAnswers(t)
  <2>1. p.phone = "asked"
    BY <1>1, <1>5, AnswerIs
  <2>2. PICK reply :
          Made(t, p.awake, p.active, p.loaded, p.data, p.timers, p.fired, "answered",
               p.asked, reply, p.nextPoll, p.since, p.renewed)
    BY <1>1, <1>5, AnswerIs
  <2>3. QED
    BY <1>2, <1>3, <2>1, <2>2 DEF Made, Clocked, q
<1>6. CASE Lose(t)
  <2>1. Made(t, p.awake, p.active, p.loaded, p.data, p.timers, p.fired, "idle", p.asked, {},
             now + Poll, now, p.renewed)
    BY <1>1, <1>6, LoseIs
  <2>2. QED
    BY <1>2, <1>3, <2>1 DEF Made, Clocked, q
<1>7. CASE Deliver(t)
  <2>1. PICK timers : timers = IF p.active THEN Armed(p, p.reply) ELSE p.timers
    OBVIOUS
  <2>2. PICK s : s = IF p.loaded THEN p.since ELSE now
    OBVIOUS
  <2>3. Made(t, p.awake, p.active, TRUE, p.reply, timers, p.fired, "idle", p.asked, {}, now
             + Poll, s, p.renewed)
    BY <1>1, <1>7, <2>1, <2>2, DeliverIs
  <2>4. s \in Nat /\ s <= now /\ (~p.active => timers = {})
    BY <1>2, <1>3, <2>1, <2>2 DEF Clocked
  <2>5. QED
    BY <1>2, <1>3, <2>3, <2>4 DEF Made, Clocked, q
<1>8. ASSUME NEW k \in p.timers, Fire(t, k)
      PROVE  Clocked(q, now)
  <2>1. PICK timers : timers = p.timers \ {k}
    OBVIOUS
  <2>2. PICK fired : fired = p.fired \cup {k}
    OBVIOUS
  <2>3. Made(t, p.awake, p.active, p.loaded, p.data, timers, fired, p.phone, p.asked,
             p.reply, p.nextPoll, p.since, p.renewed)
    BY <1>1, <1>8, <2>1, <2>2, FireIs
  <2>4. p.active
    BY <1>2, <1>3, <1>8 DEF Clocked
  <2>5. QED
    BY <1>2, <1>3, <2>3, <2>4 DEF Made, Clocked, q
<1>9. CASE SwitchOff(t)
  <2>1. Made(t, p.awake, FALSE, p.loaded, p.data, {}, p.fired, p.phone, p.asked, p.reply,
             p.nextPoll, p.since, p.renewed)
    BY <1>1, <1>9, SwitchOffIs
  <2>2. QED
    BY <1>2, <1>3, <2>1 DEF Made, Clocked, q
<1>10. CASE SwitchOn(t)
  <2>1. PICK timers : timers = Armed(p, p.data)
    OBVIOUS
  <2>2. Made(t, p.awake, TRUE, p.loaded, p.data, timers, p.fired, p.phone, p.asked, p.reply,
             now, now, p.renewed)
    BY <1>1, <1>10, <2>1, SwitchOnIs
  <2>3. QED
    BY <1>2, <1>3, <2>2 DEF Made, Clocked, q
<1>11. CASE Reload(t)
  <2>1. storedOn \in BOOLEAN
    BY DEF Typed
  <2>2. Made(t, TRUE, storedOn, FALSE, {}, {}, stored, "idle", 0, {}, now, now, now)
    BY <1>11, ReloadIs
  <2>3. QED
    BY <1>2, <2>1, <2>2 DEF Made, Clocked, q
<1>12. CASE Sleep(t)
  <2>1. Made(t, FALSE, p.active, p.loaded, p.data, p.timers, p.fired, p.phone, p.asked,
             p.reply, p.nextPoll, p.since, p.renewed)
    BY <1>1, <1>12, SleepIs
  <2>2. QED
    BY <1>2, <1>3, <2>1 DEF Made, Clocked, q
<1>13. CASE Wake(t)
  <2>1. Made(t, TRUE, p.active, p.loaded, p.data, p.timers, p.fired, p.phone, now, p.reply,
             p.nextPoll, now, p.renewed)
    BY <1>1, <1>13, WakeIs
  <2>2. QED
    BY <1>2, <1>3, <2>1 DEF Made, Clocked, q
<1>14. QED
  BY <1>1, <1>4, <1>5, <1>6, <1>7, <1>8, <1>9, <1>10, <1>11, <1>12, <1>13 DEF OnePage

LEMMA ChangeKeepsTimely ==
  ASSUME Typed, Timely, NEW where, Change(where)
  PROVE  Timely'
<1>1. now' = now /\ Invalidate(where)
  BY ChangeRest
<1>2. ASSUME NEW t \in Tabs
      PROVE  Clocked(tab'[t], now)
  <2>1. PICK p : p = tab[t]
    OBVIOUS
  <2>2. now \in Nat /\ Poll \in Nat /\ Latency \in Nat /\ Clocked(p, now) /\ Paged(p)
    BY <2>1, NotificationsAssumption DEF Typed, Timely
  <2>3. /\ p.asked \in Nat /\ p.nextPoll \in Nat /\ p.since \in Nat /\ p.renewed \in Nat
    BY <2>2, PageOf
  <2>4. CASE tab'[t] = p
    BY <2>2, <2>4
  <2>5. CASE tab'[t] = Polls(p)
    BY <2>2, <2>3, <2>5 DEF Polls, Page, Clocked
  <2>6. QED
    BY <1>1, <2>1, <2>4, <2>5, InvalidateIs
<1>3. QED
  BY <1>1, <1>2 DEF Timely

LEMMA TimelyHolds ==
  ASSUME Typed, Timely, [Next]_vars
  PROVE  Timely'
<1> USE NotificationsAssumption
<1>1. CASE UNCHANGED vars
  BY <1>1 DEF vars, Timely
<1>2. CASE Tick
  <2>1. now' = now + 1 /\ tab' = tab /\ \A t \in Tabs : Settled(tab[t])
    BY <1>2 DEF Tick
  <2>2. ASSUME NEW t \in Tabs
        PROVE  Clocked(tab[t], now + 1)
    <3>1. PICK p : p = tab[t]
      OBVIOUS
    <3>2. now \in Nat /\ Poll \in Nat /\ Latency \in Nat /\ Clocked(p, now) /\ Settled(p)
      BY <2>1, <3>1 DEF Typed, Timely
    <3>3. Paged(p)
      BY <3>1 DEF Typed
    <3>4. /\ p.asked \in Nat /\ p.nextPoll \in Nat /\ p.since \in Nat /\ p.renewed \in Nat
      BY <3>3, PageOf
    <3>5. Clocked(p, now + 1)
      BY <3>2, <3>4 DEF Clocked, Settled
    <3>6. QED
      BY <3>1, <3>5
  <2>3. QED
    BY <2>1, <2>2 DEF Timely
<1>3. ASSUME NEW t \in Tabs, OnePage(t)
      PROVE  Timely'
  <2>1. now' = now /\ Clocked(tab'[t], now)
    BY <1>3, OnePageRest, TimelyStep
  <2>2. \A x \in Tabs \ {t} : tab'[x] = tab[x]
    BY <1>3, OnePageOthers DEF OthersStay
  <2>3. QED
    BY <2>1, <2>2 DEF Timely
<1>4. ASSUME NEW where \in Tabs \cup {Elsewhere}, Change(where)
      PROVE  Timely'
  BY <1>4, ChangeKeepsTimely
<1>5. QED
  BY <1>1, <1>2, <1>3, <1>4, StepIs

LEMMA Starts ==
  ASSUME Init
  PROVE  Typed /\ Timely
<1> USE NotificationsAssumption
<1>1. PICK p : p = Page(TRUE, TRUE, FALSE, {}, {}, {}, "idle", 0, {}, 0, 0, 0)
  OBVIOUS
<1>2. now = 0 /\ tab = [t \in Tabs |-> p]
  BY <1>1 DEF Init, Loading, Page
<1>3. /\ Whole(p) /\ p.awake = TRUE /\ p.active = TRUE /\ p.loaded = FALSE /\ p.data = {}
      /\ p.timers = {} /\ p.fired = {} /\ p.phone = "idle" /\ p.asked = 0
      /\ p.reply = {} /\ p.nextPoll = 0 /\ p.since = 0 /\ p.renewed = 0
  BY <1>1 DEF Whole, Page
<1>4. Keyed({})
  BY DEF Keyed
<1>5. Paged(p)
  <2>1. /\ p.awake \in BOOLEAN /\ p.active \in BOOLEAN /\ p.loaded \in BOOLEAN
        /\ p.phone \in {"idle", "asked", "answered"}
    BY <1>3
  <2>2. /\ p.asked \in Nat /\ p.nextPoll \in Nat /\ p.since \in Nat /\ p.renewed \in Nat
        /\ Keyed(p.data) /\ Keyed(p.timers) /\ Keyed(p.fired) /\ Keyed(p.reply)
    BY <1>3, <1>4
  <2>3. QED
    BY <1>3, <2>1, <2>2, PageIs
<1>6. Clocked(p, 0)
  BY <1>3 DEF Clocked
<1>7. PagesTyped /\ Timely
  BY <1>2, <1>5, <1>6 DEF PagesTyped, Timely
<1>8. run = [r \in Runs |-> run[r]] /\ \A r \in Runs : RunRow(run[r])
  BY DEF Init, RunRow
<1>9. /\ now \in Nat /\ on \in [Alarms -> BOOLEAN] /\ changed \in [Alarms \cup Runs -> Nat]
      /\ \A x \in Alarms \cup Runs : changed[x] <= now
      /\ sounded = [t \in Tabs |-> sounded[t]] /\ storedOn \in BOOLEAN
      /\ \A k \in stored : IsKey(k)
  BY DEF Init
<1>10. QED
  BY <1>7, <1>8, <1>9 DEF Typed, PagesTyped

\* Every page keeps its type, and keeps time: one that is awake is answered within
\* Latency and asks within Poll of its last answer (useAlarmNotifications.ts:128-135).
THEOREM PagesKeepTime == Spec => [](Typed /\ Timely)
<1>1. Typed /\ Timely /\ [Next]_vars => (Typed /\ Timely)'
  BY TypedHolds, TimelyHolds
<1>2. QED
  BY <1>1, Starts, PTL DEF Spec

-----------------------------------------------------------------------------
\* No occurrence sounds twice.  A tab may have forgotten what it has sounded only of alarms
\* longer ago than anything is kept, and those nobody offers it any more; and what is lost
\* from localStorage, where no other tab writes, is so too.

Past(k, n) == k \in AlarmKey /\ k.at < n - Retention

Gone(p, heard, n) ==
  \A k \in heard \ p.fired : Past(k, n) /\ k \notin p.data /\ k \notin p.timers /\ k \notin p.reply

Remembered == \A t \in Tabs : Gone(tab[t], sounded[t], now)

Saved == "reload" \in Events => \A t \in Tabs : \A k \in sounded[t] \ stored : Past(k, now)

\* One tab has the origin's storage to itself, or no page is ever loaded anew.
Undisturbed == (\A s, t \in Tabs : s = t) \/ "reload" \notin Events

\* The server's clock is not behind by more than what has fired is remembered.
Recent == Retention + Skew >= 0

LEMMA GoneStep ==
  ASSUME Typed, Remembered, Saved, Recent, NEW t \in Tabs, OnePage(t),
         ~(\E k \in tab[t].timers : Fire(t, k))
  PROVE  Gone(tab'[t], sounded[t], now)
<1>1. PICK p : p = tab[t]
  OBVIOUS
<1>2. Gone(p, sounded[t], now) /\ now \in Nat
  BY <1>1 DEF Remembered, Typed
<1> DEFINE q == tab'[t]
<1> SUFFICES Gone(q, sounded[t], now)
  OBVIOUS
<1> HIDE DEF q
<1>3. CASE Ask(t)
  <2>1. Made(t, p.awake, p.active, p.loaded, p.data, p.timers, p.fired, "asked", now,
             p.reply, p.nextPoll, p.since, p.renewed)
    BY <1>1, <1>3, AskIs
  <2>2. QED
    BY <1>2, <2>1 DEF Made, Gone, q
<1>4. CASE Lose(t)
  <2>1. Made(t, p.awake, p.active, p.loaded, p.data, p.timers, p.fired, "idle", p.asked, {},
             now + Poll, now, p.renewed)
    BY <1>1, <1>4, LoseIs
  <2>2. QED
    BY <1>2, <2>1 DEF Made, Gone, q
<1>5. CASE SwitchOff(t)
  <2>1. Made(t, p.awake, FALSE, p.loaded, p.data, {}, p.fired, p.phone, p.asked, p.reply,
             p.nextPoll, p.since, p.renewed)
    BY <1>1, <1>5, SwitchOffIs
  <2>2. QED
    BY <1>2, <2>1 DEF Made, Gone, q
<1>6. CASE Sleep(t)
  <2>1. Made(t, FALSE, p.active, p.loaded, p.data, p.timers, p.fired, p.phone, p.asked,
             p.reply, p.nextPoll, p.since, p.renewed)
    BY <1>1, <1>6, SleepIs
  <2>2. QED
    BY <1>2, <2>1 DEF Made, Gone, q
<1>7. CASE Wake(t)
  <2>1. Made(t, TRUE, p.active, p.loaded, p.data, p.timers, p.fired, p.phone, now, p.reply,
             p.nextPoll, now, p.renewed)
    BY <1>1, <1>7, WakeIs
  <2>2. QED
    BY <1>2, <2>1 DEF Made, Gone, q
<1>8. CASE ServerAnswers(t)
  <2>1. PICK items \in Heads(DueAlarms(now + Skew)) :
          Made(t, p.awake, p.active, p.loaded, p.data, p.timers, p.fired, "answered",
               p.asked, items \cup DueSteps(now + Skew), p.nextPoll, p.since, p.renewed)
    BY <1>1, <1>8, AnswerIs
  <2>2. now + Skew \in Int /\ now + Skew >= now - Retention /\ Retention \in Nat
    BY <1>2, NotificationsAssumption DEF Recent
  <2>3. ASSUME NEW k \in items \cup DueSteps(now + Skew)
        PROVE  ~Past(k, now)
    <3>1. k.kind = "step" \/ k.at >= now + Skew
      BY <2>2, <2>3, FeedIs
    <3>2. QED
      BY <1>2, <2>2, <3>1 DEF Past, AlarmKey
  <2>4. QED
    BY <1>2, <2>1, <2>3 DEF Made, Gone, q
<1>9. CASE Deliver(t)
  <2>1. PICK timers : timers = IF p.active THEN Armed(p, p.reply) ELSE p.timers
    OBVIOUS
  <2>2. PICK s : s = IF p.loaded THEN p.since ELSE now
    OBVIOUS
  <2>3. Made(t, p.awake, p.active, TRUE, p.reply, timers, p.fired, "idle", p.asked, {}, now
             + Poll, s, p.renewed)
    BY <1>1, <1>9, <2>1, <2>2, DeliverIs
  <2>4. timers \subseteq p.timers \cup p.reply
    BY <2>1 DEF Armed
  <2>5. QED
    BY <1>2, <2>3, <2>4 DEF Made, Gone, q
<1>10. CASE SwitchOn(t)
  <2>1. PICK timers : timers = Armed(p, p.data)
    OBVIOUS
  <2>2. Made(t, p.awake, TRUE, p.loaded, p.data, timers, p.fired, p.phone, p.asked, p.reply,
             now, now, p.renewed)
    BY <1>1, <1>10, <2>1, SwitchOnIs
  <2>3. timers \subseteq p.timers \cup p.data
    BY <2>1 DEF Armed
  <2>4. QED
    BY <1>2, <2>2, <2>3 DEF Made, Gone, q
<1>11. CASE Reload(t)
  <2>1. /\ "reload" \in Events
        /\ Made(t, TRUE, storedOn, FALSE, {}, {}, stored, "idle", 0, {}, now, now, now)
    BY <1>11, ReloadIs
  <2>2. \A k \in sounded[t] \ stored : Past(k, now)
    BY <2>1 DEF Saved
  <2>3. QED
    BY <2>1, <2>2 DEF Made, Gone, q
<1>12. QED
  BY <1>3, <1>4, <1>5, <1>6, <1>7, <1>8, <1>9, <1>10, <1>11 DEF OnePage

LEMMA FireRemembers ==
  ASSUME Typed, Remembered, Saved, Undisturbed, repeated = {},
         NEW t \in Tabs, NEW k \in tab[t].timers, Fire(t, k)
  PROVE  Remembered' /\ Saved' /\ repeated' = {}
<1>1. PICK p : p = tab[t]
  OBVIOUS
<1>2. PICK timers : timers = p.timers \ {k}
  OBVIOUS
<1>3. PICK fired : fired = p.fired \cup {k}
  OBVIOUS
<1>4. Made(t, p.awake, p.active, p.loaded, p.data, timers, fired, p.phone, p.asked, p.reply,
           p.nextPoll, p.since, p.renewed)
  BY <1>1, <1>2, <1>3, FireIs
<1>5. /\ now \in Nat /\ Retention \in Nat /\ Paged(p) /\ Gone(p, sounded[t], now)
      /\ sounded = [x \in Tabs |-> sounded[x]]
  BY <1>1, NotificationsAssumption DEF Typed, Remembered
<1>6. now' = now /\ \A x \in Tabs \ {t} : tab'[x] = tab[x]
  BY <1>4 DEF Fire, Made, OthersStay
<1>7. CASE k \in p.fired
  <2>1. UNCHANGED <<stored, sounded, repeated>>
    BY <1>1, <1>7 DEF Fire
  <2>2. Gone(tab'[t], sounded[t], now)
    BY <1>2, <1>3, <1>4, <1>5 DEF Made, Gone
  <2>3. QED
    BY <1>6, <2>1, <2>2 DEF Remembered, Saved
<1>8. CASE k \notin p.fired
  <2>1. /\ stored' = Kept(fired)
        /\ sounded' = [sounded EXCEPT ![t] = @ \cup {k}]
        /\ repeated' = repeated \cup ({k} \cap sounded[t])
    BY <1>1, <1>3, <1>8 DEF Fire
  <2>2. k \notin sounded[t]
    BY <1>1, <1>5, <1>8 DEF Gone
  <2>3. repeated' = {}
    BY <2>1, <2>2
  <2>4. sounded'[t] = sounded[t] \cup {k} /\ \A x \in Tabs \ {t} : sounded'[x] = sounded[x]
    BY <1>5, <2>1
  <2>5. Gone(tab'[t], sounded'[t], now)
    BY <1>2, <1>3, <1>4, <1>5, <2>4 DEF Made, Gone
  <2>6. Remembered'
    BY <1>6, <2>4, <2>5 DEF Remembered
  <2>7. ASSUME "reload" \in Events, NEW x \in Tabs, NEW l \in sounded'[x] \ stored'
        PROVE  Past(l, now)
    <3>1. x = t
      BY <2>7 DEF Undisturbed
    <3>2. CASE l \notin fired
      <4>1. l \in sounded[t] \ p.fired
        BY <1>3, <2>4, <2>7, <3>1, <3>2
      <4>2. QED
        BY <1>5, <4>1 DEF Gone
    <3>3. CASE l \in fired
      <4>1. l.kind # "step" /\ ~(l.at >= now - Retention)
        BY <2>1, <2>7, <3>3 DEF Kept
      <4>2. IsKey(l)
        BY <1>1, <1>3, <1>5, <3>3 DEF Paged
      <4>3. l \in AlarmKey /\ l.at \in Nat
        BY <4>1, <4>2 DEF IsKey, AlarmKey
      <4>4. QED
        BY <1>5, <4>1, <4>3 DEF Past
    <3>4. QED
      BY <3>2, <3>3
  <2>8. QED
    BY <1>6, <2>3, <2>6, <2>7 DEF Saved
<1>9. QED
  BY <1>7, <1>8

LEMMA RememberedHolds ==
  ASSUME Typed, Remembered, Saved, Undisturbed, Recent, repeated = {}, [Next]_vars
  PROVE  Remembered' /\ Saved' /\ repeated' = {}
<1>1. CASE UNCHANGED vars
  BY <1>1 DEF vars, Remembered, Saved
<1>2. CASE Tick
  <2>1. now' = now + 1 /\ UNCHANGED <<tab, stored, sounded, repeated>>
    BY <1>2 DEF Tick
  <2>2. ASSUME NEW k, Past(k, now)
        PROVE  Past(k, now + 1)
    BY <2>2, NotificationsAssumption DEF Past, AlarmKey, Typed
  <2>3. QED
    BY <2>1, <2>2 DEF Remembered, Saved, Gone
<1>3. ASSUME NEW t \in Tabs, OnePage(t)
      PROVE  Remembered' /\ Saved' /\ repeated' = {}
  <2>1. CASE \E k \in tab[t].timers : Fire(t, k)
    BY <2>1, FireRemembers
  <2>2. CASE ~(\E k \in tab[t].timers : Fire(t, k))
    <3>1. Gone(tab'[t], sounded[t], now)
      BY <1>3, <2>2, GoneStep
    <3>2. UNCHANGED <<now, stored, sounded>>
      BY <1>3, <2>2, OnePageRest
    <3>3. \A x \in Tabs \ {t} : tab'[x] = tab[x]
      BY <1>3, OnePageOthers DEF OthersStay
    <3>4. repeated' = repeated
      BY <1>3, <2>2 DEF OnePage, Ask, ServerAnswers, Lose, Deliver, SwitchOff, SwitchOn, Reload,
                        Sleep, Wake
    <3>5. QED
      BY <3>1, <3>2, <3>3, <3>4 DEF Remembered, Saved
  <2>3. QED
    BY <2>1, <2>2
<1>4. ASSUME NEW where \in Tabs \cup {Elsewhere}, Change(where)
      PROVE  Remembered' /\ Saved' /\ repeated' = {}
  <2>1. Invalidate(where) /\ UNCHANGED <<now, stored, sounded, repeated>>
    BY <1>4, ChangeRest
  <2>2. ASSUME NEW t \in Tabs
        PROVE  Gone(tab'[t], sounded[t], now)
    <3>1. PICK p : p = tab[t]
      OBVIOUS
    <3>2. Gone(p, sounded[t], now)
      BY <3>1 DEF Remembered
    <3>3. CASE tab'[t] = p
      BY <3>2, <3>3
    <3>4. CASE tab'[t] = Polls(p)
      BY <3>2, <3>4 DEF Polls, Page, Gone
    <3>5. QED
      BY <2>1, <3>1, <3>3, <3>4, InvalidateIs
  <2>3. QED
    BY <2>1, <2>2 DEF Remembered, Saved
<1>5. QED
  BY <1>1, <1>2, <1>3, <1>4, StepIs

\* "Fired occurrences are remembered here so a reload cannot repeat them", over any
\* number of reloads and any schedule, for as long as one tab has the storage to itself:
\* useAlarmNotifications.ts prunes what is older than a day, and a server whose clock is
\* less than that behind does not offer it again.  (Two tabs of a browser save over each
\* other, and one that reloads may then repeat what it has said.)
THEOREM NothingRepeats == Undisturbed /\ Recent /\ Spec => []OncePerTab
<1>1. Init => Typed /\ Remembered /\ Saved /\ repeated = {}
  <2> SUFFICES ASSUME Init
               PROVE  Remembered /\ Saved /\ repeated = {}
    BY Starts
  <2>1. repeated = {} /\ \A t \in Tabs : sounded[t] = {}
    BY DEF Init
  <2>2. QED
    BY <2>1 DEF Remembered, Saved, Gone
<1>2. Undisturbed /\ Recent /\ Typed /\ Remembered /\ Saved /\ repeated = {} /\ [Next]_vars
        => (Typed /\ Remembered /\ Saved /\ repeated = {})'
  BY TypedHolds, RememberedHolds
<1>3. Undisturbed /\ Recent => [](Undisturbed /\ Recent)
  <2>1. Undisturbed /\ Recent => (Undisturbed /\ Recent)'
    BY DEF Undisturbed, Recent
  <2>2. QED
    BY <2>1, PTL
<1>4. QED
  BY <1>1, <1>2, <1>3, PTL DEF Spec, OncePerTab

-----------------------------------------------------------------------------
\* What is switched off goes quiet.  A page that has been there since before the change
\* at instant c, and gave up no poll since, can hold the key of what is off in an answer
\* to a question older than the change, and in a timer until it has asked once more.

Hushed(p, k, c) ==
  p.awake /\ p.since <= c /\ p.renewed <= c =>
    /\ k \in p.reply => p.asked <= c
    /\ k \in p.timers /\ p.phone = "idle" => p.nextPoll <= c + Latency + Poll
    /\ k \in p.timers /\ p.phone # "idle" => p.asked <= c + Latency + Poll

Unanswered(p) == p.phone # "answered" => p.reply = {}

Silenced ==
  \A t \in Tabs :
    /\ Unanswered(tab[t])
    /\ \A k \in tab[t].timers \cup tab[t].reply : Off(k) => Hushed(tab[t], k, changed[k.of])

\* A change that is only just made says nothing yet.
LEMMA HushedAtOnce ==
  ASSUME NEW p, Paged(p), NEW n \in Nat, Clocked(p, n), NEW k
  PROVE  Hushed(p, k, n)
<1>1. Poll \in Nat /\ Latency \in Nat
  BY NotificationsAssumption
<1>2. p.asked \in Nat /\ p.nextPoll \in Nat /\ p.asked <= n /\ p.nextPoll <= n + Poll
  BY DEF Paged, Clocked
<1>3. QED
  BY <1>1, <1>2 DEF Hushed

LEMMA ChangedIs ==
  ASSUME Typed, NEW k, IsKey(k)
  PROVE  changed[k.of] \in Nat /\ changed[k.of] <= now
<1>1. k.of \in Alarms \cup Runs
  BY DEF IsKey, AlarmKey
<1>2. QED
  BY <1>1 DEF Typed

\* A page that holds a timer and is awake asks again in good time.
LEMMA TimerSoon ==
  ASSUME NEW p, Paged(p), NEW n \in Nat, Clocked(p, n), p.awake,
         NEW k \in p.timers, NEW c \in Nat, Hushed(p, k, c), p.since <= c, p.renewed <= c
  PROVE  /\ p.phone = "idle" => n <= c + Latency + Poll
         /\ n <= c + Window
<1>1. Poll \in Nat /\ Latency \in Nat
  BY NotificationsAssumption
<1>2. p.asked \in Nat /\ p.nextPoll \in Nat /\ p.since \in Nat /\ p.active
  BY DEF Paged, Clocked
<1>3. CASE p.phone = "idle"
  <2>1. p.nextPoll <= c + Latency + Poll /\ (n <= p.nextPoll \/ n <= p.since)
    BY <1>2, <1>3 DEF Clocked, Hushed
  <2>2. QED
    BY <1>1, <1>2, <2>1 DEF Window
<1>4. CASE p.phone # "idle"
  <2>1. p.asked <= c + Latency + Poll /\ n <= p.asked + Latency
    BY <1>4 DEF Clocked, Hushed
  <2>2. QED
    BY <1>1, <1>2, <1>4, <2>1 DEF Window
<1>5. QED
  BY <1>3, <1>4

LEMMA HushStep ==
  ASSUME Typed, Timely, Silenced, NEW t \in Tabs, OnePage(t),
         NEW k \in tab'[t].timers \cup tab'[t].reply, Off(k)
  PROVE  Hushed(tab'[t], k, changed[k.of])
<1>1. PICK p : p = tab[t]
  OBVIOUS
<1>2. PICK q : q = tab'[t]
  OBVIOUS
<1>3. PICK c : c = changed[k.of]
  OBVIOUS
<1>4. now \in Nat /\ Poll \in Nat /\ Latency \in Nat /\ Paged(p) /\ Clocked(p, now)
  BY <1>1, NotificationsAssumption DEF Typed, Timely
<1>5. Paged(q) /\ Clocked(q, now)
  BY <1>2, OnePageTyped, TimelyStep DEF PagesTyped
<1>6. IsKey(k)
  BY <1>2, <1>5 DEF Paged
<1>7. c \in Nat /\ c <= now
  BY <1>3, <1>6, ChangedIs
<1>8. k \in p.timers \cup p.reply => Hushed(p, k, c)
  BY <1>1, <1>3 DEF Silenced
<1>9. Unanswered(p)
  BY <1>1 DEF Silenced
<1>10. /\ p.asked \in Nat /\ p.nextPoll \in Nat /\ p.since \in Nat /\ p.renewed \in Nat
       /\ p.phone \in {"idle", "asked", "answered"}
  BY <1>4, PageOf
<1>11. SUFFICES ASSUME c < now
                PROVE  Hushed(q, k, c)
  <2>1. CASE c = now
    BY <1>2, <1>3, <1>5, <1>7, <2>1, HushedAtOnce
  <2>2. QED
    BY <1>2, <1>3, <1>4, <1>7, <1>11, <2>1
<1>12. CASE Ask(t)
  <2>1. p.awake /\ p.active /\ p.phone = "idle"
    BY <1>1, <1>12, AskIs
  <2>2. Made(t, p.awake, p.active, p.loaded, p.data, p.timers, p.fired, "asked", now,
             p.reply, p.nextPoll, p.since, p.renewed)
    BY <1>1, <1>12, AskIs
  <2>3. p.reply = {}
    BY <1>9, <2>1 DEF Unanswered
  <2>4. SUFFICES ASSUME k \in p.timers, p.since <= c, p.renewed <= c
                 PROVE  now <= c + Latency + Poll
    BY <1>2, <2>1, <2>2, <2>3 DEF Made, Hushed
  <2>5. QED
    BY <1>4, <1>7, <1>8, <2>1, <2>4, TimerSoon
<1>13. CASE ServerAnswers(t)
  <2>1. PICK items \in Heads(DueAlarms(now + Skew)) :
          Made(t, p.awake, p.active, p.loaded, p.data, p.timers, p.fired, "answered",
               p.asked, items \cup DueSteps(now + Skew), p.nextPoll, p.since, p.renewed)
    BY <1>1, <1>13, AnswerIs
  <2>2. p.phone = "asked"
    BY <1>1, <1>13, AnswerIs
  <2>3. k \notin items \cup DueSteps(now + Skew)
    <3>1. now + Skew \in Int
      BY <1>4, NotificationsAssumption
    <3>2. SUFFICES ASSUME k \in items \cup DueSteps(now + Skew)
                   PROVE  FALSE
      OBVIOUS
    <3>3. \/ k.kind = "step" /\ run[k.of].state = "active"
          \/ k.kind = "alarm" /\ on[k.of]
      BY <3>1, <3>2, FeedIs
    <3>4. QED
      BY <3>3 DEF Off
  <2>4. QED
    BY <1>2, <1>8, <2>1, <2>2, <2>3 DEF Made, Hushed
<1>14. CASE Lose(t)
  <2>1. Made(t, p.awake, p.active, p.loaded, p.data, p.timers, p.fired, "idle", p.asked, {},
             now + Poll, now, p.renewed)
    BY <1>1, <1>14, LoseIs
  <2>2. QED
    BY <1>2, <1>4, <1>7, <1>11, <2>1 DEF Made, Hushed
<1>15. CASE Deliver(t)
  <2>1. PICK timers : timers = IF p.active THEN Armed(p, p.reply) ELSE p.timers
    OBVIOUS
  <2>2. PICK s : s = IF p.loaded THEN p.since ELSE now
    OBVIOUS
  <2>3. Made(t, p.awake, p.active, TRUE, p.reply, timers, p.fired, "idle", p.asked, {}, now
             + Poll, s, p.renewed)
    BY <1>1, <1>15, <2>1, <2>2, DeliverIs
  <2>4. p.awake /\ p.phone = "answered"
    BY <1>1, <1>15, DeliverIs
  <2>5. timers \subseteq p.reply
    <3>1. ~p.active => timers = {}
      BY <1>4, <2>1 DEF Clocked
    <3>2. QED
      BY <2>1, <3>1 DEF Armed
  <2>6. SUFFICES ASSUME k \in timers, s <= c, p.renewed <= c
                 PROVE  now + Poll <= c + Latency + Poll
    BY <1>2, <2>3 DEF Made, Hushed
  <2>7. p.since <= c
    BY <1>4, <1>7, <1>10, <1>11, <2>2, <2>6
  <2>8. p.asked <= c
    BY <1>8, <2>4, <2>5, <2>6, <2>7 DEF Hushed
  <2>9. now <= p.asked + Latency
    BY <1>4, <2>4 DEF Clocked
  <2>10. QED
    BY <1>4, <1>7, <1>10, <2>8, <2>9
<1>16. ASSUME NEW l \in p.timers, Fire(t, l)
       PROVE  Hushed(q, k, c)
  <2>1. PICK timers : timers = p.timers \ {l}
    OBVIOUS
  <2>2. PICK fired : fired = p.fired \cup {l}
    OBVIOUS
  <2>3. Made(t, p.awake, p.active, p.loaded, p.data, timers, fired, p.phone, p.asked,
             p.reply, p.nextPoll, p.since, p.renewed)
    BY <1>1, <1>16, <2>1, <2>2, FireIs
  <2>4. QED
    BY <1>2, <1>8, <2>1, <2>3 DEF Made, Hushed
<1>17. CASE SwitchOff(t)
  <2>1. Made(t, p.awake, FALSE, p.loaded, p.data, {}, p.fired, p.phone, p.asked, p.reply,
             p.nextPoll, p.since, p.renewed)
    BY <1>1, <1>17, SwitchOffIs
  <2>2. QED
    BY <1>2, <1>8, <2>1 DEF Made, Hushed
<1>18. CASE SwitchOn(t)
  <2>1. PICK timers : timers = Armed(p, p.data)
    OBVIOUS
  <2>2. Made(t, p.awake, TRUE, p.loaded, p.data, timers, p.fired, p.phone, p.asked, p.reply,
             now, now, p.renewed)
    BY <1>1, <1>18, <2>1, SwitchOnIs
  <2>3. QED
    BY <1>2, <1>4, <1>7, <1>11, <2>2 DEF Made, Hushed
<1>19. CASE Reload(t)
  <2>1. Made(t, TRUE, storedOn, FALSE, {}, {}, stored, "idle", 0, {}, now, now, now)
    BY <1>19, ReloadIs
  <2>2. QED
    BY <1>2, <2>1 DEF Made, Hushed
<1>20. CASE Sleep(t)
  <2>1. Made(t, FALSE, p.active, p.loaded, p.data, p.timers, p.fired, p.phone, p.asked,
             p.reply, p.nextPoll, p.since, p.renewed)
    BY <1>1, <1>20, SleepIs
  <2>2. QED
    BY <1>2, <2>1 DEF Made, Hushed
<1>21. CASE Wake(t)
  <2>1. Made(t, TRUE, p.active, p.loaded, p.data, p.timers, p.fired, p.phone, now, p.reply,
             p.nextPoll, now, p.renewed)
    BY <1>1, <1>21, WakeIs
  <2>2. QED
    BY <1>2, <1>4, <1>7, <1>11, <2>1 DEF Made, Hushed
<1>22. QED
  BY <1>1, <1>12, <1>13, <1>14, <1>15, <1>16, <1>17, <1>18, <1>19, <1>20, <1>21 DEF OnePage

LEMMA UnansweredStep ==
  ASSUME Typed, Silenced, NEW t \in Tabs, OnePage(t)
  PROVE  Unanswered(tab'[t])
<1>1. PICK p : p = tab[t]
  OBVIOUS
<1>2. Unanswered(p)
  BY <1>1 DEF Silenced
<1>3. CASE Ask(t)
  BY <1>1, <1>2, <1>3, AskIs DEF Made, Unanswered
<1>4. CASE ServerAnswers(t)
  BY <1>1, <1>2, <1>4, AnswerIs DEF Made, Unanswered
<1>5. CASE Lose(t)
  BY <1>1, <1>2, <1>5, LoseIs DEF Made, Unanswered
<1>6. CASE Deliver(t)
  BY <1>1, <1>2, <1>6, DeliverIs DEF Made, Unanswered
<1>7. CASE SwitchOff(t)
  <2>1. Made(t, p.awake, FALSE, p.loaded, p.data, {}, p.fired, p.phone, p.asked, p.reply,
             p.nextPoll, p.since, p.renewed)
    BY <1>1, <1>7, SwitchOffIs
  <2>2. QED
    BY <1>2, <2>1 DEF Made, Unanswered
<1>8. CASE SwitchOn(t)
  <2>1. tab'[t].phone = p.phone /\ tab'[t].reply = p.reply
    BY <1>1, <1>8, SwitchOnIs DEF Made
  <2>2. QED
    BY <1>2, <2>1 DEF Unanswered
<1>9. CASE Reload(t)
  <2>1. tab'[t].reply = {}
    BY <1>9, ReloadIs DEF Made
  <2>2. QED
    BY <2>1 DEF Unanswered
<1>10. CASE Sleep(t)
  BY <1>1, <1>2, <1>10, SleepIs DEF Made, Unanswered
<1>11. CASE Wake(t)
  BY <1>1, <1>2, <1>11, WakeIs DEF Made, Unanswered
<1>12. CASE \E k \in tab[t].timers : Fire(t, k)
  BY <1>1, <1>2, <1>12, FireIs DEF Made, Unanswered
<1>13. QED
  BY <1>3, <1>4, <1>5, <1>6, <1>7, <1>8, <1>9, <1>10, <1>11, <1>12 DEF OnePage

LEMMA HushChange ==
  ASSUME Typed, Timely, Silenced, NEW where, Change(where), NEW t \in Tabs,
         NEW k \in tab'[t].timers \cup tab'[t].reply, Off(k)'
  PROVE  Hushed(tab'[t], k, changed'[k.of])
<1>1. PICK p : p = tab[t]
  OBVIOUS
<1>2. PICK q : q = tab'[t]
  OBVIOUS
<1>3. PICK c : c = changed'[k.of]
  OBVIOUS
<1>4. now \in Nat /\ Poll \in Nat /\ Latency \in Nat /\ Paged(p) /\ Clocked(p, now)
  BY <1>1, NotificationsAssumption DEF Typed, Timely
<1>5. Invalidate(where) /\ now' = now
  BY ChangeRest
<1>6. Typed' /\ Timely'
  BY <1>5, ChangeKeepsTyped, ChangeKeepsTimely
<1>7. Paged(q) /\ Clocked(q, now)
  BY <1>2, <1>5, <1>6 DEF Typed, Timely
<1>8. IsKey(k)
  BY <1>2, <1>7 DEF Paged
<1>9. CASE c = now
  BY <1>2, <1>3, <1>4, <1>7, <1>9, HushedAtOnce
<1>10. CASE c # now
  <2>1. c = changed[k.of] /\ Off(k) /\ c \in Nat /\ c <= now
    <3>1. k.of \in Alarms \cup Runs
      BY <1>8 DEF IsKey, AlarmKey
    <3>2. c = changed[k.of]
      BY <1>3, <1>10, <3>1, ChangeRows
    <3>3. ASSUME k.kind = "alarm"
          PROVE  Off(k)
      <4>1. k.of \in Alarms
        BY <1>8, <3>3 DEF IsKey, AlarmKey
      <4>2. on'[k.of] = on[k.of]
        BY <1>3, <1>10, <4>1, ChangeRows
      <4>3. QED
        BY <3>3, <4>2 DEF Off
    <3>4. ASSUME k.kind # "alarm"
          PROVE  Off(k)
      <4>1. k.of \in Runs
        BY <1>8, <3>4 DEF IsKey, AlarmKey
      <4>2. run'[k.of].state = "stopped"
        BY <3>4 DEF Off
      <4>3. run'[k.of] = run[k.of]
        BY <1>3, <1>10, <4>1, <4>2, ChangeRows
      <4>4. QED
        BY <3>4, <4>2, <4>3 DEF Off
    <3>5. QED
      BY <1>8, <3>2, <3>3, <3>4, ChangedIs
  <2>2. k \in p.timers \cup p.reply => Hushed(p, k, c)
    BY <1>1, <2>1 DEF Silenced
  <2>3. CASE q = p
    BY <1>2, <1>3, <2>2, <2>3
  <2>4. CASE q = Polls(p)
    <3>1. /\ q.awake = p.awake /\ q.timers = p.timers /\ q.phone = "asked" /\ q.asked = now
          /\ q.reply = {} /\ q.since = p.since
          /\ q.renewed = IF p.phone = "idle" THEN p.renewed ELSE now
      BY <2>4 DEF Polls, Page
    <3>2. SUFFICES ASSUME k \in p.timers, p.awake, p.since <= c, q.renewed <= c
                   PROVE  now <= c + Latency + Poll
      BY <1>2, <1>3, <3>1 DEF Hushed
    <3>3. p.phone = "idle" /\ p.renewed <= c
      BY <1>4, <1>10, <2>1, <3>1, <3>2
    <3>4. QED
      BY <1>4, <2>1, <2>2, <3>2, <3>3, TimerSoon
  <2>5. QED
    BY <1>1, <1>2, <1>5, <2>3, <2>4, InvalidateIs
<1>11. QED
  BY <1>9, <1>10

LEMMA SilencedHolds ==
  ASSUME Typed, Timely, Silenced, [Next]_vars
  PROVE  Silenced'
<1>1. CASE UNCHANGED vars
  BY <1>1 DEF vars, Silenced, Off
<1>2. CASE Tick
  <2>1. UNCHANGED <<tab, on, run, changed>>
    BY <1>2 DEF Tick
  <2>2. QED
    BY <2>1 DEF Silenced, Off
<1>3. ASSUME NEW t \in Tabs, OnePage(t)
      PROVE  Silenced'
  <2>1. UNCHANGED <<on, changed>> /\ \A x \in Tabs \ {t} : tab'[x] = tab[x]
    BY <1>3, OnePageRest, OnePageOthers DEF OthersStay
  <2>2. \A k : IsKey(k) /\ Off(k)' => Off(k)
    <3>1. CASE run' = run
      BY <2>1, <3>1 DEF Off
    <3>2. CASE ServerAnswers(t)
      <4>1. SUFFICES ASSUME NEW k, IsKey(k), k.kind # "alarm", run'[k.of].state = "stopped"
                     PROVE  run[k.of].state = "stopped"
        BY <2>1 DEF Off
      <4>2. k.of \in Runs
        BY <4>1 DEF IsKey, AlarmKey
      <4>3. QED
        BY <3>2, <4>1, <4>2, AnswerRuns
    <3>3. QED
      BY <1>3, <3>1, <3>2, OnePageRest
  <2>3. \A x \in Tabs : Paged(tab'[x])
    BY <1>3, OnePageTyped DEF PagesTyped
  <2>4. ASSUME NEW x \in Tabs, NEW k \in tab'[x].timers \cup tab'[x].reply, Off(k)'
        PROVE  Hushed(tab'[x], k, changed[k.of])
    <3>1. Off(k)
      <4>1. Paged(tab'[x])
        BY <2>3
      <4>2. IsKey(k)
        BY <4>1 DEF Paged
      <4>3. QED
        BY <2>2, <2>4, <4>2
    <3>2. CASE x = t
      BY <1>3, <2>4, <3>1, <3>2, HushStep
    <3>3. CASE x # t
      BY <2>1, <2>4, <3>1, <3>3 DEF Silenced
    <3>4. QED
      BY <3>2, <3>3
  <2>5. \A x \in Tabs : Unanswered(tab'[x])
    BY <1>3, <2>1, UnansweredStep DEF Silenced
  <2>6. QED
    BY <2>1, <2>4, <2>5 DEF Silenced
<1>4. ASSUME NEW where \in Tabs \cup {Elsewhere}, Change(where)
      PROVE  Silenced'
  <2>1. Invalidate(where)
    BY <1>4, ChangeRest
  <2>2. ASSUME NEW t \in Tabs
        PROVE  Unanswered(tab'[t])
    <3>1. CASE tab'[t] = tab[t]
      BY <3>1 DEF Silenced
    <3>2. CASE tab'[t] = Polls(tab[t])
      BY <3>2 DEF Polls, Page, Unanswered
    <3>3. QED
      BY <2>1, <3>1, <3>2, InvalidateIs
  <2>3. \A t \in Tabs : \A k \in tab'[t].timers \cup tab'[t].reply :
          Off(k)' => Hushed(tab'[t], k, changed'[k.of])
    BY <1>4, HushChange
  <2>4. QED
    BY <2>2, <2>3 DEF Silenced
<1>5. QED
  BY <1>1, <1>2, <1>3, <1>4, StepIs

\* What sounds in a step was in a timer of an awake page, and due.
LEMMA SoundedNow ==
  ASSUME Typed, [Next]_vars, NEW t \in Tabs, NEW k \in sounded'[t] \ sounded[t]
  PROVE  tab[t].awake /\ k \in tab[t].timers /\ k.at <= now
<1>1. CASE UNCHANGED vars
  BY <1>1 DEF vars
<1>2. CASE Tick
  BY <1>2 DEF Tick
<1>3. ASSUME NEW x \in Tabs, OnePage(x)
      PROVE  tab[t].awake /\ k \in tab[t].timers /\ k.at <= now
  <2>1. PICK l \in tab[x].timers : Fire(x, l)
    BY <1>3, OnePageRest
  <2>2. sounded' = [sounded EXCEPT ![x] = @ \cup {l}]
    BY <2>1 DEF Fire
  <2>3. x = t /\ l = k
    BY <2>2 DEF Typed
  <2>4. QED
    BY <2>1, <2>3 DEF Fire, Overdue
<1>4. ASSUME NEW where \in Tabs \cup {Elsewhere}, Change(where)
      PROVE  FALSE
  BY <1>4, ChangeRest
<1>5. QED
  BY <1>1, <1>2, <1>3, <1>4, StepIs

LEMMA NothingLongOffSounds ==
  ASSUME Typed, Timely, Silenced, [Next]_vars,
         NEW t \in Tabs, NEW k \in sounded'[t] \ sounded[t], LongOff(k)
  PROVE  tab[t].since > changed[k.of] \/ tab[t].renewed > changed[k.of]
<1>1. PICK p : p = tab[t]
  OBVIOUS
<1>2. PICK c : c = changed[k.of]
  OBVIOUS
<1>3. p.awake /\ k \in p.timers
  BY <1>1, SoundedNow
<1>4. now \in Nat /\ Paged(p) /\ Clocked(p, now) /\ Window \in Nat
  BY <1>1, NotificationsAssumption DEF Typed, Timely, Window
<1>5. p.since \in Nat /\ p.renewed \in Nat /\ IsKey(k)
  BY <1>3, <1>4 DEF Paged
<1>6. c \in Nat /\ Off(k) /\ c + Window < now
  BY <1>2, <1>5, ChangedIs DEF LongOff
<1>7. Hushed(p, k, c)
  BY <1>1, <1>2, <1>3, <1>6 DEF Silenced
<1>8. SUFFICES ASSUME p.since <= c, p.renewed <= c
               PROVE  FALSE
  BY <1>1, <1>2, <1>5, <1>6
<1>9. now <= c + Window
  BY <1>3, <1>4, <1>6, <1>7, <1>8, TimerSoon
<1>10. QED
  BY <1>4, <1>6, <1>9

\* What was switched off or stopped falls silent within one poll and the time two
\* answers take (useAlarmNotifications.ts drops the timer of what is not offered any
\* more), in every tab that has been there since before the change and has not given up
\* a poll since: for any number of tabs and changes, any schedule and any clocks.
THEOREM OffStaysQuiet == Spec => QuietAfterOff
<1>1. Init => Typed /\ Timely /\ Silenced
  <2> SUFFICES ASSUME Init
               PROVE  Silenced
    BY Starts
  <2>1. \A t \in Tabs : tab[t].timers = {} /\ tab[t].reply = {}
    BY DEF Init, Loading
  <2>2. QED
    BY <2>1 DEF Silenced, Unanswered
<1>2. Typed /\ Timely /\ Silenced /\ [Next]_vars => (Typed /\ Timely /\ Silenced)'
  BY TypedHolds, TimelyHolds, SilencedHolds
<1>3. Typed /\ Timely /\ Silenced /\ [Next]_vars
        => [\A t \in Tabs : \A k \in sounded'[t] \ sounded[t] :
              LongOff(k) => \/ tab[t].since > changed[k.of]
                            \/ tab[t].renewed > changed[k.of]]_vars
  BY NothingLongOffSounds
<1>4. QED
  BY <1>1, <1>2, <1>3, PTL DEF Spec, QuietAfterOff

-----------------------------------------------------------------------------
\* An enabled alarm sounds.  A page that has been there for a window's time before an
\* instant learns of it while there is time to arm a timer, whatever it knows now.

\* The server's clock is not ahead (what it takes for past it does not offer), timers are
\* armed further ahead than a poll and its answer take, and a poll asks for more than that.
Timing == Skew <= 0 /\ Lookahead >= Poll + Latency /\ Horizon + Skew >= Window

\* What can be due of all alarms within a window's time.
Near(n) == {k \in AlarmKey : k.at \in (n + Skew)..(n + Window) /\ k.at \in Schedule[k.of]}

\* The feed is cut at FeedLimit; no more than that are due in any window's time.
FeedFits ==
  IsFiniteSet(Alarms) /\ \A n \in Nat : Cardinality(Near(n)) <= FeedLimit

Instant(a, u) == [kind |-> "alarm", of |-> a, at |-> u]

\* The page has been there for a window's time before u, and the change at c was before it.
Expects(p, c, u) ==
  p.awake /\ p.active /\ p.since + Window <= u /\ p.renewed + Window <= u /\ c + Window <= u

\* At n it is not too late: k has its timer, or is in the answer, or will be asked for.
Coming(p, k, u, n) ==
  /\ n <= u
  /\ p.phone = "idle" => k \in p.timers \/ p.nextPoll + Latency <= u
  /\ p.phone # "idle" => k \in p.timers \/ p.asked + Latency <= u
  /\ p.phone = "answered" => k \in p.reply \/ p.asked + Window <= u

Awaited ==
  \A t \in Tabs, a \in Alarms : \A u \in Schedule[a] :
    on[a] /\ Expects(tab[t], changed[a], u) /\ Instant(a, u) \notin sounded[t]
      => Coming(tab[t], Instant(a, u), u, now)

\* A page takes for fired what it has sounded, and what was over when it was loaded.
Told(p, heard) == \A k \in p.fired : k \in AlarmKey => k \in heard \/ k.at <= p.since

Noted ==
  /\ \A k \in stored : k \in AlarmKey => k.at <= now
  /\ \A t \in Tabs : \A k \in sounded[t] : k \in AlarmKey => k.at <= now
  /\ \A t \in Tabs : Told(tab[t], sounded[t])

LEMMA NearIsFinite ==
  ASSUME FeedFits, NEW n \in Nat
  PROVE  IsFiniteSet(Near(n)) /\ Cardinality(Near(n)) \in Nat
<1> DEFINE S == Alarms \X ((n + Skew)..(n + Window))
           f == [x \in S |-> Instant(x[1], x[2])]
           T == {f[x] : x \in S}
<1>1. Skew \in Int /\ Window \in Int
  BY NotificationsAssumption DEF Window
<1>2. IsFiniteSet((n + Skew)..(n + Window))
  <2>1. n + Skew \in Int /\ n + Window \in Int
    BY <1>1
  <2>2. QED
    BY <2>1, FS_Interval
<1>3. IsFiniteSet(S)
  BY <1>2, FS_Product DEF FeedFits
<1>4. f \in Surjection(S, T)
  BY DEF Surjection
<1>5. IsFiniteSet(T)
  BY <1>3, <1>4, FS_Surjection
<1>6. Near(n) \subseteq T
  <2>1. SUFFICES ASSUME NEW k \in Near(n)
                 PROVE  k \in T
    OBVIOUS
  <2>2. k \in AlarmKey /\ k.at \in (n + Skew)..(n + Window)
    BY <2>1 DEF Near
  <2>3. k = Instant(k.of, k.at) /\ k.of \in Alarms
    BY <2>2 DEF AlarmKey, Instant
  <2>4. PICK x \in S : x = <<k.of, k.at>>
    BY <2>2, <2>3
  <2>5. f[x] = k
    BY <2>3, <2>4
  <2>6. QED
    BY <2>5
<1>7. QED
  <2>1. IsFiniteSet(Near(n))
    BY <1>5, <1>6, FS_Subset
  <2>2. QED
    BY <2>1, FS_CardinalityType

LEMMA FeedIsFinite ==
  ASSUME FeedFits, NEW at \in Int
  PROVE  IsFiniteSet(DueAlarms(at))
<1> DEFINE S == Alarms \X (at..(at + Horizon))
           f == [x \in S |-> Instant(x[1], x[2])]
           T == {f[x] : x \in S}
<1>1. IsFiniteSet(at..(at + Horizon))
  <2>1. at + Horizon \in Int
    BY NotificationsAssumption
  <2>2. QED
    BY <2>1, FS_Interval
<1>2. IsFiniteSet(S)
  BY <1>1, FS_Product DEF FeedFits
<1>3. f \in Surjection(S, T)
  BY DEF Surjection
<1>4. IsFiniteSet(T)
  BY <1>2, <1>3, FS_Surjection
<1>5. DueAlarms(at) \subseteq T
  <2>1. SUFFICES ASSUME NEW k \in DueAlarms(at)
                 PROVE  k \in T
    OBVIOUS
  <2>2. k \in AlarmKey /\ k.at \in at..(at + Horizon)
    BY <2>1, DueIs
  <2>3. k = Instant(k.of, k.at) /\ k.of \in Alarms
    BY <2>2 DEF AlarmKey, Instant
  <2>4. PICK x \in S : x = <<k.of, k.at>>
    BY <2>2, <2>3
  <2>5. f[x] = k
    BY <2>3, <2>4
  <2>6. QED
    BY <2>5
<1>6. QED
  BY <1>4, <1>5, FS_Subset

\* The feed holds every enabled occurrence of the window to come, whatever it cuts.
LEMMA NearIsOffered ==
  ASSUME Typed, Timing, FeedFits, NEW items \in Heads(DueAlarms(now + Skew)),
         NEW a \in Alarms, NEW u \in Schedule[a], on[a], now <= u, u <= now + Window
  PROVE  Instant(a, u) \in items
<1> DEFINE at == now + Skew
           due == DueAlarms(at)
           k == Instant(a, u)
<1>1. /\ now \in Nat /\ Skew \in Int /\ Horizon \in Nat /\ Window \in Nat /\ u \in Nat
      /\ FeedLimit \in Nat /\ Schedule \in [Alarms -> SUBSET Nat]
  BY NotificationsAssumption DEF Typed, Window
<1>2. at \in Int /\ at <= u /\ u <= at + Horizon
  BY <1>1 DEF Timing
<1>3. k \in AlarmKey /\ k.of = a /\ k.at = u /\ k.kind = "alarm"
  BY <1>1 DEF AlarmKey, Instant
<1>4. k \in due
  <2>1. k \in [kind : {"alarm"}, of : Alarms, at : at..(at + Horizon)]
    BY <1>1, <1>2 DEF Instant
  <2>2. u \in UNION {Schedule[b] : b \in Alarms}
    OBVIOUS
  <2>3. QED
    BY <1>2, <1>3, <2>1, <2>2 DEF DueAlarms, Instant
<1>5. /\ items \subseteq due
      /\ Cardinality(items) = Atmost(FeedLimit, Cardinality(due))
      /\ \A s \in items, l \in due \ items : s.at <= l.at
  BY DEF Heads
<1>6. IsFiniteSet(due) /\ IsFiniteSet(Near(now)) /\ Cardinality(Near(now)) <= FeedLimit
  BY <1>1, <1>2, FeedIsFinite, NearIsFinite DEF FeedFits
<1>7. SUFFICES ASSUME k \notin items
               PROVE  FALSE
  OBVIOUS
<1>8. items \cup {k} \subseteq Near(now)
  <2>1. ASSUME NEW l \in due, l.at <= u
        PROVE  l \in Near(now)
    <3>1. l \in AlarmKey /\ l.at \in at..(at + Horizon) /\ l.at \in Schedule[l.of]
      BY <1>2, DueIs
    <3>2. l.at \in (now + Skew)..(now + Window)
      BY <1>1, <1>2, <2>1, <3>1
    <3>3. QED
      BY <3>1, <3>2 DEF Near
  <2>2. \A l \in items : l.at <= u
    BY <1>3, <1>4, <1>5, <1>7
  <2>3. k.at <= u
    BY <1>1, <1>3
  <2>4. QED
    BY <1>4, <1>5, <2>1, <2>2, <2>3
<1> HIDE DEF k, due, at
<1>9. IsFiniteSet(items) /\ IsFiniteSet(items \cup {k})
  BY <1>6, <1>8, FS_Subset
<1>10. Cardinality(items \cup {k}) = Cardinality(items) + 1 /\ Cardinality(items) \in Nat
  BY <1>7, <1>9, FS_AddElement, FS_CardinalityType
<1>11. Cardinality(items \cup {k}) <= Cardinality(Near(now)) /\ Cardinality(Near(now)) \in Nat
  BY <1>6, <1>8, FS_Subset, FS_CardinalityType
<1>12. Cardinality(due) \in Nat
  BY <1>6, FS_CardinalityType
<1>13. Cardinality(items) = Cardinality(due)
  BY <1>1, <1>5, <1>6, <1>10, <1>11, <1>12 DEF Atmost
<1>14. items = due
  BY <1>5, <1>6, <1>13, FS_Subset
<1>15. QED
  BY <1>4, <1>7, <1>14

\* Whatever lies a whole window ahead is not too late for any page.
LEMMA ComingInTime ==
  ASSUME NEW p, Paged(p), NEW n \in Nat, Clocked(p, n), NEW k, NEW u \in Nat, n + Window <= u
  PROVE  Coming(p, k, u, n)
<1>1. Poll \in Nat /\ Latency \in Nat
  BY NotificationsAssumption
<1>2. p.asked \in Nat /\ p.nextPoll \in Nat /\ p.asked <= n /\ p.nextPoll <= n + Poll
  BY DEF Paged, Clocked
<1>3. QED
  BY <1>1, <1>2 DEF Coming, Window

LEMMA AskedInTime ==
  ASSUME NEW p, Paged(p), NEW n \in Nat, Clocked(p, n), NEW k, NEW u \in Nat, NEW c,
         Expects(p, c, u), Coming(p, k, u, n), p.phone = "idle"
  PROVE  k \in p.timers \/ n + Latency <= u
<1>1. Poll \in Nat /\ Latency \in Nat
  BY NotificationsAssumption
<1>2. p.nextPoll \in Nat /\ p.since \in Nat
  BY DEF Paged
<1>3. n <= p.nextPoll \/ n <= p.since
  BY DEF Clocked, Expects
<1>4. p.since + Latency <= u
  BY <1>1, <1>2 DEF Expects, Window
<1>5. QED
  BY <1>1, <1>2, <1>3, <1>4 DEF Coming

LEMMA ComingTick ==
  ASSUME NEW p, Paged(p), now \in Nat, NEW k, k.at \in Nat, NEW c,
         Expects(p, c, k.at), Coming(p, k, k.at, now), Settled(p)
  PROVE  Coming(p, k, k.at, now + 1)
<1>1. Poll \in Nat /\ Latency \in Nat
  BY NotificationsAssumption
<1>2. p.asked \in Nat /\ p.nextPoll \in Nat
  BY DEF Paged
<1>3. /\ Overdue(p) = {}
      /\ p.phone = "idle" => now < p.nextPoll
      /\ p.phone # "idle" => now < p.asked + Latency
  BY DEF Settled, Expects
<1>4. k \in p.timers => ~(k.at <= now)
  BY <1>3 DEF Overdue
<1>5. now + 1 <= k.at
  BY <1>1, <1>2, <1>3, <1>4 DEF Coming
<1>6. QED
  BY <1>5 DEF Coming

\* What is not sounded yet and lies ahead of the page's loading has not fired.
LEMMA UntoldIsUnfired ==
  ASSUME NEW p, Paged(p), NEW heard, Told(p, heard), NEW k \in AlarmKey, k \notin heard,
         p.since + Window <= k.at
  PROVE  k \notin p.fired
<1>1. Window \in Nat /\ Window > 0
  BY NotificationsAssumption DEF Window
<1>2. p.since \in Nat /\ k.at \in Nat
  BY DEF Paged, AlarmKey
<1>3. p.since < k.at
  BY <1>1, <1>2
<1>4. QED
  BY <1>2, <1>3 DEF Told

LEMMA ComingStep ==
  ASSUME Typed, Timely, Noted, Timing, FeedFits, NEW t \in Tabs, OnePage(t),
         NEW a \in Alarms, NEW u \in Schedule[a], on[a],
         Expects(tab'[t], changed[a], u), Instant(a, u) \notin sounded'[t],
         Expects(tab[t], changed[a], u) /\ Instant(a, u) \notin sounded[t]
           => Coming(tab[t], Instant(a, u), u, now)
  PROVE  Coming(tab'[t], Instant(a, u), u, now)
<1>1. PICK p : p = tab[t]
  OBVIOUS
<1>2. PICK q : q = tab'[t]
  OBVIOUS
<1>3. PICK k : k = Instant(a, u)
  OBVIOUS
<1>4. PICK c : c = changed[a]
  OBVIOUS
<1>5. /\ now \in Nat /\ Poll \in Nat /\ Latency \in Nat /\ Lookahead \in Nat /\ u \in Nat
      /\ c \in Nat /\ Window \in Nat /\ Paged(p) /\ Clocked(p, now)
  BY <1>1, <1>4, NotificationsAssumption DEF Typed, Timely, Window
<1>6. Paged(q) /\ Clocked(q, now)
  BY <1>2, OnePageTyped, TimelyStep DEF PagesTyped
<1>7. k \in AlarmKey /\ k.at = u
  BY <1>3, <1>5 DEF Instant, AlarmKey
<1>8. /\ p.asked \in Nat /\ p.nextPoll \in Nat /\ p.since \in Nat /\ p.renewed \in Nat
      /\ p.phone \in {"idle", "asked", "answered"}
  BY <1>5, PageOf
<1>9. Expects(q, c, u) /\ k \notin sounded'[t] /\ q.since \in Nat
  BY <1>2, <1>3, <1>4, <1>6 DEF Paged
<1>10. k \notin sounded[t]
  <2>1. CASE UNCHANGED sounded
    BY <1>9, <2>1
  <2>2. ASSUME NEW l \in tab[t].timers, Fire(t, l)
        PROVE  sounded[t] \subseteq sounded'[t]
    BY <2>2 DEF Fire, Typed
  <2>3. QED
    BY <1>9, <2>1, <2>2, OnePageRest
<1>11. Expects(p, c, u) => Coming(p, k, u, now)
  BY <1>1, <1>3, <1>4, <1>10
<1>12. SUFFICES ASSUME now + Window > u
                PROVE  Coming(q, k, u, now)
  <2>1. CASE now + Window <= u
    BY <1>2, <1>3, <1>5, <1>6, <2>1, ComingInTime
  <2>2. CASE now + Window > u
    BY <1>2, <1>3, <1>12, <2>2
  <2>3. QED
    BY <1>5, <2>1, <2>2
<1>13. q.since < now
  BY <1>5, <1>9, <1>12 DEF Expects
<1>14. CASE Ask(t)
  <2>1. p.phone = "idle"
    BY <1>1, <1>14, AskIs
  <2>2. Made(t, p.awake, p.active, p.loaded, p.data, p.timers, p.fired, "asked", now,
             p.reply, p.nextPoll, p.since, p.renewed)
    BY <1>1, <1>14, AskIs
  <2>3. Expects(p, c, u)
    BY <1>2, <1>9, <2>2 DEF Made, Expects
  <2>4. k \in p.timers \/ now + Latency <= u
    BY <1>5, <1>11, <2>1, <2>3, AskedInTime
  <2>5. now <= u
    BY <1>11, <2>3 DEF Coming
  <2>6. QED
    BY <1>2, <2>2, <2>4, <2>5 DEF Made, Coming
<1>15. CASE ServerAnswers(t)
  <2>1. PICK items \in Heads(DueAlarms(now + Skew)) :
          Made(t, p.awake, p.active, p.loaded, p.data, p.timers, p.fired, "answered",
               p.asked, items \cup DueSteps(now + Skew), p.nextPoll, p.since, p.renewed)
    BY <1>1, <1>15, AnswerIs
  <2>2. p.phone = "asked"
    BY <1>1, <1>15, AnswerIs
  <2>3. Expects(p, c, u)
    BY <1>2, <1>9, <2>1 DEF Made, Expects
  <2>4. now <= u /\ (k \in p.timers \/ p.asked + Latency <= u)
    BY <1>11, <2>2, <2>3 DEF Coming
  <2>5. k \in items
    BY <1>3, <1>5, <1>12, <2>4, NearIsOffered
  <2>6. QED
    BY <1>2, <2>1, <2>4, <2>5 DEF Made, Coming
<1>16. CASE Lose(t)
  <2>1. Made(t, p.awake, p.active, p.loaded, p.data, p.timers, p.fired, "idle", p.asked, {},
             now + Poll, now, p.renewed)
    BY <1>1, <1>16, LoseIs
  <2>2. QED
    BY <1>2, <1>5, <1>13, <2>1 DEF Made
<1>17. CASE Deliver(t)
  <2>1. PICK timers : timers = IF p.active THEN Armed(p, p.reply) ELSE p.timers
    OBVIOUS
  <2>2. PICK s : s = IF p.loaded THEN p.since ELSE now
    OBVIOUS
  <2>3. Made(t, p.awake, p.active, TRUE, p.reply, timers, p.fired, "idle", p.asked, {}, now
             + Poll, s, p.renewed)
    BY <1>1, <1>17, <2>1, <2>2, DeliverIs
  <2>4. p.awake /\ p.phone = "answered"
    BY <1>1, <1>17, DeliverIs
  <2>5. s = p.since /\ p.active
    BY <1>2, <1>5, <1>9, <1>13, <2>2, <2>3 DEF Made, Expects
  <2>6. Expects(p, c, u)
    BY <1>2, <1>9, <2>3, <2>4, <2>5 DEF Made, Expects
  <2>7. now <= u /\ (k \in p.reply \/ p.asked + Window <= u)
    BY <1>11, <2>4, <2>6 DEF Coming
  <2>8. k \notin p.fired
    <3>1. Told(p, sounded[t])
      BY <1>1 DEF Noted
    <3>2. p.since + Window <= k.at
      BY <1>7, <2>6 DEF Expects
    <3>3. QED
      BY <1>5, <1>7, <1>10, <3>1, <3>2, UntoldIsUnfired
  <2>9. k \in timers \/ now + Poll + Latency <= u
    <3>1. CASE k \in p.reply
      <4>1. k \in Armed(p, p.reply) \/ ~(u - now <= Lookahead)
        BY <1>7, <2>8, <3>1 DEF Armed
      <4>2. QED
        BY <1>5, <2>1, <2>5, <4>1 DEF Timing
    <3>2. CASE p.asked + Window <= u
      <4>1. now <= p.asked + Latency
        BY <1>5, <2>4 DEF Clocked
      <4>2. QED
        BY <1>5, <1>8, <3>2, <4>1 DEF Window
    <3>3. QED
      BY <2>7, <3>1, <3>2
  <2>10. QED
    BY <1>2, <1>5, <2>3, <2>7, <2>9 DEF Made, Coming
<1>18. ASSUME NEW l \in p.timers, Fire(t, l)
       PROVE  Coming(q, k, u, now)
  <2>1. PICK timers : timers = p.timers \ {l}
    OBVIOUS
  <2>2. PICK fired : fired = p.fired \cup {l}
    OBVIOUS
  <2>3. Made(t, p.awake, p.active, p.loaded, p.data, timers, fired, p.phone, p.asked,
             p.reply, p.nextPoll, p.since, p.renewed)
    BY <1>1, <1>18, <2>1, <2>2, FireIs
  <2>4. Expects(p, c, u)
    BY <1>2, <1>9, <2>3 DEF Made, Expects
  <2>5. k # l
    <3>1. SUFFICES ASSUME k = l
                   PROVE  FALSE
      OBVIOUS
    <3>2. Told(p, sounded[t]) /\ p.since + Window <= k.at
      BY <1>1, <1>7, <2>4 DEF Noted, Expects
    <3>3. k \notin p.fired
      BY <1>5, <1>7, <1>10, <3>2, UntoldIsUnfired
    <3>4. sounded' = [sounded EXCEPT ![t] = @ \cup {k}]
      BY <1>1, <1>18, <3>1, <3>3 DEF Fire
    <3>5. QED
      BY <1>9, <3>4 DEF Typed
  <2>6. QED
    BY <1>2, <1>11, <2>1, <2>3, <2>4, <2>5 DEF Made, Coming
<1>19. CASE SwitchOff(t)
  <2>1. Made(t, p.awake, FALSE, p.loaded, p.data, {}, p.fired, p.phone, p.asked, p.reply,
             p.nextPoll, p.since, p.renewed)
    BY <1>1, <1>19, SwitchOffIs
  <2>2. QED
    BY <1>2, <1>9, <2>1 DEF Made, Expects
<1>20. CASE SwitchOn(t)
  <2>1. PICK timers : timers = Armed(p, p.data)
    OBVIOUS
  <2>2. Made(t, p.awake, TRUE, p.loaded, p.data, timers, p.fired, p.phone, p.asked, p.reply,
             now, now, p.renewed)
    BY <1>1, <1>20, <2>1, SwitchOnIs
  <2>3. QED
    BY <1>2, <1>5, <1>13, <2>2 DEF Made
<1>21. CASE Reload(t)
  <2>1. Made(t, TRUE, storedOn, FALSE, {}, {}, stored, "idle", 0, {}, now, now, now)
    BY <1>21, ReloadIs
  <2>2. QED
    BY <1>2, <1>5, <1>13, <2>1 DEF Made
<1>22. CASE Sleep(t)
  <2>1. Made(t, FALSE, p.active, p.loaded, p.data, p.timers, p.fired, p.phone, p.asked,
             p.reply, p.nextPoll, p.since, p.renewed)
    BY <1>1, <1>22, SleepIs
  <2>2. QED
    BY <1>2, <1>9, <2>1 DEF Made, Expects
<1>23. CASE Wake(t)
  <2>1. Made(t, TRUE, p.active, p.loaded, p.data, p.timers, p.fired, p.phone, now, p.reply,
             p.nextPoll, now, p.renewed)
    BY <1>1, <1>23, WakeIs
  <2>2. QED
    BY <1>2, <1>5, <1>13, <2>1 DEF Made
<1>24. QED
  BY <1>1, <1>14, <1>15, <1>16, <1>17, <1>18, <1>19, <1>20, <1>21, <1>22, <1>23 DEF OnePage

\* No step but a reload makes a page forget, and none makes it younger.
LEMMA MemoryStays ==
  ASSUME Typed, Timely, NEW t \in Tabs, OnePage(t), ~(\E k \in tab[t].timers : Fire(t, k))
  PROVE  \/ tab'[t].fired = tab[t].fired /\ tab'[t].since >= tab[t].since
         \/ tab'[t].fired = stored /\ tab'[t].since = now
<1>1. PICK p : p = tab[t]
  OBVIOUS
<1>2. PICK q : q = tab'[t]
  OBVIOUS
<1>3. now \in Nat /\ p.since \in Nat /\ p.since <= now
  BY <1>1 DEF Typed, Timely, Paged, Clocked
<1> SUFFICES \/ q.fired = p.fired /\ q.since >= p.since
             \/ q.fired = stored /\ q.since = now
  BY <1>1, <1>2
<1>4. CASE Ask(t)
  BY <1>1, <1>2, <1>3, <1>4, AskIs DEF Made
<1>5. CASE ServerAnswers(t)
  BY <1>1, <1>2, <1>3, <1>5, AnswerIs DEF Made
<1>6. CASE Lose(t)
  BY <1>1, <1>2, <1>3, <1>6, LoseIs DEF Made
<1>7. CASE Deliver(t)
  <2>1. PICK timers : timers = IF p.active THEN Armed(p, p.reply) ELSE p.timers
    OBVIOUS
  <2>2. PICK s : s = IF p.loaded THEN p.since ELSE now
    OBVIOUS
  <2>3. Made(t, p.awake, p.active, TRUE, p.reply, timers, p.fired, "idle", p.asked, {}, now
             + Poll, s, p.renewed)
    BY <1>1, <1>7, <2>1, <2>2, DeliverIs
  <2>4. QED
    BY <1>2, <1>3, <2>2, <2>3 DEF Made
<1>8. CASE SwitchOff(t)
  <2>1. Made(t, p.awake, FALSE, p.loaded, p.data, {}, p.fired, p.phone, p.asked, p.reply,
             p.nextPoll, p.since, p.renewed)
    BY <1>1, <1>8, SwitchOffIs
  <2>2. QED
    BY <1>2, <1>3, <2>1 DEF Made
<1>9. CASE SwitchOn(t)
  <2>1. PICK timers : timers = Armed(p, p.data)
    OBVIOUS
  <2>2. Made(t, p.awake, TRUE, p.loaded, p.data, timers, p.fired, p.phone, p.asked, p.reply,
             now, now, p.renewed)
    BY <1>1, <1>9, <2>1, SwitchOnIs
  <2>3. QED
    BY <1>2, <1>3, <2>2 DEF Made
<1>10. CASE Reload(t)
  <2>1. Made(t, TRUE, storedOn, FALSE, {}, {}, stored, "idle", 0, {}, now, now, now)
    BY <1>10, ReloadIs
  <2>2. QED
    BY <1>2, <2>1 DEF Made
<1>11. CASE Sleep(t)
  <2>1. Made(t, FALSE, p.active, p.loaded, p.data, p.timers, p.fired, p.phone, p.asked,
             p.reply, p.nextPoll, p.since, p.renewed)
    BY <1>1, <1>11, SleepIs
  <2>2. QED
    BY <1>2, <1>3, <2>1 DEF Made
<1>12. CASE Wake(t)
  <2>1. Made(t, TRUE, p.active, p.loaded, p.data, p.timers, p.fired, p.phone, now, p.reply,
             p.nextPoll, now, p.renewed)
    BY <1>1, <1>12, WakeIs
  <2>2. QED
    BY <1>2, <1>3, <2>1 DEF Made
<1>13. QED
  BY <1>4, <1>5, <1>6, <1>7, <1>8, <1>9, <1>10, <1>11, <1>12 DEF OnePage

LEMMA FireNotes ==
  ASSUME Typed, Timely, Noted, NEW t \in Tabs, NEW k \in tab[t].timers, Fire(t, k)
  PROVE  Noted'
<1>1. PICK p : p = tab[t]
  OBVIOUS
<1>2. PICK timers : timers = p.timers \ {k}
  OBVIOUS
<1>3. PICK fired : fired = p.fired \cup {k}
  OBVIOUS
<1>4. Made(t, p.awake, p.active, p.loaded, p.data, timers, fired, p.phone, p.asked, p.reply,
           p.nextPoll, p.since, p.renewed)
  BY <1>1, <1>2, <1>3, FireIs
<1>5. /\ now \in Nat /\ p.since \in Nat /\ p.since <= now /\ k.at <= now
      /\ Told(p, sounded[t]) /\ sounded = [x \in Tabs |-> sounded[x]]
  BY <1>1, FireIs DEF Typed, Timely, Paged, Clocked, Noted
<1>6. now' = now /\ \A x \in Tabs \ {t} : tab'[x] = tab[x]
  BY <1>4 DEF Fire, Made, OthersStay
<1>7. CASE k \in p.fired
  <2>1. UNCHANGED <<stored, sounded>>
    BY <1>1, <1>7 DEF Fire
  <2>2. Told(tab'[t], sounded[t])
    BY <1>3, <1>4, <1>5, <1>7 DEF Made, Told
  <2>3. QED
    BY <1>6, <2>1, <2>2 DEF Noted
<1>8. CASE k \notin p.fired
  <2>1. stored' = Kept(fired) /\ sounded' = [sounded EXCEPT ![t] = @ \cup {k}]
    BY <1>1, <1>3, <1>8 DEF Fire
  <2>2. sounded'[t] = sounded[t] \cup {k} /\ \A x \in Tabs \ {t} : sounded'[x] = sounded[x]
    BY <1>5, <2>1
  <2>3. Told(tab'[t], sounded'[t])
    BY <1>3, <1>4, <1>5, <2>2 DEF Made, Told
  <2>4. \A x \in Tabs : \A l \in sounded'[x] : l \in AlarmKey => l.at <= now
    BY <1>5, <2>2 DEF Noted
  <2>5. \A l \in stored' : l \in AlarmKey => l.at <= now
    <3>1. SUFFICES ASSUME NEW l \in fired, l \in AlarmKey
                   PROVE  l.at <= now
      BY <2>1 DEF Kept
    <3>2. CASE l \in sounded[t] \cup {k}
      BY <1>5, <3>1, <3>2 DEF Noted
    <3>3. CASE l \notin sounded[t] \cup {k}
      <4>1. l.at <= p.since /\ l.at \in Nat
        BY <1>3, <1>5, <3>1, <3>3 DEF Told, AlarmKey
      <4>2. QED
        BY <1>5, <4>1
    <3>4. QED
      BY <3>2, <3>3
  <2>6. QED
    BY <1>6, <2>2, <2>3, <2>4, <2>5 DEF Noted
<1>9. QED
  BY <1>7, <1>8

LEMMA NotedHolds ==
  ASSUME Typed, Timely, Noted, [Next]_vars
  PROVE  Noted'
<1>1. CASE UNCHANGED vars
  BY <1>1 DEF vars, Noted
<1>2. CASE Tick
  <2>1. now' = now + 1 /\ UNCHANGED <<tab, stored, sounded>> /\ now \in Nat
    BY <1>2 DEF Tick, Typed
  <2>2. \A k \in AlarmKey : k.at <= now => k.at <= now + 1
    BY <2>1 DEF AlarmKey
  <2>3. QED
    BY <2>1, <2>2 DEF Noted
<1>3. ASSUME NEW t \in Tabs, OnePage(t)
      PROVE  Noted'
  <2>1. CASE \E k \in tab[t].timers : Fire(t, k)
    BY <2>1, FireNotes
  <2>2. CASE ~(\E k \in tab[t].timers : Fire(t, k))
    <3>1. UNCHANGED <<now, stored, sounded>>
      BY <1>3, <2>2, OnePageRest
    <3>2. \A x \in Tabs \ {t} : tab'[x] = tab[x]
      BY <1>3, OnePageOthers DEF OthersStay
    <3>3. PICK p, q : p = tab[t] /\ q = tab'[t]
      OBVIOUS
    <3>4. Told(p, sounded[t]) /\ p.since \in Nat /\ q.since \in Nat
      <4>1. Paged(q)
        BY <1>3, <3>3, OnePageTyped DEF PagesTyped
      <4>2. QED
        BY <3>3, <4>1 DEF Noted, Typed, Paged
    <3>5. Told(q, sounded[t])
      <4>1. CASE q.fired = p.fired /\ q.since >= p.since
        <5>1. \A k \in AlarmKey : k.at <= p.since => k.at <= q.since
          BY <3>4, <4>1 DEF AlarmKey
        <5>2. QED
          BY <3>4, <4>1, <5>1 DEF Told
      <4>2. CASE q.fired = stored /\ q.since = now
        BY <4>2 DEF Told, Noted
      <4>3. QED
        BY <1>3, <2>2, <3>3, <4>1, <4>2, MemoryStays
    <3>6. QED
      BY <3>1, <3>2, <3>3, <3>5 DEF Noted
  <2>3. QED
    BY <2>1, <2>2
<1>4. ASSUME NEW where \in Tabs \cup {Elsewhere}, Change(where)
      PROVE  Noted'
  <2>1. Invalidate(where) /\ UNCHANGED <<now, stored, sounded>>
    BY <1>4, ChangeRest
  <2>2. ASSUME NEW t \in Tabs
        PROVE  Told(tab'[t], sounded[t])
    <3>1. CASE tab'[t] = tab[t]
      BY <3>1 DEF Noted
    <3>2. CASE tab'[t] = Polls(tab[t])
      BY <3>2 DEF Polls, Page, Noted, Told
    <3>3. QED
      BY <2>1, <3>1, <3>2, InvalidateIs
  <2>3. QED
    BY <2>1, <2>2 DEF Noted
<1>5. QED
  BY <1>1, <1>2, <1>3, <1>4, StepIs

LEMMA ComingChange ==
  ASSUME Typed, Timely, Awaited, NEW where, Change(where), NEW t \in Tabs,
         NEW a \in Alarms, NEW u \in Schedule[a], on'[a],
         Expects(tab'[t], changed'[a], u), Instant(a, u) \notin sounded[t]
  PROVE  Coming(tab'[t], Instant(a, u), u, now)
<1>1. PICK p : p = tab[t]
  OBVIOUS
<1>2. PICK q : q = tab'[t]
  OBVIOUS
<1>3. PICK k : k = Instant(a, u)
  OBVIOUS
<1>4. PICK c : c = changed'[a]
  OBVIOUS
<1>5. Invalidate(where) /\ now' = now
  BY ChangeRest
<1>6. /\ now \in Nat /\ Poll \in Nat /\ Latency \in Nat /\ u \in Nat /\ Window \in Nat
      /\ Paged(p) /\ Clocked(p, now)
  BY <1>1, NotificationsAssumption DEF Typed, Timely, Window
<1>7. Paged(q) /\ Clocked(q, now)
  <2>1. Typed' /\ Timely'
    BY ChangeKeepsTyped, ChangeKeepsTimely
  <2>2. QED
    BY <1>2, <1>5, <2>1 DEF Typed, Timely
<1>8. Expects(q, c, u) /\ p.renewed \in Nat /\ q.renewed \in Nat
  BY <1>2, <1>4, <1>6, <1>7 DEF Paged
<1>9. CASE now + Window <= u
  BY <1>2, <1>3, <1>6, <1>7, <1>9, ComingInTime
<1>10. CASE ~(now + Window <= u)
  <2>1. c = changed[a] /\ on[a]
    <3>1. c # now
      BY <1>8, <1>10 DEF Expects
    <3>2. QED
      BY <1>4, <3>1, ChangeRows
  <2>2. Expects(p, c, u) => Coming(p, k, u, now)
    BY <1>1, <1>3, <2>1 DEF Awaited
  <2>3. CASE q = p
    BY <1>2, <1>3, <1>8, <2>2, <2>3
  <2>4. CASE q = Polls(p)
    <3>1. /\ q.awake = p.awake /\ q.active = p.active /\ q.timers = p.timers
          /\ q.phone = "asked" /\ q.asked = now /\ q.reply = {} /\ q.since = p.since
          /\ q.renewed = IF p.phone = "idle" THEN p.renewed ELSE now
      BY <2>4 DEF Polls, Page
    <3>2. q.renewed # now
      BY <1>8, <1>10 DEF Expects
    <3>3. p.phone = "idle" /\ q.renewed = p.renewed
      BY <3>1, <3>2
    <3>4. Expects(p, c, u)
      BY <1>8, <3>1, <3>3 DEF Expects
    <3>5. (k \in p.timers \/ now + Latency <= u) /\ now <= u
      <4>1. Coming(p, k, u, now)
        BY <2>2, <3>4
      <4>2. k \in p.timers \/ now + Latency <= u
        BY <1>6, <3>3, <3>4, <4>1, AskedInTime
      <4>3. QED
        BY <4>1, <4>2 DEF Coming
    <3>6. QED
      BY <1>2, <1>3, <3>1, <3>5 DEF Coming
  <2>5. QED
    BY <1>1, <1>2, <1>5, <2>3, <2>4, InvalidateIs
<1>11. QED
  BY <1>9, <1>10

LEMMA AwaitedHolds ==
  ASSUME Typed, Timely, Noted, Awaited, Timing, FeedFits, [Next]_vars
  PROVE  Awaited'
<1>1. CASE UNCHANGED vars
  BY <1>1 DEF vars, Awaited
<1>2. CASE Tick
  <2>1. /\ now' = now + 1 /\ UNCHANGED <<tab, on, changed, sounded>>
        /\ \A t \in Tabs : Settled(tab[t])
    BY <1>2 DEF Tick
  <2>2. ASSUME NEW t \in Tabs, NEW a \in Alarms, NEW u \in Schedule[a], on[a],
               Expects(tab[t], changed[a], u), Instant(a, u) \notin sounded[t]
        PROVE  Coming(tab[t], Instant(a, u), u, now + 1)
    <3>1. PICK p, k, c : p = tab[t] /\ k = Instant(a, u) /\ c = changed[a]
      OBVIOUS
    <3>2. k.at = u /\ u \in Nat /\ now \in Nat /\ Paged(p) /\ Settled(p)
      BY <2>1, <3>1, NotificationsAssumption DEF Instant, Typed
    <3>3. Expects(p, c, u) /\ Coming(p, k, u, now)
      BY <2>2, <3>1 DEF Awaited
    <3>4. Coming(p, k, u, now + 1)
      BY <3>2, <3>3, ComingTick
    <3>5. QED
      BY <3>1, <3>4
  <2>3. QED
    BY <2>1, <2>2 DEF Awaited
<1>3. ASSUME NEW t \in Tabs, OnePage(t)
      PROVE  Awaited'
  <2>1. UNCHANGED <<now, on, changed>>
    BY <1>3, OnePageRest
  <2>2. ASSUME NEW x \in Tabs, NEW a \in Alarms, NEW u \in Schedule[a], on[a],
               Expects(tab'[x], changed[a], u), Instant(a, u) \notin sounded'[x]
        PROVE  Coming(tab'[x], Instant(a, u), u, now)
    <3>1. CASE x = t
      <4>1. Expects(tab[t], changed[a], u) /\ Instant(a, u) \notin sounded[t]
              => Coming(tab[t], Instant(a, u), u, now)
        BY <2>2 DEF Awaited
      <4>2. QED
        BY <1>3, <2>2, <3>1, <4>1, ComingStep
    <3>2. CASE x # t
      <4>1. tab'[x] = tab[x]
        BY <1>3, <3>2, OnePageOthers DEF OthersStay
      <4>2. sounded'[x] = sounded[x]
        <5>1. CASE UNCHANGED sounded
          BY <5>1
        <5>2. ASSUME NEW l \in tab[t].timers, Fire(t, l)
              PROVE  sounded'[x] = sounded[x]
          BY <3>2, <5>2 DEF Fire, Typed
        <5>3. QED
          BY <1>3, <5>1, <5>2, OnePageRest
      <4>3. QED
        BY <2>2, <4>1, <4>2 DEF Awaited
    <3>3. QED
      BY <3>1, <3>2
  <2>3. QED
    BY <2>1, <2>2 DEF Awaited
<1>4. ASSUME NEW where \in Tabs \cup {Elsewhere}, Change(where)
      PROVE  Awaited'
  <2>1. now' = now /\ sounded' = sounded
    BY <1>4, ChangeRest
  <2>2. \A t \in Tabs, a \in Alarms : \A u \in Schedule[a] :
          on'[a] /\ Expects(tab'[t], changed'[a], u) /\ Instant(a, u) \notin sounded[t]
            => Coming(tab'[t], Instant(a, u), u, now)
    BY <1>4, ComingChange
  <2>3. QED
    BY <2>1, <2>2 DEF Awaited
<1>5. QED
  BY <1>1, <1>2, <1>3, <1>4, StepIs

LEMMA AwaitedIsHeard ==
  ASSUME Typed, Awaited
  PROVE  AlarmsHeard
<1>1. SUFFICES ASSUME NEW t \in Tabs, NEW a \in Alarms, NEW u \in Schedule[a],
                      Steady(t), tab[t].since + Window <= u, tab[t].renewed + Window <= u,
                      on[a], changed[a] + Window <= u, u < now, ~Heard(t, a, u)
               PROVE  FALSE
  BY DEF AlarmsHeard
<1>2. Expects(tab[t], changed[a], u) /\ Instant(a, u) \notin sounded[t]
  BY <1>1 DEF Expects, Steady, Heard, Instant
<1>3. now <= u
  BY <1>1, <1>2 DEF Awaited, Coming
<1>4. now \in Nat /\ u \in Nat
  BY NotificationsAssumption DEF Typed
<1>5. QED
  BY <1>1, <1>3, <1>4

\* "An enabled alarm raises a browser notification at each occurrence ... for as long as
\* the application is open" (R-32): each occurrence of an alarm that has been enabled, in
\* a tab that has been open, awake and answered, for a window's time.  So it is for any
\* schedule, any number of tabs and any interleaving of polls, answers, timers and
\* changes, where the clocks agree (or the server's is behind), LOOKAHEAD_MS exceeds
\* POLL_INTERVAL_MS by what an answer takes, and a window's occurrences fit in the feed.
THEOREM EnabledAlarmsSound == Timing /\ FeedFits /\ Spec => []AlarmsHeard
<1>1. Init => Typed /\ Timely /\ Noted /\ Awaited
  <2> SUFFICES ASSUME Init
               PROVE  Noted /\ Awaited
    BY Starts
  <2>1. Typed /\ Timely /\ now = 0
    BY Starts DEF Init
  <2>2. /\ stored = {} /\ \A t \in Tabs : sounded[t] = {} /\ tab[t].fired = {} /\ tab[t].since = 0
    BY DEF Init, Loading
  <2>3. Noted
    BY <2>2 DEF Noted, Told
  <2>4. ASSUME NEW t \in Tabs, NEW a \in Alarms, NEW u \in Schedule[a],
               Expects(tab[t], changed[a], u)
        PROVE  Coming(tab[t], Instant(a, u), u, now)
    <3>1. PICK p, k : p = tab[t] /\ k = Instant(a, u)
      OBVIOUS
    <3>2. Paged(p) /\ Clocked(p, now) /\ now \in Nat /\ u \in Nat /\ Window \in Nat
      BY <2>1, <3>1, NotificationsAssumption DEF Typed, Timely, Window
    <3>3. now + Window <= u
      BY <2>1, <2>2, <2>4, <3>2 DEF Expects
    <3>4. Coming(p, k, u, now)
      BY <3>2, <3>3, ComingInTime
    <3>5. QED
      BY <3>1, <3>4
  <2>5. QED
    BY <2>3, <2>4 DEF Awaited
<1>2. Timing /\ FeedFits /\ Typed /\ Timely /\ Noted /\ Awaited /\ [Next]_vars
        => (Typed /\ Timely /\ Noted /\ Awaited)'
  BY TypedHolds, TimelyHolds, NotedHolds, AwaitedHolds
<1>3. Timing /\ FeedFits => [](Timing /\ FeedFits)
  <2>1. Timing /\ FeedFits => (Timing /\ FeedFits)'
    BY DEF Timing, FeedFits, Near
  <2>2. QED
    BY <2>1, PTL
<1>4. Typed /\ Awaited => AlarmsHeard
  BY AwaitedIsHeard
<1>5. QED
  BY <1>1, <1>2, <1>3, <1>4, PTL DEF Spec

-----------------------------------------------------------------------------
\* A sequence started in a tab says every one of its steps there.

Length == LengthOf(RunSpec)

\* Everything a run announces.
Said == Range(StepOccurrences(RunSpec, [from |-> 0, to |-> LengthOf(RunSpec)],
                              MaxStepOccurrences))

\* Every window shows what of it lies within.
EngineAnswers ==
  /\ Length \in Nat
  /\ \A o \in Said : o.at \in 0..Length
  /\ \A o \in Said, from, to \in Int :
       from <= o.at /\ o.at <= to
         => o \in Range(StepOccurrences(RunSpec, [from |-> from, to |-> to], MaxStepOccurrences))

LEMMA EngineDoesAnswer == EngineAnswers
<1>1. PICK s, whole, said : /\ s = RunSpec /\ whole = [from |-> 0, to |-> LengthOf(s)]
                            /\ said = StepOccurrences(s, whole, MaxStepOccurrences)
  OBVIOUS
<1>2. IsSequence(s)
  BY <1>1, NotificationsAssumption
<1>3. LengthOf(s) \in Nat
  BY <1>2, LengthIsNat
<1>4. FirstOf(said, Within(s, whole), Atmost(MaxStepOccurrences, MaxStepOccurrences))
  BY <1>1, <1>2, AnswerIsFirst, SequenceEngineAssumption
<1>5. \A o \in Range(said) : o.at \in 0..LengthOf(s)
  <2>1. \A o \in Range(said) : o \in Within(s, whole)
    BY <1>4, EntriesOf
  <2>2. \A o \in Within(s, whole) : o.at \in Nat /\ o.at <= LengthOf(s)
    BY <1>2, OccursAt
  <2>3. QED
    BY <1>3, <2>1, <2>2
<1>6. ASSUME NEW o \in Range(said), NEW from \in Int, NEW to \in Int, from <= o.at, o.at <= to
      PROVE  o \in Range(StepOccurrences(s, [from |-> from, to |-> to], MaxStepOccurrences))
  <2>1. PICK w : w = [from |-> from, to |-> to]
    OBVIOUS
  <2>2. InWindow(o.at, w)
    BY <1>6, <2>1 DEF InWindow
  <2>3. o \in Range(StepOccurrences(s, w, MaxStepOccurrences))
    BY <1>1, <1>2, <2>2, NoWindowHides
  <2>4. QED
    BY <2>1, <2>3
<1>7. QED
  BY <1>1, <1>3, <1>5, <1>6 DEF EngineAnswers, Length, Said

StepKey(r, u) == [kind |-> "step", of |-> r, at |-> u]

\* A run starts once, now or earlier, and is not over before its length has passed.
Begun ==
  \A r \in Runs : run[r].state # "idle" =>
    /\ run[r].started \in Nat /\ run[r].started <= now
    /\ run[r].state = "completed" => run[r].started + Length <= now

\* No page has heard of a run that has not been started.
Lived(S) == \A k \in S : k.kind = "step" => run[k.of].state # "idle"
HeldBy(p) == p.data \cup p.timers \cup p.fired \cup p.reply
Born == Lived(stored) /\ \A t \in Tabs : Lived(HeldBy(tab[t]))

\* A step that a page takes for fired it has sounded, or the page is younger than the run.
ToldOfSteps ==
  \A t \in Tabs : \A k \in tab[t].fired :
    k.kind = "step" => k \in sounded[t] \/ run[k.of].started <= tab[t].since

\* The page has been there since before the run, and has given up no poll since.
Attends(p, s) == p.awake /\ p.active /\ p.since < s /\ p.renewed <= s

\* At n a page that attends the run started at s is not too late for its step at u: it
\* waits for the answer to what it asked at the start, or has the timer, or has time left.
Owed(p, k, u, s, n) ==
  /\ n <= s + Latency \/ n <= u
  /\ ~p.loaded => p.phone # "idle" /\ p.asked <= s
  /\ p.loaded /\ p.phone = "idle" => k \in p.timers \/ p.nextPoll + Latency < u
  /\ p.loaded /\ p.phone # "idle" => k \in p.timers \/ p.asked + Latency < u \/ p.asked <= s
  /\ p.loaded /\ p.phone = "answered"
       => k \in p.reply \/ p.asked + Window < u \/ (k \in p.timers /\ u <= n)

Alive(r) == run[r].state \in {"active", "completed"}
Prompt == Latency <= Grace /\ Latency < Length

Stepping ==
  \A t \in Tabs, r \in Runs, o \in Said :
    LET s == run[r].started
        k == StepKey(r, s + o.at)
    IN Alive(r) /\ run[r].by = t /\ Attends(tab[t], s) /\ Prompt /\ k \notin sounded[t]
         => Owed(tab[t], k, s + o.at, s, now)

-----------------------------------------------------------------------------
\* The life of a run.

LEMMA FinishedIs ==
  ASSUME NEW r \in Runs, NEW at
  PROVE  Finished(r, at) <=> at >= run[r].started + Length
BY DEF Finished, HasFinished, RunEndsAt, LengthOf, Length

LEMMA AnswerMoves ==
  ASSUME Typed, NEW t \in Tabs, ServerAnswers(t), NEW r \in Runs
  PROVE  \/ run'[r] = run[r]
         \/ /\ run[r].state = "active" /\ Finished(r, now + Skew)
            /\ run'[r].state = "completed" /\ run'[r].started = run[r].started
            /\ run'[r].by = run[r].by
<1>1. PICK w : w = run[r]
  OBVIOUS
<1>2. RunRow(w)
  BY <1>1 DEF Typed
<1>3. PICK v : v = [w EXCEPT !.state = "completed"]
  OBVIOUS
<1>4. v.state = "completed" /\ v.started = w.started /\ v.by = w.by
  BY <1>2, <1>3 DEF RunRow
<1>5. \/ run'[r] = w
      \/ w.state = "active" /\ Finished(r, now + Skew) /\ run'[r] = v
  BY <1>1, <1>3 DEF ServerAnswers
<1>6. QED
  BY <1>1, <1>4, <1>5

LEMMA ChangeMoves ==
  ASSUME Typed, NEW where, Change(where), NEW r \in Runs
  PROVE  \/ run'[r] = run[r]
         \/ /\ run[r].state = "idle" /\ run'[r].state = "active"
            /\ run'[r].started = now + Skew /\ run'[r].by = where
         \/ /\ run[r].state = "active" /\ run'[r].state = "stopped"
            /\ run'[r].started = run[r].started /\ run'[r].by = run[r].by
<1>0. run = [x \in Runs |-> run[x]] /\ RunRow(run[r])
  BY DEF Typed
<1>1. CASE \E a \in Alarms : Turn(a, where)
  BY <1>1 DEF Turn
<1>2. ASSUME NEW x \in Runs, Activate(x, where)
      PROVE  \/ run'[r] = run[r]
             \/ /\ run[r].state = "idle" /\ run'[r].state = "active"
                /\ run'[r].started = now + Skew /\ run'[r].by = where
  <2>1. PICK v : v = [state |-> "active", started |-> now + Skew, by |-> where]
    OBVIOUS
  <2>2. run' = [run EXCEPT ![x] = v] /\ run[x].state = "idle"
    BY <1>2, <2>1 DEF Activate
  <2>3. v.state = "active" /\ v.started = now + Skew /\ v.by = where
    BY <2>1
  <2>4. QED
    BY <1>0, <2>2, <2>3
<1>3. ASSUME NEW x \in Runs, Stop(x, where)
      PROVE  \/ run'[r] = run[r]
             \/ /\ run[r].state = "active" /\ run'[r].state = "stopped"
                /\ run'[r].started = run[r].started /\ run'[r].by = run[r].by
  <2>1. PICK w : w = run[x]
    OBVIOUS
  <2>2. RunRow(w) /\ w.state = "active"
    BY <1>3, <2>1 DEF Typed, Stop
  <2>3. PICK v : v = [w EXCEPT !.state = "stopped"]
    OBVIOUS
  <2>4. v.state = "stopped" /\ v.started = w.started /\ v.by = w.by
    BY <2>2, <2>3 DEF RunRow
  <2>5. run' = [run EXCEPT ![x] = v]
    BY <1>3, <2>1, <2>3 DEF Stop
  <2>6. QED
    BY <1>0, <2>1, <2>2, <2>4, <2>5
<1>4. QED
  BY <1>1, <1>2, <1>3 DEF Change

\* A run goes from idle to active, and from there to its end; it keeps its start.
LEMMA RunMoves ==
  ASSUME Typed, [Next]_vars, NEW r \in Runs
  PROVE  \/ run'[r] = run[r]
         \/ /\ run[r].state = "idle" /\ run'[r].state = "active"
            /\ run'[r].started = now + Skew
         \/ /\ run[r].state = "active" /\ run'[r].started = run[r].started
            /\ run'[r].by = run[r].by
            /\ \/ run'[r].state = "stopped"
               \/ run'[r].state = "completed" /\ Finished(r, now + Skew)
<1>1. CASE UNCHANGED vars
  BY <1>1 DEF vars
<1>2. CASE Tick
  BY <1>2 DEF Tick
<1>3. ASSUME NEW t \in Tabs, OnePage(t)
      PROVE  \/ run'[r] = run[r]
             \/ /\ run[r].state = "active" /\ run'[r].started = run[r].started
                /\ run'[r].by = run[r].by
                /\ run'[r].state = "completed" /\ Finished(r, now + Skew)
  BY <1>3, OnePageRest, AnswerMoves
<1>4. ASSUME NEW where \in Tabs \cup {Elsewhere}, Change(where)
      PROVE  \/ run'[r] = run[r]
             \/ /\ run[r].state = "idle" /\ run'[r].state = "active"
                /\ run'[r].started = now + Skew
             \/ /\ run[r].state = "active" /\ run'[r].state = "stopped"
                /\ run'[r].started = run[r].started /\ run'[r].by = run[r].by
  BY <1>4, ChangeMoves
<1>5. QED
  BY <1>1, <1>2, <1>3, <1>4, StepIs

LEMMA NowIs ==
  ASSUME Typed, [Next]_vars
  PROVE  now \in Nat /\ (now' = now \/ now' = now + 1)
<1>1. CASE UNCHANGED vars
  BY <1>1 DEF vars, Typed
<1>2. CASE Tick
  BY <1>2 DEF Tick, Typed
<1>3. CASE \E t \in Tabs : OnePage(t)
  BY <1>3, OnePageRest DEF Typed
<1>4. CASE \E where \in Tabs \cup {Elsewhere} : Change(where)
  BY <1>4, ChangeRest DEF Typed
<1>5. QED
  BY <1>1, <1>2, <1>3, <1>4, StepIs

LEMMA BegunHolds ==
  ASSUME Typed, Begun, Skew = 0, Length \in Nat, [Next]_vars
  PROVE  Begun'
<1>1. now \in Nat /\ (now' = now \/ now' = now + 1)
  BY NowIs
<1>2. SUFFICES ASSUME NEW r \in Runs, run'[r].state # "idle"
               PROVE  /\ run'[r].started \in Nat /\ run'[r].started <= now'
                      /\ run'[r].state = "completed" => run'[r].started + Length' <= now'
  BY DEF Begun
<1>3. Length' = Length
  BY DEF Length
<1>4. PICK w, v : w = run[r] /\ v = run'[r]
  OBVIOUS
<1>5. w.state # "idle" => /\ w.started \in Nat /\ w.started <= now
                          /\ w.state = "completed" => w.started + Length <= now
  BY <1>4 DEF Begun
<1>6. CASE v = w
  BY <1>1, <1>2, <1>3, <1>4, <1>5, <1>6
<1>7. CASE v.state = "active" /\ v.started = now + Skew
  BY <1>1, <1>4, <1>7
<1>8. CASE /\ w.state = "active" /\ v.started = w.started
           /\ v.state = "stopped" \/ (v.state = "completed" /\ Finished(r, now + Skew))
  <2>1. v.state = "completed" => now >= w.started + Length
    BY <1>1, <1>4, <1>8, FinishedIs
  <2>2. QED
    BY <1>1, <1>3, <1>4, <1>5, <1>8, <2>1
<1>9. QED
  BY <1>4, <1>6, <1>7, <1>8, RunMoves

-----------------------------------------------------------------------------
\* What a page holds of runs.

LEMMA ArmedHeld ==
  ASSUME NEW p, NEW data
  PROVE  Armed(p, data) \subseteq p.timers \cup data
BY DEF Armed

\* A page takes in nothing but what is stored and what the feed offers.
LEMMA HeldStep ==
  ASSUME Typed, NEW t \in Tabs, OnePage(t), NEW k \in HeldBy(tab'[t]), k.kind = "step"
  PROVE  k \in HeldBy(tab[t]) \cup stored \/ run[k.of].state = "active"
<1>1. PICK p : p = tab[t]
  OBVIOUS
<1>2. PICK q : q = tab'[t]
  OBVIOUS
<1>3. SUFFICES k \in HeldBy(p) \cup stored \/ run[k.of].state = "active"
  BY <1>1
<1>4. k \in HeldBy(q)
  BY <1>2
<1>5. now \in Nat
  BY DEF Typed
<1>6. CASE Ask(t)
  <2>1. Made(t, p.awake, p.active, p.loaded, p.data, p.timers, p.fired, "asked", now,
             p.reply, p.nextPoll, p.since, p.renewed)
    BY <1>1, <1>6, AskIs
  <2>2. QED
    BY <1>2, <1>4, <2>1 DEF Made, HeldBy
<1>7. CASE ServerAnswers(t)
  <2>1. PICK items \in Heads(DueAlarms(now + Skew)) :
          Made(t, p.awake, p.active, p.loaded, p.data, p.timers, p.fired, "answered",
               p.asked, items \cup DueSteps(now + Skew), p.nextPoll, p.since, p.renewed)
    BY <1>1, <1>7, AnswerIs
  <2>2. CASE k \in items \cup DueSteps(now + Skew)
    <3>1. now + Skew \in Int
      BY <1>5, NotificationsAssumption
    <3>2. \/ k.kind = "step" /\ run[k.of].state = "active"
          \/ k.kind = "alarm"
      BY <2>2, <3>1, FeedIs
    <3>3. QED
      BY <3>2
  <2>3. CASE k \notin items \cup DueSteps(now + Skew)
    BY <1>2, <1>4, <2>1, <2>3 DEF Made, HeldBy
  <2>4. QED
    BY <2>2, <2>3
<1>8. CASE Lose(t)
  <2>1. Made(t, p.awake, p.active, p.loaded, p.data, p.timers, p.fired, "idle", p.asked, {},
             now + Poll, now, p.renewed)
    BY <1>1, <1>8, LoseIs
  <2>2. QED
    BY <1>2, <1>4, <2>1 DEF Made, HeldBy
<1>9. CASE Deliver(t)
  <2>1. PICK timers : timers = IF p.active THEN Armed(p, p.reply) ELSE p.timers
    OBVIOUS
  <2>2. PICK s : s = IF p.loaded THEN p.since ELSE now
    OBVIOUS
  <2>3. Made(t, p.awake, p.active, TRUE, p.reply, timers, p.fired, "idle", p.asked, {},
             now + Poll, s, p.renewed)
    BY <1>1, <1>9, <2>1, <2>2, DeliverIs
  <2>4. timers \subseteq p.timers \cup p.reply
    BY <2>1, ArmedHeld
  <2>5. QED
    BY <1>2, <1>4, <2>3, <2>4 DEF Made, HeldBy
<1>10. ASSUME NEW l \in p.timers, Fire(t, l)
       PROVE  k \in HeldBy(p)
  <2>1. PICK timers : timers = p.timers \ {l}
    OBVIOUS
  <2>2. PICK fired : fired = p.fired \cup {l}
    OBVIOUS
  <2>3. Made(t, p.awake, p.active, p.loaded, p.data, timers, fired, p.phone, p.asked,
             p.reply, p.nextPoll, p.since, p.renewed)
    BY <1>1, <1>10, <2>1, <2>2, FireIs
  <2>4. QED
    BY <1>2, <1>4, <1>10, <2>1, <2>2, <2>3 DEF Made, HeldBy
<1>11. CASE SwitchOff(t)
  <2>1. Made(t, p.awake, FALSE, p.loaded, p.data, {}, p.fired, p.phone, p.asked, p.reply,
             p.nextPoll, p.since, p.renewed)
    BY <1>1, <1>11, SwitchOffIs
  <2>2. QED
    BY <1>2, <1>4, <2>1 DEF Made, HeldBy
<1>12. CASE SwitchOn(t)
  <2>1. PICK timers : timers = Armed(p, p.data)
    OBVIOUS
  <2>2. Made(t, p.awake, TRUE, p.loaded, p.data, timers, p.fired, p.phone, p.asked, p.reply,
             now, now, p.renewed)
    BY <1>1, <1>12, <2>1, SwitchOnIs
  <2>3. timers \subseteq p.timers \cup p.data
    BY <2>1, ArmedHeld
  <2>4. QED
    BY <1>2, <1>4, <2>2, <2>3 DEF Made, HeldBy
<1>13. CASE Reload(t)
  <2>1. Made(t, TRUE, storedOn, FALSE, {}, {}, stored, "idle", 0, {}, now, now, now)
    BY <1>13, ReloadIs
  <2>2. QED
    BY <1>2, <1>4, <2>1 DEF Made, HeldBy
<1>14. CASE Sleep(t)
  <2>1. Made(t, FALSE, p.active, p.loaded, p.data, p.timers, p.fired, p.phone, p.asked,
             p.reply, p.nextPoll, p.since, p.renewed)
    BY <1>1, <1>14, SleepIs
  <2>2. QED
    BY <1>2, <1>4, <2>1 DEF Made, HeldBy
<1>15. CASE Wake(t)
  <2>1. Made(t, TRUE, p.active, p.loaded, p.data, p.timers, p.fired, p.phone, now, p.reply,
             p.nextPoll, now, p.renewed)
    BY <1>1, <1>15, WakeIs
  <2>2. QED
    BY <1>2, <1>4, <2>1 DEF Made, HeldBy
<1>16. QED
  BY <1>1, <1>6, <1>7, <1>8, <1>9, <1>10, <1>11, <1>12, <1>13, <1>14, <1>15 DEF OnePage

LEMMA StoredStep ==
  ASSUME Typed, NEW t \in Tabs, OnePage(t)
  PROVE  stored' \subseteq stored \cup HeldBy(tab[t])
<1>1. CASE stored' = stored
  BY <1>1
<1>2. ASSUME NEW l \in tab[t].timers, Fire(t, l)
      PROVE  stored' \subseteq stored \cup HeldBy(tab[t])
  BY <1>2 DEF Fire, Kept, HeldBy
<1>3. QED
  BY <1>1, <1>2, OnePageRest

\* A run that has been started stays so.
LEMMA StartedStays ==
  ASSUME Typed, [Next]_vars, NEW k, IsKey(k), k.kind = "step", run[k.of].state # "idle"
  PROVE  run'[k.of].state # "idle"
<1>1. k.of \in Runs
  BY DEF IsKey, AlarmKey
<1>2. QED
  BY <1>1, RunMoves

LEMMA BornHolds ==
  ASSUME Typed, Born, [Next]_vars
  PROVE  Born'
<1>1. /\ \A k \in stored' : IsKey(k)
      /\ \A t \in Tabs : \A k \in HeldBy(tab'[t]) : IsKey(k)
  <2>1. Typed'
    BY TypedHolds
  <2>2. QED
    BY <2>1 DEF Typed, Paged, HeldBy
<1>2. CASE UNCHANGED <<tab, stored>> /\ run' = run
  BY <1>2 DEF Born, Lived, HeldBy
<1>3. CASE UNCHANGED vars
  BY <1>2, <1>3 DEF vars
<1>4. CASE Tick
  BY <1>2, <1>4 DEF Tick
<1>5. ASSUME NEW t \in Tabs, OnePage(t)
      PROVE  Born'
  <2>1. ASSUME NEW k \in stored', k.kind = "step"
        PROVE  run'[k.of].state # "idle"
    <3>1. k \in stored \cup HeldBy(tab[t])
      BY <1>5, <2>1, StoredStep
    <3>2. run[k.of].state # "idle"
      BY <2>1, <3>1 DEF Born, Lived
    <3>3. QED
      BY <1>1, <2>1, <3>2, StartedStays
  <2>2. ASSUME NEW x \in Tabs, NEW k \in HeldBy(tab'[x]), k.kind = "step"
        PROVE  run'[k.of].state # "idle"
    <3>1. k \in HeldBy(tab[x]) \cup stored \/ run[k.of].state = "active"
      <4>1. CASE x = t
        BY <1>5, <2>2, <4>1, HeldStep
      <4>2. CASE x # t
        BY <1>5, <2>2, <4>2, OnePageOthers DEF OthersStay
      <4>3. QED
        BY <4>1, <4>2
    <3>2. run[k.of].state # "idle"
      BY <2>2, <3>1 DEF Born, Lived
    <3>3. QED
      BY <1>1, <2>2, <3>2, StartedStays
  <2>3. QED
    BY <2>1, <2>2 DEF Born, Lived
<1>6. ASSUME NEW where \in Tabs \cup {Elsewhere}, Change(where)
      PROVE  Born'
  <2>1. Invalidate(where) /\ stored' = stored
    BY <1>6, ChangeRest
  <2>2. ASSUME NEW x \in Tabs
        PROVE  HeldBy(tab'[x]) \subseteq HeldBy(tab[x])
    <3>1. CASE tab'[x] = tab[x]
      BY <3>1
    <3>2. CASE tab'[x] = Polls(tab[x])
      BY <3>2 DEF Polls, Page, HeldBy
    <3>3. QED
      BY <2>1, <3>1, <3>2, InvalidateIs
  <2>3. ASSUME NEW k \in stored', k.kind = "step"
        PROVE  run'[k.of].state # "idle"
    BY <1>1, <2>1, <2>3, StartedStays DEF Born, Lived
  <2>4. ASSUME NEW x \in Tabs, NEW k \in HeldBy(tab'[x]), k.kind = "step"
        PROVE  run'[k.of].state # "idle"
    BY <1>1, <2>2, <2>4, StartedStays DEF Born, Lived
  <2>5. QED
    BY <2>3, <2>4 DEF Born, Lived
<1>7. QED
  BY <1>3, <1>4, <1>5, <1>6, StepIs

\* What of the steps a page takes for fired, it has sounded; a page that is loaded anew
\* forgets that, and is younger than every run it knows of.
LEMMA ToldHolds ==
  ASSUME Typed, Timely, Begun, Born, ToldOfSteps, [Next]_vars
  PROVE  ToldOfSteps'
<1>0. now \in Nat /\ sounded = [x \in Tabs |-> sounded[x]]
  BY DEF Typed
<1>1. \A t \in Tabs : \A k \in tab[t].fired : IsKey(k)
  BY DEF Typed, Paged
<1>2. ASSUME NEW k, IsKey(k), k.kind = "step", run[k.of].state # "idle"
      PROVE  /\ run'[k.of].started = run[k.of].started
             /\ run[k.of].started \in Nat /\ run[k.of].started <= now
  <2>1. k.of \in Runs
    BY <1>2 DEF IsKey, AlarmKey
  <2>2. QED
    BY <1>2, <2>1, RunMoves DEF Begun
<1>3. ASSUME NEW t \in Tabs, NEW k \in tab[t].fired, k.kind = "step"
      PROVE  /\ run'[k.of].started = run[k.of].started
             /\ run[k.of].started \in Nat /\ run[k.of].started <= now
             /\ k \in sounded[t] \/ run[k.of].started <= tab[t].since
  BY <1>1, <1>2, <1>3 DEF Born, Lived, HeldBy, ToldOfSteps
<1>4. CASE UNCHANGED vars
  BY <1>4 DEF vars, ToldOfSteps
<1>5. CASE Tick
  BY <1>5 DEF Tick, ToldOfSteps
<1>6. ASSUME NEW t \in Tabs, OnePage(t)
      PROVE  ToldOfSteps'
  <2>1. \A x \in Tabs \ {t} : tab'[x] = tab[x]
    BY <1>6, OnePageOthers DEF OthersStay
  <2>2. /\ \A x \in Tabs : sounded[x] \subseteq sounded'[x]
        /\ \A l \in tab[t].timers : Fire(t, l) => l \in sounded'[t] \/ l \in tab[t].fired
    <3>1. ASSUME NEW l \in tab[t].timers, Fire(t, l)
          PROVE  \A x \in Tabs : sounded[x] \subseteq sounded'[x]
      BY <1>0, <3>1 DEF Fire
    <3>2. \A x \in Tabs : sounded[x] \subseteq sounded'[x]
      <4>1. CASE sounded' = sounded
        BY <4>1
      <4>2. QED
        BY <1>6, <3>1, <4>1, OnePageRest
    <3>3. ASSUME NEW l \in tab[t].timers, Fire(t, l)
          PROVE  l \in sounded'[t] \/ l \in tab[t].fired
      BY <1>0, <3>3 DEF Fire
    <3>4. QED
      BY <3>2, <3>3
  <2>3. ASSUME NEW x \in Tabs \ {t}, NEW k \in tab'[x].fired, k.kind = "step"
        PROVE  k \in sounded'[x] \/ run'[k.of].started <= tab'[x].since
    BY <1>3, <2>1, <2>2, <2>3
  <2>4. ASSUME NEW k \in tab'[t].fired, k.kind = "step"
        PROVE  k \in sounded'[t] \/ run'[k.of].started <= tab'[t].since
    <3>1. PICK p, q : p = tab[t] /\ q = tab'[t]
      OBVIOUS
    <3>2. CASE \E l \in tab[t].timers : Fire(t, l)
      <4>1. PICK l \in p.timers : Fire(t, l)
        BY <3>1, <3>2
      <4>2. PICK timers : timers = p.timers \ {l}
        OBVIOUS
      <4>3. PICK fired : fired = p.fired \cup {l}
        OBVIOUS
      <4>4. Made(t, p.awake, p.active, p.loaded, p.data, timers, fired, p.phone, p.asked,
                 p.reply, p.nextPoll, p.since, p.renewed)
        BY <3>1, <4>1, <4>2, <4>3, FireIs
      <4>5. q.since = p.since /\ k \in p.fired \cup {l}
        BY <2>4, <3>1, <4>3, <4>4 DEF Made
      <4>6. QED
        BY <1>3, <2>2, <2>4, <3>1, <4>1, <4>5
    <3>3. CASE ~(\E l \in tab[t].timers : Fire(t, l))
      <4>1. p.since \in Nat /\ q.since \in Nat
        <5>1. Paged(q)
          BY <1>6, <3>1, OnePageTyped DEF PagesTyped
        <5>2. QED
          BY <3>1, <5>1 DEF Typed, Paged
      <4>2. CASE q.fired = p.fired /\ q.since >= p.since
        BY <1>3, <2>2, <2>4, <3>1, <4>1, <4>2
      <4>3. CASE q.fired = stored /\ q.since = now
        <5>1. k \in stored /\ IsKey(k)
          BY <2>4, <3>1, <4>3 DEF Typed
        <5>2. run[k.of].state # "idle"
          BY <2>4, <5>1 DEF Born, Lived
        <5>3. QED
          BY <1>2, <2>4, <3>1, <4>3, <5>1, <5>2
      <4>4. QED
        BY <1>6, <3>1, <3>3, <4>2, <4>3, MemoryStays
    <3>4. QED
      BY <3>2, <3>3
  <2>5. QED
    BY <2>3, <2>4 DEF ToldOfSteps
<1>7. ASSUME NEW where \in Tabs \cup {Elsewhere}, Change(where)
      PROVE  ToldOfSteps'
  <2>1. Invalidate(where) /\ sounded' = sounded
    BY <1>7, ChangeRest
  <2>2. ASSUME NEW t \in Tabs
        PROVE  tab'[t].fired = tab[t].fired /\ tab'[t].since = tab[t].since
    <3>1. CASE tab'[t] = tab[t]
      BY <3>1
    <3>2. CASE tab'[t] = Polls(tab[t])
      BY <3>2 DEF Polls, Page
    <3>3. QED
      BY <2>1, <3>1, <3>2, InvalidateIs
  <2>3. QED
    BY <1>3, <2>1, <2>2 DEF ToldOfSteps
<1>8. QED
  BY <1>4, <1>5, <1>6, <1>7, StepIs

-----------------------------------------------------------------------------
\* The steps of a run in the feed.

LEMMA StepIsOffered ==
  ASSUME EngineAnswers, NEW at \in Int, NEW r \in Runs, NEW s, s = run[r].started, s \in Nat,
         run[r].state = "active", at < s + Length, NEW o \in Said,
         at - Grace <= s + o.at, s + o.at <= at + Horizon
  PROVE  StepKey(r, s + o.at) \in DueSteps(at)
<1>1. Grace \in Nat /\ Horizon \in Nat /\ Length \in Nat /\ o.at \in 0..Length
  BY NotificationsAssumption DEF EngineAnswers
<1>2. ~Finished(r, at)
  BY <1>1, FinishedIs
<1>3. PICK from, to : from = at - Grace - s /\ to = at + Horizon - s
  OBVIOUS
<1>4. from \in Int /\ to \in Int /\ from <= o.at /\ o.at <= to
  BY <1>1, <1>3
<1>5. o \in Range(StepOccurrences(RunSpec, [from |-> from, to |-> to], MaxStepOccurrences))
  BY <1>4 DEF EngineAnswers
<1>6. r \in {q \in Runs : run[q].state = "active" /\ ~Finished(q, at)}
  BY <1>2
<1>7. QED
  BY <1>3, <1>5, <1>6 DEF DueSteps, GraceFrom, StepKey

\* What the answer to a poll says of a step: it is offered, or it is far ahead, or its
\* timer is due already.
LEMMA AnswerOwes ==
  ASSUME EngineAnswers, Prompt, Timing, Skew = 0, now \in Nat,
         NEW p, Paged(p), Clocked(p, now), p.awake, p.phone = "asked",
         NEW r \in Runs, NEW s, s = run[r].started, s \in Nat, s <= now, Alive(r),
         run[r].state = "completed" => s + Length <= now,
         NEW o \in Said, NEW k, k = StepKey(r, s + o.at),
         Owed(p, k, s + o.at, s, now), p.loaded
  PROVE  \/ k \in DueSteps(now + Skew)
         \/ p.asked + Window < s + o.at
         \/ k \in p.timers /\ s + o.at <= now
<1>1. /\ Grace \in Nat /\ Horizon \in Nat /\ Length \in Nat /\ o.at \in 0..Length
      /\ Latency \in Nat /\ Poll \in Nat /\ Window = Poll + 2 * Latency
  BY NotificationsAssumption DEF EngineAnswers, Window
<1>2. PICK u \in Nat : u = s + o.at
  BY <1>1
<1>3. p.asked \in Nat /\ p.asked <= now /\ now <= p.asked + Latency
  BY DEF Paged, Clocked
<1>4. k \in p.timers \/ p.asked + Latency < u \/ p.asked <= s
  BY <1>2 DEF Owed
<1>5. Latency <= Grace /\ Latency < Length /\ Horizon >= Window /\ now + Skew = now
  BY <1>1 DEF Prompt, Timing
<1>6. CASE now < u
  <2>1. CASE u <= now + Horizon
    <3>1. now < s + Length
      BY <1>1, <1>2, <1>6
    <3>2. run[r].state = "active"
      BY <1>1, <3>1 DEF Alive
    <3>3. now - Grace <= u
      BY <1>1, <1>6
    <3>4. QED
      BY <1>2, <1>5, <2>1, <3>1, <3>2, <3>3, StepIsOffered
  <2>2. CASE now + Horizon < u
    BY <1>1, <1>2, <1>3, <1>5, <2>2
  <2>3. QED
    BY <1>1, <2>1, <2>2
<1>7. CASE u <= now /\ k \notin p.timers
  <2>1. p.asked <= s
    BY <1>1, <1>3, <1>4, <1>7
  <2>2. now < s + Length /\ now - Grace <= u /\ u <= now + Horizon
    BY <1>1, <1>2, <1>3, <1>5, <1>7, <2>1
  <2>3. run[r].state = "active"
    BY <1>1, <2>2 DEF Alive
  <2>4. QED
    BY <1>2, <1>5, <2>2, <2>3, StepIsOffered
<1>8. QED
  BY <1>2, <1>6, <1>7

LEMMA UntoldStepIsUnfired ==
  ASSUME ToldOfSteps, NEW t \in Tabs, NEW r \in Runs, NEW u, StepKey(r, u) \notin sounded[t],
         run[r].started \in Nat, tab[t].since \in Nat, tab[t].since < run[r].started
  PROVE  StepKey(r, u) \notin tab[t].fired
<1>1. PICK k : k = StepKey(r, u)
  OBVIOUS
<1>2. k.kind = "step" /\ k.of = r
  BY <1>1 DEF StepKey
<1>3. SUFFICES ASSUME k \in tab[t].fired
               PROVE  FALSE
  BY <1>1
<1>4. k \in sounded[t] \/ run[r].started <= tab[t].since
  BY <1>2, <1>3 DEF ToldOfSteps
<1>5. QED
  BY <1>1, <1>4

LEMMA OwedStep ==
  ASSUME Typed, Timely, Begun, ToldOfSteps, EngineAnswers, Timing, Skew = 0, Prompt,
         NEW t \in Tabs, OnePage(t), NEW r \in Runs, Alive(r), NEW o \in Said,
         NEW s, s = run[r].started, NEW k, k = StepKey(r, s + o.at),
         Attends(tab'[t], s), k \notin sounded'[t],
         Attends(tab[t], s) /\ k \notin sounded[t] => Owed(tab[t], k, s + o.at, s, now)
  PROVE  Owed(tab'[t], k, s + o.at, s, now)
<1>1. PICK p : p = tab[t]
  OBVIOUS
<1>2. PICK q : q = tab'[t]
  OBVIOUS
<1>3. /\ now \in Nat /\ Poll \in Nat /\ Latency \in Nat /\ Lookahead \in Nat
      /\ Window = Poll + 2 * Latency /\ Paged(p) /\ Clocked(p, now)
  BY <1>1, NotificationsAssumption DEF Typed, Timely, Window
<1>4. s \in Nat /\ s <= now /\ (run[r].state = "completed" => s + Length <= now)
  BY DEF Begun, Alive
<1>5. PICK u \in Nat : u = s + o.at
  BY <1>4 DEF EngineAnswers
<1>6. k.at = u
  BY <1>5 DEF StepKey
<1>7. /\ p.asked \in Nat /\ p.nextPoll \in Nat /\ p.since \in Nat /\ p.renewed \in Nat
      /\ p.loaded \in BOOLEAN /\ p.phone \in {"idle", "asked", "answered"}
  BY <1>3, PageOf
<1>8. Attends(q, s) /\ k \notin sounded'[t]
  BY <1>2
<1>9. k \notin sounded[t]
  <2>1. CASE UNCHANGED sounded
    BY <1>8, <2>1
  <2>2. ASSUME NEW l \in tab[t].timers, Fire(t, l)
        PROVE  sounded[t] \subseteq sounded'[t]
    BY <2>2 DEF Fire, Typed
  <2>3. QED
    BY <1>8, <2>1, <2>2, OnePageRest
<1>10. Attends(p, s) => Owed(p, k, u, s, now)
  BY <1>1, <1>5, <1>9
<1>11. p.since < s => k \notin p.fired
  BY <1>1, <1>4, <1>7, <1>9, UntoldStepIsUnfired
<1> SUFFICES Owed(q, k, u, s, now)
  BY <1>2, <1>5
<1>12. CASE Ask(t)
  <2>1. p.phone = "idle" /\ p.active /\ p.awake
    BY <1>1, <1>12, AskIs
  <2>2. Made(t, p.awake, p.active, p.loaded, p.data, p.timers, p.fired, "asked", now,
             p.reply, p.nextPoll, p.since, p.renewed)
    BY <1>1, <1>12, AskIs
  <2>3. Attends(p, s) /\ p.since < s
    BY <1>2, <1>8, <2>2 DEF Made, Attends
  <2>4. now <= p.nextPoll
    BY <1>3, <1>4, <1>7, <2>1, <2>3 DEF Clocked
  <2>5. /\ now <= s + Latency \/ now <= u
        /\ p.loaded
        /\ k \in p.timers \/ now + Latency < u
    BY <1>3, <1>7, <1>10, <2>1, <2>3, <2>4 DEF Owed
  <2>6. QED
    BY <1>2, <2>2, <2>5 DEF Made, Owed
<1>13. CASE ServerAnswers(t)
  <2>1. PICK items \in Heads(DueAlarms(now + Skew)) :
          Made(t, p.awake, p.active, p.loaded, p.data, p.timers, p.fired, "answered",
               p.asked, items \cup DueSteps(now + Skew), p.nextPoll, p.since, p.renewed)
    BY <1>1, <1>13, AnswerIs
  <2>2. p.phone = "asked"
    BY <1>1, <1>13, AnswerIs
  <2>3. Attends(p, s) /\ p.awake
    BY <1>2, <1>8, <2>1 DEF Made, Attends
  <2>4. Owed(p, k, u, s, now)
    BY <1>10, <2>3
  <2>5. p.loaded => \/ k \in DueSteps(now + Skew)
                    \/ p.asked + Window < u
                    \/ k \in p.timers /\ u <= now
    <3>1. Owed(p, k, s + o.at, s, now)
      BY <1>5, <2>4
    <3>2. QED
      BY <1>3, <1>4, <1>5, <2>2, <2>3, <3>1, AnswerOwes
  <2>6. PICK reply : reply = items \cup DueSteps(now + Skew)
    OBVIOUS
  <2>7. Made(t, p.awake, p.active, p.loaded, p.data, p.timers, p.fired, "answered",
             p.asked, reply, p.nextPoll, p.since, p.renewed)
    BY <2>1, <2>6
  <2>8. p.loaded => k \in reply \/ p.asked + Window < u \/ (k \in p.timers /\ u <= now)
    BY <2>5, <2>6
  <2>9. QED
    BY <1>2, <2>2, <2>4, <2>7, <2>8 DEF Made, Owed
<1>14. CASE Lose(t)
  <2>1. Made(t, p.awake, p.active, p.loaded, p.data, p.timers, p.fired, "idle", p.asked, {},
             now + Poll, now, p.renewed)
    BY <1>1, <1>14, LoseIs
  <2>2. QED
    BY <1>2, <1>3, <1>4, <1>8, <2>1 DEF Made, Attends
<1>15. CASE Deliver(t)
  <2>1. PICK timers : timers = IF p.active THEN Armed(p, p.reply) ELSE p.timers
    OBVIOUS
  <2>2. PICK since : since = IF p.loaded THEN p.since ELSE now
    OBVIOUS
  <2>3. Made(t, p.awake, p.active, TRUE, p.reply, timers, p.fired, "idle", p.asked, {},
             now + Poll, since, p.renewed)
    BY <1>1, <1>15, <2>1, <2>2, DeliverIs
  <2>4. p.awake /\ p.phone = "answered" /\ Overdue(p) = {}
    BY <1>1, <1>15, DeliverIs
  <2>5. p.loaded /\ since = p.since /\ p.active
    BY <1>2, <1>3, <1>4, <1>7, <1>8, <2>2, <2>3 DEF Made, Attends
  <2>6. Attends(p, s) /\ p.since < s
    BY <1>2, <1>8, <2>3, <2>4, <2>5 DEF Made, Attends
  <2>7. /\ now <= s + Latency \/ now <= u
        /\ k \in p.reply \/ p.asked + Window < u
    <3>1. ~(k \in p.timers /\ u <= now)
      BY <1>6, <2>4 DEF Overdue
    <3>2. QED
      BY <1>10, <2>4, <2>5, <2>6, <3>1 DEF Owed
  <2>8. k \in timers \/ now + Poll + Latency < u
    <3>1. CASE k \in p.reply
      <4>1. k \in Armed(p, p.reply) \/ ~(u - now <= Lookahead)
        BY <1>6, <1>11, <2>6, <3>1 DEF Armed
      <4>2. QED
        BY <1>3, <2>1, <2>5, <4>1 DEF Timing
    <3>2. CASE p.asked + Window < u
      <4>1. now <= p.asked + Latency
        BY <1>3, <2>4 DEF Clocked
      <4>2. QED
        BY <1>3, <1>7, <3>2, <4>1
    <3>3. QED
      BY <2>7, <3>1, <3>2
  <2>9. QED
    BY <1>2, <2>3, <2>7, <2>8 DEF Made, Owed
<1>16. ASSUME NEW l \in p.timers, Fire(t, l)
       PROVE  Owed(q, k, u, s, now)
  <2>1. PICK timers : timers = p.timers \ {l}
    OBVIOUS
  <2>2. PICK fired : fired = p.fired \cup {l}
    OBVIOUS
  <2>3. Made(t, p.awake, p.active, p.loaded, p.data, timers, fired, p.phone, p.asked,
             p.reply, p.nextPoll, p.since, p.renewed)
    BY <1>1, <1>16, <2>1, <2>2, FireIs
  <2>4. Attends(p, s) /\ p.since < s
    BY <1>2, <1>8, <2>3 DEF Made, Attends
  <2>5. k # l
    <3>1. SUFFICES ASSUME k = l
                   PROVE  FALSE
      OBVIOUS
    <3>2. sounded' = [sounded EXCEPT ![t] = @ \cup {k}]
      BY <1>1, <1>11, <1>16, <2>4, <3>1 DEF Fire
    <3>3. QED
      BY <1>8, <3>2 DEF Typed
  <2>6. k \in timers <=> k \in p.timers
    BY <2>1, <2>5
  <2>7. Owed(p, k, u, s, now)
    BY <1>10, <2>4
  <2>8. QED
    BY <1>2, <2>3, <2>6, <2>7 DEF Made, Owed
<1>17. CASE SwitchOff(t)
  <2>1. Made(t, p.awake, FALSE, p.loaded, p.data, {}, p.fired, p.phone, p.asked, p.reply,
             p.nextPoll, p.since, p.renewed)
    BY <1>1, <1>17, SwitchOffIs
  <2>2. QED
    BY <1>2, <1>8, <2>1 DEF Made, Attends
<1>18. CASE SwitchOn(t)
  <2>1. PICK timers : timers = Armed(p, p.data)
    OBVIOUS
  <2>2. Made(t, p.awake, TRUE, p.loaded, p.data, timers, p.fired, p.phone, p.asked, p.reply,
             now, now, p.renewed)
    BY <1>1, <1>18, <2>1, SwitchOnIs
  <2>3. QED
    BY <1>2, <1>3, <1>4, <1>8, <2>2 DEF Made, Attends
<1>19. CASE Reload(t)
  <2>1. Made(t, TRUE, storedOn, FALSE, {}, {}, stored, "idle", 0, {}, now, now, now)
    BY <1>19, ReloadIs
  <2>2. QED
    BY <1>2, <1>3, <1>4, <1>8, <2>1 DEF Made, Attends
<1>20. CASE Sleep(t)
  <2>1. Made(t, FALSE, p.active, p.loaded, p.data, p.timers, p.fired, p.phone, p.asked,
             p.reply, p.nextPoll, p.since, p.renewed)
    BY <1>1, <1>20, SleepIs
  <2>2. QED
    BY <1>2, <1>8, <2>1 DEF Made, Attends
<1>21. CASE Wake(t)
  <2>1. Made(t, TRUE, p.active, p.loaded, p.data, p.timers, p.fired, p.phone, now, p.reply,
             p.nextPoll, now, p.renewed)
    BY <1>1, <1>21, WakeIs
  <2>2. QED
    BY <1>2, <1>3, <1>4, <1>8, <2>1 DEF Made, Attends
<1>22. QED
  BY <1>1, <1>12, <1>13, <1>14, <1>15, <1>16, <1>17, <1>18, <1>19, <1>20, <1>21 DEF OnePage

LEMMA OwedTick ==
  ASSUME NEW p, Paged(p), now \in Nat, NEW k, NEW u \in Nat, k.at = u, NEW s \in Nat,
         Attends(p, s), Owed(p, k, u, s, now), Settled(p)
  PROVE  Owed(p, k, u, s, now + 1)
<1>1. Poll \in Nat /\ Latency \in Nat
  BY NotificationsAssumption
<1>2. p.asked \in Nat /\ p.nextPoll \in Nat /\ p.phone \in {"idle", "asked", "answered"}
  BY DEF Paged
<1>3. /\ Overdue(p) = {}
      /\ p.phone = "idle" => now < p.nextPoll
      /\ p.phone # "idle" => now < p.asked + Latency
  BY DEF Settled, Attends
<1>4. k \in p.timers => now < u
  BY <1>2, <1>3 DEF Overdue
<1>5. now + 1 <= s + Latency \/ now + 1 <= u
  BY <1>1, <1>2, <1>3, <1>4 DEF Owed
<1>6. p.loaded /\ p.phone = "answered" => k \in p.reply \/ p.asked + Window < u
  BY <1>4 DEF Owed
<1>7. QED
  BY <1>5, <1>6 DEF Owed

\* The tab that changes something polls anew, but for its first poll.
LEMMA InvalidatePolls ==
  ASSUME Typed, NEW t \in Tabs, Invalidate(t), tab[t].active, ~First(tab[t])
  PROVE  tab'[t] = Polls(tab[t])
<1>1. PICK p : p = tab[t]
  OBVIOUS
<1>2. Paged(p)
  BY <1>1 DEF Typed
<1>3. PICK rn : rn = IF p.phone = "idle" THEN p.renewed ELSE now
  OBVIOUS
<1>4. PICK q : q = [p EXCEPT !.phone = "asked", !.asked = now, !.reply = {}, !.renewed = rn]
  OBVIOUS
<1>5. tab'[t] = q
  BY <1>1, <1>3, <1>4 DEF Invalidate
<1>6. q = Page(p.awake, p.active, p.loaded, p.data, p.timers, p.fired, "asked", now, {},
               p.nextPoll, p.since, rn)
  BY <1>2, <1>4 DEF Paged, Page
<1>7. QED
  BY <1>1, <1>3, <1>5, <1>6 DEF Polls

\* A page that starts a run asks at once what it has to say, or asks already for the
\* first time; one that gives up a poll later does not attend it any more.
LEMMA OwedChange ==
  ASSUME Typed, Timely, Begun, Stepping, Skew = 0, Prompt, NEW where, Change(where),
         NEW t \in Tabs, NEW r \in Runs, NEW o \in Said,
         run'[r].state \in {"active", "completed"}, run'[r].by = t,
         NEW s, s = run'[r].started, s \in Nat, s <= now,
         NEW k, k = StepKey(r, s + o.at), NEW u \in Nat, u = s + o.at,
         Attends(tab'[t], s), k \notin sounded[t]
  PROVE  Owed(tab'[t], k, u, s, now)
<1>1. PICK p : p = tab[t]
  OBVIOUS
<1>2. PICK q : q = tab'[t]
  OBVIOUS
<1>3. /\ now \in Nat /\ Poll \in Nat /\ Latency \in Nat
      /\ Paged(p) /\ Clocked(p, now)
  BY <1>1, NotificationsAssumption DEF Typed, Timely
<1>4. /\ p.asked \in Nat /\ p.nextPoll \in Nat /\ p.since \in Nat /\ p.renewed \in Nat
      /\ p.loaded \in BOOLEAN /\ p.phone \in {"idle", "asked", "answered"}
  BY <1>3, PageOf
<1>5. Invalidate(where)
  BY ChangeRest
<1>6. Attends(q, s)
  BY <1>2
<1>7. CASE run'[r] = run[r]
  <2>1. Attends(p, s) => Owed(p, k, u, s, now)
    BY <1>1, <1>7 DEF Stepping, Alive
  <2>2. CASE q = p
    BY <1>2, <1>6, <2>1, <2>2
  <2>3. CASE q = Polls(p) /\ ~First(p)
    <3>1. /\ q.awake = p.awake /\ q.active = p.active /\ q.loaded = p.loaded
          /\ q.timers = p.timers /\ q.phone = "asked" /\ q.asked = now /\ q.since = p.since
          /\ q.renewed = IF p.phone = "idle" THEN p.renewed ELSE now
      BY <2>3 DEF Polls, Page
    <3>2. p.phone # "idle" => now <= s
      BY <1>6, <3>1 DEF Attends
    <3>3. Attends(p, s)
      BY <1>3, <1>4, <1>6, <3>1, <3>2 DEF Attends, Clocked
    <3>4. Owed(p, k, u, s, now)
      BY <2>1, <3>3
    <3>5. p.loaded
      BY <2>3, <3>4 DEF First, Owed
    <3>6. k \in p.timers \/ now + Latency < u \/ now <= s
      <4>1. CASE p.phone = "idle"
        <5>1. now <= p.nextPoll
          BY <1>3, <1>4, <3>3, <4>1 DEF Attends, Clocked
        <5>2. QED
          BY <1>3, <1>4, <3>4, <3>5, <4>1, <5>1 DEF Owed
      <4>2. QED
        BY <3>2, <4>1
    <3>7. QED
      BY <1>2, <3>1, <3>4, <3>5, <3>6 DEF Owed
  <2>4. QED
    BY <1>1, <1>2, <1>5, <2>2, <2>3, InvalidateIs
<1>8. CASE run'[r].started = now + Skew /\ run'[r].by = where
  <2>1. s = now /\ where = t
    BY <1>3, <1>8
  <2>2. p.active
    <3>1. CASE q = p
      BY <1>6, <3>1 DEF Attends
    <3>2. QED
      BY <1>1, <1>2, <1>5, <3>1, InvalidateIs
  <2>3. CASE First(p)
    <3>1. q = p
      BY <1>1, <1>2, <1>5, <2>3, InvalidateIs
    <3>2. ~p.loaded /\ p.phone # "idle" /\ p.asked <= s
      BY <1>3, <2>1, <2>3 DEF First, Clocked
    <3>3. QED
      BY <1>2, <1>3, <2>1, <3>1, <3>2 DEF Owed
  <2>4. CASE ~First(p)
    <3>1. q = Polls(p)
      BY <1>1, <1>2, <1>5, <2>1, <2>2, <2>4, InvalidatePolls
    <3>2. q.phone = "asked" /\ q.asked = now
      BY <3>1 DEF Polls, Page
    <3>3. QED
      BY <1>2, <1>3, <2>1, <3>2 DEF Owed
  <2>5. QED
    BY <2>3, <2>4
<1>9. QED
  BY <1>7, <1>8, ChangeMoves

LEMMA SteppingHolds ==
  ASSUME Typed, Timely, Begun, ToldOfSteps, Stepping, EngineAnswers, Timing, Skew = 0,
         [Next]_vars
  PROVE  Stepping'
<1>1. Begun'
  BY BegunHolds DEF EngineAnswers
<1>2. SUFFICES ASSUME Prompt, NEW t \in Tabs, NEW r \in Runs, NEW o \in Said,
                      NEW s, s = run'[r].started, NEW k, k = StepKey(r, s + o.at),
                      run'[r].state \in {"active", "completed"}, run'[r].by = t,
                      Attends(tab'[t], s), k \notin sounded'[t]
               PROVE  Owed(tab'[t], k, s + o.at, s, now')
  BY DEF Stepping, Alive, Attends, Prompt, Said, StepKey, Owed, Length, Window
<1>3. now \in Nat /\ s \in Nat /\ s <= now'
  BY <1>1, <1>2 DEF Begun, Typed
<1>4. PICK u \in Nat : u = s + o.at
  BY <1>3 DEF EngineAnswers
<1>5. SUFFICES Owed(tab'[t], k, u, s, now')
  BY <1>4
<1>6. Alive(r) /\ s = run[r].started /\ run[r].by = t /\ Attends(tab[t], s) /\ k \notin sounded[t]
        => Owed(tab[t], k, u, s, now)
  BY <1>2, <1>4 DEF Stepping
<1>7. CASE UNCHANGED vars
  BY <1>2, <1>6, <1>7 DEF vars, Alive
<1>8. CASE Tick
  <2>1. now' = now + 1 /\ UNCHANGED <<tab, run, sounded>> /\ Settled(tab[t])
    BY <1>8 DEF Tick
  <2>2. Owed(tab[t], k, u, s, now) /\ Attends(tab[t], s)
    BY <1>2, <1>6, <2>1 DEF Alive
  <2>3. Paged(tab[t]) /\ k.at = u
    BY <1>2, <1>4 DEF Typed, StepKey
  <2>4. Owed(tab[t], k, u, s, now + 1)
    BY <1>3, <2>1, <2>2, <2>3, OwedTick
  <2>5. QED
    BY <2>1, <2>4
<1>9. ASSUME NEW x \in Tabs, OnePage(x)
      PROVE  Owed(tab'[t], k, u, s, now')
  <2>1. now' = now
    BY <1>9, OnePageRest
  <2>2. Alive(r) /\ s = run[r].started /\ run[r].by = t
    <3>1. CASE run' = run
      BY <1>2, <3>1 DEF Alive
    <3>2. CASE ServerAnswers(x)
      BY <1>2, <3>2, AnswerMoves DEF Alive
    <3>3. QED
      BY <1>9, <3>1, <3>2, OnePageRest
  <2>3. CASE x = t
    BY <1>2, <1>4, <1>6, <1>9, <2>1, <2>2, <2>3, OwedStep
  <2>4. CASE x # t
    <3>1. tab'[t] = tab[t]
      BY <1>9, <2>4, OnePageOthers DEF OthersStay
    <3>2. sounded'[t] = sounded[t]
      <4>1. CASE UNCHANGED sounded
        BY <4>1
      <4>2. ASSUME NEW l \in tab[x].timers, Fire(x, l)
            PROVE  sounded'[t] = sounded[t]
        BY <2>4, <4>2 DEF Fire, Typed
      <4>3. QED
        BY <1>9, <4>1, <4>2, OnePageRest
    <3>3. QED
      BY <1>2, <1>6, <2>1, <2>2, <3>1, <3>2
  <2>5. QED
    BY <2>3, <2>4
<1>10. ASSUME NEW where \in Tabs \cup {Elsewhere}, Change(where)
       PROVE  Owed(tab'[t], k, u, s, now')
  <2>1. now' = now /\ sounded' = sounded
    BY <1>10, ChangeRest
  <2>2. s <= now /\ k \notin sounded[t]
    BY <1>2, <1>3, <2>1
  <2>3. Owed(tab'[t], k, u, s, now)
    BY <1>2, <1>3, <1>4, <1>10, <2>2, OwedChange
  <2>4. QED
    BY <2>1, <2>3
<1>11. QED
  BY <1>7, <1>8, <1>9, <1>10, StepIs

LEMMA SteppingIsHeard ==
  ASSUME Typed, Begun, Stepping, EngineAnswers
  PROVE  StepsHeard
<1>1. SUFFICES ASSUME NEW t \in Tabs, NEW r \in Runs, NEW o \in Said,
                      run[r].by = t, Alive(r), Steady(t), tab[t].since < run[r].started,
                      tab[t].renewed <= run[r].started, Prompt,
                      AtLeast(run[r].started + Latency, run[r].started + o.at) < now,
                      StepKey(r, run[r].started + o.at) \notin sounded[t]
               PROVE  FALSE
  BY DEF StepsHeard, Alive, Prompt, Said, StepKey, Length
<1>2. PICK s : s = run[r].started
  OBVIOUS
<1>3. s \in Nat /\ o.at \in Nat /\ Latency \in Nat /\ now \in Nat
  BY <1>1, <1>2, NotificationsAssumption DEF Begun, Alive, EngineAnswers, Typed
<1>4. Attends(tab[t], s)
  BY <1>1, <1>2 DEF Attends, Steady
<1>5. now <= s + Latency \/ now <= s + o.at
  BY <1>1, <1>2, <1>4 DEF Stepping, Owed
<1>6. QED
  BY <1>1, <1>2, <1>3, <1>5 DEF AtLeast

\* A sequence started in a tab that is there all along says every one of its steps there,
\* the first and the closing line included, unless it is stopped: for any chain of steps,
\* any number of tabs and runs and any interleaving of polls, answers, timers and changes,
\* where the clocks agree.  The first step is
\* past when the poll that the start asks for (SequencesPage invalidates the feed) is
\* answered; the grace of the feed and the timer that is overdue at once make up for it.
THEOREM StartedStepsSound == Timing /\ Skew = 0 /\ Spec => []StepsHeard
<1> DEFINE Premises == EngineAnswers /\ Timing /\ Skew = 0
           StepInv == Typed /\ Timely /\ Begun /\ Born /\ ToldOfSteps /\ Stepping
<1>1. Init => StepInv
  <2> SUFFICES ASSUME Init
               PROVE  StepInv
    OBVIOUS
  <2>1. Typed /\ Timely
    BY Starts
  <2>2. /\ \A r \in Runs : run[r].state = "idle"
        /\ stored = {} /\ \A t \in Tabs : HeldBy(tab[t]) = {} /\ tab[t].fired = {}
    BY DEF Init, Loading, HeldBy
  <2>3. Begun /\ Born /\ ToldOfSteps /\ Stepping
    BY <2>2 DEF Begun, Born, Lived, ToldOfSteps, Stepping, Alive
  <2>4. QED
    BY <2>1, <2>3
<1>2. Premises /\ StepInv /\ [Next]_vars => StepInv'
  BY TypedHolds, TimelyHolds, BegunHolds, BornHolds, ToldHolds, SteppingHolds DEF EngineAnswers
<1>3. Premises => []Premises
  <2>1. Premises => Premises'
    BY DEF EngineAnswers, Timing, Said, Length, Window
  <2>2. QED
    BY <2>1, PTL
<1>4. Premises /\ StepInv => StepsHeard
  BY SteppingIsHeard
<1> HIDE DEF Premises, StepInv
<1>5. Premises /\ Spec => []StepsHeard
  BY <1>1, <1>2, <1>3, <1>4, PTL DEF Spec
<1>6. QED
  BY <1>5, EngineDoesAnswer DEF Premises
=============================================================================
