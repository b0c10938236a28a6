# Nudge in TLA+

A verification development for the alarm configurator "Nudge": a Fastify API over
PostgreSQL, a speech service, and a React client whose open tabs raise the alarms.
The modules here are translated from the code; line numbers are those of the map in
`PROJECT.json`.

Run from this directory:

    tlc -config Alarms.cfg MCAlarms.tla
    tlapm AlarmsProofs.tla

## 1. The system

| Component | State it keeps | Operations | Talks to |
|---|---|---|---|
| Sequence routes (`api/src/routes/sequences.ts`, migration 0013) | tables `sequences`, `sequence_steps`, `sequence_runs` | list, get, create, put, delete, activate, deactivate | engine; the poll writes the same rows |
| Sequence engine (`api/src/sequences/engine.ts`) | none | length, instants, next step, "finished" | routes, feed |
| Upcoming feed (`api/src/routes/occurrences.ts`) | none; closes runs | `GET /me/upcoming`, previews, conflicts, summaries | alarms, runs; polled by each tab |
| Notification scheduler (`web/src/hooks/useAlarmNotifications.ts`) | timers, fired set, cached poll, `localStorage` | poll, arm, disarm, fire, switch | feed; other tabs through `localStorage` |
| Alarms and folders (`routes/alarms.ts`, `routes/folders.ts`, `domain/*`) | `alarms`, `folders` | create, put, delete, enable, bulk enable, list with sweep; folders | recurrence engine, tiers |
| Recurrence engine (`recurrence/engine.ts`, `domain/conflicts.ts`, `domain/validation.ts`) | none | dates, instants, next, collisions, checks | alarms, feed |
| Accounts (`routes/auth.ts`, `me.ts`, `admin.ts`, `auth/*`) | users, codes, sessions; attempt windows in memory | register, verify, reset, sign in, change, suspend, delete | mail |
| Wizard (`WizardPage.tsx`, draft routes) | the form; table `alarm_drafts` | fill in, save, resume, discard, submit | alarms |
| Alarm list (`AlarmsPage.tsx`) | the query cache | toggle, bulk toggle, delete | alarms |
| Speech (`speech/src/*`, `api/src/speech/client.ts`, `web/src/lib/audioSpeech.ts`) | stored audio; player and settings of a tab | say, ask, find, synthesise, save | an external provider |
| Pool, migrations, boot, mail probe (`db/*`, `boot.ts`, `mail/mailer.ts`) | connections, `schema_migrations`, cached reachability | acquire, migrate, seed, probe | everything |

What is hard, and what makes each part correct:

- **Sequence runs.** Every statement outside a transaction commits alone and every
  `await` lets another request in, so each check is stale when it is used. Correct
  when: one run at a time; a run ends once, after it started, and as completed only
  at the end of its chain; a stop takes; every run ends though the browser has gone.
- **Engine.** Boundaries: the end of a duration, the straddling cycle, the closing
  line at the very instant the run is over, truncation. Correct when each window
  shows exactly what the chain says, and closing a finished run cuts nothing short.
- **Feed and scheduler.** Two clocks, an interval, a lookahead, a grace, answers
  that come late or never, tabs that sleep, reload, and share a memory. Correct when
  what is on sounds, what is off is quiet, and nothing sounds twice.
- **Alarms.** No transaction at all: tier, collision, owner and folder are asked, then
  the row is written by bare id; a sweep deletes by an old read. Correct when nobody
  touches another's rows, files stay with their owner, names are unique, and what is
  overrun is overrun only by what was in flight.
- **Recurrence.** Short months, clocks that are set, several instants a day, ends by
  date, time or count, limits. Correct when an answer is the first of what the schedule
  means, and the two places that compare schedules agree and miss nothing.
- **Accounts.** Read, compare, write in separate statements; sessions that outlive a
  password or a suspension; crashes between the halves. Correct when only confirmed
  accounts are signed in to, codes take a bounded number of tries, what should sign
  out signs out, and an account that has gone stays gone.
- **Wizard and list.** Writes nobody waits for, over a network that reorders; caches
  that outlive pages; fields that modes hide. Correct when list and draft end up as the
  server has them, and what is previewed is what is saved.
- **Speech.** Time-outs of a service that goes on working, one player for all messages.
  Correct when nothing is paid for twice that need not be, and everything is heard.

`PROJECT.json` lists each hazard at its line, with the properties that cover it, or the
reason why none does.

## 2. Plan

Done: `SequenceSpec`, `SequenceRuns`, `RunLifecycle` and proofs; `SequenceEngine` and proofs;
`Notifications` and proofs; `Alarms` and proofs; `Accounts`, `AccountLifecycle` and proofs;
`Recurrence` with `AlarmForm` and proofs; `WebClient` and proofs; `Speech` and proofs.

What would come next: `Notifications` fed by `Recurrence` in place of a constant schedule, and
clocks that are set more than once.

Compositions: `Notifications` uses `SequenceEngine` as the feed does and takes from
`SequenceRuns` that an account's activate yields one run. `AlarmForm` extends
`Recurrence`, and `MCSchedules` puts what a form saves through the server's check and
back. A schedule of `Alarms` is the set of instants that `Recurrence` says it has.

## 3. Modules

### SequenceSpec
The repeat rule of a sequence and `RunLength`, `RunEndsAt`, `HasFinished`: the part
of the engine on which a run's end depends. A chain is its total length here.

### SequenceRuns
A request is a process: `req[p]` holds a program counter and what the request has
read so far. One action is one SQL statement with the synchronous code around it:
`ReadRow`, `ReadSteps`, `ReadRun`, `Settle`, `CloseIfFinished` are `loadOne`; the
`Decide...` actions are what a handler does with its result; `CreateSequence`,
`WriteSequence`, `RemoveSequence`, `InsertRun`, `StopRun` are the writes, with the
refusals of the unique indexes and foreign keys; `PollRuns`, `PollSteps`,
`PollClose` are the half of the poll that closes runs. `POST` and `PUT` are
transactions, so each is one step. `Fail` ends any request anywhere. The list route
is `loadOne` for each of its rows: no property relates two rows of one answer.
A request refused by validation changes nothing and is left out.

`sequences[s].cycle` abstracts the steps to the sum of their durations, the only
thing the routes look at. `began` is, of a stop or a `PUT`, the runs that were going when
it arrived. `basis`, `tainted`, `torn`, `began`, `issued` are history:
no guard reads them, except that fresh identifiers are not in `issued`.

### RunLifecycle
The abstract promise: a run is unborn, running, ended or forgotten, and a sequence
has one running. `SequenceRuns!Lifecycle` is the refinement mapping.

### SequenceEngine
`stepOccurrencesFor` and its parts as operators, with whole seconds after activation
for instants. `FoldLeft` carries the offset as the loop does; the inner `break` and
the early return become steps that add nothing (`Visit`, over the `Visits` of the two loops). `nextStep`'s missing upper bound is
a bound no occurrence exceeds.

### Notifications
Server and tabs on one discrete clock. `tab[t]` is the page: switched on or not,
awake or not, the cached poll, the timers, the `fired` ref, the request in flight.
`ServerAnswers` is `GET /me/upcoming` at one instant, with the grace, the horizon,
the cut of the alarm half and the closing of finished runs (its statements one by
one are in `SequenceRuns`). `Reconcile` is the arming effect, `Fire` is `show` and
`showStep`, `Kept` is `saveFired`, `Loading` a page load. `Turn`, `Activate`, `Stop`
are the pages that change something and invalidate the feed, or another device that
does. The wait for their answers counts towards the request that follows.

From outside the repository: the query library keeps one request in flight, counts
its interval from the last answer, keeps data while disabled, refetches on enabling
and on invalidation, and hands an answer on in a timer of its own, so a timer
already due goes first; a failed poll is taken up at the next interval. An invalidation
replaces a poll in flight, save the first (`First`), which has no data to fall back on. An awake
page does what is due before time moves on; a sleeping one does nothing.

`since` (how long a page has been loaded, awake, switched on and answered) and `renewed`
(when it last gave up a poll for another) are history. A page whose user goes on editing
gives up one poll after another and learns nothing, so what it can be asked counts from both.

### Alarms
The same kind of process over `alarms` and `folders`, with no transaction anywhere.
`POST` and `PUT` share `OwnsFolder`, `ReadTier`, `Count`, `Siblings` and end in `Insert` or
`Update`; `Load` is `loadAlarm`; `Owned`/`SwitchAll` are the bulk route,
`Candidates`/`Sweep`/`Page` the list with its sweep, `Folder...` and `Rename` the folder
routes, `SetTier` what an administrator does to an account. A field of a body enters
where the code first looks at it. `vetted` (when an alarm was last found free of
collisions by a write nothing overlapped), `raced`, `edited` (the alarms rewritten while a
request is under way), `held` (the tiers a user has had) and `issued` are history.

### Recurrence
`CandidateDates`, `DayInstants`, `PlacedOccurrences`, `NextOccurrence`, `CollidingInstants`,
`FindCollision`, `ConflictsInFolder`, `FolderSummary`, `Complaints`: the functions of the same
names, as operators. The loops with their early exits are folds over a state
`[done, produced, found]`; the dates and times that the code collects and sorts are sets, put in
order by `Ordered`. A zone is an offset and one setting of its clock, forward or
back; `Resolve` is what the date library makes of a wall-clock time. `SchemaErrors` is what the
request schemas turn away, with the largest numbers they take in `Largest`, and `Refusals` what a
write is refused for in all: `Complaints`, those of `validateSchedule`, come after the schema.
`WeekAhead` is the window of a summary. `IsSchedule` is what the code may take for granted of a
schedule that was saved.

### AlarmForm
The form of the wizard, hidden fields included. `FormFromAlarm`, `PreviewRequest`, `ToPayload`,
`ProblemsWithStep` are the functions of the page; `Basics`, `Schedule`, `RepetitionStep`,
`GoTo` what a user does to it. `MCSchedules` drives it and the server's side by side.

### Accounts
Users, sessions and the two tables of codes, and the attempt limiters of the one
process, which a `Restart` forgets. `Find` is the lookup by address, with the condition
each route adds (`LooksFine`); `ReadCode`, `Bump`, `ConfirmAddress`, `SetPassword`,
`Discard`, `EndAll`, `OpenSession` are `verifyCode`, `resetPassword` and `createSession`, one
statement each; `RequireUser` and `RequireAdmin` are the guards; the rest is `me.ts` and
`admin.ts`. Passwords and codes are the serial number they were set with. `proof`,
`excused`, `raced`, `cut` and `issued` are history.

### AccountLifecycle
The abstract promise: an account is registered, then confirmed, then perhaps gone, and
only a confirmed one is signed in to. `Accounts!Account` is the refinement mapping.

### WebClient
A tab and what the server keeps for it. `wire` holds the writes that have no answer:
`Serve` takes any of them, `Lose` drops one or its answer, `Answered` runs the callbacks of
its mutation. `fetch` and `cache` are the query library: one read of a kind at a time,
invalidation starts it over when the page uses it, unless there is no data yet (`Kept`): none was
read, or the only readings failed (`Failed`), which lets a wizard go ahead but leaves nothing to
fall back on. The callbacks of a page that was left do not run, those of its mutation do (`here`).
Texts stand for all that a form holds; of the steps there are two. `meant` (what the writes of the
draft that were last under way together would leave), `draftMissed` (a change of the draft
never came to the cache) and `listRaced` are history.

### Speech
A message goes from `settings` through `api`, `loading` and `playing`, or by way of `failed`
to `speaking`. `Ask` is the route of the API with the tier and the limiter, `Look`,
`Generated`, `Save` are `audioFor` in the service; a job goes on when nobody waits for it, and
`NotGenerated` may have been paid for all the same, when the audio is lost on its way.
`Play`, `StopSaying`, `Speak` are the tab's player and voice. `paid` and `excused` are history.
`SayRow`, `JobRow` and `TabRow` are what a message, a synthesis and a tab hold.

## 4. Runs

| Run | Question |
|---|---|
| `runs_stop` | activates, stops and a poll racing: one run, ordered ends, stops that take |
| `runs_edit` | two sequences: edits and deletes racing with activation and closing, what an edit spares; refinement |
| `runs_live` | every run ends while a tab polls |
| `engine` | the engine against a second-by-second account |
| `notify_alarms` | alarms sound; what is off is quiet |
| `notify_steps` | steps sound, once |
| `notify_switch` | violation: an alarm disabled while notifications were off sounds (see `findings`) |
| `alarms` | what checks of an earlier statement are worth when the write comes |
| `accounts` | who is signed in and on what; refinement |
| `schedules` | the recurrence engine, the comparisons and the wizard's form against what a schedule means |
| `client` | list and draft end up as the server has them; a submit ends |
| `speech` | paid once, kept, heard |

**Bounds.** *Sequence runs:* two requests and a tab, or two requests, one sequence, two
runs: a race needs two parties, a third only repeats their steps, and the theorems hold
for any number. A clock that reaches the end of the longer of chains of one and two
seconds lets a run start, be edited and end; `MaxStart` only keeps runs within the clock;
one edit tears a view. *Engine:* chains of up to two steps of its bounded durations, in
both row orders, which covers a straddling cycle and every boundary between windows.
*Notifications:* the constants keep the order of the real ones: poll 2 and grace 2
(30 s both), lookahead 4 (120 s), horizon 6 (an hour), retention 3 (a day), and a
request answered within 1. Instant 5 lies beyond the lookahead of the first
poll and within that of the second, instant 4 at the very end of the first. A second alarm is there to be switched: it makes the
tab replace a poll at any moment. `FeedLimit` is 3, more than is due. The clock stops
at `MaxTime`: `OutOfTime` stutters there, so deadlock is still checked before it.

*Alarms:* three requests in all (`MaxArrivals`), two at a time: the third finds what two
raced for, or is the bulk enabling, sweep or change of tier over it. Allowances of 1 and 2
stand for 2 to 50, so a bucket fills; three alarms overrun an allowance of two; one
of two schedules fires at once and one later, so a sweep and a
shared instant both happen within `MaxTime` 1. *Accounts:* an administrator with two
sessions and an account not confirmed yet, one free account, three requests; limits and
lifetimes of 1, so each is reached. *Schedules:* thirteen days in months of 5, 3 and 5 with
weeks of 3 days and days of 5 seconds: every rule meets a short month, a last and a missing
nth weekday; one zone skips two seconds inside a window, one repeats two; groups are summed up and
compared from instants at which the week ahead is full, cut at either end, or empty (`MCNows`); the form
is changed in up to four fields at a time (`MaxTouched`), the most any check relates, and numbers and
dates may be none, nothing, in bounds or too large (`FormNumbers`, `FormDates`).
*Client:* six kinds of session (`MCSessions`) of five or six operations, two writes on
the wire: a write can be overtaken, and a third waits as it would for a slower user.
*Speech:* one tab, two messages at a time and three in all, two jobs, and two faults: one
takes a message off its way, the second meets it on the fallback.

In `alarms`, `accounts`, `client` and `speech` the budget of arrivals, operations or faults runs
out, and the system then really is at rest: `CHECK_DEADLOCK FALSE`. Symmetry permutes
identifiers that nothing tells apart, and is never used with liveness.

**Fairness.** `runs_live`: time passes (`WF Tick`); a tab that is open asks again
(`refetchInterval`) and a statement tried for ever is not refused for ever, so the poll's
actions are strongly fair: `Fail` may interrupt each infinitely often. Nothing is assumed
of any other request. Without a tab runs need not end in the code either. `client`: a
write is served and its answer handled, or it is lost and that is handled (the fetch of a
browser settles); nothing is assumed of the user. `speech`: a request is answered, a job goes
on while the service runs (calls of the provider have a time-out), a tab runs its
callbacks; no fairness of restarts or of a window passing, since the fallback needs neither.

**Limits met while modelling**, for which no property is claimed.

- *Runs.* A second stop, or one that races with completion, rewrites the end of a run that
  is over (`sequences.ts:541` has no `ended_at IS NULL`; the route says pressing stop twice is
  harmless, `:528-529`). An activate between the check of a `PUT` (`:379`) and its transaction
  leaves a run whose chain changes, against the comment at `:373`. A closer acts on a row and
  a chain read in two statements, so an edit in between can mark a run completed early:
  `CompletedReachedEnd` sets these apart as `tainted`. `EditSparesRun` claims of a `PUT` only the
  runs that were going when it arrived.
- *Notifications.* A tab whose user switches one alarm after another gives up each poll for
  the next and hears of nothing, not even of the others, until he stops. With `Skew = 2` a poll just before an occurrence no longer offers it and its
  timer is disarmed. An occurrence for which a sleeping tab had no timer yet is not offered
  when it wakes. The first step of a run started on another device is lost when the poll
  comes later than the grace. Two alarms that repeat every second fill the 50 places of the
  feed in less than an interval (`occurrences.ts:285`, against R-32). Two tabs overwrite each
  other's list of fired occurrences (`useAlarmNotifications.ts:67`, against `:24`). The keys of
  steps are never dropped from it (`:63`, against `:59-60`).
- *Alarms.* Two writes that overlap (`alarms.ts:66`) leave two enabled alarms of a folder on one
  instant, though the repository's `README.md:286-287` and decision 0004 name enabling as the
  only way. A sweep can take an alarm that was edited after it was judged (`:98-112`):
  `NothingElseLost` allows exactly that.
- *Accounts.* The repository's `README.md:120` ends every session at once on a suspension, and R-17 the
  others on a change of password. A sign-in that had read the row before, a reset, or a failure
  between the two statements leaves one: `StaleSessionsExplained` names each. A `PATCH` goes through
  though another request has demoted its sender in the meantime, which `AdministratorStays` leaves out.
- *Recurrence.* A clock that skips midnight folds times of two days into one instant, and
  duplicates are dropped within a day only (`engine.ts:318-328`), so such an instant can come
  twice or out of order; the clock of America/Nuuk, which goes from 23:00 to 0:00, is one. The
  zones of the run are set inside a day, and `SetInsideDay` says of the theorems' zones that they are.
- *Client.* Toggles that overlap, fail or are lost, and one that stops a reading with news,
  leave a list different from the server's until it is next read: nothing is invalidated when
  a toggle settles. A deleted alarm stays selected, and a bulk toggle is then refused. An edit does
  not invalidate the cached alarm, so the next editor starts from the old one. A reading of the
  draft while there is no data, the first or the next after a failed one, and one that goes on
  while a page does not use it, may end after a save or discard and bring the draft from before it; it
  is taken for new (`draftMissed`). Of draft writes that overlap any may come last, so a save
  overtaken by a discard brings the draft back; `DraftTruth` holds of them that it is one
  of theirs, and that what is cached is the server's. A discard that fails after a
  create reports an error though the alarm exists. The late answer of a create navigates away
  from whatever page is open.
- *Speech.* A message whose loading is stopped or replaced is refused by the player and
  then spoken by the browser; so is one that waited for generation when speech was stopped.
  Voice and player can sound together. Settings are asked once, so an outage then turns
  the server's voice off until the page is loaded again. `prepare` is never called.
  Two requests for the same words that look before either has saved both pay for them, and so does
  the next after an audio was lost on its way: `PaidOnce` counts these as `excused`.

## 5. Proofs

All theorems hold for all constants that satisfy the module's assumption; what
`NotificationsProofs` assumes beyond that is in the statement of its theorems.

**`SequenceRunsProofs`** proves the type invariant, each safety invariant of the runs
`runs_*`, and the refinement. The invariants are not inductive alone, for a request acts on
what it has read. `IInv` adds how old that may be. `ViewOK`: a view that no edit has torn is
still the table's, a held run is of its sequence and started when the request thinks, and a
closer has found its run over at its instant `at`, which is not in the future. `RunInv`: an
untouched active run still has the length it started with. With both, a closing
`UPDATE` writes an end no earlier than `started + basis`. `StopOK`: until a deactivate acts,
the run it came to stop is over or is the one it holds; until a `PUT` writes, the same of the run that was
going when it arrived. With the unique index
(`RunRefused`) this gives `StopTakes` and, as a `PUT` that holds an active run answers 409, `EditSparesRun`. The proof has a lemma per action for the tables, one
per group of actions for the request that moves (`HoldsGood`), and one saying the other
requests are undisturbed because tables only move forward (`OnlyForward`).
`RoutesImplementLifecycle` maps each step: `InsertRun` to `Start`, the three closers
to `End` or a stutter, `RemoveSequence` to `Forget`, all else to a stutter.

**`AlarmsProofs`** has three layers. `IInv` says what a permission is worth by the time it is
used: the ids a request will write or file into were its user's when it asked, ids are never
handed out twice and rows never change owner (`OwnersKept`), so they are its user's or gone
(`Claim`). From it `NamesUnique`, `FiledWithOwner` and `OnlyOwnRows`. `Rules` adds what a request
has cleared (`Cleared`): while nobody else wrote, its clock is the latest a check has used,
it collides with nobody and its schedule is allowed by a tier held; and whoever writes, what its sweep found
spent still is, unless it is in `edited`.
From it `CollisionsExplained`, `SchedulesWereAllowed` and `NothingElseLost`.
`Room` counts: the rows of a bucket, the alarms that admitted requests will move there and the
admitted requests that will insert are together fewer than allowance plus requests. An insert
turns a request into a row and a move finds its alarm counted already; only `Count` adds, and it
has found the rows below the allowance and is itself a request not admitted yet. From it
`OvershootBounded`, where rows alone would not be inductive.

**`AccountsProofs`**: `IInv` is types, that ids in use were issued, that a reset code exists only for a
confirmed account (`ResetCodesConfirmed`), that each request that relies on a confirmation has
it or the account has gone (`AllFit`), and `SessionsConfirmed`. `reset` never looks at the
account, so without `ResetCodesConfirmed` its session is not known to be of a confirmed one.
`LivesAsPromised` maps each step under it: `InsertUser` to `Register`, `ConfirmAddress` to
`Confirm` or a stutter, `OpenSession` to `SignIn`, whatever ends sessions to `SignOut`,
`RemoveUser` to `Remove`, all else to a stutter. Three more invariants rest on it. `StillEnded`:
a stale session is excused, cut off from the request that should have ended it, or some request
has still to end it - and not as its own, which `endOthers` spares; so a request has to be
followed from statement to statement (`Continues`) with the session it came by (`OwnSession`).
`Charges`: tries made and tries compared but not counted yet are together below the bound.
`Vouched`: what the guard read of an administrator stands while nobody has changed an account.

**`SpeechProofs`**: `IInv` ties messages, jobs and tabs together. A message waits for a job of its own
words that nobody else waits for; one that loads or plays has its audio in the store, and a job
is done only after the store has it. So a tab is never told of an audio that is not kept
(`AnsweredIsKept`). `Accounted` puts `PaidOnce` in terms of what happens to the money: an audio
paid for is stored, in the hands of a job about to save it, or excused.

**`WebClientProofs`**: `IInv` says of each write on the wire what it will still do. What a write of
the draft that is on its way means is in `meant`, and so is the draft once none is (`DraftMeant`). What was
read of the draft lags behind only by writes whose answer is still to come, since each answer restarts the
reading or marks it (`DraftRead`); together they are `DraftFollows`, and need no writes apart. A clean reading began with no write of the
list on the wire and none has been sent since (`CleanReading`). A toggle without a race is alone,
and until its answer the page is the server's list with one row flipped, or the server is
(`ToggleAlone`); so its rollback puts back what the server has.

**`NotificationsProofs`** argues about time. `Timely`: an awake page is never later than its interval,
and no request of its outlasts `Latency`. On it rest:

- `OffStaysQuiet`, of any constants: a key that is off and still armed or on its way in was
  asked for before it went off (`Hushed`), so by `Timely` the answer that disarms it comes within a
  `Window`. An invariant of the timers alone fails, since an answer in flight arms them again.
- `NothingRepeats`: what a page sounded and no longer remembers is an alarm older than the retention, and
  neither offered, armed nor on its way (`Remembered`); what it lost from `localStorage` is so too
  (`Saved`). `Undisturbed` excludes what the code does get wrong: two tabs of which one
  reloads. `Recent` keeps the server from offering what is older than the retention of a day.
- `EnabledAlarmsSound`: an occurrence that a page has had time to hear of has its timer, or is in
  the answer, or will be asked for in time (`Awaited`), and what a page takes for fired it has
  sounded or was over when it was loaded (`Noted`). `Timing` is what the constants of the code satisfy (30 s, 120 s,
  an hour) on a server whose clock is not ahead. `FeedFits`: no more fall due within a
  window than a poll returns; the limits above show both are needed.

`StartedStepsSound` is `StepsHeard`, from the same facts about pages. A run's steps lie in the past
and in the future of the poll that its start asks for, and the run ends. `Owed` says of each step not sounded
yet why it is not too late: the page still waits for the answer to what it asked at the start (or for
its first, if it was loading), holds the timer, has a poll to come before the instant, or holds an
answer with it. The closing line, due at the very instant at which the server takes the run for finished,
needs a clause of its own: an answer of that instant leaves it out, but its timer goes off
before the answer is delivered. `Born` and `ToldOfSteps` say that what a page takes for fired it has sounded
or is younger than. That a window of the engine shows whatever of the chain lies within
(`EngineDoesAnswer`) comes from `AnswerIsFirst` and `NoWindowHides` of the next module.

**`SequenceEngineProofs`** is about two loops that are a fold. A fold over visits is unrolled to a function
that gives the state after each of them (`st[k + 1]` is `Visit` of `st[k]`), and what holds of the first
state and is kept by a visit holds of all: the least visit at which it failed would have one before it
(`WFMin`, with the order of the naturals well-founded, applied to a set of numbers; no operator is
passed). Visit `k` begins at `Begins`, the sum of the durations before it, which is what the code's running
offset comes to. What was found after `k` visits names the first of those that begin in the window
(`Names`), and is cut at the limit and nowhere else (`AnswerIsFirst`). What the answer about the whole
run names, any window that holds its instant names too (`NoWindowHides`). The three theorems of the run's invariants
compare that with the second-by-second account, `Clock`. `EngineInputs` asks only that durations and limits are
positive and bounds are numbers; the windows asked about lie within the seconds of the account.

**`SchedulesProofs`** has two parts. *The form.* `Passed` makes `ReviewedHasNoProblems` inductive: what
a step of the wizard changes, no step before it looks at, and it is left forwards only without
problems. `EditsKeepAlarms` follows an alarm through `FormFromAlarm` and back (`KeptByEdit`): all it
needs of the alarm is that the server let it through and that its rule was put in order before
it was stored, for putting a list in order twice is putting it in order once (`NormalisedOnce`).
An empty field is assumed to be no date, voice or number.

*The engine* is compared with what a schedule means (`Selected`, `Times`, `InstantOf`, `Series`), for every
schedule, window and limit over every calendar. The months of the assumption have any lengths of at least a
week (a shorter month could lack a weekday altogether, and with it its last one), zones any offset below a
day and any one setting inside a day. The argument goes up in six steps.

1. `Ordered` puts a finite set of integers in order: the place of a number is the count of those up to it
   (`RanksRise`, `RanksTaken`), and the sequence that rises through a set is unique (`OrderedOnly`).
2. The calendar: the months follow one another without a gap (`MonthsFollow`, `MonthIs`); the day, the nth
   and the last weekday that the code computes with remainders are the ones the rule describes
   (`DayOfMonthIs`, `NthWeekdayIs`). So the candidates are the days selected (`CandidatesAre`).
3. One day: the times are those the interval calls for and fit the budget (`TimesAre`), the instants are
   what the clock shows at them (`InstantIsResolved`), and all of a day precedes all of the next,
   whatever the clock does (`DaysApart`). This last fails for a clock set over midnight.
4. The search: after each instant (`VisitedInstant`), day (`VisitedDay`) and the whole (`Searched`) the state
   is `Good`: what was found are the first that are due, with their places; while the search goes on they
   are all that are due so far and the count is that of the series so far, or the series is over; and
   it stops only when there is enough or nothing more is due.
5. `FirstDueFound` reads that off for a limit; `SharedFound` for the limit of a comparison, which is more than a
   schedule has instants (`InstantsFit`).
6. `RefusalIsOfThePanel` and `SummaryOfTheWeek` follow for groups of any size.

`Asked`, a part of `IInv`, ties the states of the run to these: what came back is what the engine finds for what was
asked, and what is compared are schedules. With it `AnswersAreTheSchedules`, `CollisionsAreComplete`,
`PanelsAgreeWithRefusals` and `SummariesAreExact` are the four invariants that the run checks.

**Model-checked only.** Liveness (`RunEnds`, `SubmitEnds`, `Heard`), which is out of the prover's
reach. Every other property of the runs that hold is stated by a theorem.

## 6. Not modelled

What `PROJECT.json` lists as `not_modelled`. The pool: no handler asks for a connection while it
holds one, so there is nothing to wait in a circle; a wait that runs out is the `Fail`
of the modules. Migrations: one process, one transaction for each file; what a second
process would meet is up to the locks of the database. Mail: transports and wording, and a probe whose
settling is the library's. HTTP wiring, message wording, the seed, the test
routes, and the pages that write once and read again.

Within the modelled parts: validation that answers 422 before any read; in the sequence
routes ownership (`user_id` is part of every statement; one account is modelled); in the alarm
routes notes, spoken words and plain reads; in the accounts the profile's name and saved sort
orders; in the form the folder, the note and self-destruct, which pass straight through; the browser's
permission prompt, which acts as the switch does.
