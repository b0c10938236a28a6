------------------------------- MODULE Alarms -------------------------------
(***************************************************************************)
(* The alarm and folder routes (src/api/src/routes/alarms.ts, folders.ts)  *)
(* with the rules they apply: the allowance of the tier (domain/tiers.ts)  *)
(* and R-08, no two enabled alarms of a group on one instant               *)
(* (domain/conflicts.ts), over the tables of db/migrations/0001_core.sql   *)
(* and 0012.                                                               *)
(*                                                                         *)
(* No route here opens a transaction.  A request is a process with one     *)
(* step per SQL statement, together with the code up to the next await;    *)
(* what it has read it keeps in its record, and the tables may change      *)
(* under it.  A field of the body enters where the code first looks at it. *)
(* The last statement of a write only reloads the row for the answer, so   *)
(* it is left out, like the plain reads that keep nothing.                 *)
(*                                                                         *)
(* A schedule is the set of instants it fires at (module Recurrence says   *)
(* which) and the seconds between its repeats within a day, 0 for none.    *)
(***************************************************************************)
EXTENDS Integers, FiniteSets

CONSTANTS
  Users, Folders, Alarms,   \* uuids
  Requests,                 \* places for requests in flight
  Names,                    \* names, up to what the unique indexes compare
  Schedules,                \* the schedules a body may carry
  Limits,                   \* tier -> its allowance, TIERS in the code
  Ops,                      \* the operations clients call
  Window,                   \* CONFLICT_WINDOW_DAYS
  None,                     \* SQL NULL: the unfiled bucket, an unlimited allowance
  MaxTime,                  \* bound: the clock stops here
  MaxArrivals               \* bound: requests that arrive, the administrator's included

Tiers == {"basic", "regular", "advanced"}

Allowance == [folders : Nat \cup {None}, alarms : Nat \cup {None}, repeats : BOOLEAN, every : Nat]

AllOps == {"create", "put", "delete", "enable", "disable", "bulk", "list",
           "makeFolder", "rename", "dropFolder", "setTier"}

ASSUME AlarmsAssumption ==
  /\ None \notin Folders \cup Alarms \cup Nat
  /\ Schedules \subseteq [fires : SUBSET Nat, every : Nat]
  /\ Limits \in [Tiers -> Allowance]
  /\ Ops \subseteq AllOps
  /\ IsFiniteSet(Requests) /\ IsFiniteSet(Alarms) /\ Requests # {}
  /\ Window \in Nat /\ MaxTime \in Nat /\ MaxArrivals \in Nat

VARIABLES
  now,        \* the server's clock
  tier,       \* users.tier
  folders,    \* table: id -> [owner, name]
  alarms,     \* table: id -> alarm
  req,        \* place -> the request it holds
  issued,     \* history: every uuid handed out
  held,       \* history: the tiers each user has had
  arrivals    \* how many requests have arrived

vars == <<now, tier, folders, alarms, req, issued, held, arrivals>>

FolderRow == [owner : Users, name : Names]

\* vetted is history: the start of the window R-08 looked at, if the last word
\* on this alarm was a create or update that nothing overlapped, and None once
\* it was enabled or written otherwise.  No guard reads it.
AlarmRow == [owner : Users, folder : Folders \cup {None}, name : Names, schedule : Schedules,
             enabled : BOOLEAN, selfDestruct : BOOLEAN, vetted : Nat \cup {None}]

PCs == {"idle", "load", "owns", "tier", "count", "siblings", "write", "erase", "switch",
        "owned", "switchAll", "candidates", "sweep", "page", "folderTier", "folderCount",
        "folderInsert", "rename", "folderLoad", "folderDrop"}

\* raced and edited are history: another request has written since this one
\* arrived, and what a PUT has rewritten of the ids this one is about to sweep.
Request == [pc : PCs, op : AllOps, user : Users \cup {None}, alarm : Alarms \cup {None},
            ids : SUBSET Alarms, folder : Folders \cup {None}, tier : Tiers,
            schedule : Schedules \cup {None}, enabled : BOOLEAN, at : Nat, raced : BOOLEAN,
            edited : SUBSET Alarms]

Blank == [pc |-> "idle", op |-> "list", user |-> None, alarm |-> None, ids |-> {},
          folder |-> None, tier |-> "basic", schedule |-> None, enabled |-> FALSE,
          at |-> 0, raced |-> FALSE, edited |-> {}]

Become(p, request) == req' = [req EXCEPT ![p] = request]
Finish(p) == Become(p, Blank)

Overtaken(q, ids) == [q EXCEPT !.raced = q.pc # "idle",
                               !.edited = IF q.pc = "sweep" THEN @ \cup (ids \cap q.ids) ELSE @]

\* A statement that changed rows, after which its request is q; ids are those a
\* PUT rewrote.
CommitAs(p, q, ids) ==
  req' = [x \in Requests |-> IF x = p THEN q ELSE Overtaken(req[x], ids)]

Commit(p) == CommitAs(p, Blank, {})

Tables == <<tier, folders, alarms>>
Aside == <<now, tier, issued, held, arrivals>>

\* The clients find folders of earlier days, within the allowance of their tier.
Init ==
  /\ now = 0
  /\ tier = [u \in Users |-> "basic"]
  /\ \E known \in SUBSET Folders :
       /\ folders \in [known -> FolderRow]
       /\ issued = known
  /\ \A f, g \in DOMAIN folders : f # g => folders[f].owner # folders[g].owner
  /\ Limits["basic"].folders # 0
  /\ alarms = [a \in {} |-> None]
  /\ req = [p \in Requests |-> Blank]
  /\ held = [u \in Users |-> {"basic"}]
  /\ arrivals = 0

-----------------------------------------------------------------------------
\* What the queries look at.

\* Broken: the owner is not part of the condition.
MineAnyones(q, a) == a \in DOMAIN alarms

\* loadAlarm: an alarm of somebody else reads as missing.
Mine(q, a) == a \in DOMAIN alarms /\ alarms[a].owner = q.user

OwnFolder(q, f) == f \in DOMAIN folders /\ folders[f].owner = q.user

\* The alarms of a folder, or of the user's unfiled bucket.
Scope(u, f) ==
  {a \in DOMAIN alarms : alarms[a].folder = f /\ (f = None => alarms[a].owner = u)}

Shared(s, t, from) == {i \in s.fires \cap t.fires : from <= i /\ i <= from + Window}

\* Broken: only filed alarms are compared.
CollidesFiled(q) ==
  /\ q.folder # None
  /\ \E a \in Scope(q.user, q.folder) \ {q.alarm} :
       alarms[a].enabled /\ Shared(q.schedule, alarms[a].schedule, q.at) # {}

\* enabledSiblings and findCollision.
Collides(q) ==
  \E a \in Scope(q.user, q.folder) \ {q.alarm} :
    alarms[a].enabled /\ Shared(q.schedule, alarms[a].schedule, q.at) # {}

\* The pairs of the conflicts panel, were its window to start at from.
Conflicts(u, f, from) ==
  {{c[1], c[2]} : c \in {pair \in Scope(u, f) \X Scope(u, f) :
     /\ pair[1] # pair[2]
     /\ alarms[pair[1]].enabled /\ alarms[pair[2]].enabled
     /\ Shared(alarms[pair[1]].schedule, alarms[pair[2]].schedule, from) # {}}}

Reached(count, limit) == limit # None /\ count >= limit

\* Broken: the unfiled bucket is not counted.
FullFiled(q) ==
  q.folder # None
  /\ Reached(Cardinality(Scope(q.user, q.folder) \ {q.alarm}), Limits[q.tier].alarms)

Full(q) == Reached(Cardinality(Scope(q.user, q.folder) \ {q.alarm}), Limits[q.tier].alarms)

FoldersFull(q) ==
  Reached(Cardinality({f \in DOMAIN folders : folders[f].owner = q.user}), Limits[q.tier].folders)

ScheduleAllowed(t, s) == s.every > 0 => Limits[t].repeats /\ s.every >= Limits[t].every

\* Broken: NULLs are distinct to the one index, so unfiled names repeat.
NameTakenFiled(q, name) ==
  /\ q.folder # None
  /\ \E a \in Scope(q.user, q.folder) \ {q.alarm} : alarms[a].name = name

\* The unique indexes: one per folder, one for each unfiled bucket.
NameTaken(q, name) ==
  \E a \in Scope(q.user, q.folder) \ {q.alarm} : alarms[a].name = name

FolderNameTaken(u, f, name) ==
  \E g \in DOMAIN folders \ {f} : folders[g].owner = u /\ folders[g].name = name

\* Broken: what fires at this very moment is taken for past.
SpentEarly(a, at) == alarms[a].selfDestruct /\ \A i \in alarms[a].schedule.fires : i <= at

\* nextOccurrence finds nothing at or after the clock.
Spent(a, at) == alarms[a].selfDestruct /\ \A i \in alarms[a].schedule.fires : i < at

-----------------------------------------------------------------------------
\* A request arrives.  A client knows the ids that were once handed out, its own
\* and others'; an id that never existed reads as missing like a foreign one.

Arrive(p, u, op, request) ==
  /\ req[p].pc = "idle"
  /\ op \in Ops
  /\ arrivals < MaxArrivals /\ arrivals' = arrivals + 1
  /\ Become(p, [request EXCEPT !.op = op, !.user = u])
  /\ UNCHANGED <<now, Tables, issued, held>>

ArriveCreate(p, u) ==
  \E f \in (Folders \cap issued) \cup {None}, on \in BOOLEAN :
    Arrive(p, u, "create", [Blank EXCEPT !.pc = "owns", !.folder = f, !.enabled = on])

ArriveForAlarm(p, u) ==
  \E op \in {"put", "delete", "enable", "disable"}, a \in Alarms \cap issued :
    Arrive(p, u, op, [Blank EXCEPT !.pc = "load", !.alarm = a, !.enabled = op = "enable"])

ArriveBulk(p, u) ==
  \E ids \in (SUBSET (Alarms \cap issued)) \ {{}}, on \in BOOLEAN :
    Arrive(p, u, "bulk", [Blank EXCEPT !.pc = "owned", !.ids = ids, !.enabled = on])

ArriveList(p, u) == Arrive(p, u, "list", [Blank EXCEPT !.pc = "candidates"])

ArriveMakeFolder(p, u) == Arrive(p, u, "makeFolder", [Blank EXCEPT !.pc = "folderTier"])

ArriveForFolder(p, u) ==
  \E f \in Folders \cap issued :
    \/ Arrive(p, u, "rename", [Blank EXCEPT !.pc = "rename", !.folder = f])
    \/ Arrive(p, u, "dropFolder", [Blank EXCEPT !.pc = "folderLoad", !.folder = f])

-----------------------------------------------------------------------------
\* POST and PUT /alarms: the row (PUT), the folder, the tier, the allowance,
\* the siblings, the write.

Load(p) ==
  LET q == req[p] IN
  /\ q.pc = "load"
  /\ IF ~Mine(q, q.alarm) THEN Finish(p)                              \* 404
     ELSE IF q.op = "put"
       THEN \E f \in (Folders \cap issued) \cup {None} :
              Become(p, [q EXCEPT !.pc = "owns", !.folder = f, !.enabled = alarms[q.alarm].enabled])
     ELSE Become(p, [q EXCEPT !.pc = IF q.op = "delete" THEN "erase" ELSE "switch"])
  /\ UNCHANGED <<now, Tables, issued, held, arrivals>>

\* Broken: PUT trusts the folder of the body.
OwnsFolderAtCreate(p) ==
  LET q == req[p] IN
  /\ q.pc = "owns"
  /\ IF q.folder = None \/ q.op = "put" \/ OwnFolder(q, q.folder)
       THEN Become(p, [q EXCEPT !.pc = "tier"])
       ELSE Finish(p)
  /\ UNCHANGED <<now, Tables, issued, held, arrivals>>

\* assertOwnsFolder asks nothing of the unfiled bucket.
OwnsFolder(p) ==
  LET q == req[p] IN
  /\ q.pc = "owns"
  /\ IF q.folder = None \/ OwnFolder(q, q.folder)
       THEN Become(p, [q EXCEPT !.pc = "tier"])
       ELSE Finish(p)                                                 \* 404
  /\ UNCHANGED <<now, Tables, issued, held, arrivals>>

\* Broken: PUT saves whatever the tier has become.
ReadTierAtCreate(p) ==
  LET q == req[p] IN
  /\ q.pc = "tier"
  /\ \E s \in Schedules :
       IF q.op = "put" \/ ScheduleAllowed(tier[q.user], s)
         THEN Become(p, [q EXCEPT !.pc = "count", !.tier = tier[q.user], !.schedule = s])
         ELSE Finish(p)
  /\ UNCHANGED <<now, Tables, issued, held, arrivals>>

\* tierOf and assertScheduleAllowed.
ReadTier(p) ==
  LET q == req[p] IN
  /\ q.pc = "tier"
  /\ \E s \in Schedules :
       IF ScheduleAllowed(tier[q.user], s)
         THEN Become(p, [q EXCEPT !.pc = "count", !.tier = tier[q.user], !.schedule = s])
         ELSE Finish(p)                                               \* 422
  /\ UNCHANGED <<now, Tables, issued, held, arrivals>>

\* assertCanAddAlarm; the window of R-08 starts at the clock read next.
Count(p) ==
  LET q == req[p] IN
  /\ q.pc = "count"
  /\ IF Full(q) THEN Finish(p)                                        \* 409
     ELSE IF q.enabled THEN Become(p, [q EXCEPT !.pc = "siblings", !.at = now])
     ELSE Become(p, [q EXCEPT !.pc = "write"])
  /\ UNCHANGED <<now, Tables, issued, held, arrivals>>

Siblings(p) ==
  LET q == req[p] IN
  /\ q.pc = "siblings"
  /\ IF Collides(q) THEN Finish(p)                                    \* 409
                    ELSE Become(p, [q EXCEPT !.pc = "write"])
  /\ UNCHANGED <<now, Tables, issued, held, arrivals>>

\* An INSERT or UPDATE meets the foreign key (500) and the unique index (409).
Refused(q, name) == (q.folder # None /\ q.folder \notin DOMAIN folders) \/ NameTaken(q, name)

Vetted(q) == IF q.enabled /\ ~q.raced THEN q.at ELSE None

Insert(p) ==
  LET q == req[p] IN
  /\ q.pc = "write" /\ q.op = "create"
  /\ \E a \in Alarms \ issued, name \in Names, sd \in BOOLEAN :
       IF Refused(q, name) THEN Finish(p) /\ UNCHANGED <<alarms, issued>>
       ELSE /\ alarms' = [b \in DOMAIN alarms \cup {a} |->
                 IF b = a THEN [owner |-> q.user, folder |-> q.folder, name |-> name,
                                schedule |-> q.schedule, enabled |-> q.enabled,
                                selfDestruct |-> sd, vetted |-> Vetted(q)]
                 ELSE alarms[b]]
            /\ issued' = issued \cup {a}
            /\ Commit(p)
  /\ UNCHANGED <<now, tier, folders, held, arrivals>>

\* By id only, and enabled is not among the columns; selfDestruct is the body's
\* or the one first loaded.  Of a row that has gone the statement changes
\* nothing, and the reload then fails (500).
Update(p) ==
  LET q == req[p] IN
  /\ q.pc = "write" /\ q.op = "put"
  /\ \E name \in Names, sd \in BOOLEAN :
       IF q.alarm \notin DOMAIN alarms \/ Refused(q, name)
       THEN Finish(p) /\ UNCHANGED alarms
       ELSE /\ alarms' = [alarms EXCEPT ![q.alarm] =
                 [@ EXCEPT !.folder = q.folder, !.name = name, !.schedule = q.schedule,
                           !.selfDestruct = sd, !.vetted = Vetted(q)]]
            /\ CommitAs(p, Blank, {q.alarm})
  /\ UNCHANGED <<Aside, folders>>

-----------------------------------------------------------------------------
\* Delete, enable, disable and bulk enable, by the ids the first read allowed.

Without(ids) == [a \in DOMAIN alarms \ ids |-> alarms[a]]

Erase(p) ==
  LET q == req[p] IN
  /\ q.pc = "erase"
  /\ alarms' = Without({q.alarm})
  /\ Commit(p)
  /\ UNCHANGED <<Aside, folders>>

\* R-08 is not asked: an alarm switched on is no longer a vetted one.
Switched(ids, on) ==
  [a \in DOMAIN alarms |->
     IF a \notin ids THEN alarms[a]
     ELSE [alarms[a] EXCEPT !.enabled = on,
                            !.vetted = IF on /\ alarms[a].enabled THEN @ ELSE None]]

Switch(p) ==
  LET q == req[p] IN
  /\ q.pc = "switch"
  /\ alarms' = Switched({q.alarm}, q.enabled)
  /\ Commit(p)
  /\ UNCHANGED <<Aside, folders>>

Owned(p) ==
  LET q == req[p] IN
  /\ q.pc = "owned"
  /\ IF \A a \in q.ids : Mine(q, a) THEN Become(p, [q EXCEPT !.pc = "switchAll"])
                                    ELSE Finish(p)                    \* 404 for all
  /\ UNCHANGED <<now, Tables, issued, held, arrivals>>

SwitchAll(p) ==
  LET q == req[p] IN
  /\ q.pc = "switchAll"
  /\ alarms' = Switched(q.ids, q.enabled)
  /\ Commit(p)
  /\ UNCHANGED <<Aside, folders>>

-----------------------------------------------------------------------------
\* GET /alarms: the self-destructing rows, the clock, the sweep, the page.

Candidates(p) ==
  LET q == req[p]
      spent == {a \in DOMAIN alarms : alarms[a].owner = q.user /\ Spent(a, now)} IN
  /\ q.pc = "candidates"
  /\ Become(p, [q EXCEPT !.ids = spent, !.at = now,
                         !.pc = IF spent = {} THEN "page" ELSE "sweep"])
  /\ UNCHANGED <<now, Tables, issued, held, arrivals>>

Sweep(p) ==
  LET q == req[p] IN
  /\ q.pc = "sweep"
  /\ alarms' = Without(q.ids)
  /\ CommitAs(p, [q EXCEPT !.pc = "page", !.edited = {}], {})
  /\ UNCHANGED <<Aside, folders>>

\* The count and the rows of a page; nothing is kept of them.
Page(p) ==
  /\ req[p].pc = "page"
  /\ Finish(p)
  /\ UNCHANGED <<now, Tables, issued, held, arrivals>>

-----------------------------------------------------------------------------
\* Folders.

FolderTier(p) ==
  LET q == req[p] IN
  /\ q.pc = "folderTier"
  /\ Become(p, [q EXCEPT !.pc = "folderCount", !.tier = tier[q.user]])
  /\ UNCHANGED <<now, Tables, issued, held, arrivals>>

FolderCount(p) ==
  LET q == req[p] IN
  /\ q.pc = "folderCount"
  /\ IF FoldersFull(q) THEN Finish(p)                                 \* 409
                       ELSE Become(p, [q EXCEPT !.pc = "folderInsert"])
  /\ UNCHANGED <<now, Tables, issued, held, arrivals>>

FolderInsert(p) ==
  LET q == req[p] IN
  /\ q.pc = "folderInsert"
  /\ \E f \in Folders \ issued, name \in Names :
       IF FolderNameTaken(q.user, None, name)
       THEN Finish(p) /\ UNCHANGED <<folders, issued>>                \* 409
       ELSE /\ folders' = [g \in DOMAIN folders \cup {f} |->
                 IF g = f THEN [owner |-> q.user, name |-> name] ELSE folders[g]]
            /\ issued' = issued \cup {f}
            /\ Commit(p)
  /\ UNCHANGED <<now, tier, alarms, held, arrivals>>

\* One UPDATE with the owner in its condition, or 404.
Rename(p) ==
  LET q == req[p] IN
  /\ q.pc = "rename"
  /\ \E name \in Names :
       IF ~OwnFolder(q, q.folder) \/ FolderNameTaken(q.user, q.folder, name)
       THEN Finish(p) /\ UNCHANGED folders
       ELSE folders' = [folders EXCEPT ![q.folder].name = name] /\ Commit(p)
  /\ UNCHANGED <<Aside, alarms>>

\* R-10: without ?confirm=true the request is refused whatever the folder holds.
FolderLoad(p) ==
  LET q == req[p] IN
  /\ q.pc = "folderLoad"
  /\ \/ Finish(p)
     \/ OwnFolder(q, q.folder) /\ Become(p, [q EXCEPT !.pc = "folderDrop"])
  /\ UNCHANGED <<now, Tables, issued, held, arrivals>>

\* The alarms go with it, ON DELETE CASCADE.
FolderDrop(p) ==
  LET q == req[p] IN
  /\ q.pc = "folderDrop"
  /\ folders' = [f \in DOMAIN folders \ {q.folder} |-> folders[f]]
  /\ alarms' = Without({a \in DOMAIN alarms : alarms[a].folder = q.folder})
  /\ Commit(p)
  /\ UNCHANGED <<now, tier, issued, held, arrivals>>

-----------------------------------------------------------------------------
\* Any statement may fail, for want of a connection or of an answer: the request
\* ends there (500), and what it wrote before stays.
Fail(p) ==
  /\ req[p].pc # "idle"
  /\ Finish(p)
  /\ UNCHANGED <<now, Tables, issued, held, arrivals>>

\* An administrator moves an account to another tier; nothing is taken away.
SetTier(u) ==
  /\ "setTier" \in Ops
  /\ arrivals < MaxArrivals /\ arrivals' = arrivals + 1
  /\ \E t \in Tiers \ {tier[u]} :
       /\ tier' = [tier EXCEPT ![u] = t]
       /\ held' = [held EXCEPT ![u] = @ \cup {t}]
  /\ UNCHANGED <<now, folders, alarms, req, issued>>

Tick ==
  /\ now < MaxTime
  /\ now' = now + 1
  /\ UNCHANGED <<Tables, req, issued, held, arrivals>>

Next ==
  \/ \E p \in Requests, u \in Users :
       \/ ArriveCreate(p, u) \/ ArriveForAlarm(p, u) \/ ArriveBulk(p, u)
       \/ ArriveList(p, u) \/ ArriveMakeFolder(p, u) \/ ArriveForFolder(p, u)
  \/ \E p \in Requests :
       \/ Load(p) \/ OwnsFolder(p) \/ ReadTier(p) \/ Count(p) \/ Siblings(p)
       \/ Insert(p) \/ Update(p) \/ Erase(p) \/ Switch(p) \/ Owned(p) \/ SwitchAll(p)
       \/ Candidates(p) \/ Sweep(p) \/ Page(p)
       \/ FolderTier(p) \/ FolderCount(p) \/ FolderInsert(p)
       \/ Rename(p) \/ FolderLoad(p) \/ FolderDrop(p) \/ Fail(p)
  \/ \E u \in Users : SetTier(u)
  \/ Tick

Spec == Init /\ [][Next]_vars

-----------------------------------------------------------------------------
\* Properties.

TypeOK ==
  /\ now \in Nat
  /\ tier \in [Users -> Tiers]
  /\ held \in [Users -> SUBSET Tiers]
  /\ DOMAIN folders \subseteq Folders /\ folders \in [DOMAIN folders -> FolderRow]
  /\ DOMAIN alarms \subseteq Alarms /\ alarms \in [DOMAIN alarms -> AlarmRow]
  /\ issued \subseteq Folders \cup Alarms
  /\ arrivals \in Nat
  /\ req \in [Requests -> Request]

\* R-09: within a folder, and within a user's unfiled bucket, no two alarms share
\* a name, whatever moves, renames and cascades have happened (isDuplicateName).
NamesUnique ==
  \A a, b \in DOMAIN alarms :
    /\ a # b /\ alarms[a].name = alarms[b].name
    /\ alarms[a].folder = alarms[b].folder
    => /\ alarms[a].folder = None
       /\ alarms[a].owner # alarms[b].owner

\* An alarm is filed in a folder that exists and belongs to the alarm's owner,
\* though assertOwnsFolder asked in an earlier statement and the folder may have
\* been deleted since.
FiledWithOwner ==
  \A a \in DOMAIN alarms :
    LET f == alarms[a].folder IN
    f # None => f \in DOMAIN folders /\ folders[f].owner = alarms[a].owner

\* R-08 (conflicts.ts:5-12): two enabled alarms of a bucket that share an instant
\* were put there by enabling one, by writes that overlapped, or by time: were
\* both vetted, they shared nothing in the window of the later check.
CollisionsExplained ==
  \A u \in Users, f \in Folders \cup {None}, a, b \in Alarms :
    {a, b} \subseteq Scope(u, f)
      /\ alarms[a].vetted # None /\ alarms[b].vetted # None
      /\ alarms[a].vetted <= alarms[b].vetted
      => {a, b} \notin Conflicts(u, f, alarms[b].vetted)

\* The finite allowances there are, and the users who never had more than one.
Allowances == (UNION {{Limits[t].alarms, Limits[t].folders} : t \in Tiers}) \ {None}
AlarmsUpTo(u, n) == \A t \in held[u] : Limits[t].alarms # None /\ Limits[t].alarms <= n
FoldersUpTo(u, n) == \A t \in held[u] : Limits[t].folders # None /\ Limits[t].folders <= n

FoldersOf(u) == {f \in DOMAIN folders : folders[f].owner = u}

\* tiers.ts counts in one statement and the caller inserts in another, so the
\* allowance can be overrun; but never by more than the requests in flight less one.
OvershootBounded ==
  \A u \in Users, n \in Allowances :
    /\ AlarmsUpTo(u, n) =>
         \A f \in {None} \cup FoldersOf(u) :
           Cardinality(Scope(u, f)) < n + Cardinality(Requests)
    /\ FoldersUpTo(u, n) => Cardinality(FoldersOf(u)) < n + Cardinality(Requests)

\* assertScheduleAllowed: what an alarm repeats is what some tier its owner has
\* had allows; a downgrade takes nothing away, and a save cannot smuggle it in.
SchedulesWereAllowed ==
  \A a \in DOMAIN alarms :
    \E t \in held[alarms[a].owner] : ScheduleAllowed(t, alarms[a].schedule)

\* What a request writes by bare id is its user's: the ownership read earlier
\* still holds when the statement runs, for single, bulk and swept ids alike.
OnlyOwnRows ==
  [][\A a \in DOMAIN alarms :
       a \notin DOMAIN alarms' \/ alarms'[a] # alarms[a] =>
         \E p \in Requests : req'[p].pc # req[p].pc /\ req[p].user = alarms[a].owner]_vars

ToCome(a) == ~alarms[a].selfDestruct \/ \E i \in alarms[a].schedule.fires : i >= now

\* An alarm that has not spent itself is lost only by its owner's word: a DELETE of
\* it, the end of the folder it is in by then, or a PUT that rewrote it after a
\* list had found it spent and before that list's sweep, which goes by the ids
\* (alarms.ts:98-112).  No other sweep takes one, however late it comes.
NothingElseLost ==
  [][\A a \in DOMAIN alarms \ DOMAIN alarms' :
       ToCome(a) =>
         \E p \in Requests :
           /\ req[p].user = alarms[a].owner /\ req'[p].pc # req[p].pc
           /\ \/ req[p].pc = "erase" /\ req[p].alarm = a
              \/ req[p].pc = "folderDrop" /\ req[p].folder = alarms[a].folder
              \/ req[p].pc = "sweep" /\ a \in req[p].edited]_vars

=============================================================================
