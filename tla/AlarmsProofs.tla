---------------------------- MODULE AlarmsProofs ----------------------------
(***************************************************************************)
(* Theorems about Alarms, for every set of users, folders, alarms and      *)
(* requests in flight.                                                     *)
(*                                                                         *)
(* A request acts on ids that an earlier statement allowed.  The invariant *)
(* says what such a permission is worth by the time it is used: ids are    *)
(* never handed out twice and rows never change owner, so what was the     *)
(* user's own is the user's own or gone.                                   *)
(***************************************************************************)
EXTENDS Alarms, FiniteSetTheorems, TLAPS

\* The alarms a request will write by bare id, and the folders it will use so.
WritesTo(q) ==
  IF \/ q.pc \in {"erase", "switch"}
     \/ q.pc \in {"owns", "tier", "count", "siblings", "write"} /\ q.op = "put"
  THEN {q.alarm}
  ELSE IF q.pc \in {"switchAll", "sweep"} THEN q.ids ELSE {}

FilesInto(q) ==
  IF q.pc \in {"tier", "count", "siblings", "write", "folderDrop"} THEN {q.folder} \ {None} ELSE {}

\* Whatever the request was allowed is its user's, if it is still there.
Claim(q) ==
  /\ WritesTo(q) \subseteq issued
  /\ \A a \in WritesTo(q) : a \in DOMAIN alarms => alarms[a].owner = q.user
  /\ FilesInto(q) \subseteq issued
  /\ \A f \in FilesInto(q) : f \in DOMAIN folders => folders[f].owner = q.user

\* What the fields of a request are once the code has set them.
WellFormed(q) ==
  /\ q.pc # "idle" => q.user \in Users
  /\ q.op = "create" => q.alarm = None
  /\ q.pc \in {"count", "siblings", "write"} => q.schedule \in Schedules
  /\ q.pc = "owns" => q.folder \in issued \cup {None}
  /\ q.pc = "folderDrop" => q.folder # None

Requested(q) == q \in Request /\ WellFormed(q) /\ Claim(q)

KnownIds == DOMAIN folders \subseteq issued /\ DOMAIN alarms \subseteq issued

Claims == \A p \in Requests : WellFormed(req[p]) /\ Claim(req[p])

\* The tables keep the owner of every row that stays, and new rows have new ids.
OwnersKept ==
  /\ issued \subseteq issued'
  /\ \A a \in DOMAIN alarms' :
       (a \in DOMAIN alarms /\ alarms'[a].owner = alarms[a].owner) \/ a \notin issued
  /\ \A f \in DOMAIN folders' :
       (f \in DOMAIN folders /\ folders'[f].owner = folders[f].owner) \/ f \notin issued

IInv == TypeOK /\ KnownIds /\ Claims /\ FiledWithOwner /\ NamesUnique

-----------------------------------------------------------------------------
\* An idle place holds a well-formed request that claims nothing.
LEMMA BlankRequested == Requested(Blank)
BY DEF Requested, Request, Blank, PCs, AllOps, Tiers, WellFormed, Claim, WritesTo, FilesInto

\* What an overtaken request has become: the same, but for its history.
GoesOn(q, r, ids) ==
  /\ r.raced = (q.pc # "idle")
  /\ q.pc = "sweep" => r.edited = q.edited \cup (ids \cap q.ids)
  /\ r.pc = q.pc /\ r.op = q.op /\ r.user = q.user /\ r.alarm = q.alarm /\ r.ids = q.ids
  /\ r.folder = q.folder /\ r.tier = q.tier /\ r.schedule = q.schedule
  /\ r.enabled = q.enabled /\ r.at = q.at

\* That a request has been overtaken changes nothing in what it is allowed.
LEMMA OvertakenKept ==
  ASSUME NEW q \in Request, NEW ids
  PROVE  /\ Overtaken(q, ids) \in Request /\ GoesOn(q, Overtaken(q, ids), ids)
         /\ WellFormed(q) <=> WellFormed(Overtaken(q, ids))
         /\ Claim(q) <=> Claim(Overtaken(q, ids))
<1> DEFINE r == Overtaken(q, ids)
<1>1. PICK e : e = IF q.pc = "sweep" THEN q.edited \cup (ids \cap q.ids) ELSE q.edited
  OBVIOUS
<1>2. r = [q EXCEPT !.raced = q.pc # "idle", !.edited = e]
  BY <1>1 DEF Overtaken
<1> HIDE DEF r
<1>3. e \in SUBSET Alarms
  BY <1>1 DEF Request
<1>4. /\ r \in Request /\ r.raced = (q.pc # "idle") /\ r.edited = e
      /\ r.pc = q.pc /\ r.op = q.op /\ r.user = q.user /\ r.alarm = q.alarm /\ r.ids = q.ids
      /\ r.folder = q.folder /\ r.tier = q.tier /\ r.schedule = q.schedule
      /\ r.enabled = q.enabled /\ r.at = q.at
  BY <1>2, <1>3 DEF Request
<1>5. (WellFormed(q) <=> WellFormed(r)) /\ (Claim(q) <=> Claim(r))
  BY <1>4 DEF WellFormed, Claim, WritesTo, FilesInto
<1>6. GoesOn(q, r, ids)
  BY <1>1, <1>4 DEF GoesOn
<1>7. QED
  BY <1>4, <1>5, <1>6 DEF r

\* A step that changes no table and leaves its request well formed.
LEMMA QuietStep ==
  ASSUME IInv, NEW p \in Requests, NEW q, Requested(q), Become(p, q),
         UNCHANGED <<folders, alarms, issued>>, now' \in Nat, arrivals' \in Nat,
         tier' \in [Users -> Tiers], held' \in [Users -> SUBSET Tiers]
  PROVE  IInv'
<1>1. OwnersKept
  BY DEF OwnersKept
<1>2. req' \in [Requests -> Request]
  BY DEF IInv, TypeOK, Become, Requested
<1>3. TypeOK'
  BY <1>2 DEF IInv, TypeOK
<1>4. \A x \in Requests : WellFormed(req'[x]) /\ Claim(req'[x])
  BY DEF IInv, TypeOK, Become, Claims, Requested
<1>5. Claims'
  <2>1. SUFFICES ASSUME NEW x \in Requests
                 PROVE  (WellFormed(req[x]) /\ Claim(req[x]))'
    BY DEF Claims
  <2>2. DEFINE r == req'[x]
  <2>3. WellFormed(r) /\ Claim(r)
    BY <1>4
  <2>4. QED
    BY <2>3 DEF WellFormed, Claim, WritesTo, FilesInto
<1>6. KnownIds' /\ FiledWithOwner' /\ NamesUnique'
  BY DEF IInv, KnownIds, FiledWithOwner, NamesUnique
<1>7. QED
  BY <1>3, <1>5, <1>6 DEF IInv

\* A request that is held is well typed, and what it holds is its user's.
LEMMA Held ==
  ASSUME IInv, NEW p \in Requests
  PROVE  /\ req[p] \in Request /\ WellFormed(req[p]) /\ Claim(req[p]) /\ now \in Nat
         /\ tier \in [Users -> Tiers]
         /\ \A a \in DOMAIN alarms : alarms[a] \in AlarmRow /\ a \in Alarms /\ a \in issued
         /\ \A f \in DOMAIN folders : folders[f] \in FolderRow /\ f \in Folders /\ f \in issued
BY DEF IInv, TypeOK, Claims, KnownIds

\* Where a request is when it has arrived.
Arriving(q) ==
  /\ q.pc \in {"load", "owns", "owned", "candidates", "folderTier", "rename", "folderLoad"}
  /\ q.pc = "owns" => q.op = "create"

\* Arriving: no request claims anything yet.
LEMMA Arrives ==
  ASSUME IInv, NEW p \in Requests, NEW u \in Users,
         \/ ArriveCreate(p, u) \/ ArriveForAlarm(p, u) \/ ArriveBulk(p, u)
         \/ ArriveList(p, u) \/ ArriveMakeFolder(p, u) \/ ArriveForFolder(p, u)
  PROVE  /\ \E q : Requested(q) /\ Become(p, q) /\ Arriving(q)
         /\ UNCHANGED <<now, Tables, issued, held>>
         /\ arrivals' \in Nat
<1> DEFINE Fresh(r) == /\ r \in Request
                       /\ r.pc \in {"load", "owns", "owned", "candidates", "folderTier", "rename", "folderLoad"}
                       /\ r.pc = "owns" => r.folder \in issued \cup {None}
                       /\ r.alarm = None \/ r.pc = "load"
<1>1. PICK op \in AllOps, r \in Request : Fresh(r) /\ Arrive(p, u, op, r) /\ (op = "create" <=> r.pc = "owns")
                              /\ (r.pc = "load" => op # "create")
  <2> USE DEF Blank, Request, PCs, AllOps, Tiers
  <2>1. CASE ArriveCreate(p, u)
    <3>1. PICK f \in (Folders \cap issued) \cup {None}, on \in BOOLEAN :
            Arrive(p, u, "create", [Blank EXCEPT !.pc = "owns", !.folder = f, !.enabled = on])
      BY <2>1 DEF ArriveCreate
    <3> DEFINE r == [Blank EXCEPT !.pc = "owns", !.folder = f, !.enabled = on]
    <3>2. r \in Request /\ Fresh(r) /\ r.pc = "owns" /\ Arrive(p, u, "create", r)
      BY <3>1
    <3> HIDE DEF r
    <3>3. QED
      BY <3>2
  <2>2. CASE ArriveForAlarm(p, u)
    <3>1. PICK op \in {"put", "delete", "enable", "disable"}, a \in Alarms \cap issued :
            Arrive(p, u, op, [Blank EXCEPT !.pc = "load", !.alarm = a, !.enabled = op = "enable"])
      BY <2>2 DEF ArriveForAlarm
    <3>2. PICK on \in BOOLEAN : on = (op = "enable")
      OBVIOUS
    <3> DEFINE r == [Blank EXCEPT !.pc = "load", !.alarm = a, !.enabled = on]
    <3>3. r \in Request /\ Fresh(r) /\ r.pc = "load" /\ Arrive(p, u, op, r)
      BY <3>1, <3>2
    <3> HIDE DEF r
    <3>4. QED
      BY <3>1, <3>3
  <2>3. CASE ArriveBulk(p, u)
    <3>1. PICK ids \in (SUBSET (Alarms \cap issued)) \ {{}}, on \in BOOLEAN :
            Arrive(p, u, "bulk", [Blank EXCEPT !.pc = "owned", !.ids = ids, !.enabled = on])
      BY <2>3 DEF ArriveBulk
    <3> DEFINE r == [Blank EXCEPT !.pc = "owned", !.ids = ids, !.enabled = on]
    <3>2. r \in Request /\ Fresh(r) /\ r.pc = "owned" /\ Arrive(p, u, "bulk", r)
      BY <3>1
    <3> HIDE DEF r
    <3>3. QED
      BY <3>2
  <2>4. CASE ArriveList(p, u) \/ ArriveMakeFolder(p, u)
    BY <2>4 DEF ArriveList, ArriveMakeFolder
  <2>5. CASE ArriveForFolder(p, u)
    BY <2>5 DEF ArriveForFolder
  <2>6. QED
    BY <2>1, <2>2, <2>3, <2>4, <2>5
<1> DEFINE q == [r EXCEPT !.op = op, !.user = u]
<1>2. Requested(q)
  <2>1. q \in Request
    BY <1>1 DEF Request
  <2>2. WellFormed(q)
    BY <1>1 DEF WellFormed, Request
  <2>3. Claim(q)
    BY <1>1 DEF Claim, WritesTo, FilesInto, Request
  <2>4. QED
    BY <2>1, <2>2, <2>3 DEF Requested
<1>3. Become(p, q) /\ UNCHANGED <<now, Tables, issued, held>> /\ arrivals' = arrivals + 1
  BY <1>1 DEF Arrive
<1>4. Arriving(q)
  BY <1>1 DEF Request, Arriving
<1> HIDE DEF q
<1>5. QED
  BY <1>2, <1>3, <1>4 DEF IInv, TypeOK

LEMMA ArriveStep ==
  ASSUME IInv, NEW p \in Requests, NEW u \in Users,
         \/ ArriveCreate(p, u) \/ ArriveForAlarm(p, u) \/ ArriveBulk(p, u)
         \/ ArriveList(p, u) \/ ArriveMakeFolder(p, u) \/ ArriveForFolder(p, u)
  PROVE  IInv'
<1>1. PICK q : Requested(q) /\ Become(p, q)
  BY Arrives
<1>2. UNCHANGED <<now, Tables, issued, held>> /\ arrivals' \in Nat
  BY Arrives
<1>3. QED
  BY <1>1, <1>2, QuietStep DEF IInv, TypeOK, Tables

\* The statements that only read leave a request that is allowed what it will do.
LEMMA ReadStep ==
  ASSUME IInv, NEW p \in Requests,
         \/ Load(p) \/ OwnsFolder(p) \/ ReadTier(p) \/ Count(p) \/ Siblings(p) \/ Owned(p)
         \/ Candidates(p) \/ Page(p) \/ FolderTier(p) \/ FolderCount(p) \/ FolderLoad(p) \/ Fail(p)
  PROVE  (\E q : Requested(q) /\ Become(p, q)) /\ UNCHANGED <<now, Tables, issued, held, arrivals>>
<1> DEFINE q == req[p]
<1>0. /\ q \in Request /\ WellFormed(q) /\ Claim(q) /\ now \in Nat
      /\ tier \in [Users -> Tiers] /\ Requested(Blank)
      /\ \A a \in DOMAIN alarms : a \in Alarms /\ a \in issued /\ alarms[a].enabled \in BOOLEAN
      /\ \A f \in DOMAIN folders : f \in Folders /\ f \in issued
  BY Held, BlankRequested DEF AlarmRow
<1> USE DEF Requested, Become, Finish
<1>1. CASE Load(p)
  <2>1. CASE ~Mine(q, q.alarm)
    BY <1>0, <1>1, <2>1 DEF Load
  <2>2. CASE Mine(q, q.alarm) /\ q.op = "put"
    <3>1. PICK f \in (Folders \cap issued) \cup {None} :
            Become(p, [q EXCEPT !.pc = "owns", !.folder = f, !.enabled = alarms[q.alarm].enabled])
      BY <1>1, <2>2 DEF Load
    <3>2. Requested([q EXCEPT !.pc = "owns", !.folder = f, !.enabled = alarms[q.alarm].enabled])
      <4>1. q.pc = "load"
        BY <1>1 DEF Load
      <4> DEFINE r == [q EXCEPT !.pc = "owns", !.folder = f, !.enabled = alarms[q.alarm].enabled]
      <4>2. r \in Request /\ r.pc = "owns" /\ r.folder = f /\ r.user = q.user /\ r.op = q.op /\ r.alarm = q.alarm
        BY <1>0, <2>2 DEF Mine, Request, PCs
      <4>3. WellFormed(r)
        BY <1>0, <4>1, <4>2 DEF WellFormed
      <4>4. Claim(r)
        BY <1>0, <2>2, <4>2 DEF Mine, Claim, WritesTo, FilesInto
      <4>5. QED
        BY <4>2, <4>3, <4>4
    <3>3. QED
      BY <1>1, <3>1, <3>2 DEF Load
  <2>3. CASE Mine(q, q.alarm) /\ q.op # "put"
    <3> DEFINE r == [q EXCEPT !.pc = IF q.op = "delete" THEN "erase" ELSE "switch"]
    <3>1. Become(p, r)
      BY <1>1, <2>3 DEF Load
    <3>2. Requested(r)
      <4>1. q.pc = "load"
        BY <1>1 DEF Load
      <4>2. r \in Request /\ r.pc \in {"erase", "switch"} /\ r.user = q.user /\ r.op = q.op /\ r.alarm = q.alarm
        BY <1>0 DEF Request, PCs
      <4>3. WellFormed(r)
        BY <1>0, <4>1, <4>2 DEF WellFormed
      <4>4. Claim(r)
        BY <1>0, <2>3, <4>2 DEF Mine, Claim, WritesTo, FilesInto
      <4>5. QED
        BY <4>2, <4>3, <4>4
    <3>3. QED
      BY <1>1, <3>1, <3>2 DEF Load
  <2>4. QED
    BY <2>1, <2>2, <2>3
<1>2. CASE OwnsFolder(p)
  BY <1>0, <1>2 DEF OwnsFolder, OwnFolder, Request, PCs, WellFormed, Claim, WritesTo, FilesInto
<1>3. CASE ReadTier(p)
  <2>1. PICK s \in Schedules :
          IF ScheduleAllowed(tier[q.user], s)
            THEN Become(p, [q EXCEPT !.pc = "count", !.tier = tier[q.user], !.schedule = s])
            ELSE Finish(p)
    BY <1>3 DEF ReadTier
  <2>2. tier[q.user] \in Tiers
    BY <1>0, <1>3 DEF ReadTier, WellFormed
  <2>3. Requested([q EXCEPT !.pc = "count", !.tier = tier[q.user], !.schedule = s])
    <3> DEFINE r == [q EXCEPT !.pc = "count", !.tier = tier[q.user], !.schedule = s]
    <3>1. /\ r \in Request /\ r.pc = "count" /\ r.schedule = s
          /\ r.user = q.user /\ r.op = q.op /\ r.alarm = q.alarm /\ r.folder = q.folder
      BY <1>0, <2>2 DEF Request, PCs
    <3>2. WellFormed(r)
      BY <1>0, <1>3, <3>1 DEF ReadTier, WellFormed
    <3>3. Claim(r)
      BY <1>0, <1>3, <3>1 DEF ReadTier, Claim, WritesTo, FilesInto
    <3>4. QED
      BY <3>1, <3>2, <3>3
  <2>4. QED
    BY <1>0, <1>3, <2>1, <2>3 DEF ReadTier
<1>4. CASE Count(p)
  <2>1. Requested([q EXCEPT !.pc = "siblings", !.at = now]) /\ Requested([q EXCEPT !.pc = "write"])
    <3> DEFINE r == [q EXCEPT !.pc = "siblings", !.at = now]
               w == [q EXCEPT !.pc = "write"]
    <3>1. /\ r \in Request /\ r.pc = "siblings" /\ r.schedule = q.schedule
          /\ r.user = q.user /\ r.op = q.op /\ r.alarm = q.alarm /\ r.folder = q.folder
      BY <1>0 DEF Request, PCs
    <3>2. /\ w \in Request /\ w.pc = "write" /\ w.schedule = q.schedule
          /\ w.user = q.user /\ w.op = q.op /\ w.alarm = q.alarm /\ w.folder = q.folder
      BY <1>0 DEF Request, PCs
    <3>3. WellFormed(r) /\ WellFormed(w)
      BY <1>0, <1>4, <3>1, <3>2 DEF Count, WellFormed
    <3>4. Claim(r) /\ Claim(w)
      BY <1>0, <1>4, <3>1, <3>2 DEF Count, Claim, WritesTo, FilesInto
    <3>5. QED
      BY <3>1, <3>2, <3>3, <3>4
  <2>2. \/ Become(p, Blank) \/ Become(p, [q EXCEPT !.pc = "siblings", !.at = now])
        \/ Become(p, [q EXCEPT !.pc = "write"])
    BY <1>4 DEF Count
  <2>3. QED
    BY <1>0, <1>4, <2>1, <2>2 DEF Count
<1>5. CASE Siblings(p)
  BY <1>0, <1>5 DEF Siblings, Request, PCs, WellFormed, Claim, WritesTo, FilesInto
<1>6. CASE Owned(p)
  BY <1>0, <1>6 DEF Owned, Mine, Request, PCs, WellFormed, Claim, WritesTo, FilesInto
<1>7. CASE Candidates(p)
  <2> DEFINE spent == {a \in DOMAIN alarms : alarms[a].owner = q.user /\ Spent(a, now)}
             r == [q EXCEPT !.ids = spent, !.at = now, !.pc = IF spent = {} THEN "page" ELSE "sweep"]
  <2>1. Become(p, r)
    BY <1>7 DEF Candidates
  <2>2. /\ spent \subseteq Alarms /\ spent \subseteq issued
        /\ \A a \in spent : a \in DOMAIN alarms /\ alarms[a].owner = q.user
    BY <1>0
  <2> HIDE DEF spent
  <2>3. r \in Request /\ r.ids = spent /\ r.pc \in {"page", "sweep"}
        /\ r.user = q.user /\ r.op = q.op /\ r.alarm = q.alarm
    BY <1>0, <2>2 DEF Request, PCs
  <2>4. WellFormed(r)
    BY <1>0, <1>7, <2>3 DEF Candidates, WellFormed
  <2>5. Claim(r)
    BY <2>2, <2>3 DEF Claim, WritesTo, FilesInto
  <2>6. QED
    BY <1>7, <2>1, <2>3, <2>4, <2>5 DEF Candidates
<1>8. CASE Page(p)
  BY <1>0, <1>8 DEF Page
<1>9. CASE FolderTier(p)
  <2>1. tier[q.user] \in Tiers
    BY <1>0, <1>9 DEF FolderTier, WellFormed
  <2>2. Requested([q EXCEPT !.pc = "folderCount", !.tier = tier[q.user]])
    <3> DEFINE r == [q EXCEPT !.pc = "folderCount", !.tier = tier[q.user]]
    <3>1. r \in Request /\ r.pc = "folderCount" /\ r.user = q.user /\ r.op = q.op /\ r.alarm = q.alarm
      BY <1>0, <2>1 DEF Request, PCs
    <3>2. WellFormed(r) /\ Claim(r)
      BY <1>0, <1>9, <3>1 DEF FolderTier, WellFormed, Claim, WritesTo, FilesInto
    <3>3. QED
      BY <3>1, <3>2
  <2>3. QED
    BY <1>9, <2>2 DEF FolderTier
<1>10. CASE FolderCount(p)
  BY <1>0, <1>10 DEF FolderCount, Request, PCs, WellFormed, Claim, WritesTo, FilesInto
<1>11. CASE FolderLoad(p)
  BY <1>0, <1>11, AlarmsAssumption DEF FolderLoad, OwnFolder, Request, PCs, WellFormed, Claim, WritesTo, FilesInto
<1>12. CASE Fail(p)
  BY <1>0, <1>12 DEF Fail
<1>13. QED
  BY <1>1, <1>2, <1>3, <1>4, <1>5, <1>6, <1>7, <1>8, <1>9, <1>10, <1>11, <1>12

\* So they keep the invariant.
LEMMA ReadStepKeeps ==
  ASSUME IInv, NEW p \in Requests,
         \/ Load(p) \/ OwnsFolder(p) \/ ReadTier(p) \/ Count(p) \/ Siblings(p) \/ Owned(p)
         \/ Candidates(p) \/ Page(p) \/ FolderTier(p) \/ FolderCount(p) \/ FolderLoad(p) \/ Fail(p)
  PROVE  IInv'
<1>1. PICK q : Requested(q) /\ Become(p, q)
  BY ReadStep
<1>2. UNCHANGED <<now, Tables, issued, held, arrivals>>
  BY ReadStep
<1>3. QED
  BY <1>1, <1>2, QuietStep DEF IInv, TypeOK, Tables

-----------------------------------------------------------------------------
\* A step that changes a table, after which its request is r and the others go on.
Overtakes(p, r) == \E ids : CommitAs(p, r, ids)

\* The permissions of all requests outlive a write that keeps owners.
LEMMA CommitKeeps ==
  ASSUME IInv, NEW p \in Requests, NEW r, Requested(r), OwnersKept, Overtakes(p, r)
  PROVE  Claims' /\ req' \in [Requests -> Request]
<1>1. ASSUME NEW x \in Requests
      PROVE  req'[x] \in Request /\ WellFormed(req'[x]) /\ Claim(req'[x])
  <2>1. CASE x = p
    BY <2>1 DEF Overtakes, CommitAs, Requested
  <2>2. CASE x # p
    <3>1. PICK ids : req'[x] = Overtaken(req[x], ids)
      BY <2>2 DEF Overtakes, CommitAs
    <3>2. req[x] \in Request /\ WellFormed(req[x]) /\ Claim(req[x])
      BY Held
    <3>3. QED
      BY <3>1, <3>2, OvertakenKept
  <2>3. QED
    BY <2>1, <2>2
<1>2. \A x \in Requests : Claim(req'[x]) /\ WellFormed(req'[x])
  BY <1>1
<1>3. Claims'
  <2>1. SUFFICES ASSUME NEW x \in Requests PROVE (WellFormed(req[x]) /\ Claim(req[x]))'
    BY DEF Claims
  <2> DEFINE q == req'[x]
  <2>2. WellFormed(q) /\ Claim(q)
    BY <1>2
  <2>3. OwnersKept
    OBVIOUS
  <2>4. WritesTo(q) \subseteq issued' /\ FilesInto(q) \subseteq issued'
    BY <2>2, <2>3 DEF Claim, OwnersKept
  <2>5. \A a \in WritesTo(q) : a \in DOMAIN alarms' => alarms'[a].owner = q.user
    BY <2>2, <2>3 DEF Claim, OwnersKept
  <2>6. \A f \in FilesInto(q) : f \in DOMAIN folders' => folders'[f].owner = q.user
    BY <2>2, <2>3 DEF Claim, OwnersKept
  <2>7. WellFormed(req[x])'
    BY <2>2, <2>3 DEF WellFormed, OwnersKept
  <2>8. Claim(req[x])'
    BY <2>4, <2>5, <2>6 DEF Claim, WritesTo, FilesInto
  <2>9. QED
    BY <2>7, <2>8
<1>4. req' \in [Requests -> Request]
  BY <1>1 DEF Overtakes, CommitAs
<1>5. QED
  BY <1>3, <1>4

\* Every alarm that stays keeps its owner, its folder and its name.
AlarmsStay ==
  \A a \in DOMAIN alarms' :
    /\ a \in DOMAIN alarms
    /\ alarms'[a] \in AlarmRow
    /\ alarms'[a].owner = alarms[a].owner
    /\ alarms'[a].folder = alarms[a].folder
    /\ alarms'[a].name = alarms[a].name

\* Deleting alarms and switching them on and off disturbs nothing that is filed.
LEMMA StayStep ==
  ASSUME IInv, NEW p \in Requests, NEW r, Requested(r), Overtakes(p, r),
         AlarmsStay, alarms' = [a \in DOMAIN alarms' |-> alarms'[a]], UNCHANGED <<Aside, folders>>
  PROVE  IInv'
<1>1. OwnersKept
  BY DEF OwnersKept, AlarmsStay, Aside
<1>2. Claims' /\ req' \in [Requests -> Request]
  BY <1>1, CommitKeeps
<1>3. KnownIds'
  BY DEF IInv, KnownIds, AlarmsStay, Aside
<1>4. DOMAIN alarms' \subseteq Alarms /\ alarms' \in [DOMAIN alarms' -> AlarmRow]
  BY DEF IInv, TypeOK, AlarmsStay
<1>5. TypeOK'
  BY <1>2, <1>4 DEF IInv, TypeOK, Aside
<1>6. FiledWithOwner'
  BY DEF IInv, FiledWithOwner, AlarmsStay
<1>7. NamesUnique'
  BY DEF IInv, NamesUnique, AlarmsStay
<1>8. QED
  BY <1>2, <1>3, <1>5, <1>6, <1>7 DEF IInv

\* The rows that are left after a DELETE.
LEMMA WithoutStays ==
  ASSUME IInv, NEW ids, alarms' = Without(ids)
  PROVE  AlarmsStay /\ alarms' = [a \in DOMAIN alarms' |-> alarms'[a]]
BY Held DEF Without, AlarmsStay, IInv, TypeOK

\* The rows after an UPDATE of enabled.
LEMMA SwitchedStays ==
  ASSUME IInv, NEW ids, NEW on \in BOOLEAN, alarms' = Switched(ids, on)
  PROVE  AlarmsStay /\ alarms' = [a \in DOMAIN alarms' |-> alarms'[a]]
<1>1. DOMAIN alarms' = DOMAIN alarms /\ alarms' = [a \in DOMAIN alarms' |-> alarms'[a]]
  BY DEF Switched
<1>2. ASSUME NEW a \in DOMAIN alarms
      PROVE  /\ alarms'[a] \in AlarmRow
             /\ alarms'[a].owner = alarms[a].owner
             /\ alarms'[a].folder = alarms[a].folder
             /\ alarms'[a].name = alarms[a].name
  <2>1. alarms[a] \in AlarmRow
    BY DEF IInv, TypeOK
  <2>2. QED
    BY <2>1 DEF Switched, AlarmRow
<1>3. QED
  BY <1>1, <1>2 DEF AlarmsStay

\* DELETE, enable, disable, bulk enable and the sweep.
LEMMA IdsStep ==
  ASSUME IInv, NEW p \in Requests,
         Erase(p) \/ Switch(p) \/ SwitchAll(p) \/ Sweep(p)
  PROVE  IInv'
<1>0. Requested(Blank) /\ req[p] \in Request /\ WellFormed(req[p]) /\ Claim(req[p])
  BY BlankRequested, Held
<1>1. CASE Erase(p)
  BY <1>0, <1>1, WithoutStays, StayStep DEF Erase, Commit, Overtakes
<1>2. CASE Switch(p)
  BY <1>0, <1>2, SwitchedStays, StayStep DEF Switch, Commit, Overtakes, Request
<1>3. CASE SwitchAll(p)
  BY <1>0, <1>3, SwitchedStays, StayStep DEF SwitchAll, Commit, Overtakes, Request
<1>4. CASE Sweep(p)
  <2> DEFINE r == [req[p] EXCEPT !.pc = "page", !.edited = {}]
  <2>1. Requested(r)
    <3>1. /\ r \in Request /\ r.pc = "page" /\ r.op = req[p].op /\ r.user = req[p].user
          /\ r.alarm = req[p].alarm /\ req[p].pc = "sweep"
      BY <1>0, <1>4 DEF Sweep, Request, PCs
    <3>2. QED
      BY <1>0, <3>1 DEF Requested, WellFormed, Claim, WritesTo, FilesInto
  <2>2. Overtakes(p, r) /\ alarms' = Without(req[p].ids) /\ UNCHANGED <<Aside, folders>>
    BY <1>4 DEF Sweep, Overtakes
  <2>3. QED
    BY <2>1, <2>2, WithoutStays, StayStep
<1>5. QED
  BY <1>1, <1>2, <1>3, <1>4

-----------------------------------------------------------------------------
\* POST /alarms: the id is new, the folder was the user's and exists, the name is free.
LEMMA InsertStep ==
  ASSUME IInv, NEW p \in Requests, Insert(p)
  PROVE  IInv'
<1> DEFINE q == req[p]
<1>0. Requested(Blank) /\ q \in Request /\ WellFormed(q) /\ Claim(q) /\ now \in Nat
  BY BlankRequested, Held
<1>1. PICK a \in Alarms \ issued, name \in Names, sd \in BOOLEAN :
        IF Refused(q, name) THEN Finish(p) /\ UNCHANGED <<alarms, issued>>
        ELSE /\ alarms' = [b \in DOMAIN alarms \cup {a} |->
                  IF b = a THEN [owner |-> q.user, folder |-> q.folder, name |-> name,
                                 schedule |-> q.schedule, enabled |-> q.enabled,
                                 selfDestruct |-> sd, vetted |-> Vetted(q)]
                  ELSE alarms[b]]
             /\ issued' = issued \cup {a}
             /\ Commit(p)
  BY DEF Insert
<1>2. q.pc = "write" /\ q.op = "create" /\ UNCHANGED <<now, tier, folders, held, arrivals>>
  BY DEF Insert
<1>3. CASE Refused(q, name)
  BY <1>0, <1>1, <1>2, <1>3, QuietStep DEF Finish, IInv, TypeOK
<1>4. CASE ~Refused(q, name)
  <2> DEFINE row == [owner |-> q.user, folder |-> q.folder, name |-> name,
                     schedule |-> q.schedule, enabled |-> q.enabled,
                     selfDestruct |-> sd, vetted |-> Vetted(q)]
  <2>1. /\ alarms' = [b \in DOMAIN alarms \cup {a} |-> IF b = a THEN row ELSE alarms[b]]
        /\ issued' = issued \cup {a} /\ Commit(p)
    BY <1>1, <1>4
  <2>2. a \notin DOMAIN alarms /\ DOMAIN alarms' = DOMAIN alarms \cup {a}
    BY <2>1 DEF IInv, KnownIds
  <2>3. row \in AlarmRow
    BY <1>0, <1>2 DEF AlarmRow, Request, WellFormed, Vetted
  <2>4. alarms'[a] = row /\ \A b \in DOMAIN alarms : b # a /\ alarms'[b] = alarms[b]
    BY <2>1, <2>2
  <2> HIDE DEF row
  <2>5. OwnersKept
    BY <1>2, <2>1, <2>2, <2>4 DEF OwnersKept
  <2>6. Claims' /\ req' \in [Requests -> Request]
    BY <1>0, <2>1, <2>5, CommitKeeps DEF Commit, Overtakes
  <2>7. TypeOK'
    BY <1>2, <2>1, <2>2, <2>3, <2>4, <2>6 DEF IInv, TypeOK
  <2>8. KnownIds'
    BY <1>2, <2>1, <2>2 DEF IInv, KnownIds
  <2>9. q.folder # None => q.folder \in DOMAIN folders /\ folders[q.folder].owner = q.user
    BY <1>0, <1>2, <1>4 DEF Refused, Claim, FilesInto
  <2>10. row.owner = q.user /\ row.folder = q.folder /\ row.name = name
    BY DEF row
  <2>11. FiledWithOwner'
    BY <1>2, <2>2, <2>4, <2>9, <2>10 DEF IInv, FiledWithOwner
  <2>12. \A b \in DOMAIN alarms :
           ~(/\ alarms[b].folder = q.folder /\ (q.folder = None => alarms[b].owner = q.user)
             /\ alarms[b].name = name)
    <3>1. q.alarm \notin DOMAIN alarms
      BY <1>0, <1>2, AlarmsAssumption DEF WellFormed, IInv, TypeOK
    <3>2. QED
      BY <1>4, <3>1 DEF Refused, NameTaken, Scope
  <2>13. NamesUnique'
    <3>1. SUFFICES ASSUME NEW b \in DOMAIN alarms', NEW c \in DOMAIN alarms',
                          b # c, alarms'[b].name = alarms'[c].name,
                          alarms'[b].folder = alarms'[c].folder
                   PROVE  alarms'[b].folder = None /\ alarms'[b].owner # alarms'[c].owner
      BY DEF NamesUnique
    <3>2. CASE b = a
      BY <2>2, <2>4, <2>10, <2>12, <3>1, <3>2
    <3>3. CASE c = a
      BY <2>2, <2>4, <2>10, <2>12, <3>1, <3>3
    <3>4. CASE b # a /\ c # a
      BY <2>2, <2>4, <3>1, <3>4 DEF IInv, NamesUnique
    <3>5. QED
      BY <3>2, <3>3, <3>4
  <2>14. QED
    BY <2>6, <2>7, <2>8, <2>11, <2>13 DEF IInv
<1>5. QED
  BY <1>3, <1>4

\* PUT /alarms/:id: the row is still its user's, wherever it moves.
LEMMA UpdateStep ==
  ASSUME IInv, NEW p \in Requests, Update(p)
  PROVE  IInv'
<1> DEFINE q == req[p]
<1>0. Requested(Blank) /\ q \in Request /\ WellFormed(q) /\ Claim(q) /\ now \in Nat
  BY BlankRequested, Held
<1>1. PICK name \in Names, sd \in BOOLEAN :
        IF q.alarm \notin DOMAIN alarms \/ Refused(q, name)
        THEN Finish(p) /\ UNCHANGED alarms
        ELSE /\ alarms' = [alarms EXCEPT ![q.alarm] =
                  [@ EXCEPT !.folder = q.folder, !.name = name, !.schedule = q.schedule,
                            !.selfDestruct = sd, !.vetted = Vetted(q)]]
             /\ CommitAs(p, Blank, {q.alarm})
  BY DEF Update
<1>2. q.pc = "write" /\ q.op = "put" /\ UNCHANGED <<now, tier, folders, issued, held, arrivals>>
  BY DEF Update, Aside
<1>3. CASE q.alarm \notin DOMAIN alarms \/ Refused(q, name)
  BY <1>0, <1>1, <1>2, <1>3, QuietStep DEF Finish, IInv, TypeOK
<1>4. CASE q.alarm \in DOMAIN alarms /\ ~Refused(q, name)
  <2> DEFINE a == q.alarm
             row == [alarms[a] EXCEPT !.folder = q.folder, !.name = name, !.schedule = q.schedule,
                                      !.selfDestruct = sd, !.vetted = Vetted(q)]
  <2>1. alarms' = [alarms EXCEPT ![a] = row] /\ CommitAs(p, Blank, {a})
    BY <1>1, <1>4
  <2>2. alarms[a] \in AlarmRow /\ alarms[a].owner = q.user
    BY <1>0, <1>2, <1>4, Held DEF Claim, WritesTo
  <2>3. row \in AlarmRow /\ row.owner = q.user /\ row.folder = q.folder /\ row.name = name
    BY <1>0, <1>2, <2>2 DEF AlarmRow, Request, WellFormed, Vetted
  <2>4. /\ DOMAIN alarms' = DOMAIN alarms
        /\ alarms'[a] = row /\ \A b \in DOMAIN alarms : b # a => alarms'[b] = alarms[b]
    BY <1>4, <2>1 DEF IInv, TypeOK
  <2> HIDE DEF row
  <2>5. OwnersKept
    BY <1>2, <2>2, <2>3, <2>4 DEF OwnersKept
  <2>6. Claims' /\ req' \in [Requests -> Request]
    BY <1>0, <2>1, <2>5, CommitKeeps DEF Commit, Overtakes
  <2>7. TypeOK'
    BY <1>2, <2>1, <2>3, <2>4, <2>6 DEF IInv, TypeOK
  <2>8. KnownIds'
    BY <1>2, <2>4 DEF IInv, KnownIds
  <2>9. q.folder # None => q.folder \in DOMAIN folders /\ folders[q.folder].owner = q.user
    BY <1>0, <1>2, <1>4 DEF Refused, Claim, FilesInto
  <2>10. FiledWithOwner'
    BY <1>2, <2>3, <2>4, <2>9 DEF IInv, FiledWithOwner
  <2>11. \A b \in DOMAIN alarms : b # a =>
           ~(/\ alarms[b].folder = q.folder /\ (q.folder = None => alarms[b].owner = q.user)
             /\ alarms[b].name = name)
    BY <1>4 DEF Refused, NameTaken, Scope
  <2>12. NamesUnique'
    <3>1. SUFFICES ASSUME NEW b \in DOMAIN alarms', NEW c \in DOMAIN alarms',
                          b # c, alarms'[b].name = alarms'[c].name,
                          alarms'[b].folder = alarms'[c].folder
                   PROVE  alarms'[b].folder = None /\ alarms'[b].owner # alarms'[c].owner
      BY DEF NamesUnique
    <3>2. CASE b = a
      BY <2>3, <2>4, <2>11, <3>1, <3>2
    <3>3. CASE c = a
      BY <2>3, <2>4, <2>11, <3>1, <3>3
    <3>4. CASE b # a /\ c # a
      BY <2>4, <3>1, <3>4 DEF IInv, NamesUnique
    <3>5. QED
      BY <3>2, <3>3, <3>4
  <2>13. QED
    BY <2>6, <2>7, <2>8, <2>10, <2>12 DEF IInv
<1>5. QED
  BY <1>3, <1>4

-----------------------------------------------------------------------------
\* POST /folders: the id is new, so no alarm is filed in it yet.
LEMMA FolderInsertStep ==
  ASSUME IInv, NEW p \in Requests, FolderInsert(p)
  PROVE  IInv'
<1> DEFINE q == req[p]
<1>0. Requested(Blank) /\ q \in Request /\ WellFormed(q) /\ q.user \in Users
  BY BlankRequested, Held DEF FolderInsert, WellFormed
<1>1. PICK f \in Folders \ issued, name \in Names :
        IF FolderNameTaken(q.user, None, name)
        THEN Finish(p) /\ UNCHANGED <<folders, issued>>
        ELSE /\ folders' = [g \in DOMAIN folders \cup {f} |->
                  IF g = f THEN [owner |-> q.user, name |-> name] ELSE folders[g]]
             /\ issued' = issued \cup {f}
             /\ Commit(p)
  BY DEF FolderInsert
<1>2. UNCHANGED <<now, tier, alarms, held, arrivals>>
  BY DEF FolderInsert
<1>3. CASE FolderNameTaken(q.user, None, name)
  BY <1>0, <1>1, <1>2, <1>3, QuietStep DEF Finish, IInv, TypeOK
<1>4. CASE ~FolderNameTaken(q.user, None, name)
  <2> DEFINE row == [owner |-> q.user, name |-> name]
  <2>1. /\ folders' = [g \in DOMAIN folders \cup {f} |-> IF g = f THEN row ELSE folders[g]]
        /\ issued' = issued \cup {f} /\ Commit(p)
    BY <1>1, <1>4
  <2>2. f \notin DOMAIN folders /\ DOMAIN folders' = DOMAIN folders \cup {f}
    BY <2>1 DEF IInv, KnownIds
  <2>3. row \in FolderRow
    BY <1>0 DEF FolderRow
  <2>4. folders'[f] = row /\ \A g \in DOMAIN folders : g # f /\ folders'[g] = folders[g]
    BY <2>1, <2>2
  <2> HIDE DEF row
  <2>5. OwnersKept
    BY <1>2, <2>1, <2>2, <2>4 DEF OwnersKept, IInv, KnownIds
  <2>6. Claims' /\ req' \in [Requests -> Request]
    BY <1>0, <2>1, <2>5, CommitKeeps DEF Commit, Overtakes
  <2>7. TypeOK'
    BY <1>2, <2>1, <2>2, <2>3, <2>4, <2>6 DEF IInv, TypeOK
  <2>8. KnownIds'
    BY <1>2, <2>1, <2>2 DEF IInv, KnownIds
  <2>9. FiledWithOwner' /\ NamesUnique'
    BY <1>2, <2>2, <2>4 DEF IInv, FiledWithOwner, NamesUnique
  <2>10. QED
    BY <2>6, <2>7, <2>8, <2>9 DEF IInv
<1>5. QED
  BY <1>3, <1>4

\* PUT /folders/:id: only the name changes.
LEMMA RenameStep ==
  ASSUME IInv, NEW p \in Requests, Rename(p)
  PROVE  IInv'
<1> DEFINE q == req[p]
<1>0. Requested(Blank) /\ q \in Request
  BY BlankRequested, Held
<1>1. PICK name \in Names :
        IF ~OwnFolder(q, q.folder) \/ FolderNameTaken(q.user, q.folder, name)
        THEN Finish(p) /\ UNCHANGED folders
        ELSE folders' = [folders EXCEPT ![q.folder].name = name] /\ Commit(p)
  BY DEF Rename
<1>2. UNCHANGED <<now, tier, issued, held, arrivals, alarms>>
  BY DEF Rename, Aside
<1>3. CASE ~OwnFolder(q, q.folder) \/ FolderNameTaken(q.user, q.folder, name)
  BY <1>0, <1>1, <1>2, <1>3, QuietStep DEF Finish, IInv, TypeOK
<1>4. CASE ~(~OwnFolder(q, q.folder) \/ FolderNameTaken(q.user, q.folder, name))
  <2> DEFINE f == q.folder
             row == [folders[f] EXCEPT !.name = name]
  <2>1. folders' = [folders EXCEPT ![f] = row] /\ Commit(p)
    BY <1>1, <1>4
  <2>2. f \in DOMAIN folders /\ folders[f] \in FolderRow
    BY <1>4, Held DEF OwnFolder
  <2>3. row \in FolderRow /\ row.owner = folders[f].owner
    BY <2>2 DEF FolderRow
  <2>4. /\ DOMAIN folders' = DOMAIN folders
        /\ folders'[f] = row /\ \A g \in DOMAIN folders : g # f => folders'[g] = folders[g]
    BY <2>1, <2>2 DEF IInv, TypeOK
  <2> HIDE DEF row
  <2>5. OwnersKept
    BY <1>2, <2>3, <2>4 DEF OwnersKept
  <2>6. Claims' /\ req' \in [Requests -> Request]
    BY <1>0, <2>1, <2>5, CommitKeeps DEF Commit, Overtakes
  <2>7. TypeOK'
    BY <1>2, <2>1, <2>3, <2>4, <2>6 DEF IInv, TypeOK
  <2>8. KnownIds' /\ FiledWithOwner' /\ NamesUnique'
    BY <1>2, <2>3, <2>4 DEF IInv, KnownIds, FiledWithOwner, NamesUnique
  <2>9. QED
    BY <2>6, <2>7, <2>8 DEF IInv
<1>5. QED
  BY <1>3, <1>4

\* DELETE /folders/:id: the cascade leaves no alarm filed in what has gone.
LEMMA FolderDropStep ==
  ASSUME IInv, NEW p \in Requests, FolderDrop(p)
  PROVE  IInv'
<1> DEFINE q == req[p]
           gone == {a \in DOMAIN alarms : alarms[a].folder = q.folder}
<1>0. Requested(Blank)
  BY BlankRequested
<1>1. /\ folders' = [f \in DOMAIN folders \ {q.folder} |-> folders[f]]
      /\ alarms' = Without(gone) /\ Commit(p)
      /\ UNCHANGED <<now, tier, issued, held, arrivals>>
  BY DEF FolderDrop
<1>2. AlarmsStay /\ alarms' = [a \in DOMAIN alarms' |-> alarms'[a]]
  BY <1>1, WithoutStays
<1>3. \A a \in DOMAIN alarms' : alarms[a].folder # q.folder
  BY <1>1 DEF Without
<1>4. DOMAIN folders' = DOMAIN folders \ {q.folder} /\ \A f \in DOMAIN folders' : folders'[f] = folders[f]
  BY <1>1
<1>5. OwnersKept
  BY <1>1, <1>2, <1>4 DEF OwnersKept, AlarmsStay
<1>6. Claims' /\ req' \in [Requests -> Request]
  BY <1>0, <1>1, <1>5, CommitKeeps DEF Commit, Overtakes
<1>7. TypeOK'
  BY <1>1, <1>2, <1>4, <1>6 DEF IInv, TypeOK, AlarmsStay
<1>8. KnownIds'
  BY <1>1, <1>2, <1>4 DEF IInv, KnownIds, AlarmsStay
<1>9. FiledWithOwner'
  BY <1>2, <1>3, <1>4 DEF IInv, FiledWithOwner, AlarmsStay
<1>10. NamesUnique'
  BY <1>2 DEF IInv, NamesUnique, AlarmsStay
<1>11. QED
  BY <1>6, <1>7, <1>8, <1>9, <1>10 DEF IInv

\* The administrator and the clock change nothing the invariant speaks of.
LEMMA AsideStep ==
  ASSUME IInv, (\E u \in Users : SetTier(u)) \/ Tick \/ UNCHANGED vars
  PROVE  IInv'
<1>1. /\ UNCHANGED <<folders, alarms, req, issued>> /\ now' \in Nat /\ arrivals' \in Nat
      /\ tier' \in [Users -> Tiers] /\ held' \in [Users -> SUBSET Tiers]
  <2>1. CASE \E u \in Users : SetTier(u)
    <3>1. PICK u \in Users, t \in Tiers :
            /\ tier' = [tier EXCEPT ![u] = t]
            /\ held' = [held EXCEPT ![u] = @ \cup {t}]
            /\ arrivals' = arrivals + 1 /\ UNCHANGED <<now, folders, alarms, req, issued>>
      BY <2>1 DEF SetTier
    <3>2. QED
      BY <3>1 DEF IInv, TypeOK
  <2>2. CASE Tick \/ UNCHANGED vars
    BY <2>2 DEF Tick, Tables, vars, IInv, TypeOK
  <2>3. QED
    BY <2>1, <2>2
<1>2. TypeOK'
  BY <1>1 DEF IInv, TypeOK
<1>3. KnownIds' /\ FiledWithOwner' /\ NamesUnique'
  BY <1>1 DEF IInv, KnownIds, FiledWithOwner, NamesUnique
<1>4. Claims'
  BY <1>1 DEF IInv, Claims, WellFormed, Claim, WritesTo, FilesInto
<1>5. QED
  BY <1>2, <1>3, <1>4 DEF IInv

-----------------------------------------------------------------------------
LEMMA InitEstablishes == Init => IInv
<1> SUFFICES ASSUME Init PROVE IInv
  OBVIOUS
<1>1. PICK known \in SUBSET Folders : folders \in [known -> FolderRow] /\ issued = known
  BY DEF Init
<1>2. /\ now = 0 /\ tier = [u \in Users |-> "basic"] /\ held = [u \in Users |-> {"basic"}]
      /\ alarms = [a \in {} |-> None] /\ req = [p \in Requests |-> Blank] /\ arrivals = 0
  BY DEF Init
<1>3. \A p \in Requests : req[p] \in Request /\ WellFormed(req[p]) /\ Claim(req[p])
  BY <1>2, BlankRequested DEF Requested
<1>4. DOMAIN alarms = {}
  BY <1>2
<1>5. TypeOK
  BY <1>1, <1>2, <1>3, <1>4 DEF TypeOK, Tiers
<1>6. KnownIds /\ FiledWithOwner /\ NamesUnique
  BY <1>1, <1>4 DEF KnownIds, FiledWithOwner, NamesUnique
<1>7. QED
  BY <1>3, <1>5, <1>6 DEF IInv, Claims

LEMMA NextKeeps == IInv /\ [Next]_vars => IInv'
<1> SUFFICES ASSUME IInv, [Next]_vars PROVE IInv'
  OBVIOUS
<1>1. ASSUME NEW p \in Requests, NEW u \in Users,
             \/ ArriveCreate(p, u) \/ ArriveForAlarm(p, u) \/ ArriveBulk(p, u)
             \/ ArriveList(p, u) \/ ArriveMakeFolder(p, u) \/ ArriveForFolder(p, u)
      PROVE  IInv'
  BY <1>1, ArriveStep
<1>2. ASSUME NEW p \in Requests,
             \/ Load(p) \/ OwnsFolder(p) \/ ReadTier(p) \/ Count(p) \/ Siblings(p) \/ Owned(p)
             \/ Candidates(p) \/ Page(p) \/ FolderTier(p) \/ FolderCount(p) \/ FolderLoad(p)
             \/ Fail(p)
      PROVE  IInv'
  BY <1>2, ReadStepKeeps
<1>3. ASSUME NEW p \in Requests, Erase(p) \/ Switch(p) \/ SwitchAll(p) \/ Sweep(p)
      PROVE  IInv'
  BY <1>3, IdsStep
<1>4. ASSUME NEW p \in Requests, Insert(p)
      PROVE  IInv'
  BY <1>4, InsertStep
<1>5. ASSUME NEW p \in Requests, Update(p)
      PROVE  IInv'
  BY <1>5, UpdateStep
<1>6. ASSUME NEW p \in Requests, FolderInsert(p)
      PROVE  IInv'
  BY <1>6, FolderInsertStep
<1>7. ASSUME NEW p \in Requests, Rename(p)
      PROVE  IInv'
  BY <1>7, RenameStep
<1>8. ASSUME NEW p \in Requests, FolderDrop(p)
      PROVE  IInv'
  BY <1>8, FolderDropStep
<1>9. CASE (\E u \in Users : SetTier(u)) \/ Tick \/ UNCHANGED vars
  BY <1>9, AsideStep
<1>10. QED
  BY <1>1, <1>2, <1>3, <1>4, <1>5, <1>6, <1>7, <1>8, <1>9 DEF Next

\* The inductive invariant holds throughout.
THEOREM AlarmsInvariant == Spec => []IInv
BY InitEstablishes, NextKeeps, PTL DEF Spec

\* R-09: names stay unique within a folder and within an unfiled bucket.
THEOREM NamesStayUnique == Spec => []NamesUnique
<1>1. IInv => NamesUnique
  BY DEF IInv
<1>2. QED
  BY <1>1, AlarmsInvariant, PTL

\* Whatever happens between the check of a folder and the write, an alarm is
\* filed with its owner's folders.
THEOREM AlarmsFiledWithOwner == Spec => []FiledWithOwner
<1>1. IInv => FiledWithOwner
  BY DEF IInv
<1>2. QED
  BY <1>1, AlarmsInvariant, PTL

-----------------------------------------------------------------------------
\* A step that changes or deletes an alarm is a request of the alarm's owner.
OwnersStep ==
  \A a \in DOMAIN alarms :
    a \notin DOMAIN alarms' \/ alarms'[a] # alarms[a] =>
      \E p \in Requests : req'[p].pc # req[p].pc /\ req[p].user = alarms[a].owner

\* Statements that write by bare id write what their request was allowed.
LEMMA WritesOwn ==
  ASSUME IInv, NEW p \in Requests, req'[p].pc # req[p].pc,
         \A a \in DOMAIN alarms :
           (a \in DOMAIN alarms' /\ alarms'[a] = alarms[a]) \/ a \in WritesTo(req[p])
  PROVE  OwnersStep
BY Held DEF OwnersStep, Claim

LEMMA OwnersOnly == IInv /\ [Next]_vars => OwnersStep
<1> SUFFICES ASSUME IInv, [Next]_vars PROVE OwnersStep
  OBVIOUS
<1>1. CASE UNCHANGED alarms
  BY <1>1 DEF OwnersStep
<1>2. ASSUME NEW p \in Requests, Insert(p), ~UNCHANGED alarms
      PROVE  OwnersStep
  <2>1. PICK a \in Alarms \ issued : alarms' = [b \in DOMAIN alarms \cup {a} |->
                                                IF b = a THEN alarms'[a] ELSE alarms[b]]
    BY <1>2 DEF Insert
  <2>2. QED
    BY <2>1 DEF OwnersStep, IInv, KnownIds
<1>3. ASSUME NEW p \in Requests, Update(p), ~UNCHANGED alarms
      PROVE  OwnersStep
  <2>1. /\ req[p].pc = "write" /\ req[p].op = "put"
        /\ CommitAs(p, Blank, {req[p].alarm})
    BY <1>3 DEF Update
  <2>2. \A a \in DOMAIN alarms : a # req[p].alarm => a \in DOMAIN alarms' /\ alarms'[a] = alarms[a]
    BY <1>3 DEF Update
  <2>3. QED
    BY <2>1, <2>2, WritesOwn DEF CommitAs, Blank, WritesTo
<1>4. ASSUME NEW p \in Requests, Erase(p)
      PROVE  OwnersStep
  <2>1. req[p].pc = "erase" /\ Commit(p) /\ alarms' = Without({req[p].alarm})
    BY <1>4 DEF Erase
  <2>2. QED
    BY <2>1, WritesOwn DEF Commit, CommitAs, Blank, WritesTo, Without
<1>5. ASSUME NEW p \in Requests, Switch(p)
      PROVE  OwnersStep
  <2>1. req[p].pc = "switch" /\ Commit(p) /\ alarms' = Switched({req[p].alarm}, req[p].enabled)
    BY <1>5 DEF Switch
  <2>2. QED
    BY <2>1, WritesOwn DEF Commit, CommitAs, Blank, WritesTo, Switched
<1>6. ASSUME NEW p \in Requests, SwitchAll(p)
      PROVE  OwnersStep
  <2>1. req[p].pc = "switchAll" /\ Commit(p) /\ alarms' = Switched(req[p].ids, req[p].enabled)
    BY <1>6 DEF SwitchAll
  <2>2. QED
    BY <2>1, WritesOwn DEF Commit, CommitAs, Blank, WritesTo, Switched
<1>7. ASSUME NEW p \in Requests, Sweep(p)
      PROVE  OwnersStep
  <2>1. /\ req[p] \in Request /\ req[p].pc = "sweep" /\ alarms' = Without(req[p].ids)
        /\ req'[p] = [req[p] EXCEPT !.pc = "page", !.edited = {}]
    BY <1>7, Held DEF Sweep, CommitAs
  <2>2. req'[p].pc # req[p].pc
    BY <2>1 DEF Request
  <2>3. QED
    BY <2>1, <2>2, WritesOwn DEF WritesTo, Without
<1>8. ASSUME NEW p \in Requests, FolderDrop(p)
      PROVE  OwnersStep
  <2> DEFINE q == req[p]
  <2>1. /\ q.pc = "folderDrop" /\ Commit(p)
        /\ alarms' = Without({a \in DOMAIN alarms : alarms[a].folder = q.folder})
    BY <1>8 DEF FolderDrop
  <2>2. q.folder # None /\ (q.folder \in DOMAIN folders => folders[q.folder].owner = q.user)
    BY <2>1, Held DEF WellFormed, Claim, FilesInto
  <2>3. ASSUME NEW a \in DOMAIN alarms, a \notin DOMAIN alarms' \/ alarms'[a] # alarms[a]
        PROVE  alarms[a].owner = q.user
    <3>1. alarms[a].folder = q.folder
      BY <2>1, <2>3 DEF Without
    <3>2. QED
      BY <2>2, <3>1 DEF IInv, FiledWithOwner
  <2>4. req'[p].pc # req[p].pc
    BY <2>1 DEF Commit, CommitAs, Blank
  <2>5. QED
    BY <2>3, <2>4 DEF OwnersStep
<1>9. QED
  <2>1. ASSUME NEW p \in Requests, NEW u \in Users,
               \/ ArriveCreate(p, u) \/ ArriveForAlarm(p, u) \/ ArriveBulk(p, u)
               \/ ArriveList(p, u) \/ ArriveMakeFolder(p, u) \/ ArriveForFolder(p, u)
        PROVE  UNCHANGED alarms
    BY <2>1 DEF ArriveCreate, ArriveForAlarm, ArriveBulk, ArriveList, ArriveMakeFolder,
                ArriveForFolder, Arrive, Tables
  <2>2. ASSUME NEW p \in Requests,
               \/ Load(p) \/ OwnsFolder(p) \/ ReadTier(p) \/ Count(p) \/ Siblings(p) \/ Owned(p)
               \/ Candidates(p) \/ Page(p) \/ FolderTier(p) \/ FolderCount(p) \/ FolderLoad(p)
               \/ Fail(p)
        PROVE  UNCHANGED alarms
    BY <2>2, ReadStep DEF Tables
  <2>3. ASSUME NEW p \in Requests, FolderInsert(p) \/ Rename(p)
        PROVE  UNCHANGED alarms
    BY <2>3 DEF FolderInsert, Rename
  <2>4. ASSUME (\E u \in Users : SetTier(u)) \/ Tick \/ UNCHANGED vars
        PROVE  UNCHANGED alarms
    BY <2>4 DEF SetTier, Tick, Tables, vars
  <2>5. QED
    BY <1>1, <1>2, <1>3, <1>4, <1>5, <1>6, <1>7, <1>8, <2>1, <2>2, <2>3, <2>4 DEF Next

\* No request ever writes the alarm of another user, though the statements that
\* write go by id alone.
THEOREM OwnRowsOnly == Spec => OnlyOwnRows
<1>1. IInv /\ [Next]_vars => [OwnersStep]_vars
  BY OwnersOnly
<1>2. QED
  BY <1>1, AlarmsInvariant, PTL DEF Spec, OnlyOwnRows, OwnersStep

-----------------------------------------------------------------------------
(***************************************************************************)
(* What an earlier statement found - the tier allows the schedule, nothing *)
(* collides, the alarm is spent - still holds when the request writes,     *)
(* unless another request wrote in between.                                *)
(***************************************************************************)

\* No alarm was vetted later than this.
Latest(at) == \A a \in DOMAIN alarms : alarms[a].vetted # None => alarms[a].vetted <= at

Cleared(q) ==
  /\ q.op = "put" /\ q.pc \in {"owns", "tier", "count", "siblings", "write"} /\ ~q.raced =>
       (q.alarm \in DOMAIN alarms => alarms[q.alarm].enabled = q.enabled)
  /\ q.pc \in {"count", "siblings", "write"} =>
       q.tier \in held[q.user] /\ ScheduleAllowed(q.tier, q.schedule)
  /\ q.pc \in {"siblings", "write"} /\ q.enabled => q.at <= now
  /\ q.pc = "siblings" => q.enabled
  /\ q.pc \in {"siblings", "write"} /\ q.enabled /\ ~q.raced => Latest(q.at)
  /\ q.pc = "write" /\ q.enabled /\ ~q.raced => ~Collides(q)
  /\ q.pc = "sweep" =>
       q.at <= now /\ \A a \in q.ids \ q.edited : a \in DOMAIN alarms => Spent(a, q.at)

HeldNow == \A u \in Users : tier[u] \in held[u]

\* A row was allowed to its owner, and vetted while it was on.
RowFine(row) ==
  /\ \E t \in held[row.owner] : ScheduleAllowed(t, row.schedule)
  /\ row.vetted # None => row.enabled /\ row.vetted <= now

RowsFine == \A a \in DOMAIN alarms : RowFine(alarms[a])

Together(row, other) == row.folder = other.folder /\ (row.folder = None => row.owner = other.owner)

Apart(row, other) ==
  Together(row, other) /\ row.vetted # None /\ other.vetted # None /\ row.vetted <= other.vetted
    => Shared(row.schedule, other.schedule, other.vetted) = {}

VettedApart == \A a, b \in DOMAIN alarms : a # b => Apart(alarms[a], alarms[b])

AllCleared == \A p \in Requests : Cleared(req[p])

Rules == HeldNow /\ RowsFine /\ VettedApart /\ AllCleared

\* The parts of a request the rules look at only matter at these places.
LEMMA ElsewhereCleared ==
  ASSUME NEW q, q.pc \notin {"count", "siblings", "write", "sweep"},
         q.pc \in {"owns", "tier"} => q.op # "put"
  PROVE  Cleared(q)
BY DEF Cleared

\* A step that changes no alarm, but may let time pass or move an account to
\* another tier.
LEMMA QuietRules ==
  ASSUME IInv, Rules, NEW p \in Requests, NEW q, Requested(q), Cleared(q),
         Become(p, q) \/ UNCHANGED req,
         UNCHANGED alarms, now' \in Nat, now <= now', HeldNow',
         \A u \in Users : held[u] \subseteq held'[u]
  PROVE  Rules'
<1>1. ASSUME NEW r, r \in Request, WellFormed(r), Cleared(r)
      PROVE  Cleared(r)'
  <2>1. r.at \in Nat /\ (r.pc # "idle" => r.user \in Users) /\ now \in Nat
    BY <1>1 DEF Request, WellFormed, IInv, TypeOK
  <2>2. r.pc \in {"count", "siblings", "write"} => r.tier \in held'[r.user]
    BY <1>1, <2>1 DEF Cleared
  <2>3. r.pc \in {"siblings", "write"} /\ r.enabled => r.at <= now'
    BY <1>1, <2>1 DEF Cleared
  <2>4. Latest(r.at) => Latest(r.at)'
    BY DEF Latest
  <2>5. ~Collides(r) => ~Collides(r)'
    BY DEF Collides, Scope
  <2>6. r.pc = "sweep" =>
          r.at <= now' /\ \A a \in r.ids \ r.edited : a \in DOMAIN alarms' => Spent(a, r.at)'
    BY <1>1, <2>1 DEF Cleared, Spent
  <2>7. QED
    BY <1>1, <2>2, <2>3, <2>4, <2>5, <2>6 DEF Cleared
<1>2. \A x \in Requests : req'[x] \in Request /\ WellFormed(req'[x]) /\ Cleared(req'[x])
  BY Held DEF Become, Requested, Rules, AllCleared, IInv, TypeOK
<1>3. AllCleared'
  <2>1. SUFFICES ASSUME NEW x \in Requests PROVE Cleared(req[x])'
    BY DEF AllCleared
  <2>2. PICK r : r = req'[x] /\ r \in Request /\ WellFormed(r) /\ Cleared(r)
    BY <1>2
  <2>3. Cleared(r)'
    BY <1>1, <2>2
  <2>4. QED
    BY <2>2, <2>3 DEF Cleared, Latest, Collides, Scope, Spent
<1>4. RowsFine'
  <2>1. ASSUME NEW a \in DOMAIN alarms PROVE RowFine(alarms[a])'
    <3>1. alarms[a].owner \in Users /\ alarms[a].vetted \in Nat \cup {None} /\ now \in Nat
      BY Held DEF AlarmRow, IInv, TypeOK
    <3>2. RowFine(alarms[a])
      BY DEF Rules, RowsFine
    <3>3. QED
      BY <3>1, <3>2, AlarmsAssumption DEF RowFine
  <2>2. QED
    BY <2>1 DEF RowsFine
<1>5. VettedApart'
  BY DEF Rules, VettedApart, Apart, Together
<1>6. QED
  BY <1>3, <1>4, <1>5 DEF Rules

\* Of the alarms there have been, what is left fires as it did, or was edited.
Unedited(ids) ==
  \A a \in issued \ ids : a \in DOMAIN alarms' =>
    /\ a \in DOMAIN alarms
    /\ alarms'[a].schedule = alarms[a].schedule /\ alarms'[a].selfDestruct = alarms[a].selfDestruct

\* A step that changes a table: whoever was on the way has been raced, and told what
\* was edited.
LEMMA CommitRules ==
  ASSUME IInv, Rules, NEW p \in Requests, NEW r, NEW ids, CommitAs(p, r, ids), Unedited(ids),
         r.pc \in {"idle", "page"}, UNCHANGED <<now, tier, held>>, RowsFine', VettedApart'
  PROVE  Rules'
<1>1. ASSUME NEW x \in Requests
      PROVE  Cleared(req[x])'
  <2>1. CASE x = p
    <3>1. req'[x].pc \in {"idle", "page"}
      BY <2>1 DEF CommitAs
    <3>2. QED
      BY <3>1 DEF Cleared
  <2>2. CASE x # p
    <3>1. req[x] \in Request /\ Cleared(req[x]) /\ Claim(req[x])
      BY Held DEF Rules, AllCleared
    <3>2. req'[x] = Overtaken(req[x], ids)
      BY <2>2 DEF CommitAs
    <3>3. /\ req'[x].pc = req[x].pc /\ req'[x].raced = (req[x].pc # "idle")
          /\ req'[x].tier = req[x].tier /\ req'[x].user = req[x].user
          /\ req'[x].schedule = req[x].schedule /\ req'[x].enabled = req[x].enabled
          /\ req'[x].at = req[x].at /\ req'[x].ids = req[x].ids
          /\ req[x].pc = "sweep" => req'[x].edited = req[x].edited \cup (ids \cap req[x].ids)
      <4>1. GoesOn(req[x], req'[x], ids)
        BY <3>1, <3>2, OvertakenKept
      <4>2. QED
        BY <4>1 DEF GoesOn
    <3>4. ASSUME req[x].pc = "sweep"
          PROVE  /\ req[x].at <= now'
                 /\ \A a \in req'[x].ids \ req'[x].edited :
                      a \in DOMAIN alarms' => Spent(a, req[x].at)'
      <4>1. req[x].ids \subseteq issued
        BY <3>1, <3>4 DEF Claim, WritesTo
      <4>2. SUFFICES ASSUME NEW a \in req[x].ids \ (req[x].edited \cup ids), a \in DOMAIN alarms'
                     PROVE  /\ alarms'[a].selfDestruct
                            /\ \A i \in alarms'[a].schedule.fires : i < req[x].at
        <5>1. req'[x].ids \ req'[x].edited = req[x].ids \ (req[x].edited \cup ids)
          BY <3>3, <3>4
        <5>2. req[x].at <= now'
          BY <3>1, <3>4 DEF Cleared
        <5>3. req'[x].at = req[x].at
          BY <3>3
        <5>4. QED
          BY <5>1, <5>2, <5>3 DEF Spent
      <4>3. /\ a \in DOMAIN alarms
            /\ alarms'[a].schedule = alarms[a].schedule
            /\ alarms'[a].selfDestruct = alarms[a].selfDestruct
        BY <4>1, <4>2 DEF Unedited
      <4>4. Spent(a, req[x].at)
        BY <3>1, <3>4, <4>2, <4>3 DEF Cleared
      <4>5. QED
        BY <4>3, <4>4 DEF Spent
    <3>5. QED
      BY <3>1, <3>3, <3>4 DEF Cleared, Spent
  <2>3. QED
    BY <2>1, <2>2
<1>2. HeldNow'
  BY DEF Rules, HeldNow
<1>3. QED
  BY <1>1, <1>2 DEF Rules, AllCleared

\* Every alarm that stays is as it was, or was vetted and is no longer.
RowsKept ==
  \A a \in DOMAIN alarms' :
    /\ a \in DOMAIN alarms
    /\ alarms'[a].owner = alarms[a].owner
    /\ alarms'[a].folder = alarms[a].folder
    /\ alarms'[a].schedule = alarms[a].schedule
    /\ alarms'[a].selfDestruct = alarms[a].selfDestruct
    /\ \/ alarms'[a].vetted = None
       \/ alarms'[a].vetted = alarms[a].vetted /\ alarms'[a].enabled = alarms[a].enabled

LEMMA KeptRules ==
  ASSUME IInv, Rules, RowsKept, UNCHANGED <<now, tier, held>>
  PROVE  RowsFine' /\ VettedApart'
<1>1. RowsFine'
  <2>1. ASSUME NEW a \in DOMAIN alarms' PROVE RowFine(alarms[a])'
    <3>1. RowFine(alarms[a])
      BY DEF Rules, RowsFine, RowsKept
    <3>2. QED
      BY <3>1 DEF RowFine, RowsKept
  <2>2. QED
    BY <2>1 DEF RowsFine
<1>2. VettedApart'
  <2>1. ASSUME NEW a \in DOMAIN alarms', NEW b \in DOMAIN alarms', a # b
        PROVE  Apart(alarms[a], alarms[b])'
    <3>1. Apart(alarms[a], alarms[b])
      BY <2>1 DEF Rules, VettedApart, RowsKept
    <3>2. QED
      BY <3>1 DEF Apart, Together, RowsKept, Shared
  <2>2. QED
    BY <2>1 DEF VettedApart
<1>3. QED
  BY <1>1, <1>2

LEMMA KeptSteps ==
  ASSUME IInv, Rules, NEW p \in Requests,
         \/ Erase(p) \/ Switch(p) \/ SwitchAll(p) \/ Sweep(p) \/ FolderDrop(p)
         \/ FolderInsert(p) /\ UNCHANGED alarms /\ Commit(p)
         \/ Rename(p) /\ UNCHANGED alarms /\ Commit(p)
  PROVE  Rules'
<1>1. \A ids : alarms' = Without(ids) => RowsKept
  BY DEF Without, RowsKept
<1>2. \A ids : \A on \in BOOLEAN : alarms' = Switched(ids, on) => RowsKept
  <2>1. SUFFICES ASSUME NEW ids, NEW on \in BOOLEAN, alarms' = Switched(ids, on),
                        NEW a \in DOMAIN alarms'
                 PROVE  /\ a \in DOMAIN alarms
                        /\ alarms'[a].owner = alarms[a].owner
                        /\ alarms'[a].folder = alarms[a].folder
                        /\ alarms'[a].schedule = alarms[a].schedule
                        /\ alarms'[a].selfDestruct = alarms[a].selfDestruct
                        /\ \/ alarms'[a].vetted = None
                           \/ /\ alarms'[a].vetted = alarms[a].vetted
                              /\ alarms'[a].enabled = alarms[a].enabled
    BY DEF RowsKept
  <2>2. a \in DOMAIN alarms
    BY <2>1 DEF Switched
  <2>3. alarms[a] \in AlarmRow
    BY <2>2, Held
  <2>4. QED
    BY <2>1, <2>2, <2>3 DEF Switched, AlarmRow
<1>3. req[p].enabled \in BOOLEAN /\ req[p] \in Request
  BY Held DEF Request
<1>4. RowsKept
  <2>1. CASE Erase(p) \/ Sweep(p) \/ FolderDrop(p)
    BY <1>1, <2>1 DEF Erase, Sweep, FolderDrop
  <2>2. CASE Switch(p) \/ SwitchAll(p)
    BY <1>2, <1>3, <2>2 DEF Switch, SwitchAll
  <2>3. CASE UNCHANGED alarms
    BY <2>3 DEF RowsKept
  <2>4. QED
    BY <2>1, <2>2, <2>3
<1>5. UNCHANGED <<now, tier, held>>
  BY DEF Erase, Switch, SwitchAll, Sweep, FolderDrop, FolderInsert, Rename, Aside
<1>6. RowsFine' /\ VettedApart'
  BY <1>4, <1>5, KeptRules
<1>7. PICK r : CommitAs(p, r, {}) /\ r.pc \in {"idle", "page"}
  <2>1. CASE Sweep(p)
    <3>1. CommitAs(p, [req[p] EXCEPT !.pc = "page", !.edited = {}], {})
      BY <2>1 DEF Sweep
    <3>2. [req[p] EXCEPT !.pc = "page", !.edited = {}].pc = "page"
      BY <1>3 DEF Request
    <3>3. QED
      BY <3>1, <3>2
  <2>2. CASE Commit(p)
    BY <2>2 DEF Commit, Blank
  <2>3. QED
    BY <2>1, <2>2 DEF Erase, Switch, SwitchAll, FolderDrop
<1>8. Unedited({})
  BY <1>4 DEF RowsKept, Unedited
<1>9. QED
  BY <1>5, <1>6, <1>7, <1>8, CommitRules

-----------------------------------------------------------------------------
\* A row written as R-08 was asked shares nothing with the vetted alarms beside it.
LEMMA WrittenApart ==
  ASSUME IInv, Rules, NEW p \in Requests, req[p].pc = "write",
         NEW row \in AlarmRow, row.owner = req[p].user, row.folder = req[p].folder,
         row.schedule = req[p].schedule, row.vetted = Vetted(req[p]),
         NEW b \in DOMAIN alarms, b # req[p].alarm
  PROVE  Apart(row, alarms[b]) /\ Apart(alarms[b], row)
<1> DEFINE q == req[p]
<1>1. SUFFICES ASSUME Together(row, alarms[b]), row.vetted # None, alarms[b].vetted # None
               PROVE  /\ row.vetted <= alarms[b].vetted =>
                           Shared(row.schedule, alarms[b].schedule, alarms[b].vetted) = {}
                      /\ alarms[b].vetted <= row.vetted =>
                           Shared(alarms[b].schedule, row.schedule, row.vetted) = {}
  BY DEF Apart, Together
<1>2. q \in Request /\ alarms[b] \in AlarmRow /\ Cleared(q) /\ RowFine(alarms[b])
  BY Held DEF Rules, AllCleared, RowsFine
<1>3. q.enabled /\ ~q.raced /\ row.vetted = q.at
  BY <1>1 DEF Vetted
<1>4. Latest(q.at) /\ ~Collides(q)
  BY <1>2, <1>3 DEF Cleared
<1>5. alarms[b].vetted <= q.at /\ alarms[b].enabled
  BY <1>1, <1>2, <1>4 DEF Latest, RowFine
<1>6. b \in Scope(q.user, q.folder) \ {q.alarm}
  BY <1>1 DEF Scope, Together
<1>7. Shared(q.schedule, alarms[b].schedule, q.at) = {}
  BY <1>4, <1>5, <1>6 DEF Collides
<1>8. q.at \in Nat /\ alarms[b].vetted \in Nat
  BY <1>1, <1>2 DEF Request, AlarmRow
<1>9. alarms[b].vetted >= q.at => alarms[b].vetted = q.at
  BY <1>5, <1>8
<1>10. Shared(alarms[b].schedule, q.schedule, q.at) = {}
  BY <1>7 DEF Shared
<1>11. QED
  BY <1>3, <1>7, <1>9, <1>10

\* INSERT and UPDATE put one such row among the others.
LEMMA WriteRules ==
  ASSUME IInv, Rules, NEW p \in Requests, req[p].pc = "write",
         NEW a, NEW row \in AlarmRow, row.owner = req[p].user, row.folder = req[p].folder,
         row.schedule = req[p].schedule, row.vetted = Vetted(req[p]),
         row.vetted # None => row.enabled,
         \A b \in DOMAIN alarms : b # a => b # req[p].alarm,
         DOMAIN alarms' = DOMAIN alarms \cup {a}, alarms'[a] = row,
         \A b \in DOMAIN alarms : b # a => alarms'[b] = alarms[b],
         UNCHANGED <<now, tier, held>>, NEW ids, CommitAs(p, Blank, ids), a \notin issued \ ids
  PROVE  Rules'
<1> DEFINE q == req[p]
<1>1. q \in Request /\ Cleared(q)
  BY Held DEF Rules, AllCleared
<1>2. RowFine(row)
  BY <1>1 DEF RowFine, Cleared, Vetted
<1>3. RowsFine'
  <2>1. ASSUME NEW b \in DOMAIN alarms' PROVE RowFine(alarms[b])'
    <3>1. RowFine(alarms'[b])
      BY <1>2 DEF Rules, RowsFine
    <3>2. QED
      BY <3>1 DEF RowFine
  <2>2. QED
    BY <2>1 DEF RowsFine
<1>4. VettedApart'
  <2>1. ASSUME NEW b \in DOMAIN alarms', NEW c \in DOMAIN alarms', b # c
        PROVE  Apart(alarms'[b], alarms'[c])
    <3>1. CASE b = a
      BY <2>1, <3>1, WrittenApart
    <3>2. CASE c = a
      BY <2>1, <3>2, WrittenApart
    <3>3. CASE b # a /\ c # a
      BY <2>1, <3>3 DEF Rules, VettedApart
    <3>4. QED
      BY <3>1, <3>2, <3>3
  <2>2. QED
    BY <2>1 DEF VettedApart, Apart, Together, Shared
<1>5. Blank.pc \in {"idle", "page"} /\ Unedited(ids)
  BY DEF Blank, Unedited
<1>6. QED
  BY <1>3, <1>4, <1>5, CommitRules

LEMMA InsertRules ==
  ASSUME IInv, Rules, NEW p \in Requests, Insert(p)
  PROVE  Rules'
<1> DEFINE q == req[p]
<1>0. Requested(Blank) /\ q \in Request /\ WellFormed(q) /\ now \in Nat /\ Cleared(Blank)
  BY BlankRequested, Held, ElsewhereCleared DEF Blank
<1>1. PICK a \in Alarms \ issued, name \in Names, sd \in BOOLEAN :
        IF Refused(q, name) THEN Finish(p) /\ UNCHANGED <<alarms, issued>>
        ELSE /\ alarms' = [b \in DOMAIN alarms \cup {a} |->
                  IF b = a THEN [owner |-> q.user, folder |-> q.folder, name |-> name,
                                 schedule |-> q.schedule, enabled |-> q.enabled,
                                 selfDestruct |-> sd, vetted |-> Vetted(q)]
                  ELSE alarms[b]]
             /\ issued' = issued \cup {a}
             /\ Commit(p)
  BY DEF Insert
<1>2. q.pc = "write" /\ q.op = "create" /\ UNCHANGED <<now, tier, folders, held, arrivals>>
  BY DEF Insert
<1>3. CASE Refused(q, name)
  <2>1. Become(p, Blank) /\ UNCHANGED alarms /\ HeldNow'
    BY <1>1, <1>2, <1>3 DEF Finish, Rules, HeldNow
  <2>2. QED
    BY <1>0, <1>2, <2>1, QuietRules
<1>4. CASE ~Refused(q, name)
  <2> DEFINE row == [owner |-> q.user, folder |-> q.folder, name |-> name,
                     schedule |-> q.schedule, enabled |-> q.enabled,
                     selfDestruct |-> sd, vetted |-> Vetted(q)]
  <2>1. /\ alarms' = [b \in DOMAIN alarms \cup {a} |-> IF b = a THEN row ELSE alarms[b]]
        /\ CommitAs(p, Blank, {})
    BY <1>1, <1>4 DEF Commit
  <2>2. a \notin DOMAIN alarms
    BY DEF IInv, KnownIds
  <2>3. row \in AlarmRow
    BY <1>0, <1>2 DEF AlarmRow, Request, WellFormed, Vetted
  <2>4. DOMAIN alarms' = DOMAIN alarms \cup {a} /\ alarms'[a] = row
    BY <2>1
  <2>5. \A b \in DOMAIN alarms : b # a => alarms'[b] = alarms[b]
    BY <2>1
  <2>6. q.alarm \notin DOMAIN alarms
    BY <1>0, <1>2, AlarmsAssumption DEF WellFormed, IInv, TypeOK
  <2>7. row.vetted # None => row.enabled
    BY DEF Vetted
  <2>8. /\ row.owner = q.user /\ row.folder = q.folder /\ row.schedule = q.schedule
        /\ row.vetted = Vetted(q)
    OBVIOUS
  <2>9. a \notin issued \ {} /\ \A b \in DOMAIN alarms : b # a => b # q.alarm
    BY <2>6
  <2> HIDE DEF row
  <2>10. QED
    BY <1>2, <2>1, <2>3, <2>4, <2>5, <2>7, <2>8, <2>9, WriteRules
<1>5. QED
  BY <1>3, <1>4

LEMMA UpdateRules ==
  ASSUME IInv, Rules, NEW p \in Requests, Update(p)
  PROVE  Rules'
<1> DEFINE q == req[p]
<1>0. /\ Requested(Blank) /\ q \in Request /\ WellFormed(q) /\ Claim(q) /\ now \in Nat
      /\ Cleared(Blank) /\ Cleared(q)
  BY BlankRequested, Held, ElsewhereCleared DEF Blank, Rules, AllCleared
<1>1. PICK name \in Names, sd \in BOOLEAN :
        IF q.alarm \notin DOMAIN alarms \/ Refused(q, name)
        THEN Finish(p) /\ UNCHANGED alarms
        ELSE /\ alarms' = [alarms EXCEPT ![q.alarm] =
                  [@ EXCEPT !.folder = q.folder, !.name = name, !.schedule = q.schedule,
                            !.selfDestruct = sd, !.vetted = Vetted(q)]]
             /\ CommitAs(p, Blank, {q.alarm})
  BY DEF Update
<1>2. q.pc = "write" /\ q.op = "put" /\ UNCHANGED <<now, tier, folders, issued, held, arrivals>>
  BY DEF Update, Aside
<1>3. CASE q.alarm \notin DOMAIN alarms \/ Refused(q, name)
  <2>1. Become(p, Blank) /\ UNCHANGED alarms /\ HeldNow'
    BY <1>1, <1>2, <1>3 DEF Finish, Rules, HeldNow
  <2>2. QED
    BY <1>0, <1>2, <2>1, QuietRules
<1>4. CASE q.alarm \in DOMAIN alarms /\ ~Refused(q, name)
  <2> DEFINE a == q.alarm
             row == [alarms[a] EXCEPT !.folder = q.folder, !.name = name, !.schedule = q.schedule,
                                      !.selfDestruct = sd, !.vetted = Vetted(q)]
  <2>1. alarms' = [alarms EXCEPT ![a] = row] /\ CommitAs(p, Blank, {a})
    BY <1>1, <1>4
  <2>2. alarms[a] \in AlarmRow /\ alarms[a].owner = q.user
    BY <1>0, <1>2, <1>4, Held DEF Claim, WritesTo
  <2>3. /\ row \in AlarmRow /\ row.owner = q.user /\ row.folder = q.folder
        /\ row.schedule = q.schedule /\ row.vetted = Vetted(q) /\ row.enabled = alarms[a].enabled
    BY <1>0, <1>2, <2>2 DEF AlarmRow, Request, WellFormed, Vetted
  <2>4. DOMAIN alarms' = DOMAIN alarms \cup {a} /\ alarms'[a] = row
    BY <1>4, <2>1 DEF IInv, TypeOK
  <2>5. \A b \in DOMAIN alarms : b # a => alarms'[b] = alarms[b]
    BY <2>1 DEF IInv, TypeOK
  <2>6. row.vetted # None => row.enabled
    BY <1>0, <1>2, <1>4, <2>3 DEF Vetted, Cleared
  <2>7. q.pc = "write" /\ CommitAs(p, Blank, {a}) /\ UNCHANGED <<now, tier, held>>
    BY <1>2, <2>1
  <2>8. a \notin issued \ {a} /\ \A b \in DOMAIN alarms : b # a => b # q.alarm
    OBVIOUS
  <2> HIDE DEF row, a
  <2>9. QED
    BY <2>3, <2>4, <2>5, <2>6, <2>7, <2>8, WriteRules
<1>5. QED
  BY <1>3, <1>4

\* What the reads find is true when they find it.
LEMMA ReadRules ==
  ASSUME IInv, Rules, NEW p \in Requests,
         \/ Load(p) \/ OwnsFolder(p) \/ ReadTier(p) \/ Count(p) \/ Siblings(p) \/ Owned(p)
         \/ Candidates(p) \/ Page(p) \/ FolderTier(p) \/ FolderCount(p) \/ FolderLoad(p) \/ Fail(p)
  PROVE  Rules'
<1> DEFINE q == req[p]
<1>0. /\ q \in Request /\ WellFormed(q) /\ Cleared(q) /\ now \in Nat /\ Cleared(Blank)
      /\ HeldNow /\ RowsFine
  BY Held, ElsewhereCleared DEF Rules, AllCleared, Blank
<1>1. PICK r : Requested(r) /\ Become(p, r)
  BY ReadStep
<1>2. UNCHANGED <<now, Tables, issued, held, arrivals>>
  BY ReadStep
<1>3. req'[p] = r
  BY <1>1 DEF Become, IInv, TypeOK
<1>4. Cleared(r)
  <2> USE DEF Become, Finish
  <2>1. CASE r = Blank
    BY <1>0, <2>1
  <2>2. CASE Load(p) /\ r # Blank
    <3>1. CASE q.op = "put"
      <4>1. PICK f : Become(p, [q EXCEPT !.pc = "owns", !.folder = f, !.enabled = alarms[q.alarm].enabled])
        BY <1>1, <1>3, <2>2, <3>1 DEF Load
      <4>2. r = [q EXCEPT !.pc = "owns", !.folder = f, !.enabled = alarms[q.alarm].enabled]
        BY <1>3, <4>1 DEF IInv, TypeOK
      <4>3. r.pc = "owns" /\ r.alarm = q.alarm /\ r.enabled = alarms[q.alarm].enabled
        BY <1>0, <4>2 DEF Request
      <4>4. QED
        BY <4>3 DEF Cleared
    <3>2. CASE q.op # "put"
      <4>1. r.pc \in {"erase", "switch"}
        BY <1>0, <1>1, <1>3, <2>2, <3>2 DEF Load, Request, IInv, TypeOK
      <4>2. QED
        BY <4>1, ElsewhereCleared
    <3>3. QED
      BY <3>1, <3>2
  <2>3. CASE OwnsFolder(p) /\ r # Blank
    <3>1. r = [q EXCEPT !.pc = "tier"] /\ q.pc = "owns"
      BY <1>1, <1>3, <2>3 DEF OwnsFolder, IInv, TypeOK
    <3>2. r.pc = "tier" /\ r.op = q.op /\ r.alarm = q.alarm /\ r.enabled = q.enabled /\ r.raced = q.raced
      BY <1>0, <3>1 DEF Request
    <3>3. QED
      BY <1>0, <3>1, <3>2 DEF Cleared
  <2>4. CASE ReadTier(p) /\ r # Blank
    <3>1. PICK s \in Schedules : ScheduleAllowed(tier[q.user], s)
                                 /\ r = [q EXCEPT !.pc = "count", !.tier = tier[q.user], !.schedule = s]
      BY <1>1, <1>3, <2>4 DEF ReadTier, IInv, TypeOK
    <3>2. /\ r.pc = "count" /\ r.op = q.op /\ r.alarm = q.alarm /\ r.enabled = q.enabled
          /\ r.raced = q.raced /\ r.tier = tier[q.user] /\ r.schedule = s /\ r.user = q.user
      BY <1>0, <3>1 DEF Request
    <3>3. q.pc = "tier" /\ q.user \in Users
      BY <1>0, <2>4 DEF ReadTier, WellFormed
    <3>4. QED
      BY <1>0, <3>1, <3>2, <3>3 DEF Cleared, HeldNow
  <2>5. CASE Count(p) /\ r # Blank
    <3>1. \/ q.enabled /\ r = [q EXCEPT !.pc = "siblings", !.at = now]
          \/ ~q.enabled /\ r = [q EXCEPT !.pc = "write"]
      BY <1>1, <1>3, <2>5 DEF Count, IInv, TypeOK
    <3>2. /\ r.op = q.op /\ r.alarm = q.alarm /\ r.enabled = q.enabled /\ r.raced = q.raced
          /\ r.tier = q.tier /\ r.schedule = q.schedule /\ r.user = q.user
          /\ \/ r.pc = "siblings" /\ q.enabled /\ r.at = now
             \/ r.pc = "write" /\ ~q.enabled
      BY <1>0, <3>1 DEF Request
    <3>3. Latest(now) /\ q.pc = "count"
      BY <1>0, <2>5 DEF Latest, RowsFine, RowFine, Count
    <3>4. QED
      BY <1>0, <3>2, <3>3 DEF Cleared
  <2>6. CASE Siblings(p) /\ r # Blank
    <3>1. r = [q EXCEPT !.pc = "write"] /\ q.pc = "siblings" /\ ~Collides(q)
      BY <1>1, <1>3, <2>6 DEF Siblings, IInv, TypeOK
    <3>2. /\ r.pc = "write" /\ r.op = q.op /\ r.alarm = q.alarm /\ r.enabled = q.enabled
          /\ r.raced = q.raced /\ r.tier = q.tier /\ r.schedule = q.schedule /\ r.user = q.user
          /\ r.at = q.at /\ r.folder = q.folder
      BY <1>0, <3>1 DEF Request
    <3>3. ~Collides(r)
      BY <3>1, <3>2 DEF Collides
    <3>4. QED
      BY <1>0, <3>1, <3>2, <3>3 DEF Cleared
  <2>7. CASE Candidates(p) /\ r # Blank
    <3> DEFINE spent == {a \in DOMAIN alarms : alarms[a].owner = q.user /\ Spent(a, now)}
    <3>1. r = [q EXCEPT !.ids = spent, !.at = now, !.pc = IF spent = {} THEN "page" ELSE "sweep"]
      BY <1>3, <2>7 DEF Candidates, IInv, TypeOK
    <3>2. r.pc \in {"page", "sweep"} /\ r.ids = spent /\ r.at = now
      BY <1>0, <3>1 DEF Request
    <3>3. \A a \in spent : Spent(a, now)
      OBVIOUS
    <3> HIDE DEF spent
    <3>4. QED
      BY <1>0, <3>2, <3>3 DEF Cleared
  <2>8. CASE Owned(p) /\ r # Blank
    <3>1. r.pc = "switchAll"
      BY <1>0, <1>1, <1>3, <2>8 DEF Owned, Request, IInv, TypeOK
    <3>2. QED
      BY <3>1, ElsewhereCleared
  <2>9. CASE (FolderTier(p) \/ FolderCount(p) \/ FolderLoad(p)) /\ r # Blank
    <3>1. r.pc \in {"folderCount", "folderInsert", "folderDrop", "idle"}
      BY <1>0, <1>1, <1>3, <2>9 DEF FolderTier, FolderCount, FolderLoad, Request, IInv, TypeOK, Blank
    <3>2. QED
      BY <3>1, ElsewhereCleared
  <2>10. CASE (Page(p) \/ Fail(p)) /\ r # Blank
    BY <1>1, <1>3, <2>10 DEF Page, Fail, IInv, TypeOK
  <2>11. QED
    BY <2>1, <2>2, <2>3, <2>4, <2>5, <2>6, <2>7, <2>8, <2>9, <2>10
<1>5. HeldNow' /\ UNCHANGED alarms /\ now' \in Nat /\ now <= now' /\ UNCHANGED held
  BY <1>0, <1>2 DEF HeldNow, Tables
<1>6. QED
  BY <1>1, <1>4, <1>5, QuietRules

LEMMA ArriveRules ==
  ASSUME IInv, Rules, NEW p \in Requests, NEW u \in Users,
         \/ ArriveCreate(p, u) \/ ArriveForAlarm(p, u) \/ ArriveBulk(p, u)
         \/ ArriveList(p, u) \/ ArriveMakeFolder(p, u) \/ ArriveForFolder(p, u)
  PROVE  Rules'
<1>1. PICK q : Requested(q) /\ Become(p, q) /\ Arriving(q)
  BY Arrives
<1>2. UNCHANGED <<now, Tables, issued, held>>
  BY Arrives
<1>3. Cleared(q)
  BY <1>1, ElsewhereCleared DEF Arriving
<1>4. HeldNow' /\ UNCHANGED <<alarms, held, now>> /\ now \in Nat
  BY <1>2 DEF Tables, Rules, HeldNow, IInv, TypeOK
<1>5. QED
  BY <1>1, <1>3, <1>4, QuietRules

LEMMA AsideRules ==
  ASSUME IInv, Rules, (\E u \in Users : SetTier(u)) \/ Tick \/ UNCHANGED vars
  PROVE  Rules'
<1>1. UNCHANGED <<alarms, req>> /\ now \in Nat /\ now' \in Nat /\ now <= now'
  BY DEF SetTier, Tick, Tables, vars, IInv, TypeOK
<1>2. HeldNow' /\ \A u \in Users : held[u] \subseteq held'[u]
  <2>1. CASE \E u \in Users : SetTier(u)
    <3>1. PICK u \in Users, t \in Tiers :
            tier' = [tier EXCEPT ![u] = t] /\ held' = [held EXCEPT ![u] = @ \cup {t}]
      BY <2>1 DEF SetTier
    <3>2. QED
      BY <3>1 DEF IInv, TypeOK, Rules, HeldNow
  <2>2. CASE Tick \/ UNCHANGED vars
    BY <2>2 DEF Tick, Tables, vars, Rules, HeldNow
  <2>3. QED
    BY <2>1, <2>2
<1>3. PICK p \in Requests : TRUE
  BY AlarmsAssumption
<1>4. Requested(Blank) /\ Cleared(Blank)
  BY BlankRequested, ElsewhereCleared DEF Blank
<1>5. QED
  BY <1>1, <1>2, <1>3, <1>4, QuietRules

LEMMA InitRules == Init => Rules
<1> SUFFICES ASSUME Init PROVE Rules
  OBVIOUS
<1>1. DOMAIN alarms = {} /\ \A p \in Requests : req[p] = Blank
  BY DEF Init
<1>2. Cleared(Blank)
  BY ElsewhereCleared DEF Blank
<1>3. HeldNow
  BY DEF Init, HeldNow
<1>4. QED
  BY <1>1, <1>2, <1>3 DEF Rules, RowsFine, VettedApart, AllCleared

LEMMA NextRules == IInv /\ Rules /\ [Next]_vars => Rules'
<1> SUFFICES ASSUME IInv, Rules, [Next]_vars PROVE Rules'
  OBVIOUS
<1>1. ASSUME NEW p \in Requests, NEW u \in Users,
             \/ ArriveCreate(p, u) \/ ArriveForAlarm(p, u) \/ ArriveBulk(p, u)
             \/ ArriveList(p, u) \/ ArriveMakeFolder(p, u) \/ ArriveForFolder(p, u)
      PROVE  Rules'
  BY <1>1, ArriveRules
<1>2. ASSUME NEW p \in Requests,
             \/ Load(p) \/ OwnsFolder(p) \/ ReadTier(p) \/ Count(p) \/ Siblings(p) \/ Owned(p)
             \/ Candidates(p) \/ Page(p) \/ FolderTier(p) \/ FolderCount(p) \/ FolderLoad(p)
             \/ Fail(p)
      PROVE  Rules'
  BY <1>2, ReadRules
<1>3. ASSUME NEW p \in Requests,
             Erase(p) \/ Switch(p) \/ SwitchAll(p) \/ Sweep(p) \/ FolderDrop(p)
      PROVE  Rules'
  BY <1>3, KeptSteps
<1>4. ASSUME NEW p \in Requests, Insert(p)
      PROVE  Rules'
  BY <1>4, InsertRules
<1>5. ASSUME NEW p \in Requests, Update(p)
      PROVE  Rules'
  BY <1>5, UpdateRules
<1>6. ASSUME NEW p \in Requests, FolderInsert(p) \/ Rename(p)
      PROVE  Rules'
  <2>1. UNCHANGED <<now, tier, held, alarms>> /\ (Finish(p) \/ Commit(p))
    BY <1>6 DEF FolderInsert, Rename, Aside
  <2>2. CASE Commit(p)
    BY <1>6, <2>1, <2>2, KeptSteps
  <2>3. CASE Finish(p)
    <3>1. Requested(Blank) /\ Cleared(Blank) /\ Become(p, Blank)
      BY <2>3, BlankRequested, ElsewhereCleared DEF Blank, Finish
    <3>2. HeldNow' /\ now \in Nat
      BY <2>1 DEF Rules, HeldNow, IInv, TypeOK
    <3>3. QED
      BY <2>1, <3>1, <3>2, QuietRules
  <2>4. QED
    BY <2>1, <2>2, <2>3
<1>7. CASE (\E u \in Users : SetTier(u)) \/ Tick \/ UNCHANGED vars
  BY <1>7, AsideRules
<1>8. QED
  BY <1>1, <1>2, <1>3, <1>4, <1>5, <1>6, <1>7 DEF Next

THEOREM RulesHold == Spec => []Rules
BY InitRules, NextRules, AlarmsInvariant, PTL DEF Spec

\* R-08, for any number of users, alarms and requests in flight: alarms that were
\* vetted by writes that nothing overlapped never share an instant.
THEOREM CollisionsAreExplained == Spec => []CollisionsExplained
<1>1. IInv /\ Rules => CollisionsExplained
  <2> SUFFICES ASSUME IInv, Rules, NEW u \in Users, NEW f \in Folders \cup {None},
                      NEW a \in Alarms, NEW b \in Alarms, {a, b} \subseteq Scope(u, f),
                      alarms[a].vetted # None, alarms[b].vetted # None,
                      alarms[a].vetted <= alarms[b].vetted, {a, b} \in Conflicts(u, f, alarms[b].vetted)
               PROVE  FALSE
    BY DEF CollisionsExplained
  <2>1. a \in DOMAIN alarms /\ b \in DOMAIN alarms /\ Together(alarms[a], alarms[b])
    BY DEF Scope, Together
  <2>2. a # b /\ Shared(alarms[a].schedule, alarms[b].schedule, alarms[b].vetted) # {}
    BY DEF Conflicts, Shared
  <2>3. QED
    BY <2>1, <2>2 DEF Rules, VettedApart, Apart
<1>2. QED
  BY <1>1, RulesHold, AlarmsInvariant, PTL

\* A repetition the tier does not allow is never saved, by whatever route.
THEOREM SchedulesAllowed == Spec => []SchedulesWereAllowed
<1>1. Rules => SchedulesWereAllowed
  BY DEF Rules, RowsFine, RowFine, SchedulesWereAllowed
<1>2. QED
  BY <1>1, RulesHold, PTL

-----------------------------------------------------------------------------
\* Whoever takes an alarm that is still to come, and with whose word.
LossStep ==
  \A a \in DOMAIN alarms \ DOMAIN alarms' :
    ToCome(a) =>
      \E p \in Requests :
        /\ req[p].user = alarms[a].owner /\ req'[p].pc # req[p].pc
        /\ \/ req[p].pc = "erase" /\ req[p].alarm = a
           \/ req[p].pc = "folderDrop" /\ req[p].folder = alarms[a].folder
           \/ req[p].pc = "sweep" /\ a \in req[p].edited

\* Three statements delete alarms.
LEMMA OnlyThreeDelete ==
  ASSUME IInv, [Next]_vars, NEW a \in DOMAIN alarms \ DOMAIN alarms'
  PROVE  \E p \in Requests : Erase(p) \/ Sweep(p) \/ FolderDrop(p)
<1>1. ASSUME NEW p \in Requests, Insert(p) \/ Update(p) \/ Switch(p) \/ SwitchAll(p)
      PROVE  FALSE
  BY <1>1 DEF Insert, Update, Switch, SwitchAll, Switched
<1>2. ASSUME NEW p \in Requests, NEW u \in Users,
             \/ ArriveCreate(p, u) \/ ArriveForAlarm(p, u) \/ ArriveBulk(p, u)
             \/ ArriveList(p, u) \/ ArriveMakeFolder(p, u) \/ ArriveForFolder(p, u)
      PROVE  FALSE
  BY <1>2, Arrives DEF Tables
<1>3. ASSUME NEW p \in Requests,
             \/ Load(p) \/ OwnsFolder(p) \/ ReadTier(p) \/ Count(p) \/ Siblings(p) \/ Owned(p)
             \/ Candidates(p) \/ Page(p) \/ FolderTier(p) \/ FolderCount(p) \/ FolderLoad(p)
             \/ Fail(p)
      PROVE  FALSE
  BY <1>3, ReadStep DEF Tables
<1>4. ASSUME NEW p \in Requests, FolderInsert(p) \/ Rename(p)
      PROVE  FALSE
  BY <1>4 DEF FolderInsert, Rename, Aside
<1>5. ASSUME (\E u \in Users : SetTier(u)) \/ Tick \/ UNCHANGED vars
      PROVE  FALSE
  BY <1>5 DEF SetTier, Tick, Tables, vars
<1>6. QED
  BY <1>1, <1>2, <1>3, <1>4, <1>5 DEF Next

LEMMA LossExplained == IInv /\ Rules /\ [Next]_vars => LossStep
<1> SUFFICES ASSUME IInv, Rules, [Next]_vars, NEW a \in DOMAIN alarms \ DOMAIN alarms', ToCome(a)
             PROVE  \E p \in Requests :
                      /\ req[p].user = alarms[a].owner /\ req'[p].pc # req[p].pc
                      /\ \/ req[p].pc = "erase" /\ req[p].alarm = a
                         \/ req[p].pc = "folderDrop" /\ req[p].folder = alarms[a].folder
                         \/ req[p].pc = "sweep" /\ a \in req[p].edited
  BY DEF LossStep
<1>1. PICK p \in Requests : Erase(p) \/ Sweep(p) \/ FolderDrop(p)
  BY OnlyThreeDelete
<1>2. PICK q : q = req[p]
  OBVIOUS
<1>3. q \in Request /\ WellFormed(q) /\ Claim(q) /\ Cleared(q) /\ alarms[a] \in AlarmRow /\ now \in Nat
  BY <1>2, Held DEF Rules, AllCleared
<1>4. CASE Erase(p)
  <2>1. q.pc = "erase" /\ a = q.alarm /\ req'[p].pc = "idle"
    BY <1>2, <1>4 DEF Erase, Without, Commit, CommitAs, Blank
  <2>2. alarms[a].owner = q.user
    BY <1>3, <2>1 DEF Claim, WritesTo
  <2>3. QED
    BY <1>2, <2>1, <2>2
<1>5. CASE FolderDrop(p)
  <2>1. q.pc = "folderDrop" /\ alarms[a].folder = q.folder /\ req'[p].pc = "idle"
    BY <1>2, <1>5 DEF FolderDrop, Without, Commit, CommitAs, Blank
  <2>2. q.folder # None /\ (q.folder \in DOMAIN folders => folders[q.folder].owner = q.user)
    BY <1>3, <2>1 DEF WellFormed, Claim, FilesInto
  <2>3. alarms[a].owner = q.user
    BY <2>1, <2>2 DEF IInv, FiledWithOwner
  <2>4. QED
    BY <1>2, <2>1, <2>3
<1>6. CASE Sweep(p)
  <2>1. q.pc = "sweep" /\ a \in q.ids /\ req'[p] = [q EXCEPT !.pc = "page", !.edited = {}]
    BY <1>2, <1>6 DEF Sweep, Without, CommitAs
  <2>2. req'[p].pc = "page"
    BY <1>3, <2>1 DEF Request
  <2>3. alarms[a].owner = q.user
    BY <1>3, <2>1 DEF Claim, WritesTo
  <2>4. a \in q.edited
    <3>1. SUFFICES ASSUME a \notin q.edited PROVE FALSE
      OBVIOUS
    <3>2. Spent(a, q.at) /\ q.at <= now /\ q.at \in Nat
      BY <1>3, <2>1, <3>1 DEF Cleared, Request
    <3>3. PICK i \in alarms[a].schedule.fires : i >= now
      BY <3>2 DEF ToCome, Spent
    <3>4. i \in Nat
      BY <1>3, <3>3, AlarmsAssumption DEF AlarmRow
    <3>5. i < q.at
      BY <3>2, <3>3 DEF Spent
    <3>6. QED
      BY <1>3, <3>2, <3>3, <3>4, <3>5
  <2>5. QED
    BY <1>2, <2>1, <2>2, <2>3, <2>4
<1>7. QED
  BY <1>1, <1>4, <1>5, <1>6

\* An alarm that is still to come is lost only by its owner's word: to a sweep only
\* if a PUT rewrote it between the statement that found it spent and the one that
\* deletes by the ids.
THEOREM NothingElseIsLost == Spec => NothingElseLost
<1>1. IInv /\ Rules /\ [Next]_vars => [LossStep]_vars
  BY LossExplained
<1>2. QED
  BY <1>1, RulesHold, AlarmsInvariant, PTL DEF Spec, NothingElseLost, LossStep

(***************************************************************************)
(* How far the allowance can be overrun.  Whoever has been counted in is   *)
(* counted on: a request that will insert takes a place, and one that will *)
(* move an alarm takes that alarm's, which may be in the bucket already    *)
(* and may leave it again meanwhile.  Each was counted in when at most one *)
(* place was left to take, beside those of the other requests.             *)
(***************************************************************************)

\* The requests that have been counted in and have not written yet.
Admitted(u, f) ==
  {p \in Requests : req[p].pc \in {"siblings", "write"} /\ req[p].user = u /\ req[p].folder = f}

Making(u, f) == {p \in Admitted(u, f) : req[p].op # "put"}
Movers(u, f) == {p \in Admitted(u, f) : req[p].op = "put"}
Moving(u, f) == {req[p].alarm : p \in Movers(u, f)}

FolderMaking(u) == {p \in Requests : req[p].pc = "folderInsert" /\ req[p].user = u}

AlarmRoom(u, f, n) ==
  Cardinality(Scope(u, f) \cup Moving(u, f)) + Cardinality(Making(u, f)) < n + Cardinality(Requests)

FolderRoom(u, n) == Cardinality(FoldersOf(u)) + Cardinality(FolderMaking(u)) < n + Cardinality(Requests)

RoomForAlarms ==
  \A u \in Users, n \in Allowances :
    AlarmsUpTo(u, n) => \A f \in {None} \cup FoldersOf(u) : AlarmRoom(u, f, n)

RoomForFolders ==
  \A u \in Users :
    /\ IsFiniteSet(FoldersOf(u))
    /\ \A n \in Allowances : FoldersUpTo(u, n) => FolderRoom(u, n)

\* Who is about to be counted: by a write of its own kind, in a tier its user has had.
Poised(q) ==
  /\ q.pc \in {"owns", "tier", "count"} => q.op \in {"create", "put"}
  /\ q.pc = "folderCount" => q.tier \in held[q.user]

AllPoised == \A p \in Requests : Poised(req[p])

Room == AllPoised /\ RoomForAlarms /\ RoomForFolders

-----------------------------------------------------------------------------
\* The places of a bucket and of the requests are finitely many.

LEMMA Images ==
  ASSUME NEW S, IsFiniteSet(S), NEW f
  PROVE  LET T == {f[x] : x \in S} IN
         /\ IsFiniteSet(T) /\ Cardinality(T) \in Nat /\ Cardinality(S) \in Nat
         /\ Cardinality(T) <= Cardinality(S)
<1> DEFINE T == {f[x] : x \in S}
           g == [x \in S |-> f[x]]
<1>1. g \in Surjection(S, T)
  BY DEF Surjection
<1>2. IsFiniteSet(T) /\ Cardinality(T) <= Cardinality(S)
  BY <1>1, FS_Surjection
<1>3. QED
  BY <1>2, FS_CardinalityType

LEMMA RequestsFinite ==
  /\ IsFiniteSet(Requests) /\ Cardinality(Requests) \in Nat /\ Cardinality(Requests) > 0
  /\ \A S \in SUBSET Requests :
       IsFiniteSet(S) /\ Cardinality(S) \in Nat /\ Cardinality(S) <= Cardinality(Requests)
<1>1. IsFiniteSet(Requests) /\ Requests # {}
  BY AlarmsAssumption
<1>2. Cardinality(Requests) \in Nat /\ Cardinality(Requests) # 0
  BY <1>1, FS_CardinalityType, FS_EmptySet
<1>3. ASSUME NEW S \in SUBSET Requests
      PROVE  IsFiniteSet(S) /\ Cardinality(S) \in Nat /\ Cardinality(S) <= Cardinality(Requests)
  BY <1>1, FS_Subset, FS_CardinalityType
<1>4. QED
  BY <1>1, <1>2, <1>3

LEMMA AllowancesAre ==
  ASSUME NEW n \in Allowances
  PROVE  n \in Nat
<1>1. PICK t \in Tiers : n \in {Limits[t].alarms, Limits[t].folders} /\ n # None
  BY DEF Allowances
<1>2. Limits[t] \in Allowance
  BY AlarmsAssumption
<1>3. QED
  BY <1>1, <1>2 DEF Allowance

\* The alarms that are in a bucket or on their way into it.
LEMMA BucketFinite ==
  ASSUME IInv, NEW u, NEW f
  PROVE  LET B == Scope(u, f) \cup Moving(u, f) IN
         /\ IsFiniteSet(B) /\ Cardinality(B) \in Nat
         /\ IsFiniteSet(Scope(u, f)) /\ Cardinality(Scope(u, f)) \in Nat
<1>1. Scope(u, f) \subseteq Alarms
  BY DEF IInv, TypeOK, Scope
<1>2. Moving(u, f) \subseteq Alarms \cup {None}
  BY Held DEF Moving, Movers, Admitted, Request
<1>3. IsFiniteSet(Alarms) /\ IsFiniteSet(Alarms \cup {None})
  BY AlarmsAssumption, FS_AddElement
<1>4. Scope(u, f) \cup Moving(u, f) \subseteq Alarms \cup {None}
  BY <1>1, <1>2
<1>5. QED
  BY <1>1, <1>3, <1>4, FS_Subset, FS_CardinalityType

LEMMA PlacesFinite ==
  ASSUME NEW u, NEW f
  PROVE  /\ IsFiniteSet(Making(u, f)) /\ Cardinality(Making(u, f)) \in Nat
         /\ IsFiniteSet(Movers(u, f)) /\ Cardinality(Movers(u, f)) \in Nat
         /\ IsFiniteSet(FolderMaking(u)) /\ Cardinality(FolderMaking(u)) \in Nat
<1>1. /\ Making(u, f) \in SUBSET Requests /\ Movers(u, f) \in SUBSET Requests
      /\ FolderMaking(u) \in SUBSET Requests
  BY DEF Making, Movers, Admitted, FolderMaking
<1>2. QED
  BY <1>1, RequestsFinite

-----------------------------------------------------------------------------
\* Steps that let nobody in.

HeldGrows == \A u \in Users : held[u] \subseteq held'[u]

\* Nobody is counted in: who has been counted in had been, for the same alarm.
NoneAdmitted ==
  \A x \in Requests :
    req'[x].pc \in {"siblings", "write"} =>
      /\ req[x].pc \in {"siblings", "write"} /\ req'[x].user = req[x].user
      /\ req'[x].folder = req[x].folder /\ req'[x].op = req[x].op /\ req'[x].alarm = req[x].alarm

NoFolderAdmitted ==
  \A x \in Requests :
    req'[x].pc = "folderInsert" => req[x].pc = "folderInsert" /\ req'[x].user = req[x].user

NoAlarmMoves ==
  \A a \in DOMAIN alarms' :
    a \in DOMAIN alarms /\ alarms'[a].folder = alarms[a].folder /\ alarms'[a].owner = alarms[a].owner

NoFolderMade ==
  \A f \in DOMAIN folders' : f \in DOMAIN folders /\ folders'[f].owner = folders[f].owner

\* Who has had no more than n had no more before.
LEMMA HadNoMore ==
  ASSUME HeldGrows, NEW u \in Users, NEW n
  PROVE  (AlarmsUpTo(u, n)' => AlarmsUpTo(u, n)) /\ (FoldersUpTo(u, n)' => FoldersUpTo(u, n))
BY DEF HeldGrows, AlarmsUpTo, FoldersUpTo

\* A bucket that nobody enters keeps its room.
LEMMA BucketKept ==
  ASSUME IInv, NEW u, NEW f, NEW n \in Nat, AlarmRoom(u, f, n),
         Scope(u, f)' \cup Moving(u, f)' \subseteq Scope(u, f) \cup Moving(u, f),
         Making(u, f)' \subseteq Making(u, f)
  PROVE  AlarmRoom(u, f, n)'
<1> DEFINE B == Scope(u, f) \cup Moving(u, f)
           C == Scope(u, f)' \cup Moving(u, f)'
<1>1. IsFiniteSet(B) /\ Cardinality(B) \in Nat
  BY BucketFinite
<1>2. Cardinality(C) \in Nat /\ Cardinality(C) <= Cardinality(B)
  BY <1>1, FS_Subset, FS_CardinalityType
<1>3. /\ Cardinality(Making(u, f)) \in Nat /\ Cardinality(Making(u, f)') \in Nat
      /\ Cardinality(Making(u, f)') <= Cardinality(Making(u, f))
  BY PlacesFinite, FS_Subset, FS_CardinalityType
<1>4. Cardinality(B) + Cardinality(Making(u, f)) < n + Cardinality(Requests)
  BY DEF AlarmRoom
<1>5. Cardinality(C) + Cardinality(Making(u, f)') < n + Cardinality(Requests)
  BY <1>1, <1>2, <1>3, <1>4, RequestsFinite
<1>6. QED
  BY <1>5 DEF AlarmRoom

LEMMA AdmittedKept ==
  ASSUME NoneAdmitted, NEW u, NEW f
  PROVE  Moving(u, f)' \subseteq Moving(u, f) /\ Making(u, f)' \subseteq Making(u, f)
BY DEF NoneAdmitted, Moving, Movers, Making, Admitted

LEMMA ScopeKept ==
  ASSUME NoAlarmMoves, NEW u, NEW f
  PROVE  Scope(u, f)' \subseteq Scope(u, f)
BY DEF NoAlarmMoves, Scope

LEMMA AlarmsRoomKept ==
  ASSUME IInv, RoomForAlarms, HeldGrows, NoneAdmitted, NoAlarmMoves, NoFolderMade
  PROVE  RoomForAlarms'
<1>1. SUFFICES ASSUME NEW u \in Users, NEW n \in Allowances, AlarmsUpTo(u, n)',
                      NEW f \in {None} \cup FoldersOf(u)'
               PROVE  AlarmRoom(u, f, n)'
  BY DEF RoomForAlarms, Allowances
<1>2. AlarmsUpTo(u, n) /\ f \in {None} \cup FoldersOf(u)
  BY <1>1, HadNoMore DEF NoFolderMade, FoldersOf
<1>3. AlarmRoom(u, f, n) /\ n \in Nat
  BY <1>2, AllowancesAre DEF RoomForAlarms
<1>4. QED
  BY <1>3, AdmittedKept, ScopeKept, BucketKept

LEMMA FoldersRoomKept ==
  ASSUME RoomForFolders, HeldGrows, NoFolderAdmitted, NoFolderMade
  PROVE  RoomForFolders'
<1>1. SUFFICES ASSUME NEW u \in Users
               PROVE  /\ IsFiniteSet(FoldersOf(u)')
                      /\ \A n \in Allowances : FoldersUpTo(u, n)' => FolderRoom(u, n)'
  BY DEF RoomForFolders, Allowances
<1>2. FoldersOf(u)' \subseteq FoldersOf(u) /\ FolderMaking(u)' \subseteq FolderMaking(u)
  BY DEF NoFolderMade, FoldersOf, NoFolderAdmitted, FolderMaking
<1>3. /\ IsFiniteSet(FoldersOf(u)') /\ Cardinality(FoldersOf(u)) \in Nat /\ Cardinality(FoldersOf(u)') \in Nat
      /\ Cardinality(FoldersOf(u)') <= Cardinality(FoldersOf(u))
  <2>1. IsFiniteSet(FoldersOf(u))
    BY DEF RoomForFolders
  <2>2. QED
    BY <1>2, <2>1, FS_Subset, FS_CardinalityType
<1>4. /\ Cardinality(FolderMaking(u)) \in Nat /\ Cardinality(FolderMaking(u)') \in Nat
      /\ Cardinality(FolderMaking(u)') <= Cardinality(FolderMaking(u))
  BY <1>2, PlacesFinite, FS_Subset, FS_CardinalityType
<1>5. ASSUME NEW n \in Allowances, FoldersUpTo(u, n)'
      PROVE  FolderRoom(u, n)'
  <2>1. FolderRoom(u, n) /\ n \in Nat
    BY <1>5, HadNoMore, AllowancesAre DEF RoomForFolders
  <2>2. Cardinality(FoldersOf(u)) + Cardinality(FolderMaking(u)) < n + Cardinality(Requests)
    BY <2>1 DEF FolderRoom
  <2>3. Cardinality(FoldersOf(u)') + Cardinality(FolderMaking(u)') < n + Cardinality(Requests)
    BY <1>3, <1>4, <2>1, <2>2, RequestsFinite
  <2>4. QED
    BY <2>3 DEF FolderRoom
<1>6. QED
  BY <1>3, <1>5

\* The requests that are poised stay so, whoever else gets another tier.
LEMMA PoisedKept ==
  ASSUME IInv', AllPoised, HeldGrows,
         \A x \in Requests : \/ Poised(req'[x])
                             \/ /\ req'[x].pc = req[x].pc /\ req'[x].op = req[x].op
                                /\ req'[x].user = req[x].user /\ req'[x].tier = req[x].tier
  PROVE  AllPoised'
<1>1. SUFFICES ASSUME NEW x \in Requests PROVE Poised(req[x])'
  BY DEF AllPoised
<1>2. /\ req'[x].pc \in {"owns", "tier", "count"} => req'[x].op \in {"create", "put"}
      /\ req'[x].pc = "folderCount" => req'[x].tier \in held[req'[x].user]
  BY DEF AllPoised, Poised
<1>3. req'[x].pc # "idle" => req'[x].user \in Users
  BY DEF IInv, Claims, WellFormed
<1>4. QED
  BY <1>2, <1>3 DEF Poised, HeldGrows

-----------------------------------------------------------------------------
\* Counting sets.
LEMMA CardUnion ==
  ASSUME NEW S, NEW T, IsFiniteSet(S), IsFiniteSet(T)
  PROVE  /\ IsFiniteSet(S \cup T) /\ Cardinality(S \cup T) \in Nat
         /\ Cardinality(S) \in Nat /\ Cardinality(T) \in Nat
         /\ Cardinality(S \cup T) <= Cardinality(S) + Cardinality(T)
         /\ S \cap T = {} => Cardinality(S \cup T) = Cardinality(S) + Cardinality(T)
<1>1. /\ IsFiniteSet(S \cup T)
      /\ Cardinality(S \cup T) = Cardinality(S) + Cardinality(T) - Cardinality(S \cap T)
  BY FS_Union
<1>2. IsFiniteSet(S \cap T)
  BY FS_Intersection
<1>3. /\ Cardinality(S) \in Nat /\ Cardinality(T) \in Nat /\ Cardinality(S \cup T) \in Nat
      /\ Cardinality(S \cap T) \in Nat
  BY <1>1, <1>2, FS_CardinalityType
<1>4. S \cap T = {} => Cardinality(S \cap T) = 0
  BY FS_EmptySet
<1>5. QED
  BY <1>1, <1>3, <1>4

LEMMA CardSubset ==
  ASSUME NEW S, NEW T, IsFiniteSet(S), T \subseteq S
  PROVE  /\ IsFiniteSet(T) /\ Cardinality(T) \in Nat /\ Cardinality(S) \in Nat
         /\ Cardinality(T) <= Cardinality(S)
<1>1. T \in SUBSET S
  OBVIOUS
<1>2. QED
  BY <1>1, FS_Subset, FS_CardinalityType

LEMMA CardAdd ==
  ASSUME NEW S, NEW x, IsFiniteSet(S)
  PROVE  /\ IsFiniteSet(S \cup {x}) /\ Cardinality(S) \in Nat /\ Cardinality(S \cup {x}) \in Nat
         /\ Cardinality(S \cup {x}) <= Cardinality(S) + 1
BY FS_AddElement, FS_CardinalityType

LEMMA CardWithout ==
  ASSUME NEW S, NEW x \in S, IsFiniteSet(S)
  PROVE  /\ IsFiniteSet(S \ {x}) /\ Cardinality(S) \in Nat /\ Cardinality(S \ {x}) \in Nat
         /\ Cardinality(S \ {x}) = Cardinality(S) - 1
BY FS_RemoveElement, FS_CardinalityType

-----------------------------------------------------------------------------
\* The statements that let somebody in.

\* A request that is being counted is not among those that have been.
LEMMA OthersAdmitted ==
  ASSUME IInv, NEW p \in Requests, NEW u, NEW f, p \notin Admitted(u, f)
  PROVE  /\ Cardinality(Movers(u, f)) + Cardinality(Making(u, f)) < Cardinality(Requests)
         /\ Cardinality(Movers(u, f)) \in Nat /\ Cardinality(Making(u, f)) \in Nat
         /\ IsFiniteSet(Moving(u, f)) /\ Cardinality(Moving(u, f)) \in Nat
         /\ Cardinality(Moving(u, f)) <= Cardinality(Movers(u, f))
<1> DEFINE M == Movers(u, f)
           K == Making(u, f)
<1>1. IsFiniteSet(M) /\ IsFiniteSet(K) /\ M \cap K = {} /\ M \cup K \subseteq Requests \ {p}
  <2>1. IsFiniteSet(M) /\ IsFiniteSet(K)
    BY PlacesFinite
  <2>2. M \subseteq Admitted(u, f) /\ K \subseteq Admitted(u, f) /\ M \cap K = {}
    BY DEF Movers, Making
  <2>3. Admitted(u, f) \subseteq Requests \ {p}
    BY DEF Admitted
  <2>4. QED
    BY <2>1, <2>2, <2>3
<1>2. Cardinality(M \cup K) = Cardinality(M) + Cardinality(K)
  BY <1>1, CardUnion
<1>3. IsFiniteSet(Requests \ {p}) /\ Cardinality(Requests \ {p}) = Cardinality(Requests) - 1
  BY RequestsFinite, CardWithout
<1>4. Cardinality(M \cup K) <= Cardinality(Requests) - 1
  BY <1>1, <1>3, CardSubset
<1>5. Cardinality(M) \in Nat /\ Cardinality(K) \in Nat
  BY PlacesFinite
<1>6. PICK g : g = [x \in Requests |-> req[x].alarm]
  OBVIOUS
<1>7. Moving(u, f) = {g[x] : x \in M}
  BY <1>6 DEF Moving, Movers, Admitted
<1>8. /\ IsFiniteSet(Moving(u, f)) /\ Cardinality(Moving(u, f)) \in Nat
      /\ Cardinality(Moving(u, f)) <= Cardinality(M)
  BY <1>1, <1>7, Images
<1>9. QED
  BY <1>2, <1>4, <1>5, <1>8, RequestsFinite

\* Counted in, while the bucket was not full.
LEMMA CountRoom ==
  ASSUME IInv, IInv', Rules, Room, NEW p \in Requests, Count(p), req'[p].pc # "idle"
  PROVE  Room'
<1>1. PICK q : q = req[p]
  OBVIOUS
<1>2. q \in Request /\ WellFormed(q) /\ q.pc = "count" /\ ~Full(q)
  BY <1>1, Held DEF Count, Finish, Become, Blank, IInv, TypeOK
<1>3. PICK r : /\ req' = [req EXCEPT ![p] = r]
               /\ r = [q EXCEPT !.pc = "siblings", !.at = now] \/ r = [q EXCEPT !.pc = "write"]
  BY <1>1, <1>2 DEF Count, Become
<1>4. /\ r.pc \in {"siblings", "write"} /\ r.op = q.op /\ r.user = q.user /\ r.folder = q.folder
      /\ r.alarm = q.alarm
  BY <1>2, <1>3 DEF Request
<1>5. req'[p] = r /\ \A x \in Requests \ {p} : req'[x] = req[x]
  BY <1>3 DEF IInv, TypeOK
<1>6. UNCHANGED <<now, tier, folders, alarms, issued, held>>
  BY DEF Count, Tables
<1>7. HeldGrows /\ NoAlarmMoves /\ NoFolderMade /\ NoFolderAdmitted
  BY <1>4, <1>5, <1>6 DEF HeldGrows, NoAlarmMoves, NoFolderMade, NoFolderAdmitted
<1>8. RoomForFolders'
  BY <1>7, FoldersRoomKept DEF Room
<1>9. AllPoised'
  <2>1. Poised(r)
    BY <1>4 DEF Poised
  <2>2. QED
    BY <1>5, <1>7, <2>1, PoisedKept DEF Room
<1>10. RoomForAlarms'
  <2>1. SUFFICES ASSUME NEW u \in Users, NEW n \in Allowances, AlarmsUpTo(u, n)',
                        NEW f \in {None} \cup FoldersOf(u)'
                 PROVE  AlarmRoom(u, f, n)'
    BY DEF RoomForAlarms, Allowances
  <2>2. AlarmsUpTo(u, n) /\ f \in {None} \cup FoldersOf(u) /\ n \in Nat
    BY <1>7, <2>1, HadNoMore, AllowancesAre DEF NoFolderMade, FoldersOf
  <2>3. AlarmRoom(u, f, n)
    BY <2>2 DEF Room, RoomForAlarms
  <2>4. Scope(u, f)' = Scope(u, f)
    BY <1>6 DEF Scope
  <2>5. CASE u # q.user \/ f # q.folder
    <3>1. Moving(u, f)' \subseteq Moving(u, f) /\ Making(u, f)' \subseteq Making(u, f)
      BY <1>4, <1>5, <2>5 DEF Moving, Movers, Making, Admitted
    <3>2. QED
      BY <2>2, <2>3, <2>4, <3>1, BucketKept
  <2>6. CASE u = q.user /\ f = q.folder
    <3> DEFINE D == Scope(u, f) \ {q.alarm}
               C == Scope(u, f)' \cup Moving(u, f)'
               K == Making(u, f)'
    <3>1. p \notin Admitted(u, f)
      BY <1>1, <1>2 DEF Admitted
    <3>2. /\ Cardinality(Movers(u, f)) + Cardinality(Making(u, f)) < Cardinality(Requests)
          /\ Cardinality(Movers(u, f)) \in Nat /\ Cardinality(Making(u, f)) \in Nat
          /\ IsFiniteSet(Moving(u, f)) /\ Cardinality(Moving(u, f)) \in Nat
          /\ Cardinality(Moving(u, f)) <= Cardinality(Movers(u, f))
      BY <3>1, OthersAdmitted
    <3>3. IsFiniteSet(D) /\ Cardinality(D) \in Nat /\ Cardinality(D) < n
      <4>1. IsFiniteSet(Scope(u, f))
        BY BucketFinite
      <4>2. IsFiniteSet(D) /\ Cardinality(D) \in Nat
        BY <4>1, CardSubset
      <4>3. q.tier \in held[u] /\ q.tier \in Tiers
        BY <1>1, <1>2, <2>6 DEF Rules, AllCleared, Cleared, Request
      <4>4. Limits[q.tier].alarms # None /\ Limits[q.tier].alarms <= n
        BY <2>2, <4>3 DEF AlarmsUpTo
      <4>5. Limits[q.tier].alarms \in Nat
        BY <4>3, <4>4, AlarmsAssumption DEF Allowance
      <4>6. ~(Cardinality(D) >= Limits[q.tier].alarms)
        BY <1>2, <2>6, <4>4 DEF Full, Reached
      <4>7. QED
        BY <2>2, <4>2, <4>4, <4>5, <4>6
    <3>4. /\ IsFiniteSet(D \cup Moving(u, f)) /\ Cardinality(D \cup Moving(u, f)) \in Nat
          /\ Cardinality(D \cup Moving(u, f)) <= Cardinality(D) + Cardinality(Moving(u, f))
      BY <3>2, <3>3, CardUnion
    <3>5. q.op \in {"create", "put"}
      BY <1>1, <1>2 DEF Room, AllPoised, Poised
    <3>6. Cardinality(C) + Cardinality(K) < n + Cardinality(Requests)
      <4>1. CASE q.op = "put"
        <5>1. C \subseteq (D \cup Moving(u, f)) \cup {q.alarm}
          BY <1>4, <1>5, <2>4 DEF Moving, Movers, Admitted
        <5>2. K \subseteq Making(u, f)
          BY <1>4, <1>5, <4>1 DEF Making, Admitted
        <5>3. Cardinality(C) \in Nat /\ Cardinality(C) <= Cardinality(D \cup Moving(u, f)) + 1
          <6>1. /\ IsFiniteSet((D \cup Moving(u, f)) \cup {q.alarm})
                /\ Cardinality((D \cup Moving(u, f)) \cup {q.alarm}) \in Nat
                /\ Cardinality((D \cup Moving(u, f)) \cup {q.alarm}) <= Cardinality(D \cup Moving(u, f)) + 1
            BY <3>4, CardAdd
          <6>2. /\ Cardinality(C) \in Nat
                /\ Cardinality(C) <= Cardinality((D \cup Moving(u, f)) \cup {q.alarm})
            BY <5>1, <6>1, CardSubset
          <6>3. QED
            BY <3>4, <6>1, <6>2
        <5>4. Cardinality(K) \in Nat /\ Cardinality(K) <= Cardinality(Making(u, f))
          BY <5>2, PlacesFinite, CardSubset
        <5> HIDE DEF C, D, K
        <5>5. QED
          BY <2>2, <3>2, <3>3, <3>4, <5>3, <5>4, RequestsFinite
      <4>2. CASE q.op = "create"
        <5>1. q.alarm = None
          BY <1>2, <4>2 DEF WellFormed
        <5>2. C \subseteq D \cup Moving(u, f)
          <6>1. None \notin Scope(u, f)
            BY AlarmsAssumption DEF Scope, IInv, TypeOK
          <6>2. Moving(u, f)' \subseteq Moving(u, f)
            BY <1>4, <1>5, <4>2 DEF Moving, Movers, Admitted
          <6>3. QED
            BY <2>4, <5>1, <6>1, <6>2
        <5>3. K \subseteq Making(u, f) \cup {p}
          BY <1>4, <1>5 DEF Making, Admitted
        <5>4. Cardinality(C) \in Nat /\ Cardinality(C) <= Cardinality(D \cup Moving(u, f))
          BY <3>4, <5>2, CardSubset
        <5>5. Cardinality(K) \in Nat /\ Cardinality(K) <= Cardinality(Making(u, f)) + 1
          <6>1. /\ IsFiniteSet(Making(u, f) \cup {p}) /\ Cardinality(Making(u, f) \cup {p}) \in Nat
                /\ Cardinality(Making(u, f) \cup {p}) <= Cardinality(Making(u, f)) + 1
            BY PlacesFinite, CardAdd
          <6>2. Cardinality(K) \in Nat /\ Cardinality(K) <= Cardinality(Making(u, f) \cup {p})
            BY <5>3, <6>1, CardSubset
          <6>3. QED
            BY <3>2, <6>1, <6>2
        <5> HIDE DEF C, D, K
        <5>6. QED
          BY <2>2, <3>2, <3>3, <3>4, <5>4, <5>5, RequestsFinite
      <4>3. QED
        BY <3>5, <4>1, <4>2
    <3>7. QED
      BY <3>6 DEF AlarmRoom
  <2>7. QED
    BY <2>5, <2>6
<1>11. QED
  BY <1>8, <1>9, <1>10 DEF Room

-----------------------------------------------------------------------------
\* The statements that let nobody in.

\* A step of one request that changes no table.
LEMMA QuietRoom ==
  ASSUME IInv, IInv', Room, NEW p \in Requests, NEW r, Become(p, r), UNCHANGED <<folders, alarms, held>>,
         Poised(r), r.pc # "folderInsert",
         r.pc \in {"siblings", "write"} =>
           /\ req[p].pc \in {"siblings", "write"} /\ r.user = req[p].user
           /\ r.folder = req[p].folder /\ r.op = req[p].op /\ r.alarm = req[p].alarm
  PROVE  Room'
<1>1. req'[p] = r /\ \A x \in Requests \ {p} : req'[x] = req[x]
  BY DEF Become, IInv, TypeOK
<1>2. HeldGrows /\ NoAlarmMoves /\ NoFolderMade
  BY DEF HeldGrows, NoAlarmMoves, NoFolderMade
<1>3. NoneAdmitted /\ NoFolderAdmitted
  BY <1>1 DEF NoneAdmitted, NoFolderAdmitted
<1>4. AllPoised'
  BY <1>1, <1>2, PoisedKept DEF Room
<1>5. QED
  BY <1>2, <1>3, <1>4, AlarmsRoomKept, FoldersRoomKept DEF Room

\* Under a write the other requests keep all that is counted of them.
LEMMA OthersGoOn ==
  ASSUME IInv, NEW p \in Requests, NEW r, Overtakes(p, r)
  PROVE  /\ req'[p] = r
         /\ \A x \in Requests \ {p} :
              /\ req'[x].pc = req[x].pc /\ req'[x].op = req[x].op /\ req'[x].user = req[x].user
              /\ req'[x].folder = req[x].folder /\ req'[x].alarm = req[x].alarm
              /\ req'[x].tier = req[x].tier
<1>1. ASSUME NEW x \in Requests \ {p}
      PROVE  /\ req'[x].pc = req[x].pc /\ req'[x].op = req[x].op /\ req'[x].user = req[x].user
             /\ req'[x].folder = req[x].folder /\ req'[x].alarm = req[x].alarm
             /\ req'[x].tier = req[x].tier
  <2>1. PICK ids : req'[x] = Overtaken(req[x], ids)
    BY DEF Overtakes, CommitAs
  <2>2. GoesOn(req[x], req'[x], ids)
    BY <2>1, Held, OvertakenKept
  <2>3. QED
    BY <2>2 DEF GoesOn
<1>2. QED
  BY <1>1 DEF Overtakes, CommitAs

\* What a write does to the requests: none is let in.
LEMMA CommitAdmits ==
  ASSUME IInv, IInv', Room, NEW p \in Requests, NEW r, Overtakes(p, r), r.pc \in {"idle", "page"},
         UNCHANGED held
  PROVE  HeldGrows /\ NoneAdmitted /\ NoFolderAdmitted /\ AllPoised'
<1>1. /\ req'[p] = r
      /\ \A x \in Requests \ {p} :
           /\ req'[x].pc = req[x].pc /\ req'[x].op = req[x].op /\ req'[x].user = req[x].user
           /\ req'[x].folder = req[x].folder /\ req'[x].alarm = req[x].alarm
           /\ req'[x].tier = req[x].tier
  BY OthersGoOn
<1>2. HeldGrows
  BY DEF HeldGrows
<1>3. NoneAdmitted /\ NoFolderAdmitted
  BY <1>1 DEF NoneAdmitted, NoFolderAdmitted
<1>4. Poised(r)
  BY DEF Poised
<1>5. \A x \in Requests : \/ Poised(req'[x])
                          \/ /\ req'[x].pc = req[x].pc /\ req'[x].op = req[x].op
                             /\ req'[x].user = req[x].user /\ req'[x].tier = req[x].tier
  BY <1>1, <1>4
<1>6. QED
  BY <1>2, <1>3, <1>5, PoisedKept DEF Room

\* A write that moves no alarm and makes no folder.
LEMMA CommitRoom ==
  ASSUME IInv, IInv', Room, NEW p \in Requests, NEW r, Overtakes(p, r), r.pc \in {"idle", "page"},
         UNCHANGED held, NoAlarmMoves, NoFolderMade
  PROVE  Room'
BY CommitAdmits, AlarmsRoomKept, FoldersRoomKept DEF Room

LEMMA BlankPoised == Poised(Blank) /\ Blank.pc = "idle"
BY DEF Poised, Blank

LEMMA ArriveRoom ==
  ASSUME IInv, IInv', Room, NEW p \in Requests, NEW u \in Users,
         \/ ArriveCreate(p, u) \/ ArriveForAlarm(p, u) \/ ArriveBulk(p, u)
         \/ ArriveList(p, u) \/ ArriveMakeFolder(p, u) \/ ArriveForFolder(p, u)
  PROVE  Room'
<1>1. PICK r : Become(p, r) /\ Arriving(r)
  BY Arrives
<1>2. UNCHANGED <<folders, alarms, held>>
  BY Arrives DEF Tables
<1>3. Poised(r) /\ r.pc \notin {"folderInsert", "siblings", "write"}
  BY <1>1 DEF Arriving, Poised
<1>4. QED
  BY <1>1, <1>2, <1>3, QuietRoom

\* The statements that only read, but for the two that count.
LEMMA ReadRoom ==
  ASSUME IInv, IInv', Rules, Room, NEW p \in Requests,
         \/ Load(p) \/ OwnsFolder(p) \/ ReadTier(p) \/ Siblings(p) \/ Owned(p)
         \/ Candidates(p) \/ Page(p) \/ FolderTier(p) \/ FolderLoad(p) \/ Fail(p)
  PROVE  Room'
<1>1. PICK q : q = req[p]
  OBVIOUS
<1>2. q \in Request /\ WellFormed(q) /\ Poised(q)
  BY <1>1, Held DEF Room, AllPoised
<1>3. UNCHANGED <<folders, alarms, held>>
  BY ReadStep DEF Tables
<1>4. SUFFICES \E r : /\ Become(p, r) /\ Poised(r) /\ r.pc # "folderInsert"
                      /\ r.pc \in {"siblings", "write"} =>
                           /\ q.pc \in {"siblings", "write"} /\ r.user = q.user
                           /\ r.folder = q.folder /\ r.op = q.op /\ r.alarm = q.alarm
  BY <1>1, <1>3, QuietRoom
<1>5. CASE Finish(p)
  BY <1>5, BlankPoised DEF Finish
<1>6. CASE Load(p) /\ ~Finish(p)
  <2>1. q.pc = "load"
    BY <1>1, <1>6 DEF Load
  <2>2. CASE q.op = "put"
    <3>1. PICK f, on, r : Become(p, r) /\ r = [q EXCEPT !.pc = "owns", !.folder = f, !.enabled = on]
      BY <1>1, <1>6, <2>2 DEF Load
    <3>2. r.pc = "owns" /\ r.op = "put"
      BY <1>2, <2>2, <3>1 DEF Request
    <3>3. QED
      BY <3>1, <3>2 DEF Poised
  <2>3. CASE q.op # "put"
    <3>1. PICK to, r : to \in {"erase", "switch"} /\ Become(p, r) /\ r = [q EXCEPT !.pc = to]
      BY <1>1, <1>6, <2>3 DEF Load
    <3>2. r.pc \in {"erase", "switch"}
      BY <1>2, <3>1 DEF Request
    <3>3. QED
      BY <3>1, <3>2 DEF Poised
  <2>4. QED
    BY <2>2, <2>3
<1>7. CASE OwnsFolder(p) /\ ~Finish(p)
  <2>1. q.pc = "owns" /\ q.op \in {"create", "put"}
    BY <1>1, <1>2, <1>7 DEF OwnsFolder, Poised
  <2>2. PICK r : Become(p, r) /\ r = [q EXCEPT !.pc = "tier"]
    BY <1>1, <1>7 DEF OwnsFolder
  <2>3. r.pc = "tier" /\ r.op = q.op
    BY <1>2, <2>2 DEF Request
  <2>4. QED
    BY <2>1, <2>2, <2>3 DEF Poised
<1>8. CASE ReadTier(p) /\ ~Finish(p)
  <2>1. q.pc = "tier" /\ q.op \in {"create", "put"}
    BY <1>1, <1>2, <1>8 DEF ReadTier, Poised
  <2>2. PICK t, s, r : Become(p, r) /\ r = [q EXCEPT !.pc = "count", !.tier = t, !.schedule = s]
    BY <1>1, <1>8 DEF ReadTier
  <2>3. r.pc = "count" /\ r.op = q.op
    BY <1>2, <2>2 DEF Request
  <2>4. QED
    BY <2>1, <2>2, <2>3 DEF Poised
<1>9. CASE Siblings(p) /\ ~Finish(p)
  <2>1. q.pc = "siblings"
    BY <1>1, <1>9 DEF Siblings
  <2>2. PICK r : Become(p, r) /\ r = [q EXCEPT !.pc = "write"]
    BY <1>1, <1>9 DEF Siblings
  <2>3. /\ r.pc = "write" /\ r.user = q.user
        /\ r.folder = q.folder /\ r.op = q.op /\ r.alarm = q.alarm
    BY <1>2, <2>2 DEF Request
  <2>4. QED
    BY <2>1, <2>2, <2>3 DEF Poised
<1>10. CASE Owned(p) /\ ~Finish(p)
  <2>1. PICK r : Become(p, r) /\ r = [q EXCEPT !.pc = "switchAll"]
    BY <1>1, <1>10 DEF Owned
  <2>2. r.pc = "switchAll"
    BY <1>2, <2>1 DEF Request
  <2>3. QED
    BY <2>1, <2>2 DEF Poised
<1>11. CASE Candidates(p)
  <2>1. PICK ids, to, r : /\ to \in {"page", "sweep"} /\ Become(p, r)
                          /\ r = [q EXCEPT !.ids = ids, !.at = now, !.pc = to]
    BY <1>1, <1>11 DEF Candidates
  <2>2. r.pc \in {"page", "sweep"}
    BY <1>2, <2>1 DEF Request
  <2>3. QED
    BY <2>1, <2>2 DEF Poised
<1>12. CASE FolderTier(p)
  <2>1. q.pc = "folderTier" /\ q.user \in Users
    BY <1>1, <1>2, <1>12 DEF FolderTier, WellFormed
  <2>2. PICK r : Become(p, r) /\ r = [q EXCEPT !.pc = "folderCount", !.tier = tier[q.user]]
    BY <1>1, <1>12 DEF FolderTier
  <2>3. r.pc = "folderCount" /\ r.user = q.user /\ r.tier = tier[q.user]
    BY <1>2, <2>2 DEF Request
  <2>4. tier[q.user] \in held[q.user]
    BY <2>1 DEF Rules, HeldNow
  <2>5. QED
    BY <2>2, <2>3, <2>4 DEF Poised
<1>13. CASE FolderLoad(p) /\ ~Finish(p)
  <2>1. PICK r : Become(p, r) /\ r = [q EXCEPT !.pc = "folderDrop"]
    BY <1>1, <1>13 DEF FolderLoad
  <2>2. r.pc = "folderDrop"
    BY <1>2, <2>1 DEF Request
  <2>3. QED
    BY <2>1, <2>2 DEF Poised
<1>14. QED
  BY <1>5, <1>6, <1>7, <1>8, <1>9, <1>10, <1>11, <1>12, <1>13 DEF Page, Fail

\* Deletes and switches leave every alarm that stays in its bucket.
LEMMA IdsRoom ==
  ASSUME IInv, IInv', Room, NEW p \in Requests, Erase(p) \/ Switch(p) \/ SwitchAll(p) \/ Sweep(p)
  PROVE  Room'
<1>1. UNCHANGED <<held, folders>>
  BY DEF Erase, Switch, SwitchAll, Sweep, Aside
<1>2. NoFolderMade
  BY <1>1 DEF NoFolderMade
<1>3. AlarmsStay
  BY WithoutStays, SwitchedStays, Held DEF Erase, Switch, SwitchAll, Sweep, Request
<1>4. NoAlarmMoves
  BY <1>3 DEF AlarmsStay, NoAlarmMoves
<1>5. \E r : Overtakes(p, r) /\ r.pc \in {"idle", "page"}
  <2>1. CASE Sweep(p)
    <3>1. PICK r : Overtakes(p, r) /\ r = [req[p] EXCEPT !.pc = "page", !.edited = {}]
      BY <2>1 DEF Sweep, Overtakes
    <3>2. r.pc = "page"
      BY <3>1, Held DEF Request
    <3>3. QED
      BY <3>1, <3>2
  <2>2. CASE ~Sweep(p)
    BY <2>2 DEF Erase, Switch, SwitchAll, Commit, Overtakes, Blank
  <2>3. QED
    BY <2>1, <2>2
<1>6. QED
  BY <1>1, <1>2, <1>4, <1>5, CommitRoom

\* So do the cascade and a new name for a folder.
LEMMA FolderRowsRoom ==
  ASSUME IInv, IInv', Room, NEW p \in Requests, Rename(p) \/ FolderDrop(p)
  PROVE  Room'
<1>1. CASE FolderDrop(p)
  <2>1. /\ AlarmsStay /\ UNCHANGED held /\ Overtakes(p, Blank)
        /\ DOMAIN folders' = DOMAIN folders \ {req[p].folder}
        /\ \A f \in DOMAIN folders' : folders'[f] = folders[f]
    BY <1>1, WithoutStays DEF FolderDrop, Commit, Overtakes
  <2>2. NoAlarmMoves /\ NoFolderMade
    BY <2>1 DEF AlarmsStay, NoAlarmMoves, NoFolderMade
  <2>3. QED
    BY <2>1, <2>2, CommitRoom, BlankPoised
<1>2. CASE Rename(p)
  <2>1. UNCHANGED <<alarms, held>> /\ NoAlarmMoves
    BY <1>2 DEF Rename, Aside, NoAlarmMoves
  <2>2. CASE UNCHANGED folders /\ Finish(p)
    BY <2>1, <2>2, QuietRoom, BlankPoised DEF Finish
  <2>3. CASE ~(UNCHANGED folders /\ Finish(p))
    <3>1. PICK name : /\ folders' = [folders EXCEPT ![req[p].folder].name = name]
                      /\ OwnFolder(req[p], req[p].folder) /\ Commit(p)
      BY <1>2, <2>3 DEF Rename
    <3>2. DOMAIN folders' = DOMAIN folders
      BY <3>1
    <3>3. ASSUME NEW f \in DOMAIN folders PROVE folders'[f].owner = folders[f].owner
      <4>1. folders[f] \in FolderRow
        BY Held
      <4>2. folders'[f] = folders[f] \/ folders'[f] = [folders[f] EXCEPT !.name = name]
        BY <3>1 DEF IInv, TypeOK
      <4>3. QED
        BY <4>1, <4>2 DEF FolderRow
    <3>4. NoFolderMade
      BY <3>2, <3>3 DEF NoFolderMade
    <3>5. Overtakes(p, Blank)
      BY <3>1 DEF Commit, Overtakes
    <3>6. QED
      BY <2>1, <3>4, <3>5, CommitRoom, BlankPoised
  <2>4. QED
    BY <2>2, <2>3
<1>3. QED
  BY <1>1, <1>2

-----------------------------------------------------------------------------
\* The writes that take a place, and give up the one they were counted for.

\* Counted in for a folder, while the user had not got them all.
LEMMA FolderCountRoom ==
  ASSUME IInv, IInv', Room, NEW p \in Requests, FolderCount(p)
  PROVE  Room'
<1>1. PICK q : q = req[p]
  OBVIOUS
<1>2. q \in Request /\ WellFormed(q) /\ Poised(q) /\ q.pc = "folderCount"
  BY <1>1, Held DEF Room, AllPoised, FolderCount
<1>3. UNCHANGED <<folders, alarms, held>>
  BY DEF FolderCount, Tables
<1>4. CASE FoldersFull(q)
  BY <1>1, <1>3, <1>4, QuietRoom, BlankPoised DEF FolderCount, Finish
<1>5. CASE ~FoldersFull(q)
  <2>1. PICK r : Become(p, r) /\ r = [q EXCEPT !.pc = "folderInsert"]
    BY <1>1, <1>5 DEF FolderCount
  <2>2. r.pc = "folderInsert" /\ r.user = q.user
    BY <1>2, <2>1 DEF Request
  <2>3. req'[p] = r /\ \A x \in Requests \ {p} : req'[x] = req[x]
    BY <2>1 DEF Become, IInv, TypeOK
  <2>4. HeldGrows /\ NoAlarmMoves /\ NoFolderMade /\ NoneAdmitted
    BY <1>3, <2>2, <2>3 DEF HeldGrows, NoAlarmMoves, NoFolderMade, NoneAdmitted
  <2>5. Poised(r)
    BY <2>2 DEF Poised
  <2>6. AllPoised' /\ RoomForAlarms'
    BY <2>3, <2>4, <2>5, PoisedKept, AlarmsRoomKept DEF Room
  <2>7. RoomForFolders'
    <3>1. SUFFICES ASSUME NEW u \in Users
                   PROVE  /\ IsFiniteSet(FoldersOf(u)')
                          /\ \A n \in Allowances : FoldersUpTo(u, n)' => FolderRoom(u, n)'
      BY DEF RoomForFolders, Allowances
    <3>2. FoldersOf(u)' = FoldersOf(u) /\ IsFiniteSet(FoldersOf(u)) /\ Cardinality(FoldersOf(u)) \in Nat
      BY <1>3, FS_CardinalityType DEF FoldersOf, Room, RoomForFolders
    <3>3. ASSUME NEW n \in Allowances, FoldersUpTo(u, n)'
          PROVE  FolderRoom(u, n)'
      <4>1. n \in Nat /\ FoldersUpTo(u, n)
        BY <1>3, <3>3, AllowancesAre DEF FoldersUpTo
      <4>2. CASE u = q.user
        <5>1. q.tier \in held[u] /\ q.tier \in Tiers
          BY <1>2, <4>2 DEF Poised, Request
        <5>2. Limits[q.tier].folders # None /\ Limits[q.tier].folders <= n
          BY <4>1, <5>1 DEF FoldersUpTo
        <5>3. Limits[q.tier].folders \in Nat
          BY <5>1, <5>2, AlarmsAssumption DEF Allowance
        <5>4. ~(Cardinality(FoldersOf(u)) >= Limits[q.tier].folders)
          BY <1>5, <4>2, <5>2 DEF FoldersFull, Reached, FoldersOf
        <5>5. Cardinality(FoldersOf(u)) < n
          BY <3>2, <4>1, <5>2, <5>3, <5>4
        <5>6. /\ Cardinality(FolderMaking(u)') \in Nat
              /\ Cardinality(FolderMaking(u)') <= Cardinality(Requests)
          <6>1. FolderMaking(u)' \in SUBSET Requests
            BY DEF FolderMaking
          <6>2. QED
            BY <6>1, RequestsFinite
        <5>7. Cardinality(FoldersOf(u)') + Cardinality(FolderMaking(u)') < n + Cardinality(Requests)
          BY <3>2, <4>1, <5>5, <5>6, RequestsFinite
        <5>8. QED
          BY <5>7 DEF FolderRoom
      <4>3. CASE u # q.user
        <5>1. FolderMaking(u)' = FolderMaking(u)
          BY <1>1, <1>2, <2>2, <2>3, <4>3 DEF FolderMaking
        <5>2. Cardinality(FoldersOf(u)) + Cardinality(FolderMaking(u)) < n + Cardinality(Requests)
          BY <4>1 DEF Room, RoomForFolders, FolderRoom
        <5>3. QED
          BY <3>2, <5>1, <5>2 DEF FolderRoom
      <4>4. QED
        BY <4>2, <4>3
    <3>4. QED
      BY <3>2, <3>3
  <2>8. QED
    BY <2>6, <2>7 DEF Room
<1>6. QED
  BY <1>4, <1>5

\* The place that an INSERT takes in the bucket is the one it was counted in for.
LEMMA PlaceTaken ==
  ASSUME IInv, NEW u, NEW f, NEW n \in Nat, AlarmRoom(u, f, n), NEW a, NEW p \in Making(u, f),
         Scope(u, f)' \cup Moving(u, f)' \subseteq (Scope(u, f) \cup Moving(u, f)) \cup {a},
         Making(u, f)' \subseteq Making(u, f) \ {p}
  PROVE  AlarmRoom(u, f, n)'
<1> DEFINE B == Scope(u, f) \cup Moving(u, f)
           C == Scope(u, f)' \cup Moving(u, f)'
           K == Making(u, f)
           L == Making(u, f)'
<1>1. IsFiniteSet(B) /\ Cardinality(B) \in Nat /\ IsFiniteSet(K) /\ Cardinality(K) \in Nat
  BY BucketFinite, PlacesFinite
<1>2. Cardinality(B) + Cardinality(K) < n + Cardinality(Requests)
  BY DEF AlarmRoom
<1>3. Cardinality(C) \in Nat /\ Cardinality(C) <= Cardinality(B) + 1
  <2>1. /\ IsFiniteSet(B \cup {a}) /\ Cardinality(B \cup {a}) \in Nat
        /\ Cardinality(B \cup {a}) <= Cardinality(B) + 1
    BY <1>1, CardAdd
  <2>2. C \subseteq B \cup {a}
    OBVIOUS
  <2> HIDE DEF B, C
  <2>3. Cardinality(C) \in Nat /\ Cardinality(C) <= Cardinality(B \cup {a})
    BY <2>1, <2>2, CardSubset
  <2>4. QED
    BY <1>1, <2>1, <2>3
<1>4. Cardinality(L) \in Nat /\ Cardinality(L) <= Cardinality(K) - 1
  <2>1. IsFiniteSet(K \ {p}) /\ Cardinality(K \ {p}) \in Nat /\ Cardinality(K \ {p}) = Cardinality(K) - 1
    BY <1>1, CardWithout
  <2>2. L \subseteq K \ {p}
    OBVIOUS
  <2> HIDE DEF K, L
  <2>3. Cardinality(L) \in Nat /\ Cardinality(L) <= Cardinality(K \ {p})
    BY <2>1, <2>2, CardSubset
  <2>4. QED
    BY <1>1, <2>1, <2>3
<1>5. Cardinality(C) + Cardinality(L) < n + Cardinality(Requests)
  <2> HIDE DEF B, C, K, L
  <2>1. QED
    BY <1>1, <1>2, <1>3, <1>4, RequestsFinite
<1>6. QED
  BY <1>5 DEF AlarmRoom

LEMMA InsertRoom ==
  ASSUME IInv, IInv', Room, NEW p \in Requests, Insert(p)
  PROVE  Room'
<1> DEFINE q == req[p]
<1>1. q \in Request /\ WellFormed(q) /\ Claim(q) /\ q.pc = "write" /\ q.op = "create"
  BY Held DEF Insert
<1>2. UNCHANGED <<folders, held>>
  BY DEF Insert
<1>3. PICK a \in Alarms \ issued, name \in Names, sd \in BOOLEAN :
        IF Refused(q, name) THEN Finish(p) /\ UNCHANGED <<alarms, issued>>
        ELSE /\ alarms' = [b \in DOMAIN alarms \cup {a} |->
                  IF b = a THEN [owner |-> q.user, folder |-> q.folder, name |-> name,
                                 schedule |-> q.schedule, enabled |-> q.enabled,
                                 selfDestruct |-> sd, vetted |-> Vetted(q)]
                  ELSE alarms[b]]
             /\ issued' = issued \cup {a}
             /\ Commit(p)
  BY DEF Insert
<1>4. CASE Refused(q, name)
  BY <1>2, <1>3, <1>4, QuietRoom, BlankPoised DEF Finish
<1>5. CASE ~Refused(q, name)
  <2>1. Overtakes(p, Blank)
    BY <1>3, <1>5 DEF Commit, Overtakes
  <2>2. /\ DOMAIN alarms' = DOMAIN alarms \cup {a}
        /\ alarms'[a].owner = q.user /\ alarms'[a].folder = q.folder
        /\ \A b \in DOMAIN alarms \ {a} : alarms'[b] = alarms[b]
    BY <1>3, <1>5
  <2>3. q.folder # None => q.folder \in DOMAIN folders /\ folders[q.folder].owner = q.user
    BY <1>1, <1>5 DEF Refused, Claim, FilesInto
  <2>4. NoFolderMade
    BY <1>2 DEF NoFolderMade
  <2>5. HeldGrows /\ NoneAdmitted /\ NoFolderAdmitted /\ AllPoised'
    BY <1>2, <2>1, CommitAdmits, BlankPoised
  <2>6. RoomForFolders'
    BY <2>4, <2>5, FoldersRoomKept DEF Room
  <2>7. RoomForAlarms'
    <3>1. SUFFICES ASSUME NEW u \in Users, NEW n \in Allowances, AlarmsUpTo(u, n)',
                          NEW f \in {None} \cup FoldersOf(u)'
                   PROVE  AlarmRoom(u, f, n)'
      BY DEF RoomForAlarms, Allowances
    <3>2. AlarmsUpTo(u, n) /\ f \in {None} \cup FoldersOf(u) /\ n \in Nat
      BY <1>2, <2>5, <3>1, HadNoMore, AllowancesAre DEF FoldersOf
    <3>3. AlarmRoom(u, f, n)
      BY <3>2 DEF Room, RoomForAlarms
    <3>4. Moving(u, f)' \subseteq Moving(u, f) /\ Making(u, f)' \subseteq Making(u, f)
      BY <2>5, AdmittedKept
    <3>5. CASE u = q.user /\ f = q.folder
      <4>1. Scope(u, f)' \subseteq Scope(u, f) \cup {a}
        BY <2>2 DEF Scope
      <4>2. p \in Making(u, f)
        BY <1>1, <3>5 DEF Making, Admitted
      <4>3. p \notin Making(u, f)'
        BY <2>1, OthersGoOn, BlankPoised DEF Making, Admitted
      <4>4. QED
        BY <3>2, <3>3, <3>4, <4>1, <4>2, <4>3, PlaceTaken
    <3>6. CASE ~(u = q.user /\ f = q.folder)
      <4>1. a \notin Scope(u, f)'
        BY <2>2, <2>3, <3>2, <3>6 DEF Scope, FoldersOf
      <4>2. Scope(u, f)' \subseteq Scope(u, f)
        BY <2>2, <4>1 DEF Scope
      <4>3. QED
        BY <3>2, <3>3, <3>4, <4>2, BucketKept
    <3>7. QED
      BY <3>5, <3>6
  <2>8. QED
    BY <2>5, <2>6, <2>7 DEF Room
<1>6. QED
  BY <1>4, <1>5

\* An UPDATE moves an alarm that was counted where it goes.
LEMMA UpdateRoom ==
  ASSUME IInv, IInv', Room, NEW p \in Requests, Update(p)
  PROVE  Room'
<1>1. PICK q : q = req[p]
  OBVIOUS
<1>2. q \in Request /\ WellFormed(q) /\ Claim(q) /\ q.pc = "write" /\ q.op = "put"
  BY <1>1, Held DEF Update
<1>3. UNCHANGED <<folders, held>>
  BY DEF Update, Aside
<1>4. PICK name \in Names, sd \in BOOLEAN :
        IF q.alarm \notin DOMAIN alarms \/ Refused(q, name)
        THEN Finish(p) /\ UNCHANGED alarms
        ELSE /\ alarms' = [alarms EXCEPT ![q.alarm] =
                  [@ EXCEPT !.folder = q.folder, !.name = name, !.schedule = q.schedule,
                            !.selfDestruct = sd, !.vetted = Vetted(q)]]
             /\ CommitAs(p, Blank, {q.alarm})
  BY <1>1 DEF Update
<1>5. CASE q.alarm \notin DOMAIN alarms \/ Refused(q, name)
  BY <1>3, <1>4, <1>5, QuietRoom, BlankPoised DEF Finish
<1>6. CASE q.alarm \in DOMAIN alarms /\ ~Refused(q, name)
  <2> DEFINE a == q.alarm
  <2>1. Overtakes(p, Blank)
    BY <1>4, <1>6 DEF Commit, Overtakes
  <2>2. alarms[a] \in AlarmRow /\ alarms[a].owner = q.user
    BY <1>2, <1>6, Held DEF Claim, WritesTo
  <2>3. PICK row : /\ alarms' = [alarms EXCEPT ![a] = row]
                   /\ row = [alarms[a] EXCEPT !.folder = q.folder, !.name = name, !.schedule = q.schedule,
                                              !.selfDestruct = sd, !.vetted = Vetted(q)]
    BY <1>4, <1>6
  <2>4. row.owner = q.user /\ row.folder = q.folder
    BY <2>2, <2>3 DEF AlarmRow
  <2>5. /\ DOMAIN alarms' = DOMAIN alarms /\ alarms'[a].owner = q.user /\ alarms'[a].folder = q.folder
        /\ \A b \in DOMAIN alarms \ {a} : alarms'[b] = alarms[b]
    BY <1>6, <2>3, <2>4 DEF IInv, TypeOK
  <2>6. q.folder # None => q.folder \in DOMAIN folders /\ folders[q.folder].owner = q.user
    BY <1>2, <1>6 DEF Refused, Claim, FilesInto
  <2>7. NoFolderMade
    BY <1>3 DEF NoFolderMade
  <2>8. HeldGrows /\ NoneAdmitted /\ NoFolderAdmitted /\ AllPoised'
    BY <1>3, <2>1, CommitAdmits, BlankPoised
  <2>9. RoomForFolders'
    BY <2>7, <2>8, FoldersRoomKept DEF Room
  <2>10. RoomForAlarms'
    <3>1. SUFFICES ASSUME NEW u \in Users, NEW n \in Allowances, AlarmsUpTo(u, n)',
                          NEW f \in {None} \cup FoldersOf(u)'
                   PROVE  AlarmRoom(u, f, n)'
      BY DEF RoomForAlarms, Allowances
    <3>2. AlarmsUpTo(u, n) /\ f \in {None} \cup FoldersOf(u) /\ n \in Nat
      BY <1>3, <2>8, <3>1, HadNoMore, AllowancesAre DEF FoldersOf
    <3>3. AlarmRoom(u, f, n)
      BY <3>2 DEF Room, RoomForAlarms
    <3>4. Moving(u, f)' \subseteq Moving(u, f) /\ Making(u, f)' \subseteq Making(u, f)
      BY <2>8, AdmittedKept
    <3>5. Scope(u, f)' \subseteq Scope(u, f) \cup {a}
      BY <2>5 DEF Scope
    <3>6. CASE u = q.user /\ f = q.folder
      <4>1. a \in Moving(u, f)
        BY <1>1, <1>2, <3>6 DEF Moving, Movers, Admitted
      <4>2. QED
        BY <3>2, <3>3, <3>4, <3>5, <4>1, BucketKept
    <3>7. CASE ~(u = q.user /\ f = q.folder)
      <4>1. a \notin Scope(u, f)'
        BY <2>5, <2>6, <3>2, <3>7 DEF Scope, FoldersOf
      <4>2. Scope(u, f)' \subseteq Scope(u, f)
        BY <3>5, <4>1
      <4>3. QED
        BY <3>2, <3>3, <3>4, <4>2, BucketKept
    <3>8. QED
      BY <3>6, <3>7
  <2>11. QED
    BY <2>8, <2>9, <2>10 DEF Room
<1>7. QED
  BY <1>5, <1>6

\* A folder that has just been made holds no alarm, and nobody has been counted for it.
LEMMA FolderInsertRoom ==
  ASSUME IInv, IInv', Room, NEW p \in Requests, FolderInsert(p)
  PROVE  Room'
<1> DEFINE q == req[p]
<1>1. q \in Request /\ WellFormed(q) /\ q.pc = "folderInsert"
  BY Held DEF FolderInsert
<1>2. UNCHANGED <<alarms, held>>
  BY DEF FolderInsert
<1>3. PICK f \in Folders \ issued, name \in Names :
        IF FolderNameTaken(q.user, None, name)
        THEN Finish(p) /\ UNCHANGED <<folders, issued>>
        ELSE /\ folders' = [g \in DOMAIN folders \cup {f} |->
                  IF g = f THEN [owner |-> q.user, name |-> name] ELSE folders[g]]
             /\ issued' = issued \cup {f}
             /\ Commit(p)
  BY DEF FolderInsert
<1>4. CASE FolderNameTaken(q.user, None, name)
  BY <1>2, <1>3, <1>4, QuietRoom, BlankPoised DEF Finish
<1>5. CASE ~FolderNameTaken(q.user, None, name)
  <2>1. Overtakes(p, Blank)
    BY <1>3, <1>5 DEF Commit, Overtakes
  <2>2. /\ DOMAIN folders' = DOMAIN folders \cup {f} /\ f \notin DOMAIN folders
        /\ folders'[f].owner = q.user /\ \A g \in DOMAIN folders : folders'[g] = folders[g]
    BY <1>3, <1>5 DEF IInv, KnownIds
  <2>3. HeldGrows /\ NoneAdmitted /\ NoFolderAdmitted /\ AllPoised'
    BY <1>2, <2>1, CommitAdmits, BlankPoised
  <2>4. RoomForAlarms'
    <3>1. SUFFICES ASSUME NEW u \in Users, NEW n \in Allowances, AlarmsUpTo(u, n)',
                          NEW g \in {None} \cup FoldersOf(u)'
                   PROVE  AlarmRoom(u, g, n)'
      BY DEF RoomForAlarms, Allowances
    <3>2. AlarmsUpTo(u, n) /\ n \in Nat
      BY <2>3, <3>1, HadNoMore, AllowancesAre
    <3>3. CASE g = f
      <4>1. f # None
        BY AlarmsAssumption
      <4>2. Scope(u, g)' = {}
        BY <1>2, <2>2, <3>3, <4>1 DEF Scope, IInv, FiledWithOwner
      <4>3. ASSUME NEW x \in Requests, req[x].pc \in {"siblings", "write"}, req[x].folder = f
            PROVE  FALSE
        <5>1. f \in FilesInto(req[x])
          BY <4>1, <4>3 DEF FilesInto
        <5>2. QED
          BY <1>3, <5>1, Held DEF Claim
      <4>4. Admitted(u, g)' = {}
        BY <2>3, <3>3, <4>3 DEF Admitted, NoneAdmitted
      <4>5. Scope(u, g)' \cup Moving(u, g)' = {} /\ Making(u, g)' = {}
        BY <4>2, <4>4 DEF Moving, Movers, Making
      <4>6. Cardinality({}) = 0
        BY FS_EmptySet
      <4>7. 0 + 0 < n + Cardinality(Requests)
        BY <3>2, RequestsFinite
      <4>8. QED
        BY <4>5, <4>6, <4>7 DEF AlarmRoom
    <3>4. CASE g # f
      <4>1. g \in {None} \cup FoldersOf(u)
        BY <2>2, <3>1, <3>4 DEF FoldersOf
      <4>2. AlarmRoom(u, g, n)
        BY <3>2, <4>1 DEF Room, RoomForAlarms
      <4>3. Scope(u, g)' \subseteq Scope(u, g)
        BY <1>2 DEF Scope
      <4>4. QED
        BY <2>3, <3>2, <4>2, <4>3, AdmittedKept, BucketKept
    <3>5. QED
      BY <3>3, <3>4
  <2>5. RoomForFolders'
    <3>1. SUFFICES ASSUME NEW u \in Users
                   PROVE  /\ IsFiniteSet(FoldersOf(u)')
                          /\ \A n \in Allowances : FoldersUpTo(u, n)' => FolderRoom(u, n)'
      BY DEF RoomForFolders, Allowances
    <3>2. IsFiniteSet(FoldersOf(u)) /\ Cardinality(FoldersOf(u)) \in Nat
      BY FS_CardinalityType DEF Room, RoomForFolders
    <3>3. IsFiniteSet(FolderMaking(u)) /\ Cardinality(FolderMaking(u)) \in Nat
      BY PlacesFinite
    <3>4. FolderMaking(u)' \subseteq FolderMaking(u)
      BY <2>3 DEF FolderMaking, NoFolderAdmitted
    <3>5. /\ Cardinality(FolderMaking(u)') \in Nat
          /\ Cardinality(FolderMaking(u)') <= Cardinality(FolderMaking(u))
      BY <3>3, <3>4, CardSubset
    <3>6. CASE u = q.user
      <4>1. FoldersOf(u)' \subseteq FoldersOf(u) \cup {f}
        BY <2>2 DEF FoldersOf
      <4>2. /\ IsFiniteSet(FoldersOf(u) \cup {f}) /\ Cardinality(FoldersOf(u) \cup {f}) \in Nat
            /\ Cardinality(FoldersOf(u) \cup {f}) <= Cardinality(FoldersOf(u)) + 1
        BY <3>2, CardAdd
      <4>3. /\ IsFiniteSet(FoldersOf(u)') /\ Cardinality(FoldersOf(u)') \in Nat
            /\ Cardinality(FoldersOf(u)') <= Cardinality(FoldersOf(u) \cup {f})
        BY <4>1, <4>2, CardSubset
      <4>4. p \in FolderMaking(u)
        BY <1>1, <3>6 DEF FolderMaking
      <4>5. p \notin FolderMaking(u)'
        BY <2>1, OthersGoOn, BlankPoised DEF FolderMaking
      <4>6. /\ IsFiniteSet(FolderMaking(u) \ {p}) /\ Cardinality(FolderMaking(u) \ {p}) \in Nat
            /\ Cardinality(FolderMaking(u) \ {p}) = Cardinality(FolderMaking(u)) - 1
        BY <3>3, <4>4, CardWithout
      <4>7. FolderMaking(u)' \subseteq FolderMaking(u) \ {p}
        BY <3>4, <4>5
      <4>8. Cardinality(FolderMaking(u)') <= Cardinality(FolderMaking(u)) - 1
        BY <4>6, <4>7, CardSubset
      <4>9. ASSUME NEW n \in Allowances, FoldersUpTo(u, n)'
            PROVE  FolderRoom(u, n)'
        <5>1. n \in Nat /\ Cardinality(FoldersOf(u)) + Cardinality(FolderMaking(u)) < n + Cardinality(Requests)
          BY <2>3, <4>9, HadNoMore, AllowancesAre DEF Room, RoomForFolders, FolderRoom
        <5>2. Cardinality(FoldersOf(u)') + Cardinality(FolderMaking(u)') < n + Cardinality(Requests)
          BY <3>2, <3>3, <3>5, <4>2, <4>3, <4>8, <5>1, RequestsFinite
        <5>3. QED
          BY <5>2 DEF FolderRoom
      <4>10. QED
        BY <4>3, <4>9
    <3>7. CASE u # q.user
      <4>1. FoldersOf(u)' = FoldersOf(u)
        BY <2>2, <3>7 DEF FoldersOf
      <4>2. ASSUME NEW n \in Allowances, FoldersUpTo(u, n)'
            PROVE  FolderRoom(u, n)'
        <5>1. n \in Nat /\ Cardinality(FoldersOf(u)) + Cardinality(FolderMaking(u)) < n + Cardinality(Requests)
          BY <2>3, <4>2, HadNoMore, AllowancesAre DEF Room, RoomForFolders, FolderRoom
        <5>2. Cardinality(FoldersOf(u)) + Cardinality(FolderMaking(u)') < n + Cardinality(Requests)
          BY <3>2, <3>3, <3>5, <5>1, RequestsFinite
        <5>3. QED
          BY <4>1, <5>2 DEF FolderRoom
      <4>3. QED
        BY <3>2, <4>1, <4>2
    <3>8. QED
      BY <3>6, <3>7
  <2>6. QED
    BY <2>3, <2>4, <2>5 DEF Room
<1>6. QED
  BY <1>4, <1>5

\* A tier more to have had makes no bound lower.
LEMMA AsideRoom ==
  ASSUME IInv, IInv', Room, (\E u \in Users : SetTier(u)) \/ Tick \/ UNCHANGED vars
  PROVE  Room'
<1>1. UNCHANGED <<folders, alarms, req>> /\ HeldGrows
  <2>1. CASE \E u \in Users : SetTier(u)
    BY <2>1 DEF SetTier, HeldGrows, IInv, TypeOK
  <2>2. CASE Tick \/ UNCHANGED vars
    BY <2>2 DEF Tick, Tables, vars, HeldGrows
  <2>3. QED
    BY <2>1, <2>2
<1>2. NoneAdmitted /\ NoFolderAdmitted /\ NoAlarmMoves /\ NoFolderMade
  BY <1>1 DEF NoneAdmitted, NoFolderAdmitted, NoAlarmMoves, NoFolderMade
<1>3. AllPoised'
  BY <1>1, PoisedKept DEF Room
<1>4. QED
  BY <1>1, <1>2, <1>3, AlarmsRoomKept, FoldersRoomKept DEF Room

-----------------------------------------------------------------------------
\* No alarms, and no more than one folder each, within what the tier allows.
LEMMA InitRoom == Init => Room
<1> SUFFICES ASSUME Init PROVE Room
  OBVIOUS
<1>1. /\ alarms = [a \in {} |-> None] /\ \A p \in Requests : req[p] = Blank
      /\ held = [u \in Users |-> {"basic"}] /\ Limits["basic"].folders # 0
      /\ \A f, g \in DOMAIN folders : f # g => folders[f].owner # folders[g].owner
  BY DEF Init
<1>2. AllPoised
  BY <1>1, BlankPoised DEF AllPoised
<1>3. Cardinality({}) = 0 /\ IsFiniteSet({})
  BY FS_EmptySet
<1>4. RoomForAlarms
  <2>1. SUFFICES ASSUME NEW u \in Users, NEW n \in Allowances, NEW f PROVE AlarmRoom(u, f, n)
    BY DEF RoomForAlarms
  <2>2. Admitted(u, f) = {} /\ Scope(u, f) = {}
    BY <1>1, BlankPoised DEF Admitted, Scope
  <2>3. Scope(u, f) \cup Moving(u, f) = {} /\ Making(u, f) = {}
    BY <2>2 DEF Moving, Movers, Making
  <2>4. 0 + 0 < n + Cardinality(Requests)
    BY AllowancesAre, RequestsFinite
  <2>5. QED
    BY <1>3, <2>3, <2>4 DEF AlarmRoom
<1>5. RoomForFolders
  <2>1. SUFFICES ASSUME NEW u \in Users
                 PROVE  /\ IsFiniteSet(FoldersOf(u))
                        /\ \A n \in Allowances : FoldersUpTo(u, n) => FolderRoom(u, n)
    BY DEF RoomForFolders
  <2>2. FolderMaking(u) = {}
    BY <1>1, BlankPoised DEF FolderMaking
  <2>3. \E f : FoldersOf(u) \subseteq {f}
    BY <1>1 DEF FoldersOf
  <2>4. IsFiniteSet(FoldersOf(u)) /\ Cardinality(FoldersOf(u)) \in Nat /\ Cardinality(FoldersOf(u)) <= 1
    <3>1. PICK f : FoldersOf(u) \subseteq {f}
      BY <2>3
    <3>2. IsFiniteSet({f}) /\ Cardinality({f}) = 1
      BY FS_Singleton
    <3>3. QED
      BY <3>1, <3>2, CardSubset
  <2>5. ASSUME NEW n \in Allowances, FoldersUpTo(u, n)
        PROVE  FolderRoom(u, n)
    <3>1. Limits["basic"].folders # None /\ Limits["basic"].folders <= n
      BY <1>1, <2>5 DEF FoldersUpTo
    <3>2. Limits["basic"].folders \in Nat
      BY <3>1, AlarmsAssumption DEF Allowance, Tiers
    <3>3. Cardinality(FoldersOf(u)) + 0 < n + Cardinality(Requests)
      BY <1>1, <2>4, <3>1, <3>2, AllowancesAre, RequestsFinite
    <3>4. QED
      BY <1>3, <2>2, <3>3 DEF FolderRoom
  <2>6. QED
    BY <2>4, <2>5
<1>6. QED
  BY <1>2, <1>4, <1>5 DEF Room

LEMMA NextRoom == IInv /\ Rules /\ Room /\ [Next]_vars => Room'
<1> SUFFICES ASSUME IInv, Rules, Room, [Next]_vars PROVE Room'
  OBVIOUS
<1>1. IInv'
  BY NextKeeps
<1>2. ASSUME NEW p \in Requests, NEW u \in Users,
             \/ ArriveCreate(p, u) \/ ArriveForAlarm(p, u) \/ ArriveBulk(p, u)
             \/ ArriveList(p, u) \/ ArriveMakeFolder(p, u) \/ ArriveForFolder(p, u)
      PROVE  Room'
  BY <1>1, <1>2, ArriveRoom
<1>3. ASSUME NEW p \in Requests,
             \/ Load(p) \/ OwnsFolder(p) \/ ReadTier(p) \/ Siblings(p) \/ Owned(p)
             \/ Candidates(p) \/ Page(p) \/ FolderTier(p) \/ FolderLoad(p) \/ Fail(p)
      PROVE  Room'
  BY <1>1, <1>3, ReadRoom
<1>4. ASSUME NEW p \in Requests, Count(p)
      PROVE  Room'
  <2>1. CASE Finish(p)
    BY <1>1, <1>4, <2>1, QuietRoom, BlankPoised DEF Count, Finish, Tables
  <2>2. CASE ~Finish(p)
    <3>1. PICK q : q = req[p]
      OBVIOUS
    <3>2. PICK r : /\ Become(p, r)
                   /\ r = [q EXCEPT !.pc = "siblings", !.at = now] \/ r = [q EXCEPT !.pc = "write"]
      BY <1>4, <2>2, <3>1 DEF Count
    <3>3. r.pc # "idle"
      BY <3>1, <3>2, Held DEF Request
    <3>4. req'[p] = r
      BY <3>2 DEF Become, IInv, TypeOK
    <3>5. QED
      BY <1>1, <1>4, <3>3, <3>4, CountRoom
  <2>3. QED
    BY <2>1, <2>2
<1>5. ASSUME NEW p \in Requests, Erase(p) \/ Switch(p) \/ SwitchAll(p) \/ Sweep(p)
      PROVE  Room'
  BY <1>1, <1>5, IdsRoom
<1>6. ASSUME NEW p \in Requests, Insert(p) \/ Update(p)
      PROVE  Room'
  BY <1>1, <1>6, InsertRoom, UpdateRoom
<1>7. ASSUME NEW p \in Requests, FolderCount(p) \/ FolderInsert(p)
      PROVE  Room'
  BY <1>1, <1>7, FolderCountRoom, FolderInsertRoom
<1>8. ASSUME NEW p \in Requests, Rename(p) \/ FolderDrop(p)
      PROVE  Room'
  BY <1>1, <1>8, FolderRowsRoom
<1>9. CASE (\E u \in Users : SetTier(u)) \/ Tick \/ UNCHANGED vars
  BY <1>1, <1>9, AsideRoom
<1>10. QED
  BY <1>2, <1>3, <1>4, <1>5, <1>6, <1>7, <1>8, <1>9 DEF Next

\* There is room for what has been counted in, at every moment.
THEOREM RoomForTheCounted == Spec => []Room
<1>1. Init => Room
  BY InitRoom
<1>2. IInv /\ Rules /\ Room /\ [Next]_vars => Room'
  BY NextRoom
<1>3. QED
  BY <1>1, <1>2, AlarmsInvariant, RulesHold, PTL DEF Spec

\* However its requests interleave, a user overruns the largest allowance of the
\* tiers had by fewer alarms to a bucket, and fewer folders, than requests are in flight.
THEOREM OvershootStaysBounded == Spec => []OvershootBounded
<1>1. IInv /\ Room => OvershootBounded
  <2> SUFFICES ASSUME IInv, Room PROVE OvershootBounded
    OBVIOUS
  <2>1. ASSUME NEW u \in Users, NEW n \in Allowances, AlarmsUpTo(u, n), NEW f \in {None} \cup FoldersOf(u)
        PROVE  Cardinality(Scope(u, f)) < n + Cardinality(Requests)
    <3> DEFINE B == Scope(u, f) \cup Moving(u, f)
    <3>1. Cardinality(B) + Cardinality(Making(u, f)) < n + Cardinality(Requests)
      BY <2>1 DEF Room, RoomForAlarms, AlarmRoom
    <3>2. Cardinality(B) \in Nat /\ Cardinality(Making(u, f)) \in Nat
      BY BucketFinite, PlacesFinite
    <3>3. Cardinality(Scope(u, f)) \in Nat /\ Cardinality(Scope(u, f)) <= Cardinality(B)
      <4>1. IsFiniteSet(B)
        BY BucketFinite
      <4>2. QED
        BY <4>1, CardSubset
    <3> HIDE DEF B
    <3>4. QED
      BY <3>1, <3>2, <3>3, AllowancesAre, RequestsFinite
  <2>2. ASSUME NEW u \in Users, NEW n \in Allowances, FoldersUpTo(u, n)
        PROVE  Cardinality(FoldersOf(u)) < n + Cardinality(Requests)
    <3>1. Cardinality(FoldersOf(u)) + Cardinality(FolderMaking(u)) < n + Cardinality(Requests)
      BY <2>2 DEF Room, RoomForFolders, FolderRoom
    <3>2. Cardinality(FoldersOf(u)) \in Nat /\ Cardinality(FolderMaking(u)) \in Nat
      BY PlacesFinite, FS_CardinalityType DEF Room, RoomForFolders
    <3>3. QED
      BY <3>1, <3>2, AllowancesAre, RequestsFinite
  <2>3. QED
    BY <2>1, <2>2 DEF OvershootBounded
<1>2. QED
  BY <1>1, AlarmsInvariant, RoomForTheCounted, PTL
=============================================================================
