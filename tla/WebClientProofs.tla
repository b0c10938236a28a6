--------------------------- MODULE WebClientProofs ---------------------------
(***************************************************************************)
(* Theorems about WebClient, for every set of alarms and texts, every      *)
(* number of writes on the wire and every session of its user.             *)
(*                                                                         *)
(* What a page shows is behind what the server has while writes are under  *)
(* way.  The invariant says by how much: which of them have reached the    *)
(* server and not the page, which reading brings what they changed, and    *)
(* that a reading which began too early is either begun again or known to  *)
(* be unclean.                                                             *)
(***************************************************************************)
EXTENDS WebClient, TLAPS

Kinds  == {"saveDraft", "discard", "discardCreated", "leave",
           "toggle", "bulk", "delete", "create", "edit"}
Stages == {"sent", "ok", "refused", "lost"}

Saved == [saved : Drafts \cup {None}]

\* What a write says, by its kind.
Says(w) ==
  /\ w.kind = "saveDraft" => w.arg \in Drafts
  /\ w.kind = "create"    => w.arg \in [text : Texts]
  /\ w.kind = "edit"      => w.arg \in [alarm : Alarms, text : Texts]
  /\ w.kind = "toggle"    => w.arg \in [alarm : Alarms, enabled : BOOLEAN, previous : Table]
  /\ w.kind = "bulk"      => w.arg \in [alarms : SUBSET Alarms, enabled : BOOLEAN]
  /\ w.kind = "delete"    => w.arg \in [alarm : Alarms]
  /\ w.kind = "toggle" /\ w.stage = "ok" => w.reply \in Rows

Written(w) ==
  /\ w = [slot |-> w.slot, kind |-> w.kind, arg |-> w.arg, stage |-> w.stage,
          reply |-> w.reply, heard |-> w.heard, here |-> w.here]
  /\ w.kind \in Kinds /\ w.stage \in Stages /\ w.heard \in BOOLEAN
  /\ Says(w)

\* What reading q may bring.
Brings(q) ==
  IF q = "list" THEN Table ELSE IF q = "draft" THEN Saved ELSE Texts

\* What may be cached of it.
Holds(q) == Brings(q) \cup {None} \cup IF q = "draft" THEN {Failed} ELSE {}

Reading(q, f) ==
  /\ f = [stage |-> f.stage, data |-> f.data, clean |-> f.clean]
  /\ f.stage \in {"idle", "sent", "served"} /\ f.clean \in BOOLEAN
  /\ f.data \in Brings(q) \cup {None}

UiRow == [page : {"list", "create", "edit"}, target : Alarms \cup {None}, form : Texts \cup {None},
          step : 1..LastStep, hydrated : BOOLEAN, submitting : BOOLEAN, selected : SUBSET Alarms]

\* Past its first step a wizard has something to write, and an editor its alarm.
Opened(u) ==
  /\ u \in UiRow
  /\ u.step # 1 => u.form # None
  /\ u.page = "edit" => u.target \in Alarms

TablesTyped == alarms \in Table /\ draft \in Drafts \cup {None}
WireTyped   == \A w \in wire : Written(w)
FetchTyped  == fetch = [q \in Queries |-> fetch[q]] /\ \A q \in Queries : Reading(q, fetch[q])
CacheTyped  == cache = [q \in Queries |-> cache[q]] /\ \A q \in Queries : cache[q] \in Holds(q)
RacesTyped  == draftMissed \in BOOLEAN /\ listRaced \in BOOLEAN

Typed == TablesTyped /\ WireTyped /\ FetchTyped /\ CacheTyped /\ Opened(ui) /\ RacesTyped

-----------------------------------------------------------------------------
\* The draft is one of those that were meant, or will be when what is on its way is served.
DraftMeant ==
  /\ \A w \in DraftWrites : w.stage = "sent" => Meant(w) \in meant
  /\ (\A w \in DraftWrites : w.stage # "sent") => draft \in meant

\* What has been read of it lags behind only by writes whose answer is still to come,
\* and where a reading or the cache is known to have missed one.
DraftRead ==
  (\A w \in DraftWrites : w.stage # "ok") =>
    /\ fetch.draft.stage = "served" /\ fetch.draft.clean => fetch.draft.data = [saved |-> draft]
    /\ fetch.draft.stage = "idle" /\ ui.page # "edit" /\ ~draftMissed => cache.draft = [saved |-> draft]

DraftFollows == DraftMeant /\ DraftRead

-----------------------------------------------------------------------------
\* A reading of the list is clean while it misses nothing.
CleanReading ==
  fetch.list.stage # "idle" /\ fetch.list.clean =>
    /\ ListWrites = {}
    /\ fetch.list.stage = "served" => fetch.list.data = alarms

OnScreen == ui.page = "list" /\ fetch.list.stage = "idle"

\* The list that a toggle makes of the one it was made on.
Flipped(w) == [w.arg.previous EXCEPT ![w.arg.alarm].enabled = w.arg.enabled]

\* A toggle is alone.  The page is ahead of the server until it is served, and what it
\* would go back to is what the server has.
ToggleAlone(w) ==
  /\ ListWrites = {w}
  /\ w.arg.previous[w.arg.alarm] # None
  /\ cache.list = Flipped(w)
  /\ IF w.stage = "ok" THEN alarms = Flipped(w) /\ w.reply = alarms[w.arg.alarm]
                       ELSE alarms = w.arg.previous

\* On screen the list is behind only by what has been served and will be read again.
ListRead ==
  OnScreen =>
    /\ \A w \in ListWrites : w.kind \notin {"create", "edit"}
    /\ Toggles = {} /\ (\A w \in ListWrites : w.stage # "ok") => cache.list = alarms

\* A toggle was made on a list that is still there when its answer comes.
ListFollows ==
  /\ \A w \in Toggles : w.heard => cache.list # None
  /\ ~listRaced =>
       /\ \A w \in ListWrites : w.heard
       /\ \A w \in Toggles : ToggleAlone(w)
       /\ ListRead

IInv == Typed /\ DraftFollows /\ CleanReading /\ ListFollows

-----------------------------------------------------------------------------
\* What the operations of the model leave of their arguments.

\* A write on the wire whose page is left stays what it is.
Alike(v, w) ==
  /\ v.kind = w.kind /\ v.arg = w.arg /\ v.stage = w.stage /\ v.reply = w.reply
  /\ v.heard = w.heard

LEMMA LeftIs ==
  ASSUME NEW w, Written(w), NEW v, v = [w EXCEPT !.here = FALSE]
  PROVE  Written(v) /\ Alike(v, w)
<1>1. Alike(v, w) /\ v = [slot |-> v.slot, kind |-> v.kind, arg |-> v.arg, stage |-> v.stage,
                          reply |-> v.reply, heard |-> v.heard, here |-> v.here]
  BY DEF Written, Alike
<1>2. Says(v)
  BY <1>1 DEF Written, Says, Alike
<1>3. QED
  BY <1>1, <1>2 DEF Written, Alike

\* The wire is X, or X after the page that sent it has been left.
Posted(X) == (\A w \in X : Written(w)) /\ (wire' = X \/ wire' = Left(X))

DraftKinds == {"saveDraft", "discard", "discardCreated"}
ListKinds  == {"toggle", "bulk", "delete", "create", "edit"}
DraftsIn(X) == {w \in X : w.kind \in DraftKinds}
ListIn(X)   == {w \in X : w.kind \in ListKinds}

LEMMA PostedIs ==
  ASSUME NEW X, Posted(X)
  PROVE  /\ WireTyped'
         /\ \A v \in wire' : \E w \in X : Alike(v, w)
         /\ \A w \in X : \E v \in wire' : Alike(v, w)
<1>1. ASSUME NEW v \in wire'
      PROVE  Written(v) /\ \E w \in X : Alike(v, w)
  BY LeftIs DEF Posted, Left, Alike
<1>2. ASSUME NEW w \in X
      PROVE  \E v \in wire' : Alike(v, w)
  BY LeftIs DEF Posted, Left, Alike
<1>3. WireTyped'
  <2>1. SUFFICES ASSUME NEW v \in wire' PROVE Written(v)'
    BY DEF WireTyped
  <2>2. Written(v)
    BY <1>1
  <2>3. QED
    BY <2>2 DEF Written, Says, Rows, Drafts, Table, Kinds, Stages
<1>4. QED
  BY <1>1, <1>2, <1>3

\* What was alone stays so.
LEMMA PostedAlone ==
  ASSUME NEW X, Posted(X)
  PROVE  /\ (\A v, w \in DraftsIn(X) : v = w) => \A v, w \in DraftsIn(wire') : v = w
         /\ \A w : ListIn(X) = {w} => \E v : ListIn(wire') = {v} /\ Alike(v, w)
<1>1. CASE wire' = X
  BY <1>1 DEF Alike
<1>2. CASE wire' = Left(X)
  <2>1. ASSUME \A v, w \in DraftsIn(X) : v = w, NEW v \in DraftsIn(wire'), NEW w \in DraftsIn(wire')
        PROVE  v = w
    <3>1. PICK a \in X : v = [a EXCEPT !.here = FALSE]
      BY <1>2, <2>1 DEF Left, DraftsIn
    <3>2. PICK b \in X : w = [b EXCEPT !.here = FALSE]
      BY <1>2, <2>1 DEF Left, DraftsIn
    <3>3. v.kind = a.kind /\ w.kind = b.kind
      BY <3>1, <3>2, LeftIs DEF Posted, Alike
    <3>4. a = b
      BY <2>1, <3>3 DEF DraftsIn
    <3>5. QED
      BY <3>1, <3>2, <3>4
  <2>2. ASSUME NEW w, ListIn(X) = {w}
        PROVE  \E v : ListIn(wire') = {v} /\ Alike(v, w)
    <3>1. PICK v : v = [w EXCEPT !.here = FALSE]
      OBVIOUS
    <3>2. w \in X /\ w.kind \in ListKinds /\ Alike(v, w)
      BY <2>2, <3>1, LeftIs DEF ListIn, Posted
    <3>3. v \in ListIn(wire')
      BY <1>2, <3>1, <3>2 DEF Left, ListIn, Alike
    <3>4. ASSUME NEW z \in ListIn(wire') PROVE z = v
      <4>1. PICK a \in X : z = [a EXCEPT !.here = FALSE]
        BY <1>2, <3>4 DEF Left, ListIn
      <4>2. z.kind = a.kind
        BY <4>1, LeftIs DEF Posted, Alike
      <4>3. a = w
        BY <2>2, <3>4, <4>2 DEF ListIn
      <4>4. QED
        BY <3>1, <4>1, <4>3
    <3>5. QED
      BY <3>2, <3>3, <3>4
  <2>3. QED
    BY <2>1, <2>2
<1>3. QED
  BY <1>1, <1>2 DEF Posted

\* A read that starts.
LEMMA StartedIs ==
  ASSUME NEW clean \in BOOLEAN, NEW q \in Queries
  PROVE  /\ Reading(q, Started(clean)) /\ Started(clean).stage = "sent"
         /\ Started(clean).clean = clean
         /\ Reading(q, Idle) /\ Idle.stage = "idle"
BY DEF Reading, Started, Idle

\* Opening a page reads what it uses.
LEMMA MountedIs ==
  ASSUME NEW G, G = [q \in Queries |-> G[q]], \A q \in Queries : Reading(q, G[q]),
         NEW u, Opened(u), NEW S, NEW F, F = Mounted(G, u, S)
  PROVE  /\ F = [q \in Queries |-> F[q]] /\ \A q \in Queries : Reading(q, F[q])
         /\ F.list = G.list \/ F.list = Started(S = {})
         /\ u.page = "list" => F.list.stage # "idle"
         /\ F.draft = G.draft \/ F.draft.stage = "sent"
         /\ u.page # "edit" => F.draft.stage # "idle"
<1>1. F = [q \in Queries |->
             IF q \in Uses(u) /\ G[q].stage = "idle" THEN Started(q = "list" => S = {}) ELSE G[q]]
  BY DEF Mounted
<1>2. F = [q \in Queries |-> F[q]] /\ \A q \in Queries : Reading(q, F[q])
  <2>1. \A q \in Queries : (q = "list" => S = {}) \in BOOLEAN
    OBVIOUS
  <2>2. \A q \in Queries : Reading(q, Started(q = "list" => S = {}))
    BY <2>1, StartedIs
  <2>3. QED
    BY <1>1, <2>2
<1>3. "list" \in Queries /\ "draft" \in Queries
  BY DEF Queries
<1>4. /\ u.page = "list" => "list" \in Uses(u)
      /\ u.page # "edit" => "draft" \in Uses(u)
  BY DEF Uses, Opened, UiRow
<1>5. F.list = G.list \/ F.list = Started(S = {})
  <2>1. ("list" = "list" => S = {}) = (S = {})
    OBVIOUS
  <2>2. F.list = G.list \/ F.list = Started("list" = "list" => S = {})
    BY <1>1, <1>3
  <2>3. QED
    BY <2>1, <2>2 DEF Started
<1>6. F.draft = G.draft \/ F.draft.stage = "sent"
  BY <1>1, <1>3 DEF Started
<1>7. u.page = "list" => F.list.stage # "idle"
  BY <1>1, <1>3, <1>4 DEF Started
<1>8. u.page # "edit" => F.draft.stage # "idle"
  BY <1>1, <1>3, <1>4 DEF Started
<1>9. QED
  BY <1>2, <1>5, <1>6, <1>7, <1>8

\* Every query has its reading.
FetchFits(F) == F = [q \in Queries |-> F[q]] /\ \A q \in Queries : Reading(q, F[q])

\* A reading that is overtaken is known to be.
OvertakenAs(F, G, q) ==
  /\ FetchFits(F) /\ \A x \in Queries : x # q => F[x] = G[x]
  /\ \/ F[q].stage = "served" /\ F[q].clean = FALSE
     \/ F[q] = G[q] /\ G[q].stage \in {"idle", "sent"}

LEMMA OvertakenIs ==
  ASSUME NEW G, FetchFits(G), NEW q \in Queries
  PROVE  OvertakenAs(Overtaken(G, q), G, q)
<1> PICK F : F = Overtaken(G, q)
  OBVIOUS
<1>1. Reading(q, G[q]) /\ G = [x \in Queries |-> G[x]]
  BY DEF FetchFits
<1>2. CASE G[q].stage = "served"
  <2>1. PICK f : f = [G[q] EXCEPT !.clean = FALSE]
    OBVIOUS
  <2>2. Reading(q, f) /\ f.stage = "served" /\ f.clean = FALSE
    BY <1>1, <1>2, <2>1 DEF Reading
  <2>3. F = [G EXCEPT ![q] = f]
    BY <1>2, <2>1 DEF Overtaken
  <2>4. F = [x \in Queries |-> F[x]] /\ F[q] = f /\ \A x \in Queries : x # q => F[x] = G[x]
    BY <1>1, <2>3
  <2>5. FetchFits(F)
    BY <2>2, <2>4 DEF FetchFits
  <2>6. QED
    BY <2>2, <2>4, <2>5 DEF OvertakenAs
<1>3. CASE G[q].stage # "served"
  <2>1. F = G /\ G[q].stage \in {"idle", "sent"}
    BY <1>1, <1>3 DEF Overtaken, Reading
  <2>2. QED
    BY <2>1 DEF OvertakenAs
<1>4. QED
  BY <1>2, <1>3

\* Invalidating what is on screen starts it over.  A reading that goes on either comes to
\* the server yet, or misses what has been written.
InvalidatedAs(F, q, S) ==
  /\ FetchFits(F) /\ \A x \in Queries : x # q => F[x] = fetch[x]
  /\ \/ F[q] = Started(S = {})
     \/ F[q].stage = "served" /\ F[q].clean = FALSE
     \/ F[q] = fetch[q] /\ (fetch[q].stage = "sent" \/ (fetch[q].stage = "idle" /\ q \notin Uses(ui)))

LEMMA InvalidatedIs ==
  ASSUME FetchFits(fetch), NEW S, NEW q \in Queries
  PROVE  InvalidatedAs(Invalidated(fetch, q, ui, S), q, S)
<1> PICK F : F = Invalidated(fetch, q, ui, S)
  OBVIOUS
<1>1. fetch = [x \in Queries |-> fetch[x]] /\ \A x \in Queries : Reading(x, fetch[x])
  BY DEF FetchFits
<1>2. CASE q \in Uses(ui) /\ (Kept(q) \/ fetch[q].stage = "idle")
  <2>1. PICK b \in BOOLEAN : b = (S = {})
    OBVIOUS
  <2>2. F = [fetch EXCEPT ![q] = Started(b)]
    BY <1>2, <2>1 DEF Invalidated
  <2>3. Reading(q, Started(b))
    BY StartedIs
  <2>4. F = [x \in Queries |-> F[x]] /\ F[q] = Started(b) /\ \A x \in Queries : x # q => F[x] = fetch[x]
    BY <1>1, <2>2
  <2>5. FetchFits(F)
    BY <1>1, <2>3, <2>4 DEF FetchFits
  <2>6. QED
    BY <2>1, <2>4, <2>5 DEF InvalidatedAs
<1>3. CASE ~(q \in Uses(ui) /\ (Kept(q) \/ fetch[q].stage = "idle"))
  <2>1. F = Overtaken(fetch, q)
    BY <1>3 DEF Invalidated
  <2>2. OvertakenAs(F, fetch, q)
    BY <2>1, OvertakenIs
  <2>3. QED
    BY <1>3, <2>2 DEF OvertakenAs, InvalidatedAs
<1>4. QED
  BY <1>2, <1>3

\* A wizard takes its form from the cache, and stays the page it is.
LEMMA HydratedIs ==
  ASSUME NEW u, Opened(u), NEW c, \A q \in Queries : c[q] \in Holds(q),
         NEW h, h = Hydrated(u, c)
  PROVE  Opened(h) /\ h.page = u.page
<1>1. CASE h = u
  BY <1>1
<1>2. CASE h # u /\ u.page = "create" /\ c.draft # None
  <2>1. c.draft \in Saved \/ c.draft = Failed
    BY <1>2 DEF Holds, Brings, Queries
  <2>2. CASE c.draft = Failed \/ c.draft.saved = None
    <3>1. h = [u EXCEPT !.hydrated = TRUE]
      BY <1>2, <2>2 DEF Hydrated
    <3>2. QED
      BY <3>1 DEF Opened, UiRow
  <2>3. CASE c.draft # Failed /\ c.draft.saved # None
    <3>1. c.draft.saved \in Drafts
      BY <2>1, <2>3 DEF Saved
    <3>2. PICK text, step : text = c.draft.saved.text /\ step = c.draft.saved.step
      OBVIOUS
    <3>3. text \in Texts /\ step \in 1..LastStep /\ text # None
      BY <3>1, <3>2, WebClientAssumption DEF Drafts
    <3>4. h = [u EXCEPT !.hydrated = TRUE, !.form = text, !.step = step]
      BY <1>2, <2>3, <3>2 DEF Hydrated
    <3>5. QED
      BY <3>3, <3>4 DEF Opened, UiRow
  <2>4. QED
    BY <2>2, <2>3
<1>3. CASE h # u /\ ~(u.page = "create" /\ c.draft # None)
  <2>1. PICK text : text = c[u.target]
    OBVIOUS
  <2>2. u.page = "edit" /\ text # None /\ h = [u EXCEPT !.hydrated = TRUE, !.form = text]
    BY <1>3, <2>1 DEF Hydrated
  <2>3. u.target \in Alarms /\ u.target \in Queries /\ u.target # "list" /\ u.target # "draft"
    BY <2>2, WebClientAssumption DEF Opened, Queries
  <2>4. text \in Texts
    BY <2>1, <2>2, <2>3 DEF Brings, Holds
  <2>5. QED
    BY <2>2, <2>4 DEF Opened, UiRow
<1>4. QED
  BY <1>1, <1>2, <1>3

LEMMA BlankIs == Opened(Blank) /\ Blank.page = "list"
BY WebClientAssumption DEF Blank, Opened, UiRow

-----------------------------------------------------------------------------
\* What a step has to leave behind for each part of the invariant.

CacheFits(c) == c = [q \in Queries |-> c[q]] /\ \A q \in Queries : c[q] \in Holds(q)

LEMMA TypedStep ==
  ASSUME NEW X, Posted(X), alarms' \in Table, draft' \in Drafts \cup {None},
         FetchFits(fetch'), CacheFits(cache'), Opened(ui'),
         draftMissed' \in BOOLEAN, listRaced' \in BOOLEAN
  PROVE  Typed'
<1>1. WireTyped'
  BY PostedIs
<1>2. TablesTyped' /\ RacesTyped'
  BY DEF TablesTyped, RacesTyped, Table, Rows, Drafts
<1>3. FetchTyped'
  BY DEF FetchTyped, FetchFits, Reading, Brings, Queries, Table, Saved, Rows, Drafts
<1>4. CacheTyped'
  BY DEF CacheTyped, CacheFits, Holds, Failed, Brings, Queries, Table, Saved, Rows, Drafts
<1>5. Opened(ui)'
  BY DEF Opened, UiRow
<1>6. QED
  BY <1>1, <1>2, <1>3, <1>4, <1>5 DEF Typed

\* What the wire holds of the draft is what it was given.
LEMMA DraftsPosted ==
  ASSUME NEW X, Posted(X)
  PROVE  /\ \A v \in DraftWrites' : \E w \in DraftsIn(X) : Alike(v, w)
         /\ \A w \in DraftsIn(X) : \E v \in DraftWrites' : Alike(v, w)
<1>1. DraftWrites' = DraftsIn(wire')
  BY DEF DraftWrites, DraftsIn, DraftKinds
<1>2. QED
  BY <1>1, PostedIs DEF DraftsIn, Alike

\* Nothing is written of the draft, read of it or begun to be read, but anew.
LEMMA DraftQuiet ==
  ASSUME DraftFollows, NEW X, Posted(X), DraftsIn(X) = DraftWrites,
         UNCHANGED <<draft, meant>>, ~draftMissed' => ~draftMissed, cache'.draft = cache.draft,
         \/ /\ fetch'.draft = fetch.draft
            /\ ui'.page # "edit" => ui.page # "edit" \/ fetch.draft.stage # "idle"
         \/ fetch'.draft.stage = "sent"
  PROVE  DraftFollows'
<1>1. /\ \A v \in DraftWrites' : \E w \in DraftWrites : Alike(v, w)
      /\ \A w \in DraftWrites : \E v \in DraftWrites' : Alike(v, w)
  BY DraftsPosted
<1>2. DraftMeant'
  <2>1. ASSUME NEW v \in DraftWrites', v.stage = "sent" PROVE Meant(v)' \in meant'
    <3>1. PICK w \in DraftWrites : Alike(v, w)
      BY <1>1
    <3>2. Meant(w) \in meant /\ Meant(v) = Meant(w)
      BY <2>1, <3>1 DEF Alike, Meant, DraftFollows, DraftMeant
    <3>3. QED
      BY <3>2 DEF Meant
  <2>2. ASSUME \A v \in DraftWrites' : v.stage # "sent" PROVE draft' \in meant'
    <3>1. \A w \in DraftWrites : w.stage # "sent"
      BY <1>1, <2>2 DEF Alike
    <3>2. QED
      BY <3>1 DEF DraftFollows, DraftMeant
  <2>3. QED
    BY <2>1, <2>2 DEF DraftMeant
<1>3. DraftRead'
  <2>1. SUFFICES ASSUME \A v \in DraftWrites' : v.stage # "ok"
                 PROVE  /\ fetch'.draft.stage = "served" /\ fetch'.draft.clean
                             => fetch'.draft.data = [saved |-> draft']
                        /\ fetch'.draft.stage = "idle" /\ ui'.page # "edit" /\ ~draftMissed'
                             => cache'.draft = [saved |-> draft']
    BY DEF DraftRead
  <2>2. \A w \in DraftWrites : w.stage # "ok"
    BY <1>1, <2>1 DEF Alike
  <2>3. QED
    BY <2>2 DEF DraftFollows, DraftRead
<1>4. QED
  BY <1>2, <1>3 DEF DraftFollows

\* A write of the draft is sent.
LEMMA DraftSent ==
  ASSUME DraftFollows, NEW v, NEW X, Posted(X), DraftsIn(X) = DraftWrites \cup {v}, v.stage = "sent",
         meant' = Meaning(Meant(v)), UNCHANGED <<draft, draftMissed, cache>>,
         \/ /\ fetch'.draft = fetch.draft
            /\ ui'.page # "edit" => ui.page # "edit" \/ fetch.draft.stage # "idle"
         \/ fetch'.draft.stage = "sent"
  PROVE  DraftFollows'
<1>1. /\ \A x \in DraftWrites' : \E w \in DraftWrites \cup {v} : Alike(x, w)
      /\ \A w \in DraftWrites \cup {v} : \E x \in DraftWrites' : Alike(x, w)
  BY DraftsPosted
<1>2. DraftMeant'
  <2>1. ASSUME NEW x \in DraftWrites', x.stage = "sent" PROVE Meant(x)' \in meant'
    <3>1. PICK w \in DraftWrites \cup {v} : Alike(x, w)
      BY <1>1
    <3>2. w.stage = "sent" /\ Meant(x) = Meant(w)
      BY <2>1, <3>1 DEF Alike, Meant
    <3>3. Meant(w) \in meant'
      BY <3>2 DEF Meaning
    <3>4. QED
      BY <3>2, <3>3 DEF Meant
  <2>2. \E x \in DraftWrites' : x.stage = "sent"
    BY <1>1 DEF Alike
  <2>3. QED
    BY <2>1, <2>2 DEF DraftMeant
<1>3. DraftRead'
  <2>1. SUFFICES ASSUME \A x \in DraftWrites' : x.stage # "ok"
                 PROVE  /\ fetch'.draft.stage = "served" /\ fetch'.draft.clean
                             => fetch'.draft.data = [saved |-> draft']
                        /\ fetch'.draft.stage = "idle" /\ ui'.page # "edit" /\ ~draftMissed'
                             => cache'.draft = [saved |-> draft']
    BY DEF DraftRead
  <2>2. \A w \in DraftWrites : w.stage # "ok"
    BY <1>1, <2>1 DEF Alike
  <2>3. QED
    BY <2>2 DEF DraftFollows, DraftRead
<1>4. QED
  BY <1>2, <1>3 DEF DraftFollows

\* A write of the draft ends that the server never took, or never will.
LEMMA DraftGone ==
  ASSUME DraftFollows, NEW w, w.stage \notin {"sent", "ok"}, NEW X, Posted(X),
         DraftsIn(X) = DraftWrites \ {w},
         UNCHANGED <<draft, meant, draftMissed, cache, fetch>>, ui'.page = ui.page
  PROVE  DraftFollows'
<1>1. /\ \A x \in DraftWrites' : \E y \in DraftWrites \ {w} : Alike(x, y)
      /\ \A y \in DraftWrites \ {w} : \E x \in DraftWrites' : Alike(x, y)
  BY DraftsPosted
<1>2. DraftMeant'
  <2>1. ASSUME NEW x \in DraftWrites', x.stage = "sent" PROVE Meant(x)' \in meant'
    <3>1. PICK y \in DraftWrites : Alike(x, y)
      BY <1>1
    <3>2. Meant(y) \in meant /\ Meant(x) = Meant(y)
      BY <2>1, <3>1 DEF Alike, Meant, DraftFollows, DraftMeant
    <3>3. QED
      BY <3>2 DEF Meant
  <2>2. ASSUME \A x \in DraftWrites' : x.stage # "sent" PROVE draft' \in meant'
    <3>1. \A y \in DraftWrites : y.stage # "sent"
      BY <1>1, <2>2 DEF Alike
    <3>2. QED
      BY <3>1 DEF DraftFollows, DraftMeant
  <2>3. QED
    BY <2>1, <2>2 DEF DraftMeant
<1>3. DraftRead'
  <2>1. ASSUME \A x \in DraftWrites' : x.stage # "ok"
        PROVE  \A y \in DraftWrites : y.stage # "ok"
    BY <1>1, <2>1 DEF Alike
  <2>2. QED
    BY <2>1 DEF DraftFollows, DraftRead
<1>4. QED
  BY <1>2, <1>3 DEF DraftFollows

\* Writes of the list end that left nothing to read on the screen, or none end at all.
LEMMA ListQuiet ==
  ASSUME Typed, CleanReading, ListFollows, NEW X, Posted(X), ListIn(X) \subseteq ListWrites,
         \A w \in ListWrites \ X : w.kind # "toggle",
         UNCHANGED alarms, ~listRaced' => ~listRaced, cache'.list = cache.list,
         \/ /\ fetch'.list = fetch.list
            /\ ui'.page = "list" /\ fetch.list.stage = "idle" =>
                 /\ ui.page = "list"
                 /\ \A w \in ListWrites \ X : w.stage = "ok" => w.kind \in {"create", "edit"}
         \/ fetch'.list = Started(ListIn(X) = {})
         \/ fetch'.list.stage = "served" /\ fetch'.list.clean = FALSE
  PROVE  CleanReading' /\ ListFollows'
<1>1. ListWrites' = ListIn(wire') /\ Toggles' = {v \in ListIn(wire') : v.kind = "toggle"}
  BY DEF ListWrites, Toggles, ListIn, ListKinds
<1>2. /\ \A v \in ListIn(wire') : \E w \in ListIn(X) : Alike(v, w)
      /\ \A w \in ListIn(X) : \E v \in ListIn(wire') : Alike(v, w)
  BY PostedIs DEF ListIn, Alike
<1>3. CleanReading'
  <2>1. CASE fetch'.list = fetch.list
    BY <1>1, <1>2, <2>1 DEF CleanReading
  <2>2. CASE fetch'.list = Started(ListIn(X) = {})
    <3>1. fetch'.list.stage = "sent" /\ (fetch'.list.clean => ListIn(X) = {})
      <4>1. PICK b \in BOOLEAN : b = (ListIn(X) = {})
        OBVIOUS
      <4>2. fetch'.list = Started(b)
        BY <2>2, <4>1
      <4>3. fetch'.list.stage = "sent" /\ fetch'.list.clean = b
        BY <4>2 DEF Started
      <4>4. QED
        BY <4>1, <4>3
    <3>2. ListIn(X) = {} => ListWrites' = {}
      BY <1>1, <1>2
    <3>3. QED
      BY <3>1, <3>2 DEF CleanReading
  <2>3. CASE fetch'.list.stage = "served" /\ fetch'.list.clean = FALSE
    BY <2>3 DEF CleanReading
  <2>4. QED
    BY <2>1, <2>2, <2>3
<1>4. ASSUME ~listRaced'
      PROVE  /\ \A v \in ListWrites' : v.heard
             /\ \A v \in Toggles' : ToggleAlone(v)'
             /\ ListRead'
  <2>1. ListRead /\ (\A w \in ListWrites : w.heard) /\ (\A w \in Toggles : ToggleAlone(w))
    BY <1>4 DEF ListFollows
  <2>2. \A v \in ListWrites' : v.heard
    BY <1>1, <1>2, <2>1 DEF Alike
  <2>3. ASSUME NEW v \in Toggles' PROVE ToggleAlone(v)'
    <3>1. PICK w \in ListIn(X) : Alike(v, w)
      BY <1>1, <1>2, <2>3
    <3>2. w \in Toggles
      BY <1>1, <2>3, <3>1 DEF Alike, Toggles, ListWrites
    <3>3. ToggleAlone(w)
      BY <2>1, <3>2
    <3>4. ListIn(X) = {w}
      BY <3>1, <3>3 DEF ToggleAlone
    <3>5. PICK z : ListIn(wire') = {z} /\ Alike(z, w)
      BY <3>4, PostedAlone
    <3>6. ListWrites' = {v}
      BY <1>1, <2>3, <3>5
    <3>7. QED
      BY <3>1, <3>3, <3>6 DEF ToggleAlone, Alike, Flipped
  <2>4. ListRead'
    <3>1. SUFFICES ASSUME OnScreen'
                   PROVE  /\ \A v \in ListWrites' : v.kind \notin {"create", "edit"}
                          /\ Toggles' = {} /\ (\A v \in ListWrites' : v.stage # "ok")
                               => cache'.list = alarms'
      BY DEF ListRead
    <3>2. OnScreen /\ fetch'.list = fetch.list
      BY <3>1 DEF OnScreen, Started
    <3>3. \A w \in ListWrites : w.kind \notin {"create", "edit"}
      BY <2>1, <3>2 DEF ListRead
    <3>4. \A v \in ListWrites' : v.kind \notin {"create", "edit"}
      BY <1>1, <1>2, <3>3 DEF Alike
    <3>5. ASSUME Toggles' = {}, \A v \in ListWrites' : v.stage # "ok"
          PROVE  cache'.list = alarms'
      <4>1. \A w \in ListIn(X) : w.stage # "ok" /\ w.kind # "toggle"
        BY <1>1, <1>2, <3>5 DEF Alike
      <4>2. \A w \in ListWrites \ X : w.stage # "ok" /\ w.kind # "toggle"
        BY <3>1, <3>2, <3>3 DEF OnScreen, Started
      <4>3. ListWrites \subseteq ListIn(X) \cup (ListWrites \ X)
        BY DEF ListIn, ListWrites, ListKinds
      <4>4. Toggles = {} /\ \A w \in ListWrites : w.stage # "ok"
        BY <4>1, <4>2, <4>3 DEF Toggles, ListWrites
      <4>5. QED
        BY <2>1, <3>2, <4>4 DEF ListRead
    <3>6. QED
      BY <3>4, <3>5
  <2>5. QED
    BY <2>2, <2>3, <2>4
<1>5. \A v \in Toggles' : v.heard => cache'.list # None
  <2>1. SUFFICES ASSUME NEW v \in Toggles', v.heard PROVE cache'.list # None
    OBVIOUS
  <2>2. PICK w \in ListIn(X) : Alike(v, w)
    BY <1>1, <1>2
  <2>3. w \in Toggles /\ w.heard
    BY <1>1, <2>1, <2>2 DEF Alike, Toggles, ListWrites
  <2>4. QED
    BY <2>3 DEF ListFollows
<1>6. QED
  BY <1>3, <1>4, <1>5 DEF ListFollows

\* A write of the list is sent that shows nothing before it is answered.
LEMMA ListSent ==
  ASSUME Typed, CleanReading, ListFollows, NEW v, v.kind \in ListKinds, v.kind # "toggle", Written(v),
         wire' = wire \cup {v}, v.heard, v.stage = "sent",
         v.kind \in {"create", "edit"} => ui.page # "list",
         UNCHANGED <<alarms, cache>>, listRaced' = (listRaced \/ Toggles # {}), ui'.page = ui.page,
         fetch'.list.stage = fetch.list.stage, fetch'.list.clean = FALSE
  PROVE  CleanReading' /\ ListFollows'
<1>1. ListWrites' = ListWrites \cup {v} /\ Toggles' = Toggles
  BY DEF ListWrites, Toggles, ListKinds
<1>2. CleanReading'
  BY DEF CleanReading
<1>3. ASSUME ~listRaced'
      PROVE  /\ \A w \in ListWrites' : w.heard
             /\ \A w \in Toggles' : ToggleAlone(w)'
             /\ ListRead'
  <2>1. ~listRaced /\ Toggles = {}
    BY <1>3
  <2>2. ListRead /\ \A w \in ListWrites : w.heard
    BY <2>1 DEF ListFollows
  <2>3. ListRead'
    BY <1>1, <2>2 DEF ListRead, OnScreen
  <2>4. QED
    BY <1>1, <2>1, <2>2, <2>3
<1>4. \A w \in Toggles' : w.heard => cache'.list # None
  BY <1>1 DEF ListFollows
<1>5. QED
  BY <1>2, <1>3, <1>4 DEF ListFollows

-----------------------------------------------------------------------------
\* The pages.

LEMMA Given ==
  ASSUME IInv
  PROVE  /\ FetchFits(fetch) /\ CacheFits(cache) /\ Opened(ui) /\ alarms \in Table
         /\ draft \in Drafts \cup {None} /\ draftMissed \in BOOLEAN /\ listRaced \in BOOLEAN
         /\ \A w \in wire : Written(w)
         /\ Typed /\ DraftFollows /\ CleanReading /\ ListFollows
         /\ DraftWrites = DraftsIn(wire) /\ ListWrites = ListIn(wire) /\ ListWrites \subseteq wire
BY DEF IInv, Typed, TablesTyped, WireTyped, FetchTyped, CacheTyped, RacesTyped, FetchFits, CacheFits,
       DraftWrites, ListWrites, DraftsIn, ListIn, DraftKinds, ListKinds

LEMMA Together ==
  ASSUME Typed', DraftFollows', CleanReading' /\ ListFollows'
  PROVE  IInv'
BY DEF IInv

\* A step that only touches what is typed or chosen on a page.
LEMMA UiStep ==
  ASSUME IInv, Opened(ui'), ui'.page = ui.page,
         UNCHANGED <<alarms, draft, wire, fetch, cache, meant, draftMissed, listRaced>>
  PROVE  IInv'
<1>1. Posted(wire)
  BY Given DEF Posted
<1>2. Typed'
  BY <1>1, Given, TypedStep
<1>3. DraftFollows'
  BY <1>1, Given, DraftQuiet
<1>4. CleanReading' /\ ListFollows'
  <2>1. ListIn(wire) \subseteq ListWrites /\ ListWrites \ wire = {}
    BY Given
  <2>2. QED
    BY <1>1, <2>1, Given, ListQuiet
<1>5. QED
  BY <1>2, <1>3, <1>4, Together

\* Another page is opened.
LEMMA GotoStep ==
  ASSUME IInv, NEW page \in {"list", "create", "edit"}, NEW target \in Alarms \cup {None},
         page = "edit" => target \in Alarms, Goto(page, target),
         UNCHANGED <<alarms, draft, cache, meant, draftMissed, listRaced>>
  PROVE  IInv'
<1>1. PICK u : u = [Blank EXCEPT !.page = page, !.target = target]
  OBVIOUS
<1>2. Opened(u)
  BY <1>1, BlankIs DEF Opened, UiRow, Blank
<1>3. ui' = Hydrated(u, cache) /\ wire' = Left(wire) /\ fetch' = Mounted(fetch, ui', ListWrites)
  BY <1>1 DEF Goto
<1>4. Opened(ui')
  BY <1>2, <1>3, Given, HydratedIs DEF CacheFits
<1>5. Posted(wire)
  BY <1>3, Given DEF Posted
<1>6. /\ FetchFits(fetch')
      /\ fetch'.list = fetch.list \/ fetch'.list = Started(ListWrites = {})
      /\ ui'.page = "list" => fetch'.list.stage # "idle"
      /\ fetch'.draft = fetch.draft \/ fetch'.draft.stage = "sent"
      /\ ui'.page # "edit" => fetch'.draft.stage # "idle"
  BY <1>3, <1>4, Given, MountedIs DEF FetchFits
<1>7. Typed'
  BY <1>4, <1>5, <1>6, Given, TypedStep
<1>8. DraftFollows'
  BY <1>5, <1>6, Given, DraftQuiet
<1>9. CleanReading' /\ ListFollows'
  <2>1. ListIn(wire) = ListWrites /\ ListWrites \ wire = {}
    BY Given
  <2>2. QED
    BY <1>5, <1>6, <2>1, Given, ListQuiet
<1>10. QED
  BY <1>7, <1>8, <1>9, Together

LEMMA PagesStep ==
  ASSUME IInv, OpenCreate \/ Cancel \/ \E a \in Alarms : OpenEdit(a)
  PROVE  IInv'
<1>1. CASE OpenCreate
  BY <1>1, GotoStep DEF OpenCreate
<1>2. CASE Cancel
  BY <1>2, GotoStep DEF Cancel
<1>3. CASE \E a \in Alarms : OpenEdit(a)
  BY <1>3, GotoStep DEF OpenEdit
<1>4. QED
  BY <1>1, <1>2, <1>3

LEMMA ForgetStep ==
  ASSUME IInv, NEW a \in Alarms, Forget(a)
  PROVE  IInv'
<1>1. /\ cache' = [cache EXCEPT ![a] = None]
      /\ UNCHANGED <<alarms, draft, wire, fetch, ui, meant, draftMissed, listRaced>>
  BY DEF Forget
<1>2. CacheFits(cache') /\ cache'.draft = cache.draft /\ cache'.list = cache.list
  <2>1. "list" \in Queries /\ "draft" \in Queries /\ a # "list" /\ a # "draft"
    BY WebClientAssumption DEF Queries
  <2>2. cache = [q \in Queries |-> cache[q]] /\ \A q \in Queries : cache[q] \in Holds(q)
    BY Given DEF CacheFits
  <2>3. QED
    BY <1>1, <2>1, <2>2 DEF CacheFits, Holds
<1>3. Posted(wire)
  BY <1>1, Given DEF Posted
<1>4. Typed'
  BY <1>1, <1>2, <1>3, Given, TypedStep
<1>5. DraftFollows'
  BY <1>1, <1>2, <1>3, Given, DraftQuiet
<1>6. CleanReading' /\ ListFollows'
  <2>1. ListIn(wire) \subseteq ListWrites /\ ListWrites \ wire = {}
    BY Given
  <2>2. QED
    BY <1>1, <1>2, <1>3, <2>1, Given, ListQuiet
<1>7. QED
  BY <1>4, <1>5, <1>6, Together

LEMMA TypeStep ==
  ASSUME IInv, NEW text \in Texts, Type(text)
  PROVE  IInv'
<1>1. Opened(ui') /\ ui'.page = ui.page
  BY Given DEF Type, Opened, UiRow
<1>2. QED
  BY <1>1, UiStep DEF Type

LEMMA SelectStep ==
  ASSUME IInv, NEW a \in Alarms, ToggleSelection(a)
  PROVE  IInv'
<1>1. PICK S : S = IF a \in ui.selected THEN ui.selected \ {a} ELSE ui.selected \cup {a}
  OBVIOUS
<1>2. ui' = [ui EXCEPT !.selected = S] /\ S \in SUBSET Alarms
  BY <1>1, Given DEF ToggleSelection, Opened, UiRow
<1>3. Opened(ui') /\ ui'.page = ui.page
  BY <1>2, Given DEF Opened, UiRow
<1>4. QED
  BY <1>3, UiStep DEF ToggleSelection

-----------------------------------------------------------------------------
\* What is sent.

LEMMA WriteIs ==
  ASSUME NEW kind \in Kinds, NEW arg, NEW v, v = Write(kind, arg)
  PROVE  /\ v.kind = kind /\ v.arg = arg /\ v.stage = "sent" /\ v.heard
         /\ Says(v) => Written(v)
BY DEF Write, Written, Stages

LEMMA UncleanIs ==
  ASSUME FetchFits(fetch), NEW F, F = [fetch EXCEPT !.list.clean = FALSE]
  PROVE  /\ FetchFits(F) /\ F.list.stage = fetch.list.stage /\ F.list.clean = FALSE
         /\ F.draft = fetch.draft
<1>1. "list" \in Queries /\ "draft" \in Queries
  BY DEF Queries
<1>2. PICK f : f = [fetch.list EXCEPT !.clean = FALSE]
  OBVIOUS
<1>3. Reading("list", fetch.list)
  BY <1>1 DEF FetchFits
<1>4. Reading("list", f) /\ f.stage = fetch.list.stage /\ f.clean = FALSE
  BY <1>2, <1>3 DEF Reading
<1>5. F = [fetch EXCEPT !["list"] = f]
  BY <1>1, <1>2 DEF FetchFits
<1>6. F = [q \in Queries |-> F[q]] /\ F["list"] = f /\ \A q \in Queries : q # "list" => F[q] = fetch[q]
  BY <1>1, <1>5 DEF FetchFits
<1>7. QED
  BY <1>1, <1>4, <1>6 DEF FetchFits

\* The wizard goes to another step, and may save the draft.
LEMMA GoToStep ==
  ASSUME IInv, NEW next, GoTo(next)
  PROVE  IInv'
<1>1. next \in 1..LastStep /\ ui.page \in {"create", "edit"} /\ (next > ui.step => ui.form # None)
  BY DEF GoTo
<1>2. ui' = [ui EXCEPT !.step = next] /\ UNCHANGED <<alarms, draft, fetch, cache, listRaced>>
  BY DEF GoTo
<1>3. ui \in UiRow /\ (ui.step # 1 => ui.form # None) /\ (ui.page = "edit" => ui.target \in Alarms)
  BY Given DEF Opened
<1>4. ui' \in UiRow /\ ui'.page = ui.page /\ ui'.form = ui.form /\ ui'.target = ui.target /\ ui'.step = next
  BY <1>1, <1>2, <1>3 DEF UiRow
<1>5. next # 1 => ui.form # None
  <2>1. ui.step \in 1..LastStep
    BY <1>3 DEF UiRow
  <2>2. QED
    BY <1>1, <1>3, <2>1, WebClientAssumption
<1>6. Opened(ui')
  BY <1>3, <1>4, <1>5 DEF Opened
<1>7. CASE ~(ui.page = "create" /\ ui.form # None)
  BY <1>2, <1>4, <1>6, <1>7, UiStep DEF GoTo
<1>8. CASE ui.page = "create" /\ ui.form # None
  <2>1. PICK arg, v : arg = [step |-> next, text |-> ui.form] /\ v = Write("saveDraft", arg)
    OBVIOUS
  <2>2. wire' = wire \cup {v} /\ meant' = Meaning(arg) /\ UNCHANGED draftMissed
    BY <1>8, <2>1 DEF GoTo
  <2>3. arg \in Drafts
    BY <1>1, <1>3, <1>8, <2>1 DEF Drafts, UiRow
  <2>4. v.kind = "saveDraft" /\ v.arg = arg /\ v.stage = "sent" /\ v.heard /\ Written(v)
    <3>1. v.kind = "saveDraft" /\ v.arg = arg /\ v.stage = "sent" /\ v.heard /\ (Says(v) => Written(v))
      BY <2>1, WriteIs DEF Kinds
    <3>2. Says(v)
      BY <2>3, <3>1 DEF Says
    <3>3. QED
      BY <3>1, <3>2
  <2>5. Posted(wire \cup {v})
    BY <2>2, <2>4, Given DEF Posted
  <2>6. DraftsIn(wire \cup {v}) = DraftWrites \cup {v} /\ ListIn(wire \cup {v}) = ListWrites
    BY <2>4, Given DEF DraftsIn, ListIn, DraftKinds, ListKinds
  <2>7. meant' = Meaning(Meant(v))
    BY <2>2, <2>4 DEF Meant
  <2>8. DraftFollows'
    BY <1>2, <1>4, <2>2, <2>4, <2>5, <2>6, <2>7, Given, DraftSent
  <2>9. Typed'
    BY <1>2, <1>6, <2>2, <2>5, Given, TypedStep
  <2>10. CleanReading' /\ ListFollows'
    <3>1. ListIn(wire \cup {v}) \subseteq ListWrites /\ ListWrites \ (wire \cup {v}) = {}
      BY <2>6, Given
    <3>2. QED
      BY <1>2, <1>4, <2>5, <3>1, Given, ListQuiet
  <2>11. QED
    BY <2>8, <2>9, <2>10, Together
<1>9. QED
  BY <1>7, <1>8

\* A write of the list is sent that shows nothing yet.
LEMMA SendStep ==
  ASSUME IInv, NEW v, v.kind \in ListKinds, v.kind # "toggle", Written(v), v.heard, v.stage = "sent",
         v.kind \in {"create", "edit"} => ui.page # "list",
         wire' = wire \cup {v}, fetch' = [fetch EXCEPT !.list.clean = FALSE],
         listRaced' = (listRaced \/ Toggles # {}), Opened(ui'), ui'.page = ui.page,
         UNCHANGED <<alarms, draft, cache, meant, draftMissed>>
  PROVE  IInv'
<1>1. Posted(wire \cup {v})
  BY Given DEF Posted
<1>2. DraftsIn(wire \cup {v}) = DraftWrites
  BY Given DEF DraftsIn, DraftKinds, ListKinds
<1>3. /\ FetchFits(fetch') /\ fetch'.list.stage = fetch.list.stage /\ fetch'.list.clean = FALSE
      /\ fetch'.draft = fetch.draft
  BY Given, UncleanIs
<1>4. Typed'
  BY <1>1, <1>3, Given, TypedStep
<1>5. DraftFollows'
  BY <1>1, <1>2, <1>3, Given, DraftQuiet
<1>6. CleanReading' /\ ListFollows'
  BY <1>3, Given, ListSent
<1>7. QED
  BY <1>4, <1>5, <1>6, Together

LEMMA SubmitStep ==
  ASSUME IInv, Submit
  PROVE  IInv'
<1>1. /\ ui.page \in {"create", "edit"} /\ ui.step = LastStep
      /\ ui' = [ui EXCEPT !.submitting = TRUE] /\ fetch' = [fetch EXCEPT !.list.clean = FALSE]
      /\ listRaced' = (listRaced \/ Toggles # {})
      /\ UNCHANGED <<alarms, draft, cache, meant, draftMissed>>
  BY DEF Submit
<1>2. Opened(ui') /\ ui'.page = ui.page
  BY <1>1, Given DEF Opened, UiRow
<1>3. ui.form \in Texts /\ (ui.page = "edit" => ui.target \in Alarms)
  BY <1>1, Given, WebClientAssumption DEF Opened, UiRow
<1>4. PICK v : /\ wire' = wire \cup {v}
               /\ v = IF ui.page = "create" THEN Write("create", [text |-> ui.form])
                      ELSE Write("edit", [alarm |-> ui.target, text |-> ui.form])
  BY DEF Submit
<1>5. v.kind \in {"create", "edit"} /\ v.stage = "sent" /\ v.heard /\ Written(v)
  <2>1. CASE ui.page = "create"
    <3>1. /\ v.kind = "create" /\ v.arg = [text |-> ui.form] /\ v.stage = "sent" /\ v.heard
          /\ Says(v) => Written(v)
      BY <1>4, <2>1, WriteIs DEF Kinds
    <3>2. Says(v)
      BY <1>3, <3>1 DEF Says
    <3>3. QED
      BY <3>1, <3>2
  <2>2. CASE ui.page # "create"
    <3>1. /\ v.kind = "edit" /\ v.arg = [alarm |-> ui.target, text |-> ui.form] /\ v.stage = "sent"
          /\ v.heard /\ (Says(v) => Written(v))
      BY <1>4, <2>2, WriteIs DEF Kinds
    <3>2. Says(v)
      BY <1>1, <1>3, <2>2, <3>1 DEF Says
    <3>3. QED
      BY <3>1, <3>2
  <2>3. QED
    BY <2>1, <2>2
<1>6. v.kind \in ListKinds /\ v.kind # "toggle" /\ ui.page # "list"
  BY <1>1, <1>5 DEF ListKinds
<1>7. wire' = wire \cup {v}
  BY <1>4
<1>8. QED
  BY <1>1, <1>2, <1>5, <1>6, <1>7, SendStep

LEMMA ListSendStep ==
  ASSUME IInv, (\E enabled \in BOOLEAN : BulkToggle(enabled)) \/ (\E a \in Alarms : DeleteAlarm(a))
  PROVE  IInv'
<1>1. /\ fetch' = [fetch EXCEPT !.list.clean = FALSE] /\ listRaced' = (listRaced \/ Toggles # {})
      /\ UNCHANGED <<alarms, draft, cache, ui, meant, draftMissed>>
  BY DEF BulkToggle, DeleteAlarm
<1>2. \E v : /\ wire' = wire \cup {v} /\ v.kind \in {"bulk", "delete"}
             /\ v.stage = "sent" /\ v.heard /\ Written(v)
  <2>1. CASE \E enabled \in BOOLEAN : BulkToggle(enabled)
    <3> PICK enabled \in BOOLEAN : BulkToggle(enabled)
      BY <2>1
    <3>1. PICK v : /\ wire' = wire \cup {v}
                   /\ v = Write("bulk", [alarms |-> ui.selected, enabled |-> enabled])
      BY DEF BulkToggle, SendFromList
    <3>2. /\ v.kind = "bulk" /\ v.arg = [alarms |-> ui.selected, enabled |-> enabled]
          /\ v.stage = "sent" /\ v.heard /\ (Says(v) => Written(v))
      BY <3>1, WriteIs DEF Kinds
    <3>3. Says(v)
      BY <3>2, Given DEF Says, Opened, UiRow
    <3>4. QED
      BY <3>1, <3>2, <3>3
  <2>2. CASE \E a \in Alarms : DeleteAlarm(a)
    <3> PICK a \in Alarms : DeleteAlarm(a)
      BY <2>2
    <3>1. PICK v : wire' = wire \cup {v} /\ v = Write("delete", [alarm |-> a])
      BY DEF DeleteAlarm, SendFromList
    <3>2. /\ v.kind = "delete" /\ v.arg = [alarm |-> a]
          /\ v.stage = "sent" /\ v.heard /\ (Says(v) => Written(v))
      BY <3>1, WriteIs DEF Kinds
    <3>3. Says(v)
      BY <3>2 DEF Says
    <3>4. QED
      BY <3>1, <3>2, <3>3
  <2>3. QED
    BY <2>1, <2>2
<1>3. PICK v : /\ wire' = wire \cup {v} /\ v.kind \in {"bulk", "delete"}
               /\ v.stage = "sent" /\ v.heard /\ Written(v)
  BY <1>2
<1>4. v.kind \in ListKinds /\ v.kind # "toggle" /\ v.kind \notin {"create", "edit"}
  BY <1>3 DEF ListKinds
<1>5. Opened(ui') /\ ui'.page = ui.page
  BY <1>1, Given DEF Opened, UiRow
<1>6. QED
  BY <1>1, <1>3, <1>4, <1>5, SendStep

LEMMA DiscardStep ==
  ASSUME IInv, DiscardDraft
  PROVE  IInv'
<1>1. /\ ui' = Blank /\ fetch' = Mounted(fetch, Blank, ListWrites) /\ meant' = Meaning(None)
      /\ UNCHANGED <<alarms, draft, cache, draftMissed, listRaced>>
  BY DEF DiscardDraft
<1>2. PICK v : v = Write("discard", None)
  OBVIOUS
<1>3. v.kind = "discard" /\ v.arg = None /\ v.stage = "sent" /\ v.heard /\ Written(v)
  <2>1. v.kind = "discard" /\ v.arg = None /\ v.stage = "sent" /\ v.heard /\ (Says(v) => Written(v))
    BY <1>2, WriteIs DEF Kinds
  <2>2. Says(v)
    BY <2>1 DEF Says
  <2>3. QED
    BY <2>1, <2>2
<1>4. wire' = Left(wire \cup {v})
  BY <1>2 DEF DiscardDraft, Left
<1>5. Posted(wire \cup {v})
  BY <1>3, <1>4, Given DEF Posted
<1>6. DraftsIn(wire \cup {v}) = DraftWrites \cup {v} /\ ListIn(wire \cup {v}) = ListWrites
  BY <1>3, Given DEF DraftsIn, ListIn, DraftKinds, ListKinds
<1>7. /\ FetchFits(fetch')
      /\ fetch'.list = fetch.list \/ fetch'.list = Started(ListWrites = {})
      /\ fetch'.list.stage # "idle"
      /\ fetch'.draft = fetch.draft \/ fetch'.draft.stage = "sent"
      /\ fetch'.draft.stage # "idle"
  BY <1>1, BlankIs, Given, MountedIs DEF FetchFits
<1>8. Opened(ui') /\ ui'.page = "list"
  BY <1>1, BlankIs
<1>9. Typed'
  BY <1>1, <1>5, <1>7, <1>8, Given, TypedStep
<1>10. meant' = Meaning(Meant(v))
  BY <1>1, <1>3 DEF Meant
<1>11. DraftFollows'
  BY <1>1, <1>3, <1>5, <1>6, <1>7, <1>10, Given, DraftSent
<1>12. CleanReading' /\ ListFollows'
  <2>1. /\ ListIn(wire \cup {v}) \subseteq ListWrites
        /\ ListWrites \ (wire \cup {v}) = {}
    BY <1>6, Given
  <2>2. /\ UNCHANGED alarms /\ (~listRaced' => ~listRaced) /\ cache'.list = cache.list
        /\ (fetch'.list = fetch.list /\ fetch.list.stage # "idle")
             \/ fetch'.list = Started(ListIn(wire \cup {v}) = {})
    BY <1>1, <1>6, <1>7
  <2>3. QED
    BY <1>5, <2>1, <2>2, Given, ListQuiet
<1>13. QED
  BY <1>9, <1>11, <1>12, Together

\* A tab that is loaded again hears of nothing that it had sent.
LEMMA ReloadStep ==
  ASSUME IInv, Reload
  PROVE  IInv'
<1>1. /\ ui' = Blank /\ cache' = [q \in Queries |-> None]
      /\ listRaced' = (listRaced \/ ListWrites # {})
      /\ UNCHANGED <<alarms, draft, meant, draftMissed>>
  BY DEF Reload
<1>2. PICK X : X = {[w EXCEPT !.heard = FALSE] : w \in {v \in wire : v.kind # "leave" /\ v.stage = "sent"}}
  OBVIOUS
<1>3. wire' = X
  BY <1>2 DEF Reload
<1>4. ASSUME NEW x \in X
      PROVE  Written(x) /\ x.heard = FALSE /\ \E w \in wire : x.kind = w.kind
  <2>1. PICK w \in wire : x = [w EXCEPT !.heard = FALSE]
    BY <1>2
  <2>2. Written(w)
    BY Given
  <2>3. /\ x.kind = w.kind /\ x.arg = w.arg /\ x.stage = w.stage /\ x.reply = w.reply
        /\ x.heard = FALSE
        /\ x = [slot |-> x.slot, kind |-> x.kind, arg |-> x.arg, stage |-> x.stage,
                reply |-> x.reply, heard |-> x.heard, here |-> x.here]
    BY <2>1, <2>2 DEF Written
  <2>4. Says(x)
    BY <2>2, <2>3 DEF Says, Written
  <2>5. QED
    BY <2>2, <2>3, <2>4 DEF Written
<1>5. Posted(X)
  BY <1>3, <1>4 DEF Posted
<1>6. PICK G : G = [q \in Queries |-> Idle]
  OBVIOUS
<1>7. /\ G = [q \in Queries |-> G[q]] /\ \A q \in Queries : Reading(q, G[q])
      /\ G.list.stage = "idle" /\ G.draft.stage = "idle"
  BY <1>6, StartedIs DEF Queries
<1>8. /\ FetchFits(fetch')
      /\ fetch'.list = Started(ListWrites = {}) /\ fetch'.draft.stage = "sent"
  <2>1. fetch' = Mounted(G, Blank, ListWrites)
    BY <1>6 DEF Reload
  <2>2. /\ FetchFits(fetch')
        /\ fetch'.list = G.list \/ fetch'.list = Started(ListWrites = {})
        /\ fetch'.list.stage # "idle"
        /\ fetch'.draft = G.draft \/ fetch'.draft.stage = "sent"
        /\ fetch'.draft.stage # "idle"
    BY <1>7, <2>1, BlankIs, MountedIs DEF FetchFits
  <2>3. QED
    BY <1>7, <2>2
<1>9. CacheFits(cache')
  BY <1>1 DEF CacheFits, Holds
<1>10. Typed'
  BY <1>1, <1>5, <1>8, <1>9, BlankIs, Given, TypedStep
<1>11. /\ ListWrites = {} => ListWrites' = {}
       /\ Toggles' \subseteq ListWrites' /\ \A w \in Toggles' : ~w.heard
  BY <1>3, <1>4 DEF ListWrites, Toggles
<1>12. DraftFollows'
  <2>1. ASSUME NEW v \in DraftWrites', v.stage = "sent" PROVE Meant(v)' \in meant'
    <3>1. PICK w \in wire : v = [w EXCEPT !.heard = FALSE] /\ w.stage = "sent"
      BY <1>2, <1>3, <2>1 DEF DraftWrites
    <3>2. v.kind = w.kind /\ v.arg = w.arg
      BY <3>1, Given DEF Written
    <3>3. w \in DraftWrites /\ Meant(v) = Meant(w)
      BY <2>1, <3>1, <3>2 DEF DraftWrites, Meant
    <3>4. QED
      BY <1>1, <3>1, <3>3, Given DEF DraftFollows, DraftMeant, Meant
  <2>2. ASSUME \A v \in DraftWrites' : v.stage # "sent" PROVE draft' \in meant'
    <3>1. ASSUME NEW w \in DraftWrites, w.stage = "sent" PROVE FALSE
      <4>1. PICK v : v = [w EXCEPT !.heard = FALSE]
        OBVIOUS
      <4>2. w \in wire /\ w.kind \in DraftKinds
        BY <3>1, Given DEF DraftsIn
      <4>3. v.kind = w.kind /\ v.stage = "sent"
        BY <3>1, <4>1, <4>2, Given DEF Written
      <4>4. v \in wire'
        BY <1>2, <1>3, <3>1, <4>1, <4>2 DEF DraftKinds
      <4>5. v \in DraftWrites'
        BY <4>2, <4>3, <4>4 DEF DraftWrites, DraftKinds
      <4>6. QED
        BY <2>2, <4>3, <4>5
    <3>2. QED
      BY <1>1, <3>1, Given DEF DraftFollows, DraftMeant
  <2>3. DraftRead'
    BY <1>8 DEF DraftRead
  <2>4. QED
    BY <2>1, <2>2, <2>3 DEF DraftFollows, DraftMeant
<1>13. fetch'.list.stage = "sent" /\ (fetch'.list.clean => ListWrites = {})
  <2>1. PICK b \in BOOLEAN : b = (ListWrites = {})
    OBVIOUS
  <2>2. fetch'.list = Started(b)
    BY <1>8, <2>1
  <2>3. fetch'.list.stage = "sent" /\ fetch'.list.clean = b
    BY <2>2 DEF Started
  <2>4. QED
    BY <2>1, <2>3
<1>14. CleanReading' /\ ListFollows'
  BY <1>1, <1>11, <1>13 DEF CleanReading, ListFollows, ListRead, OnScreen
<1>15. QED
  BY <1>10, <1>12, <1>14, Together

\* A row flips on screen, and what was there is kept.
LEMMA ToggleStep ==
  ASSUME IInv, NEW a \in Alarms, Toggle(a)
  PROVE  IInv'
<1>1. PICK l : l = cache.list
  OBVIOUS
<1>2. l \in Table /\ l[a] \in Rows
  <2>1. "list" \in Queries
    BY DEF Queries
  <2>2. l \in Table
    BY <1>1, <2>1, Given DEF CacheFits, Holds, Brings, Toggle
  <2>3. l[a] # None
    BY <1>1 DEF Toggle
  <2>4. QED
    BY <2>2, <2>3 DEF Table
<1>3. PICK on \in BOOLEAN : on = ~l[a].enabled
  OBVIOUS
<1>4. PICK arg : arg = [alarm |-> a, enabled |-> on, previous |-> l]
  OBVIOUS
<1>5. PICK v : v = Write("toggle", arg)
  OBVIOUS
<1>6. PICK m : m = [l EXCEPT ![a].enabled = on]
  OBVIOUS
<1>7. ui.page = "list" /\ wire' = wire \cup {v} /\ cache' = [cache EXCEPT !.list = m]
  <2>1. ui.page = "list" /\ wire' = wire \cup {v}
    BY <1>1, <1>3, <1>4, <1>5 DEF Toggle, SendFromList
  <2>2. cache' = [cache EXCEPT !.list = [@ EXCEPT ![a].enabled = on]]
    BY <1>1, <1>3, Given DEF Toggle
  <2>3. QED
    BY <1>1, <1>6, <2>1, <2>2
<1>8. /\ fetch' = [fetch EXCEPT !.list = Idle]
      /\ listRaced' = (listRaced \/ ListWrites # {} \/ (fetch.list.stage # "idle" /\ l # alarms))
      /\ UNCHANGED <<alarms, draft, ui, meant, draftMissed>>
  BY <1>1 DEF Toggle, StopReading
<1>9. v.kind = "toggle" /\ v.arg = arg /\ v.stage = "sent" /\ v.heard /\ Written(v)
  <2>1. v.kind = "toggle" /\ v.arg = arg /\ v.stage = "sent" /\ v.heard /\ (Says(v) => Written(v))
    BY <1>5, WriteIs DEF Kinds
  <2>2. arg \in [alarm : Alarms, enabled : BOOLEAN, previous : Table]
    BY <1>2, <1>4
  <2>3. Says(v)
    BY <2>1, <2>2 DEF Says
  <2>4. QED
    BY <2>1, <2>3
<1>10. Posted(wire \cup {v})
  BY <1>7, <1>9, Given DEF Posted
<1>11. DraftsIn(wire \cup {v}) = DraftWrites
  BY <1>9, Given DEF DraftsIn, DraftKinds
<1>12. "list" \in Queries /\ "draft" \in Queries
  BY DEF Queries
<1>13. m \in Table
  BY <1>2, <1>6 DEF Table, Rows
<1>14. CacheFits(cache') /\ cache'.list = m /\ cache'.draft = cache.draft
  <2>1. cache = [q \in Queries |-> cache[q]] /\ \A q \in Queries : cache[q] \in Holds(q)
    BY Given DEF CacheFits
  <2>2. m \in Holds("list")
    BY <1>13 DEF Holds, Brings
  <2>3. QED
    BY <1>7, <1>12, <2>1, <2>2 DEF CacheFits
<1>15. FetchFits(fetch') /\ fetch'.list.stage = "idle" /\ fetch'.draft = fetch.draft
  <2>1. Reading("list", Idle) /\ Idle.stage = "idle"
    BY <1>12, StartedIs
  <2>2. fetch = [q \in Queries |-> fetch[q]] /\ \A q \in Queries : Reading(q, fetch[q])
    BY Given DEF FetchFits
  <2>3. QED
    BY <1>8, <1>12, <2>1, <2>2 DEF FetchFits
<1>16. Typed'
  BY <1>8, <1>10, <1>14, <1>15, Given, TypedStep
<1>17. DraftFollows'
  BY <1>8, <1>10, <1>11, <1>14, <1>15, Given, DraftQuiet
<1>18. CleanReading'
  BY <1>15 DEF CleanReading
<1>19. ASSUME ~listRaced'
       PROVE  /\ \A w \in ListWrites' : w.heard
              /\ \A w \in Toggles' : ToggleAlone(w)'
              /\ ListRead'
  <2>1. ListWrites = {} /\ ~listRaced /\ (fetch.list.stage # "idle" => l = alarms)
    BY <1>8, <1>19
  <2>2. ListRead /\ Toggles \subseteq ListWrites
    BY <2>1, Given DEF ListFollows, Toggles, ListWrites
  <2>3. l = alarms
    BY <1>1, <1>7, <2>1, <2>2 DEF ListRead, OnScreen
  <2>4. ListWrites' = {v} /\ Toggles' = {v}
    BY <1>7, <1>9, <2>1, <2>2 DEF ListWrites, Toggles
  <2>5. cache'.list = Flipped(v) /\ v.arg.previous[v.arg.alarm] # None /\ v.arg.previous = l
    BY <1>2, <1>4, <1>6, <1>9, <1>14, WebClientAssumption DEF Flipped
  <2>6. ToggleAlone(v)'
    BY <1>8, <1>9, <2>3, <2>4, <2>5 DEF ToggleAlone, Flipped
  <2>7. ListRead'
    BY <1>9, <2>4 DEF ListRead
  <2>8. QED
    BY <1>9, <2>4, <2>6, <2>7
<1>20. CleanReading' /\ ListFollows'
  BY <1>13, <1>14, <1>18, <1>19, WebClientAssumption DEF ListFollows
<1>21. QED
  BY <1>16, <1>17, <1>20, Together

-----------------------------------------------------------------------------
\* The server's answers, and those that are lost.

\* A write of the list is served, or lost before it is.
LEMMA ListSettled ==
  ASSUME Typed, CleanReading, ListFollows, NEW w \in ListWrites, NEW z,
         z.kind = w.kind, z.arg = w.arg, z.heard = w.heard,
         wire' = (wire \ {w}) \cup (IF w.heard THEN {z} ELSE {}),
         UNCHANGED <<fetch, cache, ui>>,
         ~listRaced' => ~listRaced /\ w.heard /\ w.stage = "sent",
         z.stage # "ok" => alarms' = alarms,
         w.kind = "toggle" /\ z.stage = "ok" =>
           /\ alarms' = [alarms EXCEPT ![w.arg.alarm].enabled = w.arg.enabled]
           /\ z.reply = alarms'[w.arg.alarm]
  PROVE  CleanReading' /\ ListFollows'
<1>1. CleanReading'
  BY DEF CleanReading
<1>2. ASSUME ~listRaced'
      PROVE  /\ \A v \in ListWrites' : v.heard
             /\ \A v \in Toggles' : ToggleAlone(v)'
             /\ ListRead'
  <2>1. /\ w.heard /\ w.stage = "sent" /\ ListRead
        /\ (\A v \in ListWrites : v.heard) /\ (\A v \in Toggles : ToggleAlone(v))
    BY <1>2 DEF ListFollows
  <2>2. ListWrites' = (ListWrites \ {w}) \cup {z}
    BY <2>1 DEF ListWrites
  <2>3. Toggles \subseteq ListWrites /\ (w \in Toggles <=> w.kind = "toggle")
    BY DEF Toggles, ListWrites
  <2>4. \A v \in ListWrites' : v.heard
    BY <2>1, <2>2
  <2>5. CASE w.kind = "toggle"
    <3>1. ToggleAlone(w)
      BY <2>1, <2>3, <2>5
    <3>2. ListWrites' = {z} /\ Toggles' = {z}
      BY <2>2, <2>5, <3>1 DEF ToggleAlone, Toggles, ListWrites
    <3>3. /\ z.arg.previous[z.arg.alarm] # None /\ cache.list = Flipped(z)
          /\ alarms = z.arg.previous
      BY <2>1, <3>1 DEF ToggleAlone, Flipped
    <3>4. z.stage = "ok" => alarms' = Flipped(z) /\ z.reply = alarms'[z.arg.alarm]
      BY <2>5, <3>3 DEF Flipped
    <3>5. ToggleAlone(z)'
      BY <3>2, <3>3, <3>4 DEF ToggleAlone, Flipped
    <3>6. ListRead'
      BY <2>5, <3>2 DEF ListRead
    <3>7. QED
      BY <2>4, <3>2, <3>5, <3>6
  <2>6. CASE w.kind # "toggle"
    <3>1. Toggles = {}
      BY <2>1, <2>3, <2>6 DEF ToggleAlone
    <3>2. Toggles' = {}
      BY <2>2, <2>6, <3>1 DEF Toggles, ListWrites
    <3>3. ListRead'
      BY <2>1, <2>2, <3>1 DEF ListRead, OnScreen
    <3>4. QED
      BY <2>4, <3>2, <3>3
  <2>7. QED
    BY <2>5, <2>6
<1>3. \A v \in Toggles' : v.heard => cache'.list # None
  BY DEF Toggles, ListWrites, ListFollows
<1>4. QED
  BY <1>1, <1>2, <1>3 DEF ListFollows

\* What is left on the wire of a write that is settled.
LEMMA SettledIs ==
  ASSUME IInv, NEW w \in wire, NEW stage \in Stages, NEW reply, NEW z,
         z = [slot |-> w.slot, kind |-> w.kind, arg |-> w.arg, stage |-> stage,
              reply |-> reply, heard |-> w.heard, here |-> w.here],
         w.kind = "toggle" /\ stage = "ok" => reply \in Rows
  PROVE  /\ Written(z) /\ z.kind = w.kind /\ z.arg = w.arg /\ z.heard = w.heard
         /\ z.stage = stage /\ z.reply = reply
<1>1. Written(w)
  BY Given
<1>2. /\ z.kind = w.kind /\ z.arg = w.arg /\ z.heard = w.heard
      /\ z.stage = stage /\ z.reply = reply
      /\ z = [slot |-> z.slot, kind |-> z.kind, arg |-> z.arg, stage |-> z.stage,
              reply |-> z.reply, heard |-> z.heard, here |-> z.here]
  BY <1>1 DEF Written
<1>3. Says(z)
  BY <1>1, <1>2 DEF Written, Says
<1>4. QED
  BY <1>1, <1>2, <1>3 DEF Written

\* What the server makes of a write: all there is to know of it here.
LEMMA ServedIs ==
  ASSUME IInv, NEW w, Serve(w)
  PROVE  \E stage \in {"ok", "refused"}, reply \in Rows \cup {None} :
           /\ wire' = (wire \ {w}) \cup
                (IF w.heard THEN {[w EXCEPT !.stage = stage, !.reply = reply]} ELSE {})
           /\ w.kind \in DraftKinds =>
                alarms' = alarms /\ stage = "ok" /\ draft' = Meant(w)
           /\ w.kind \notin DraftKinds => draft' = draft
           /\ alarms' \in Table
           /\ stage # "ok" => alarms' = alarms
           /\ w.kind = "toggle" /\ stage = "ok" =>
                /\ alarms' = [alarms EXCEPT ![w.arg.alarm].enabled = w.arg.enabled]
                /\ reply = alarms'[w.arg.alarm] /\ reply \in Rows
<1>1. Says(w) /\ alarms \in Table
  BY Given DEF Serve, Written
<1>2. PICK stage \in {"ok", "refused"}, reply \in Rows \cup {None} :
       /\ \/ /\ w.kind = "saveDraft" /\ stage = "ok" /\ reply = None
             /\ draft' = w.arg /\ UNCHANGED alarms
          \/ /\ w.kind \in {"discard", "discardCreated"} /\ stage = "ok" /\ reply = None
             /\ draft' = None /\ UNCHANGED alarms
          \/ /\ w.kind = "create" /\ reply = None /\ UNCHANGED draft
             /\ IF NameTaken(w.arg.text) THEN stage = "refused" /\ UNCHANGED alarms
                ELSE /\ stage = "ok"
                     /\ \E a \in Alarms :
                          /\ alarms[a] = None
                          /\ alarms' = [alarms EXCEPT ![a] = [text |-> w.arg.text, enabled |-> TRUE]]
          \/ /\ w.kind = "edit" /\ reply = None /\ UNCHANGED draft
             /\ LET old == alarms[w.arg.alarm] IN
                IF old = None THEN stage = "refused" /\ UNCHANGED alarms
                ELSE IF old.text # w.arg.text /\ NameTaken(w.arg.text)
                       THEN stage = "refused" /\ UNCHANGED alarms
                ELSE /\ stage = "ok"
                     /\ alarms' = [alarms EXCEPT ![w.arg.alarm].text = w.arg.text]
          \/ /\ w.kind = "toggle" /\ UNCHANGED draft
             /\ IF alarms[w.arg.alarm] = None
                  THEN stage = "refused" /\ reply = None /\ UNCHANGED alarms
                  ELSE /\ stage = "ok"
                       /\ alarms' = [alarms EXCEPT ![w.arg.alarm].enabled = w.arg.enabled]
                       /\ reply = alarms'[w.arg.alarm]
          \/ /\ w.kind = "bulk" /\ reply = None /\ UNCHANGED draft
             /\ IF \E a \in w.arg.alarms : alarms[a] = None
                  THEN stage = "refused" /\ UNCHANGED alarms
                  ELSE /\ stage = "ok"
                       /\ alarms' = [a \in Alarms |-> IF a \in w.arg.alarms
                                                        THEN [alarms[a] EXCEPT !.enabled = w.arg.enabled]
                                                        ELSE alarms[a]]
          \/ /\ w.kind = "delete" /\ reply = None /\ UNCHANGED draft
             /\ stage = IF alarms[w.arg.alarm] = None THEN "refused" ELSE "ok"
             /\ alarms' = [alarms EXCEPT ![w.arg.alarm] = None]
       /\ wire' = (wire \ {w}) \cup (IF w.heard THEN {[w EXCEPT !.stage = stage, !.reply = reply]} ELSE {})
  BY DEF Serve
<1>3. /\ w.kind \in DraftKinds => alarms' = alarms /\ stage = "ok" /\ draft' = Meant(w)
      /\ w.kind \notin DraftKinds => draft' = draft
  BY <1>2 DEF DraftKinds, Meant
<1>4. /\ alarms' \in Table /\ (stage # "ok" => alarms' = alarms)
      /\ w.kind = "toggle" /\ stage = "ok" =>
           /\ alarms' = [alarms EXCEPT ![w.arg.alarm].enabled = w.arg.enabled]
           /\ reply = alarms'[w.arg.alarm] /\ reply \in Rows
  <2>1. CASE w.kind \in DraftKinds
    BY <1>1, <1>3, <2>1 DEF DraftKinds
  <2>2. CASE w.kind = "create"
    <3>1. w.arg.text \in Texts
      BY <1>1, <2>2 DEF Says
    <3>2. \A a \in Alarms : [alarms EXCEPT ![a] = [text |-> w.arg.text, enabled |-> TRUE]] \in Table
      BY <1>1, <3>1 DEF Table, Rows
    <3>3. QED
      BY <1>1, <1>2, <2>2, <3>2
  <2>3. CASE w.kind = "edit"
    <3>1. w.arg.alarm \in Alarms /\ w.arg.text \in Texts
      BY <1>1, <2>3 DEF Says
    <3>2. CASE stage = "refused"
      BY <1>1, <1>2, <2>3, <3>2
    <3>3. CASE stage = "ok"
      <4>1. alarms[w.arg.alarm] # None /\ alarms' = [alarms EXCEPT ![w.arg.alarm].text = w.arg.text]
        BY <1>2, <2>3, <3>3
      <4>2. alarms[w.arg.alarm] \in Rows
        BY <1>1, <3>1, <4>1 DEF Table
      <4>3. QED
        BY <1>1, <2>3, <3>1, <3>3, <4>1, <4>2 DEF Table, Rows
    <3>4. QED
      BY <3>2, <3>3
  <2>4. CASE w.kind = "toggle"
    <3>1. w.arg.alarm \in Alarms /\ w.arg.enabled \in BOOLEAN
      BY <1>1, <2>4 DEF Says
    <3>2. CASE stage = "refused"
      BY <1>1, <1>2, <2>4, <3>2
    <3>3. CASE stage = "ok"
      <4>1. /\ alarms[w.arg.alarm] # None
            /\ alarms' = [alarms EXCEPT ![w.arg.alarm].enabled = w.arg.enabled]
            /\ reply = alarms'[w.arg.alarm]
        BY <1>2, <2>4, <3>3
      <4>2. alarms[w.arg.alarm] \in Rows
        BY <1>1, <3>1, <4>1 DEF Table
      <4>3. alarms' \in Table /\ alarms'[w.arg.alarm] \in Rows
        BY <1>1, <3>1, <4>1, <4>2 DEF Table, Rows
      <4>4. QED
        BY <3>3, <4>1, <4>3
    <3>4. QED
      BY <3>2, <3>3
  <2>5. CASE w.kind = "bulk"
    <3>1. w.arg.alarms \subseteq Alarms /\ w.arg.enabled \in BOOLEAN
      BY <1>1, <2>5 DEF Says
    <3>2. CASE stage = "refused"
      BY <1>1, <1>2, <2>5, <3>2
    <3>3. CASE stage = "ok"
      <4>1. /\ \A a \in w.arg.alarms : alarms[a] # None
            /\ alarms' = [a \in Alarms |-> IF a \in w.arg.alarms
                                             THEN [alarms[a] EXCEPT !.enabled = w.arg.enabled]
                                             ELSE alarms[a]]
        BY <1>2, <2>5, <3>3
      <4>2. \A a \in w.arg.alarms : alarms[a] \in Rows
        BY <1>1, <3>1, <4>1 DEF Table
      <4>3. \A a \in w.arg.alarms : [alarms[a] EXCEPT !.enabled = w.arg.enabled] \in Rows
        BY <3>1, <4>2 DEF Rows
      <4>4. alarms' \in Table
        BY <1>1, <4>1, <4>3 DEF Table
      <4>5. QED
        BY <2>5, <3>3, <4>4
    <3>4. QED
      BY <3>2, <3>3
  <2>6. CASE w.kind = "delete"
    <3>1. w.arg.alarm \in Alarms
      BY <1>1, <2>6 DEF Says
    <3>2. alarms' = [alarms EXCEPT ![w.arg.alarm] = None]
          /\ stage = IF alarms[w.arg.alarm] = None THEN "refused" ELSE "ok"
      BY <1>2, <2>6
    <3>3. alarms' \in Table
      BY <1>1, <3>1, <3>2 DEF Table
    <3>4. stage # "ok" => alarms' = alarms
      BY <1>1, <3>1, <3>2 DEF Table
    <3>5. QED
      BY <2>6, <3>3, <3>4
  <2>7. QED
    BY <1>2, <2>1, <2>2, <2>3, <2>4, <2>5, <2>6 DEF DraftKinds
<1>5. QED
  BY <1>2, <1>3, <1>4

\* A reading of the draft that is overtaken touches no other, and never comes in clean.
LEMMA DraftOvertaken ==
  ASSUME FetchFits(fetch), NEW F, F = Overtaken(fetch, "draft")
  PROVE  FetchFits(F) /\ F.list = fetch.list /\ ~(F.draft.stage = "served" /\ F.draft.clean)
<1>1. "list" \in Queries /\ "draft" \in Queries /\ "list" # "draft"
  BY DEF Queries
<1>2. OvertakenAs(F, fetch, "draft")
  BY <1>1, OvertakenIs
<1>3. QED
  BY <1>1, <1>2 DEF OvertakenAs

LEMMA ServeStep ==
  ASSUME IInv, NEW w, Serve(w)
  PROVE  IInv'
<1>1. /\ w \in wire /\ w.stage = "sent" /\ w.kind \in DraftKinds \cup ListKinds
      /\ listRaced' = (listRaced \/ (~w.heard /\ w \in ListWrites))
      /\ IF ~w.heard /\ w \in DraftWrites
           THEN draftMissed' = TRUE /\ fetch' = Overtaken(fetch, "draft")
           ELSE UNCHANGED <<draftMissed, fetch>>
      /\ UNCHANGED <<cache, ui, meant>>
  BY Given DEF Serve, Written, Kinds, DraftKinds, ListKinds
<1>2. PICK stage \in {"ok", "refused"}, reply \in Rows \cup {None} :
        /\ wire' = (wire \ {w}) \cup
             (IF w.heard THEN {[w EXCEPT !.stage = stage, !.reply = reply]} ELSE {})
        /\ w.kind \in DraftKinds => alarms' = alarms /\ stage = "ok" /\ draft' = Meant(w)
        /\ w.kind \notin DraftKinds => draft' = draft
        /\ alarms' \in Table
        /\ stage # "ok" => alarms' = alarms
        /\ w.kind = "toggle" /\ stage = "ok" =>
             /\ alarms' = [alarms EXCEPT ![w.arg.alarm].enabled = w.arg.enabled]
             /\ reply = alarms'[w.arg.alarm] /\ reply \in Rows
  BY ServedIs
<1>3. PICK z : z = [w EXCEPT !.stage = stage, !.reply = reply]
  OBVIOUS
<1>4. /\ Written(z) /\ z.kind = w.kind /\ z.arg = w.arg /\ z.heard = w.heard
      /\ z.stage = stage /\ z.reply = reply
  <2>1. z = [slot |-> w.slot, kind |-> w.kind, arg |-> w.arg, stage |-> stage,
             reply |-> reply, heard |-> w.heard, here |-> w.here]
    <3>1. w = [slot |-> w.slot, kind |-> w.kind, arg |-> w.arg, stage |-> w.stage,
               reply |-> w.reply, heard |-> w.heard, here |-> w.here]
      BY <1>1, Given DEF Written
    <3>2. QED
      BY <1>3, <3>1
  <2>2. stage \in Stages /\ (w.kind = "toggle" /\ stage = "ok" => reply \in Rows)
    BY <1>2 DEF Stages
  <2>3. QED
    BY <1>1, <2>1, <2>2, SettledIs
<1>5. PICK X : X = (wire \ {w}) \cup (IF w.heard THEN {z} ELSE {})
  OBVIOUS
<1>6. wire' = X /\ Posted(X)
  BY <1>2, <1>3, <1>4, <1>5, Given DEF Posted
<1>7. draft' \in Drafts \cup {None}
  BY <1>1, <1>2, Given DEF Meant, Written, Says
<1>8. Typed'
  <2>1. FetchFits(fetch') /\ draftMissed' \in BOOLEAN
    BY <1>1, Given, DraftOvertaken
  <2>2. QED
    BY <1>1, <1>2, <1>6, <1>7, <2>1, Given, TypedStep
<1>9. CASE w.kind \in DraftKinds
  <2>1. DraftFollows'
    <3>1. w \in DraftWrites /\ DraftWrites' = DraftsIn(X)
      BY <1>1, <1>6, <1>9, Given DEF DraftWrites, DraftsIn, DraftKinds
    <3>2. \A v \in DraftWrites' : v \in DraftWrites \/ v = z
      BY <1>5, <3>1, Given DEF DraftsIn
    <3>3. DraftMeant'
      <4>1. ASSUME NEW v \in DraftWrites', v.stage = "sent" PROVE Meant(v)' \in meant'
        <5>1. v \in DraftWrites
          BY <1>2, <1>4, <1>9, <3>2, <4>1
        <5>2. QED
          BY <1>1, <4>1, <5>1, Given DEF DraftFollows, DraftMeant, Meant
      <4>2. draft' \in meant'
        BY <1>1, <1>2, <1>9, <3>1, Given DEF DraftFollows, DraftMeant
      <4>3. QED
        BY <4>1, <4>2 DEF DraftMeant
    <3>4. DraftRead'
      <4>1. CASE w.heard
        <5>1. z \in DraftWrites' /\ z.stage = "ok"
          BY <1>2, <1>4, <1>5, <1>9, <3>1, <4>1 DEF DraftsIn
        <5>2. QED
          BY <5>1 DEF DraftRead
      <4>2. CASE ~w.heard
        <5>1. draftMissed' /\ ~(fetch'.draft.stage = "served" /\ fetch'.draft.clean)
          BY <1>1, <3>1, <4>2, Given, DraftOvertaken
        <5>2. QED
          BY <5>1 DEF DraftRead
      <4>3. QED
        BY <4>1, <4>2
    <3>5. QED
      BY <3>3, <3>4 DEF DraftFollows
  <2>2. ListIn(X) = ListWrites
    BY <1>4, <1>5, <1>9, Given DEF ListIn, DraftKinds, ListKinds
  <2>3. ListIn(X) \subseteq ListWrites /\ ListWrites \ X = {}
    BY <2>2 DEF ListIn
  <2>4. UNCHANGED alarms /\ (~listRaced' => ~listRaced)
    BY <1>1, <1>2, <1>9
  <2>5. fetch'.list = fetch.list
    BY <1>1, Given, DraftOvertaken
  <2>6. CleanReading' /\ ListFollows'
    BY <1>1, <1>6, <2>3, <2>4, <2>5, Given, ListQuiet
  <2>7. QED
    BY <1>8, <2>1, <2>6, Together
<1>10. CASE w.kind \in ListKinds
  <2>1. w \in ListWrites /\ w.kind \notin DraftKinds
    BY <1>1, <1>10, Given DEF ListIn, DraftKinds, ListKinds
  <2>2. DraftsIn(X) = DraftWrites /\ w \notin DraftWrites
    BY <1>4, <1>5, <2>1, Given DEF DraftsIn
  <2>3. DraftFollows'
    BY <1>1, <1>2, <1>6, <2>1, <2>2, Given, DraftQuiet
  <2>4. (~listRaced' => ~listRaced /\ w.heard /\ w.stage = "sent") /\ UNCHANGED fetch
    BY <1>1, <2>1, <2>2
  <2>5. CleanReading' /\ ListFollows'
    BY <1>1, <1>2, <1>4, <1>5, <1>6, <2>1, <2>4, Given, ListSettled
  <2>6. QED
    BY <1>8, <2>3, <2>5, Together
<1>11. QED
  BY <1>1, <1>9, <1>10

LEMMA LoseStep ==
  ASSUME IInv, NEW w \in wire, Lose(w)
  PROVE  IInv'
<1>1. /\ w.heard /\ w.kind \in DraftKinds \cup ListKinds
      /\ listRaced' = (listRaced \/ (w \in ListWrites /\ w.stage # "sent"))
      /\ meant' = IF w \in DraftWrites /\ w.stage = "sent" THEN meant \cup {draft} ELSE meant
      /\ IF w \in DraftWrites /\ w.stage # "sent"
           THEN draftMissed' = TRUE /\ fetch' = Overtaken(fetch, "draft")
           ELSE UNCHANGED <<draftMissed, fetch>>
      /\ UNCHANGED <<alarms, draft, cache, ui>>
  BY Given DEF Lose, Written, Kinds, DraftKinds, ListKinds
<1>2. PICK z : z = [w EXCEPT !.stage = "lost"]
  OBVIOUS
<1>3. z = [slot |-> w.slot, kind |-> w.kind, arg |-> w.arg, stage |-> "lost",
           reply |-> w.reply, heard |-> w.heard, here |-> w.here]
  BY <1>2, Given DEF Written
<1>4. Written(z) /\ z.kind = w.kind /\ z.arg = w.arg /\ z.heard = w.heard /\ z.stage = "lost"
  BY <1>3, SettledIs DEF Stages
<1>5. PICK X : X = (wire \ {w}) \cup {z}
  OBVIOUS
<1>6. wire' = X /\ Posted(X)
  BY <1>2, <1>4, <1>5, Given DEF Posted, Lose
<1>7. Typed'
  <2>1. FetchFits(fetch') /\ draftMissed' \in BOOLEAN
    BY <1>1, Given, DraftOvertaken
  <2>2. QED
    BY <1>1, <1>6, <2>1, Given, TypedStep
<1>8. CASE w.kind \in DraftKinds
  <2>1. DraftFollows'
    <3>1. w \in DraftWrites /\ DraftWrites' = DraftsIn(X)
      BY <1>6, <1>8, Given DEF DraftWrites, DraftsIn, DraftKinds
    <3>2. DraftWrites' = (DraftWrites \ {w}) \cup {z}
      BY <1>4, <1>5, <1>8, <3>1, Given DEF DraftsIn
    <3>3. DraftMeant'
      <4>1. ASSUME NEW v \in DraftWrites', v.stage = "sent" PROVE Meant(v)' \in meant'
        <5>1. v \in DraftWrites
          BY <1>4, <3>2, <4>1
        <5>2. Meant(v) \in meant'
          BY <1>1, <4>1, <5>1, Given DEF DraftFollows, DraftMeant
        <5>3. QED
          BY <5>2 DEF Meant
      <4>2. ASSUME \A v \in DraftWrites' : v.stage # "sent" PROVE draft' \in meant'
        <5>1. CASE w.stage = "sent"
          BY <1>1, <3>1, <5>1
        <5>2. CASE w.stage # "sent"
          <6>1. \A v \in DraftWrites : v.stage # "sent"
            BY <3>2, <4>2, <5>2
          <6>2. QED
            BY <1>1, <5>2, <6>1, Given DEF DraftFollows, DraftMeant
        <5>3. QED
          BY <5>1, <5>2
      <4>3. QED
        BY <4>1, <4>2 DEF DraftMeant
    <3>4. DraftRead'
      <4>1. CASE w.stage = "sent"
        <5>1. UNCHANGED <<draftMissed, fetch, draft, cache, ui>>
          BY <1>1, <4>1
        <5>2. ASSUME \A v \in DraftWrites' : v.stage # "ok"
              PROVE  \A v \in DraftWrites : v.stage # "ok"
          BY <3>2, <4>1, <5>2
        <5>3. QED
          BY <5>1, <5>2, Given DEF DraftFollows, DraftRead
      <4>2. CASE w.stage # "sent"
        <5>1. draftMissed' /\ ~(fetch'.draft.stage = "served" /\ fetch'.draft.clean)
          BY <1>1, <3>1, <4>2, Given, DraftOvertaken
        <5>2. QED
          BY <5>1 DEF DraftRead
      <4>3. QED
        BY <4>1, <4>2
    <3>5. QED
      BY <3>3, <3>4 DEF DraftFollows
  <2>2. ListIn(X) = ListWrites
    BY <1>4, <1>5, <1>8, Given DEF ListIn, DraftKinds, ListKinds
  <2>3. ListIn(X) \subseteq ListWrites /\ ListWrites \ X = {}
    BY <2>2 DEF ListIn
  <2>4. fetch'.list = fetch.list
    BY <1>1, Given, DraftOvertaken
  <2>5. ~listRaced' => ~listRaced
    BY <1>1
  <2>6. CleanReading' /\ ListFollows'
    BY <1>1, <1>6, <2>3, <2>4, <2>5, Given, ListQuiet
  <2>7. QED
    BY <1>7, <2>1, <2>6, Together
<1>9. CASE w.kind \in ListKinds
  <2>1. w \in ListWrites /\ w.kind \notin DraftKinds
    BY <1>9, Given DEF ListIn, DraftKinds, ListKinds
  <2>2. DraftsIn(X) = DraftWrites /\ w \notin DraftWrites
    BY <1>4, <1>5, <2>1, Given DEF DraftsIn
  <2>3. DraftFollows'
    BY <1>1, <1>6, <2>2, Given, DraftQuiet
  <2>4. (~listRaced' => ~listRaced /\ w.heard /\ w.stage = "sent") /\ UNCHANGED fetch
    BY <1>1, <2>1, <2>2
  <2>5. CleanReading' /\ ListFollows'
    BY <1>1, <1>4, <1>5, <1>6, <2>1, <2>4, Given, ListSettled
  <2>6. QED
    BY <1>7, <2>3, <2>5, Together
<1>10. QED
  BY <1>1, <1>8, <1>9

-----------------------------------------------------------------------------
\* What the tab does with an answer.

\* A write of the draft has come about, and the draft is read again.
LEMMA DraftEnds ==
  ASSUME IInv, NEW w \in DraftWrites, w.stage = "ok", NEW X, Posted(X), wire' = X,
         DraftsIn(X) = DraftWrites \ {w}, fetch' = Invalidated(fetch, "draft", ui, {}),
         UNCHANGED <<draft, cache, ui, meant, draftMissed>>
  PROVE  FetchFits(fetch') /\ fetch'.list = fetch.list /\ DraftFollows'
<1>1. /\ FetchFits(fetch') /\ fetch'.list = fetch.list
      /\ \/ fetch'.draft.stage = "sent"
         \/ fetch'.draft.stage = "served" /\ fetch'.draft.clean = FALSE
         \/ fetch'.draft.stage = "idle" /\ ui.page = "edit"
  <2>1. "list" \in Queries /\ "draft" \in Queries /\ "list" # "draft"
    BY DEF Queries
  <2>2. InvalidatedAs(fetch', "draft", {})
    BY <2>1, Given, InvalidatedIs
  <2>3. "draft" \notin Uses(ui) => ui.page = "edit"
    BY Given DEF Uses, Opened, UiRow
  <2>4. QED
    BY <2>1, <2>2, <2>3 DEF InvalidatedAs, Started
<1>2. DraftWrites' = DraftWrites \ {w}
  BY DEF DraftWrites, DraftsIn, DraftKinds
<1>3. DraftMeant /\ DraftMeant'
  <2>1. DraftMeant
    BY Given DEF DraftFollows
  <2>2. (\A v \in DraftWrites' : v.stage # "sent") => \A v \in DraftWrites : v.stage # "sent"
    BY <1>2
  <2>3. QED
    BY <1>2, <2>1, <2>2 DEF DraftMeant, Meant
<1>4. DraftRead'
  BY <1>1 DEF DraftRead
<1>5. QED
  BY <1>1, <1>3, <1>4 DEF DraftFollows

LEMMA EndsIs ==
  ASSUME IInv, NEW w, Ends(w)
  PROVE  /\ Posted(wire \ {w}) /\ wire' = wire \ {w} /\ w \in wire /\ w.heard
         /\ DraftsIn(wire \ {w}) = DraftWrites \ {w} /\ ListIn(wire \ {w}) = ListWrites \ {w}
         /\ ListIn(wire \ {w}) \subseteq ListWrites
         /\ \A v \in ListWrites \ (wire \ {w}) : v = w
BY Given DEF Ends, Posted, DraftsIn, ListIn

LEMMA DraftWrittenStep ==
  ASSUME IInv, NEW w, DraftWritten(w)
  PROVE  IInv'
<1>1. /\ w.kind \in {"saveDraft", "discard"} /\ w.stage = "ok" /\ Ends(w)
      /\ fetch' = Invalidated(fetch, "draft", ui, {})
      /\ UNCHANGED <<alarms, draft, cache, ui, meant, draftMissed, listRaced>>
  BY DEF DraftWritten
<1>2. PICK X : X = wire \ {w}
  OBVIOUS
<1>3. /\ Posted(X) /\ wire' = X /\ w \in wire /\ DraftsIn(X) = DraftWrites \ {w}
      /\ ListIn(X) \subseteq ListWrites /\ \A v \in ListWrites \ X : v = w
  BY <1>1, <1>2, EndsIs
<1>4. w \in DraftWrites /\ w \notin ListWrites
  BY <1>1, <1>3 DEF DraftWrites, ListWrites
<1>5. FetchFits(fetch') /\ fetch'.list = fetch.list /\ DraftFollows'
  BY <1>1, <1>3, <1>4, DraftEnds
<1>6. draftMissed' \in BOOLEAN
  BY <1>1, Given
<1>7. Typed'
  BY <1>1, <1>3, <1>5, <1>6, Given, TypedStep
<1>8. ListWrites \ X = {}
  BY <1>3, <1>4
<1>9. CleanReading' /\ ListFollows'
  BY <1>1, <1>3, <1>5, <1>8, Given, ListQuiet
<1>10. QED
  BY <1>5, <1>7, <1>9, Together

\* The alarm has been created, and the discard of its draft goes out under the same slot.
LEMMA CreatedStep ==
  ASSUME IInv, NEW w, Created(w)
  PROVE  IInv'
<1>1. /\ w \in wire /\ w.heard /\ w.kind = "create" /\ w.stage = "ok"
      /\ meant' = Meaning(None)
      /\ UNCHANGED <<alarms, draft, fetch, cache, ui, draftMissed, listRaced>>
  BY DEF Created
<1>2. PICK z : z = [w EXCEPT !.kind = "discardCreated", !.arg = None, !.stage = "sent"]
  OBVIOUS
<1>3. w = [slot |-> w.slot, kind |-> w.kind, arg |-> w.arg, stage |-> w.stage,
           reply |-> w.reply, heard |-> w.heard, here |-> w.here]
  BY <1>1, Given DEF Written
<1>4. z = [slot |-> w.slot, kind |-> "discardCreated", arg |-> None, stage |-> "sent",
           reply |-> w.reply, heard |-> w.heard, here |-> w.here]
  BY <1>2, <1>3
<1>5. z.kind = "discardCreated" /\ z.stage = "sent" /\ z.heard /\ Written(z)
  BY <1>1, <1>4 DEF Written, Says, Kinds, Stages
<1>6. PICK X : X = (wire \ {w}) \cup {z}
  OBVIOUS
<1>7. wire' = X /\ Posted(X)
  BY <1>2, <1>5, <1>6, Given DEF Posted, Created
<1>8. DraftsIn(X) = DraftWrites \cup {z} /\ ListIn(X) = ListWrites \ {w}
  BY <1>1, <1>5, <1>6, Given DEF DraftsIn, ListIn, DraftKinds, ListKinds
<1>9. Typed'
  BY <1>1, <1>7, Given, TypedStep
<1>10. meant' = Meaning(Meant(z))
  BY <1>1, <1>5 DEF Meant
<1>11. DraftFollows'
  BY <1>1, <1>5, <1>7, <1>8, <1>10, Given, DraftSent
<1>12. ListIn(X) \subseteq ListWrites /\ \A v \in ListWrites \ X : v = w
  BY <1>6, <1>8, Given
<1>13. CleanReading' /\ ListFollows'
  BY <1>1, <1>7, <1>12, Given, ListQuiet
<1>14. QED
  BY <1>9, <1>11, <1>13, Together

LEMMA CreatedDiscardedStep ==
  ASSUME IInv, NEW w, CreatedDiscarded(w)
  PROVE  IInv'
<1>1. /\ w \in wire /\ w.heard /\ w.kind = "discardCreated" /\ w.stage = "ok"
      /\ fetch' = Invalidated(fetch, "draft", ui, {})
      /\ UNCHANGED <<alarms, draft, cache, ui, meant, draftMissed, listRaced>>
  BY DEF CreatedDiscarded
<1>2. PICK z : z = [w EXCEPT !.kind = "leave"]
  OBVIOUS
<1>3. w = [slot |-> w.slot, kind |-> w.kind, arg |-> w.arg, stage |-> w.stage,
           reply |-> w.reply, heard |-> w.heard, here |-> w.here]
  BY <1>1, Given DEF Written
<1>4. z = [slot |-> w.slot, kind |-> "leave", arg |-> w.arg, stage |-> w.stage,
           reply |-> w.reply, heard |-> w.heard, here |-> w.here]
  BY <1>2, <1>3
<1>5. z.kind = "leave" /\ Written(z)
  BY <1>1, <1>4 DEF Written, Says, Kinds, Stages
<1>6. PICK X : X = (wire \ {w}) \cup {z}
  OBVIOUS
<1>7. wire' = X /\ Posted(X)
  BY <1>2, <1>5, <1>6, Given DEF Posted, CreatedDiscarded
<1>8. DraftsIn(X) = DraftWrites \ {w} /\ ListIn(X) = ListWrites
  BY <1>1, <1>5, <1>6, Given DEF DraftsIn, ListIn, DraftKinds, ListKinds
<1>9. w \in DraftWrites
  BY <1>1 DEF DraftWrites
<1>10. FetchFits(fetch') /\ fetch'.list = fetch.list /\ DraftFollows'
  BY <1>1, <1>7, <1>8, <1>9, DraftEnds
<1>11. draftMissed' \in BOOLEAN
  BY <1>1, Given
<1>12. Typed'
  BY <1>1, <1>7, <1>10, <1>11, Given, TypedStep
<1>13. ListIn(X) \subseteq ListWrites /\ ListWrites \ X = {}
  BY <1>8 DEF ListIn
<1>14. CleanReading' /\ ListFollows'
  BY <1>1, <1>7, <1>10, <1>13, Given, ListQuiet
<1>15. QED
  BY <1>10, <1>12, <1>14, Together

LEMMA LeaveStep ==
  ASSUME IInv, NEW w, Leave(w)
  PROVE  IInv'
<1>1. /\ w \in wire /\ w.heard /\ (w.kind = "leave" \/ w.kind = "edit")
      /\ ui' = IF ui.page = "list" THEN ui ELSE Blank
      /\ fetch' = IF ui.page = "list" THEN Invalidated(fetch, "list", ui, Others(w))
                  ELSE Mounted(fetch, Blank, Others(w))
      /\ UNCHANGED <<alarms, draft, cache, meant, draftMissed, listRaced>>
  BY DEF Leave
<1>2. PICK X : X = wire \ {w}
  OBVIOUS
<1>3. wire' = Left(X) /\ Posted(X)
  BY <1>2, Given DEF Posted, Leave
<1>4. /\ DraftsIn(X) = DraftWrites /\ ListIn(X) = Others(w) /\ ListIn(X) \subseteq ListWrites
      /\ \A v \in ListWrites \ X : v = w
  BY <1>1, <1>2, Given DEF DraftsIn, ListIn, DraftKinds, ListKinds, Others
<1>5. Opened(ui') /\ ui'.page = "list"
  BY <1>1, BlankIs, Given
<1>6. CASE ui.page = "list"
  <2>1. "list" \in Queries /\ "draft" \in Queries /\ "list" # "draft"
    BY DEF Queries
  <2>2. fetch' = Invalidated(fetch, "list", ui, Others(w))
    BY <1>1, <1>6
  <2>3. InvalidatedAs(fetch', "list", Others(w))
    BY <2>1, <2>2, Given, InvalidatedIs
  <2>4. /\ FetchFits(fetch') /\ fetch'.draft = fetch.draft
        /\ \/ fetch'.list = Started(ListIn(X) = {})
           \/ fetch'.list = fetch.list /\ fetch.list.stage # "idle"
           \/ fetch'.list.stage = "served" /\ fetch'.list.clean = FALSE
    <3>1. "list" \in Uses(ui)
      BY <1>6 DEF Uses
    <3>2. QED
      BY <1>4, <2>1, <2>3, <3>1 DEF InvalidatedAs
  <2>5. Typed'
    BY <1>1, <1>3, <1>5, <2>4, Given, TypedStep
  <2>6. DraftFollows'
    BY <1>1, <1>3, <1>4, <1>5, <1>6, <2>4, Given, DraftQuiet
  <2>7. \A v \in ListWrites \ X : v.kind # "toggle"
    BY <1>1, <1>4
  <2>8. CleanReading' /\ ListFollows'
    BY <1>1, <1>3, <1>4, <2>4, <2>7, Given, ListQuiet
  <2>9. QED
    BY <2>5, <2>6, <2>8, Together
<1>7. CASE ui.page # "list"
  <2>1. fetch' = Mounted(fetch, Blank, Others(w))
    BY <1>1, <1>7
  <2>2. /\ FetchFits(fetch')
        /\ fetch'.list = fetch.list \/ fetch'.list = Started(Others(w) = {})
        /\ fetch'.list.stage # "idle"
        /\ fetch'.draft = fetch.draft \/ fetch'.draft.stage = "sent"
        /\ fetch'.draft.stage # "idle"
    BY <2>1, BlankIs, Given, MountedIs DEF FetchFits
  <2>3. Typed'
    BY <1>1, <1>3, <1>5, <2>2, Given, TypedStep
  <2>4. DraftFollows'
    BY <1>1, <1>3, <1>4, <1>5, <2>2, Given, DraftQuiet
  <2>5. \A v \in ListWrites \ X : v.kind # "toggle"
    BY <1>1, <1>4
  <2>6. \/ fetch'.list = fetch.list /\ fetch.list.stage # "idle"
        \/ fetch'.list = Started(ListIn(X) = {})
    BY <1>4, <2>2
  <2>7. CleanReading' /\ ListFollows'
    BY <1>1, <1>3, <1>4, <2>5, <2>6, Given, ListQuiet
  <2>8. QED
    BY <2>3, <2>4, <2>7, Together
<1>8. QED
  BY <1>6, <1>7

\* Part of a submit fails.
LEMMA SubmitFailedStep ==
  ASSUME IInv, NEW w, SubmitFailed(w)
  PROVE  IInv'
<1>1. /\ SubmitFails(w) /\ Ends(w)
      /\ ui' = IF w.here THEN [ui EXCEPT !.submitting = FALSE] ELSE ui
      /\ listRaced' = (listRaced \/ w.kind = "discardCreated")
      /\ UNCHANGED <<alarms, draft, fetch, cache, meant, draftMissed>>
  BY DEF SubmitFailed
<1>2. PICK X : X = wire \ {w}
  OBVIOUS
<1>3. /\ Posted(X) /\ wire' = X /\ w \in wire /\ DraftsIn(X) = DraftWrites \ {w}
      /\ ListIn(X) \subseteq ListWrites /\ \A v \in ListWrites \ X : v = w
  BY <1>1, <1>2, EndsIs
<1>4. Opened(ui') /\ ui'.page = ui.page
  BY <1>1, Given DEF Opened, UiRow
<1>5. listRaced' \in BOOLEAN
  BY <1>1, Given
<1>6. Typed'
  BY <1>1, <1>3, <1>4, <1>5, Given, TypedStep
<1>7. DraftFollows'
  BY <1>1, <1>3, <1>4, Given, DraftGone DEF SubmitFails
<1>8. \A v \in ListWrites \ X : v.stage # "ok" /\ v.kind # "toggle"
  BY <1>1, <1>3 DEF SubmitFails, ListWrites
<1>9. CleanReading' /\ ListFollows'
  BY <1>1, <1>3, <1>4, <1>8, Given, ListQuiet
<1>10. QED
  BY <1>6, <1>7, <1>9, Together

\* An answer to a toggle, or that there is none: the page is where the server is.
LEMMA ToggleEnds ==
  ASSUME IInv, NEW w, w.kind = "toggle", Ends(w), NEW m \in Table,
         cache' = [cache EXCEPT !.list = m],
         ~listRaced => m = alarms,
         UNCHANGED <<alarms, draft, fetch, ui, meant, draftMissed, listRaced>>
  PROVE  IInv'
<1>1. PICK X : X = wire \ {w}
  OBVIOUS
<1>2. /\ Posted(X) /\ wire' = X /\ w \in wire /\ w.heard /\ DraftsIn(X) = DraftWrites \ {w}
      /\ ListIn(X) = ListWrites \ {w}
  BY <1>1, EndsIs
<1>3. w \in Toggles /\ w \in ListWrites /\ w \notin DraftWrites
  BY <1>2 DEF Toggles, ListWrites, DraftWrites
<1>4. CacheFits(cache') /\ cache'.list = m /\ cache'.draft = cache.draft
  <2>1. "list" \in Queries /\ "draft" \in Queries /\ m \in Holds("list")
    BY DEF Queries, Holds, Brings
  <2>2. cache = [q \in Queries |-> cache[q]] /\ \A q \in Queries : cache[q] \in Holds(q)
    BY Given DEF CacheFits
  <2>3. QED
    BY <2>1, <2>2 DEF CacheFits
<1>5. Typed'
  BY <1>2, <1>4, Given, TypedStep
<1>6. DraftsIn(X) = DraftWrites
  BY <1>2, <1>3
<1>7. DraftFollows'
  BY <1>2, <1>4, <1>6, Given, DraftQuiet
<1>8. CleanReading'
  BY <1>3, Given DEF CleanReading
<1>9. ListWrites' = ListWrites \ {w} /\ Toggles' \subseteq ListWrites'
  BY <1>1, <1>2 DEF ListWrites, Toggles
<1>10. ASSUME ~listRaced'
       PROVE  ListWrites' = {} /\ cache'.list = alarms'
  BY <1>3, <1>4, <1>9, <1>10, Given DEF ListFollows, ToggleAlone
<1>11. \A v \in Toggles' : v.heard => cache'.list # None
  BY <1>4, WebClientAssumption
<1>12. ListFollows'
  BY <1>9, <1>10, <1>11 DEF ListFollows, ListRead
<1>13. QED
  BY <1>5, <1>7, <1>8, <1>12, Together

LEMMA ToggledStep ==
  ASSUME IInv, NEW w, Toggled(w)
  PROVE  IInv'
<1>1. /\ w.kind = "toggle" /\ w.stage = "ok" /\ Ends(w)
      /\ cache' = [cache EXCEPT !.list[w.arg.alarm] = IF @ = None THEN None ELSE w.reply]
      /\ UNCHANGED <<alarms, draft, fetch, ui, meant, draftMissed, listRaced>>
  BY DEF Toggled
<1>2. PICK l, a, r : l = cache.list /\ a = w.arg.alarm /\ r = w.reply
  OBVIOUS
<1>3. w \in Toggles /\ w.heard /\ Written(w)
  BY <1>1, EndsIs, Given DEF Toggles
<1>4. a \in Alarms /\ r \in Rows
  BY <1>1, <1>2, <1>3 DEF Written, Says
<1>5. l \in Table
  BY <1>2, <1>3, Given DEF ListFollows, CacheFits, Holds, Brings, Queries
<1>6. PICK m : m = [l EXCEPT ![a] = IF @ = None THEN None ELSE r]
  OBVIOUS
<1>7. m \in Table
  BY <1>4, <1>5, <1>6 DEF Table
<1>8. cache' = [cache EXCEPT !.list = m]
  BY <1>1, <1>2, <1>6
<1>9. ~listRaced => m = alarms
  <2>1. SUFFICES ASSUME ~listRaced PROVE m = alarms
    OBVIOUS
  <2>2. ToggleAlone(w)
    BY <1>3, <2>1, Given DEF ListFollows
  <2>3. l = alarms /\ r = alarms[a]
    BY <1>1, <1>2, <2>2 DEF ToggleAlone
  <2>4. QED
    BY <1>4, <1>5, <1>6, <2>3 DEF Table
<1>10. QED
  BY <1>1, <1>7, <1>8, <1>9, ToggleEnds

LEMMA ToggleFailedStep ==
  ASSUME IInv, NEW w, ToggleFailed(w)
  PROVE  IInv'
<1>1. /\ w.kind = "toggle" /\ w.stage \in {"refused", "lost"} /\ Ends(w)
      /\ cache' = [cache EXCEPT !.list = w.arg.previous]
      /\ UNCHANGED <<alarms, draft, fetch, ui, meant, draftMissed, listRaced>>
  BY DEF ToggleFailed
<1>2. w \in Toggles /\ Written(w)
  BY <1>1, EndsIs, Given DEF Toggles
<1>3. w.arg.previous \in Table
  BY <1>1, <1>2 DEF Written, Says
<1>4. ~listRaced => w.arg.previous = alarms
  BY <1>1, <1>2, Given DEF ListFollows, ToggleAlone
<1>5. QED
  BY <1>1, <1>3, <1>4, ToggleEnds

LEMMA ListWrittenStep ==
  ASSUME IInv, NEW w, ListWritten(w)
  PROVE  IInv'
<1>1. /\ w.kind \in {"bulk", "delete"} /\ Ends(w)
      /\ ui' = IF w.kind = "bulk" /\ w.here THEN [ui EXCEPT !.selected = {}] ELSE ui
      /\ fetch' = Invalidated(fetch, "list", ui, Others(w))
      /\ UNCHANGED <<alarms, draft, cache, meant, draftMissed, listRaced>>
  BY DEF ListWritten
<1>2. PICK X : X = wire \ {w}
  OBVIOUS
<1>3. /\ Posted(X) /\ wire' = X /\ w \in wire /\ DraftsIn(X) = DraftWrites \ {w}
      /\ ListIn(X) = Others(w) /\ ListIn(X) \subseteq ListWrites
      /\ \A v \in ListWrites \ X : v = w
  BY <1>1, <1>2, EndsIs DEF Others
<1>4. DraftsIn(X) = DraftWrites
  BY <1>1, <1>3 DEF DraftWrites
<1>5. Opened(ui') /\ ui'.page = ui.page
  BY <1>1, Given DEF Opened, UiRow
<1>6. /\ FetchFits(fetch') /\ fetch'.draft = fetch.draft
      /\ \/ fetch'.list = Started(ListIn(X) = {})
         \/ fetch'.list = fetch.list /\ (fetch.list.stage # "idle" \/ ui.page # "list")
         \/ fetch'.list.stage = "served" /\ fetch'.list.clean = FALSE
  <2>1. "list" \in Queries /\ "draft" \in Queries /\ "list" # "draft"
    BY DEF Queries
  <2>2. InvalidatedAs(fetch', "list", Others(w))
    BY <1>1, <2>1, Given, InvalidatedIs
  <2>3. "list" \notin Uses(ui) => ui.page # "list"
    BY DEF Uses
  <2>4. QED
    BY <1>3, <2>1, <2>2, <2>3 DEF InvalidatedAs
<1>7. Typed'
  BY <1>1, <1>3, <1>5, <1>6, Given, TypedStep
<1>8. DraftFollows'
  BY <1>1, <1>3, <1>4, <1>5, <1>6, Given, DraftQuiet
<1>9. \A v \in ListWrites \ X : v.kind # "toggle"
  BY <1>1, <1>3
<1>10. CleanReading' /\ ListFollows'
  BY <1>1, <1>3, <1>5, <1>6, <1>9, Given, ListQuiet
<1>11. QED
  BY <1>7, <1>8, <1>10, Together

LEMMA OtherFailedStep ==
  ASSUME IInv, NEW w, OtherFailed(w)
  PROVE  IInv'
<1>1. /\ w.kind \in {"bulk", "delete", "saveDraft", "discard"} /\ w.stage \in {"refused", "lost"}
      /\ Ends(w) /\ UNCHANGED <<alarms, draft, fetch, cache, ui, meant, draftMissed, listRaced>>
  BY DEF OtherFailed
<1>2. PICK X : X = wire \ {w}
  OBVIOUS
<1>3. /\ Posted(X) /\ wire' = X /\ w \in wire /\ DraftsIn(X) = DraftWrites \ {w}
      /\ ListIn(X) \subseteq ListWrites /\ \A v \in ListWrites \ X : v = w
  BY <1>1, <1>2, EndsIs
<1>4. Typed'
  BY <1>1, <1>3, Given, TypedStep
<1>5. DraftFollows'
  BY <1>1, <1>3, Given, DraftGone
<1>6. \A v \in ListWrites \ X : v.stage # "ok" /\ v.kind # "toggle"
  BY <1>1, <1>3
<1>7. CleanReading' /\ ListFollows'
  BY <1>1, <1>3, <1>6, Given, ListQuiet
<1>8. QED
  BY <1>4, <1>5, <1>7, Together

-----------------------------------------------------------------------------
\* What is read.

LEMMA ReadStep ==
  ASSUME IInv, NEW q \in Queries, NEW f, Reading(q, f), fetch' = [fetch EXCEPT ![q] = f],
         NEW d \in Holds(q), cache' = [cache EXCEPT ![q] = d],
         Opened(ui'), ui'.page = ui.page, UNCHANGED <<alarms, draft, wire, meant>>,
         draftMissed' \in BOOLEAN, listRaced' \in BOOLEAN,
         q # "draft" => draftMissed' = draftMissed, q # "list" /\ ~listRaced' => ~listRaced,
         q = "draft" => DraftFollows', q = "list" => CleanReading' /\ ListFollows'
  PROVE  IInv'
<1>1. "list" \in Queries /\ "draft" \in Queries
  BY DEF Queries
<1>2. FetchFits(fetch') /\ \A x \in Queries : x # q => fetch'[x] = fetch[x]
  BY Given DEF FetchFits
<1>3. CacheFits(cache') /\ \A x \in Queries : x # q => cache'[x] = cache[x]
  BY Given DEF CacheFits
<1>4. Posted(wire)
  BY Given DEF Posted
<1>5. Typed'
  BY <1>2, <1>3, <1>4, Given, TypedStep
<1>6. CASE q # "draft"
  <2>1. fetch'.draft = fetch.draft /\ cache'.draft = cache.draft
    BY <1>1, <1>2, <1>3, <1>6
  <2>2. QED
    <3>1. DraftFollows'
      BY <1>4, <2>1, Given, DraftQuiet
    <3>2. CASE q = "list"
      BY <1>5, <3>1, <3>2, Together
    <3>3. CASE q # "list"
      <4>1. fetch'.list = fetch.list /\ cache'.list = cache.list
        BY <1>1, <1>2, <1>3, <3>3
      <4>2. ListIn(wire) \subseteq ListWrites /\ ListWrites \ wire = {}
        BY Given
      <4>3. CleanReading' /\ ListFollows'
        BY <1>4, <3>3, <4>1, <4>2, Given, ListQuiet
      <4>4. QED
        BY <1>5, <3>1, <4>3, Together
    <3>4. QED
      BY <3>2, <3>3
<1>7. CASE q = "draft"
  <2>1. fetch'.list = fetch.list /\ cache'.list = cache.list
    BY <1>1, <1>2, <1>3, <1>7
  <2>2. ListIn(wire) \subseteq ListWrites /\ ListWrites \ wire = {}
    BY Given
  <2>3. CleanReading' /\ ListFollows'
    BY <1>4, <1>7, <2>1, <2>2, Given, ListQuiet
  <2>4. QED
    BY <1>5, <1>7, <2>3, Together
<1>8. QED
  BY <1>6, <1>7

LEMMA ServeReadStep ==
  ASSUME IInv, NEW q \in Queries, ServeRead(q)
  PROVE  IInv'
<1>1. /\ fetch[q].stage = "sent"
      /\ UNCHANGED <<alarms, draft, wire, cache, ui, meant, draftMissed, listRaced>>
  BY DEF ServeRead
<1>2. PICK d, f : d = Read(q) /\ f = [fetch[q] EXCEPT !.stage = "served", !.data = d]
  OBVIOUS
<1>3. fetch' = [fetch EXCEPT ![q] = f]
  BY <1>2, Given DEF ServeRead, FetchFits
<1>4. Reading(q, fetch[q]) /\ fetch = [x \in Queries |-> fetch[x]]
  BY Given DEF FetchFits
<1>5. f.stage = "served" /\ f.data = d /\ f.clean = fetch[q].clean
  BY <1>2, <1>4 DEF Reading
<1>6. d \in Brings(q) \cup {None}
  <2>1. CASE q = "list"
    BY <1>2, <2>1, Given DEF Read, Brings
  <2>2. CASE q = "draft"
    BY <1>2, <2>2, Given DEF Read, Brings, Saved
  <2>3. CASE q # "list" /\ q # "draft"
    <3>1. q \in Alarms /\ d = IF alarms[q] = None THEN None ELSE alarms[q].text
      BY <1>2, <2>3 DEF Read, Queries
    <3>2. alarms[q] \in Rows \cup {None}
      BY <3>1, Given DEF Table
    <3>3. QED
      BY <2>3, <3>1, <3>2 DEF Rows, Brings
  <2>4. QED
    BY <2>1, <2>2, <2>3
<1>7. Reading(q, f)
  BY <1>2, <1>4, <1>5, <1>6 DEF Reading
<1>8. fetch'[q] = f /\ \A x \in Queries : x # q => fetch'[x] = fetch[x]
  BY <1>3, <1>4
<1>9. ASSUME q = "draft" PROVE DraftFollows'
  <2>1. d = [saved |-> draft] /\ fetch'.draft = f /\ DraftWrites' = DraftWrites
    BY <1>1, <1>2, <1>8, <1>9 DEF Read, DraftWrites
  <2>2. DraftMeant'
    BY <1>1, <2>1, Given DEF DraftFollows, DraftMeant, Meant
  <2>3. DraftRead'
    BY <1>1, <1>5, <2>1 DEF DraftRead
  <2>4. QED
    BY <2>2, <2>3 DEF DraftFollows
<1>10. ASSUME q = "list" PROVE CleanReading' /\ ListFollows'
  <2>1. d = alarms /\ fetch'.list = f /\ ListWrites' = ListWrites /\ Toggles' = Toggles
    BY <1>1, <1>2, <1>8, <1>10 DEF Read, ListWrites, Toggles
  <2>2. CleanReading'
    BY <1>1, <1>5, <1>10, <2>1, Given DEF CleanReading
  <2>3. ListRead'
    BY <1>5, <2>1 DEF ListRead, OnScreen
  <2>4. \A w : ToggleAlone(w) => ToggleAlone(w)'
    BY <1>1, <2>1 DEF ToggleAlone, Flipped
  <2>5. ListFollows'
    BY <1>1, <2>1, <2>3, <2>4, Given DEF ListFollows
  <2>6. QED
    BY <2>2, <2>5
<1>11. cache' = [cache EXCEPT ![q] = cache[q]] /\ cache[q] \in Holds(q)
  BY <1>1, Given DEF CacheFits
<1>12. Opened(ui') /\ ui'.page = ui.page
  BY <1>1, Given
<1>13. QED
  BY <1>1, <1>3, <1>7, <1>9, <1>10, <1>11, <1>12, Given, ReadStep

LEMMA ArriveStep ==
  ASSUME IInv, NEW q \in Queries, Arrive(q)
  PROVE  IInv'
<1>1. /\ fetch[q].stage = "served" /\ fetch' = [fetch EXCEPT ![q] = Idle]
      /\ ui' = Hydrated(ui, cache')
      /\ listRaced' = IF q = "list" THEN ~fetch[q].clean ELSE listRaced
      /\ draftMissed' = IF q = "draft" THEN ~fetch[q].clean ELSE draftMissed
      /\ UNCHANGED <<alarms, draft, wire, meant>>
  BY DEF Arrive
<1>2. PICK d : d = IF fetch[q].data = None THEN cache[q] ELSE fetch[q].data
  OBVIOUS
<1>3. Reading(q, fetch[q]) /\ fetch = [x \in Queries |-> fetch[x]]
  BY Given DEF FetchFits
<1>4. cache = [x \in Queries |-> cache[x]] /\ \A x \in Queries : cache[x] \in Holds(x)
  BY Given DEF CacheFits
<1>5. cache' = [cache EXCEPT ![q] = d] /\ d \in Holds(q)
  BY <1>2, <1>3, <1>4 DEF Arrive, Reading, Holds
<1>6. cache'[q] = d /\ \A x \in Queries : cache'[x] \in Holds(x)
  BY <1>4, <1>5
<1>7. Opened(ui') /\ ui'.page = ui.page
  BY <1>1, <1>6, Given, HydratedIs
<1>8. Reading(q, Idle) /\ Idle.stage = "idle"
  BY StartedIs
<1>9. fetch'[q] = Idle
  BY <1>1, <1>3
<1>10. ASSUME q = "draft" PROVE DraftFollows'
  <2>1. DraftWrites' = DraftWrites /\ fetch'.draft.stage = "idle" /\ cache'.draft = d
    BY <1>1, <1>6, <1>8, <1>9, <1>10 DEF DraftWrites
  <2>2. DraftMeant'
    BY <1>1, <2>1, Given DEF DraftFollows, DraftMeant, Meant
  <2>3. ASSUME \A w \in DraftWrites : w.stage # "ok", fetch[q].clean PROVE d = [saved |-> draft]
    <3>1. fetch[q].data = [saved |-> draft]
      BY <1>1, <1>10, <2>3, Given DEF DraftFollows, DraftRead
    <3>2. [saved |-> draft] # None
      BY Given, WebClientAssumption
    <3>3. QED
      BY <1>2, <3>1, <3>2
  <2>4. DraftRead'
    BY <1>1, <1>10, <2>1, <2>3 DEF DraftRead
  <2>5. QED
    BY <2>2, <2>4 DEF DraftFollows
<1>11. ASSUME q = "list" PROVE CleanReading' /\ ListFollows'
  <2>1. /\ ListWrites' = ListWrites /\ Toggles' = Toggles /\ Toggles \subseteq ListWrites
        /\ fetch'.list.stage = "idle" /\ cache'.list = d
    BY <1>1, <1>6, <1>8, <1>9, <1>11 DEF ListWrites, Toggles
  <2>2. CleanReading'
    BY <2>1 DEF CleanReading
  <2>3. \A w \in Toggles' : w.heard => cache'.list # None
    BY <1>2, <1>11, <2>1, Given DEF ListFollows
  <2>4. ASSUME ~listRaced' PROVE ListWrites' = {} /\ cache'.list = alarms'
    <3>1. ListWrites = {} /\ fetch[q].data = alarms
      BY <1>1, <1>11, <2>4, Given DEF CleanReading
    <3>2. alarms # None
      BY Given, WebClientAssumption
    <3>3. QED
      BY <1>1, <1>2, <2>1, <3>1, <3>2
  <2>5. ListFollows'
    BY <2>1, <2>3, <2>4 DEF ListFollows, ListRead
  <2>6. QED
    BY <2>2, <2>5
<1>12. listRaced' \in BOOLEAN /\ draftMissed' \in BOOLEAN
  BY <1>1, <1>3, Given DEF Reading
<1>13. QED
  BY <1>1, <1>5, <1>7, <1>8, <1>10, <1>11, <1>12, ReadStep

LEMMA FailReadStep ==
  ASSUME IInv, NEW q \in Queries, FailRead(q)
  PROVE  IInv'
<1>1. /\ fetch' = [fetch EXCEPT ![q] = Idle] /\ ui' = Hydrated(ui, cache')
      /\ listRaced' = (listRaced \/ q = "list") /\ draftMissed' = (draftMissed \/ q = "draft")
      /\ UNCHANGED <<alarms, draft, wire, meant>>
  BY DEF FailRead
<1>2. PICK d : d = IF q = "draft" /\ cache[q] = None THEN Failed ELSE cache[q]
  OBVIOUS
<1>3. cache = [x \in Queries |-> cache[x]] /\ \A x \in Queries : cache[x] \in Holds(x)
  BY Given DEF CacheFits
<1>4. cache' = [cache EXCEPT ![q] = d]
  BY <1>2, <1>3 DEF FailRead
<1>5. d \in Holds(q)
  BY <1>2, <1>3 DEF Holds
<1>6. \A x \in Queries : cache'[x] \in Holds(x)
  BY <1>3, <1>4, <1>5
<1>7. Opened(ui') /\ ui'.page = ui.page
  BY <1>1, <1>6, Given, HydratedIs
<1>8. Reading(q, Idle) /\ Idle.stage = "idle"
  BY StartedIs
<1>9. fetch'[q] = Idle
  BY <1>1, Given DEF FetchFits
<1>10. ASSUME q = "draft" PROVE DraftFollows'
  <2>1. DraftMeant'
    BY <1>1, Given DEF DraftFollows, DraftMeant, DraftWrites, Meant
  <2>2. draftMissed' /\ fetch'.draft.stage = "idle"
    BY <1>1, <1>8, <1>9, <1>10
  <2>3. QED
    BY <2>1, <2>2 DEF DraftFollows, DraftRead
<1>11. ASSUME q = "list" PROVE CleanReading' /\ ListFollows'
  <2>1. Toggles' = Toggles /\ fetch'.list.stage = "idle" /\ cache' = cache
    BY <1>1, <1>2, <1>3, <1>4, <1>8, <1>9, <1>11 DEF Toggles
  <2>2. QED
    BY <1>1, <1>11, <2>1, Given DEF CleanReading, ListFollows
<1>12. listRaced' \in BOOLEAN /\ draftMissed' \in BOOLEAN
  BY <1>1, Given
<1>13. q # "draft" => draftMissed' = draftMissed
  BY <1>1, Given
<1>14. QED
  BY <1>1, <1>4, <1>5, <1>7, <1>8, <1>10, <1>11, <1>12, <1>13, ReadStep

-----------------------------------------------------------------------------
LEMMA InitStep ==
  ASSUME Init
  PROVE  IInv
<1>1. /\ alarms = FirstAlarms /\ draft = None /\ meant = {None} /\ wire = {}
      /\ cache = [q \in Queries |-> None] /\ ui = Blank
      /\ draftMissed = FALSE /\ listRaced = FALSE
  BY DEF Init
<1>2. PICK G : G = [q \in Queries |-> Idle]
  OBVIOUS
<1>3. G = [q \in Queries |-> G[q]] /\ \A q \in Queries : Reading(q, G[q])
  BY <1>2, StartedIs
<1>4. /\ FetchFits(fetch) /\ fetch.list.stage = "sent" /\ fetch.draft.stage = "sent"
  <2>1. fetch = Mounted(G, Blank, {})
    BY <1>2 DEF Init
  <2>2. G.list.stage = "idle" /\ G.draft.stage = "idle"
    BY <1>2, StartedIs DEF Queries
  <2>3. PICK b \in BOOLEAN : b = ({} = {})
    OBVIOUS
  <2>4. /\ FetchFits(fetch)
        /\ fetch.list = G.list \/ fetch.list = Started(b)
        /\ fetch.list.stage # "idle"
        /\ fetch.draft = G.draft \/ fetch.draft.stage = "sent"
        /\ fetch.draft.stage # "idle"
    BY <1>3, <2>1, <2>3, BlankIs, MountedIs DEF FetchFits
  <2>5. QED
    BY <2>2, <2>4 DEF Started
<1>5. Typed
  <2>1. TablesTyped /\ WireTyped /\ RacesTyped
    BY <1>1, WebClientAssumption DEF TablesTyped, WireTyped, RacesTyped
  <2>2. FetchTyped /\ CacheTyped
    BY <1>1, <1>4 DEF FetchTyped, FetchFits, CacheTyped, Holds
  <2>3. QED
    BY <1>1, <2>1, <2>2, BlankIs DEF Typed
<1>6. DraftWrites = {} /\ ListWrites = {} /\ Toggles = {}
  BY <1>1 DEF DraftWrites, ListWrites, Toggles
<1>7. DraftFollows
  BY <1>1, <1>4, <1>6 DEF DraftFollows, DraftMeant, DraftRead
<1>8. CleanReading /\ ListFollows
  BY <1>4, <1>6 DEF CleanReading, ListFollows, ListRead, OnScreen
<1>9. QED
  BY <1>5, <1>7, <1>8 DEF IInv

LEMMA AnsweredStep ==
  ASSUME IInv, NEW w, Answered(w)
  PROVE  IInv'
BY DraftWrittenStep, CreatedStep, CreatedDiscardedStep, LeaveStep, SubmitFailedStep, ToggledStep,
   ToggleFailedStep, ListWrittenStep, OtherFailedStep DEF Answered

LEMMA StutterStep ==
  ASSUME IInv, UNCHANGED vars
  PROVE  IInv'
BY Given, UiStep DEF vars

LEMMA NextKeeps ==
  ASSUME IInv, [Next]_vars
  PROVE  IInv'
<1>1. ASSUME UserNext PROVE IInv'
  <2>1. CASE OpenCreate \/ Cancel \/ \E a \in Alarms : OpenEdit(a)
    BY <2>1, PagesStep
  <2>2. CASE Reload \/ Submit \/ DiscardDraft
    BY <2>2, ReloadStep, SubmitStep, DiscardStep
  <2>3. CASE \E a \in Alarms : Forget(a) \/ Toggle(a) \/ ToggleSelection(a)
    BY <2>3, ForgetStep, ToggleStep, SelectStep
  <2>4. CASE (\E enabled \in BOOLEAN : BulkToggle(enabled)) \/ (\E a \in Alarms : DeleteAlarm(a))
    BY <2>4, ListSendStep
  <2>5. CASE (\E t \in Texts : Type(t)) \/ (\E n \in {ui.step - 1, ui.step + 1} : GoTo(n))
    BY <2>5, TypeStep, GoToStep
  <2>6. QED
    BY <1>1, <2>1, <2>2, <2>3, <2>4, <2>5 DEF UserNext
<1>2. ASSUME NEW w \in wire, Serve(w) \/ Lose(w) \/ Answered(w) PROVE IInv'
  BY <1>2, ServeStep, LoseStep, AnsweredStep
<1>3. ASSUME NEW q \in Queries, ServeRead(q) \/ Arrive(q) \/ FailRead(q) PROVE IInv'
  BY <1>3, ServeReadStep, ArriveStep, FailReadStep
<1>4. QED
  BY <1>1, <1>2, <1>3, StutterStep DEF Next

-----------------------------------------------------------------------------
\* What the page shows is behind the server by no more than what is under way, for every
\* session of the user, loss on the way, order of serving and reload.
THEOREM WebClientInvariant == Spec => []IInv
<1>1. Init => IInv
  BY InitStep
<1>2. IInv /\ [Next]_vars => IInv'
  BY NextKeeps
<1>3. QED
  BY <1>1, <1>2, PTL DEF Spec

\* The list on screen, with nothing under way, is what the server has, unless the page is
\* known to have missed something (AlarmsPage.tsx toggleEnabled, bulkToggle, deleteAlarm).
THEOREM ListStaysTrue == Spec => []ListTruth
<1>1. IInv => ListTruth
  <2>1. SUFFICES ASSUME IInv, ListWrites = {}, fetch.list.stage = "idle", ui.page = "list", ~listRaced
                 PROVE  cache.list = alarms
    BY DEF ListTruth
  <2>2. ListRead /\ OnScreen /\ Toggles = {}
    BY <2>1 DEF IInv, ListFollows, OnScreen, Toggles, ListWrites
  <2>3. QED
    BY <2>1, <2>2 DEF ListRead
<1>2. QED
  BY <1>1, WebClientInvariant, PTL

\* The draft is what an operation meant to leave, the last one where they did not overlap,
\* and what the list offers and a wizard resumes is the server's, unless it is known to have
\* missed something (WizardPage.tsx saveDraft, discardDraft, submit).
THEOREM DraftStaysTrue == Spec => []DraftTruth
<1>1. IInv => DraftTruth
  <2>1. SUFFICES ASSUME IInv PROVE DraftTruth
    OBVIOUS
  <2>2. DraftMeant /\ DraftRead /\ Opened(ui)
    BY <2>1, Given DEF DraftFollows
  <2>3. "draft" \in Uses(ui) => ui.page # "edit"
    BY <2>2, WebClientAssumption DEF Uses, Opened
  <2>4. QED
    BY <2>2, <2>3 DEF DraftMeant, DraftRead, DraftTruth
<1>2. QED
  BY <1>1, WebClientInvariant, PTL
=============================================================================
