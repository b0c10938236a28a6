----------------------------- MODULE WebClient ------------------------------
(***************************************************************************)
(* One tab of the web client, on the list of a group and in the wizard,    *)
(* and what the server keeps for it: the alarms and the draft              *)
(* (web/src/routes/AlarmsPage.tsx, WizardPage.tsx; api/src/routes/me.ts).  *)
(* The pages wait for none of their writes, so any number may be on the    *)
(* wire, the server takes them in any order, and answers are lost.         *)
(*                                                                         *)
(* Reads go through a cache that outlives the pages (external: the query   *)
(* library, as main.tsx sets it up).  A page that is opened shows what is  *)
(* cached and reads it again; there is one read of a kind at a time, and   *)
(* invalidating what is on screen starts it over.                          *)
(***************************************************************************)
EXTENDS Integers, FiniteSets

CONSTANTS
  Alarms, Texts,   \* ids of alarms, and what one may say; a text is also its name
  LastStep,        \* the step of the review
  FirstAlarms,     \* the alarms there are to begin with
  MaxWire,         \* bound: writes on the wire at a time
  Sessions,        \* the operations a user keeps to, and the bound on how many
  None

Rows   == [text : Texts, enabled : BOOLEAN]
Drafts == [step : 1..LastStep, text : Texts]
Table  == [Alarms -> Rows \cup {None}]
Queries == {"list", "draft"} \cup Alarms

ASSUME WebClientAssumption ==
  /\ LastStep \in Nat /\ LastStep > 1 /\ MaxWire \in Nat
  /\ \A s \in Sessions : s.left \in Nat
  /\ FirstAlarms \in Table
  /\ None \notin Texts \cup Rows \cup Drafts \cup Alarms
  /\ None \notin Table /\ None \notin [saved : Drafts \cup {None}]
  /\ "list" \notin Alarms /\ "draft" \notin Alarms

VARIABLES
  session,     \* the operations this user performs, and how many more
  alarms,      \* server: the row of each alarm, or None
  draft,       \* server: the draft, or None
  wire,        \* the writes that have no answer yet
  fetch,       \* the read of each kind that is under way
  cache,       \* what reads have left, None where there was none
  ui,          \* the page and what is on it
  meant,       \* history: the drafts that the operations may have left
  draftMissed, \* history: a change of the draft never came to what is cached
  listRaced    \* history: the list may have missed something since it was read

vars == <<session, alarms, draft, wire, fetch, cache, ui, meant, draftMissed, listRaced>>

Does(op) == op \in session.ops

\* One more operation of the user.
Act == session.left > 0 /\ session' = [session EXCEPT !.left = @ - 1]

-----------------------------------------------------------------------------
\* The wire.
Write(kind, arg) ==
  [slot |-> CHOOSE s \in 1..MaxWire : s \notin {w.slot : w \in wire},
   kind |-> kind, arg |-> arg, stage |-> "sent", reply |-> None,
   heard |-> TRUE,   \* this page load sent it
   here  |-> TRUE]   \* and the page that sent it is still open

DraftWrites == {w \in wire : w.kind \in {"saveDraft", "discard", "discardCreated"}}
ListWrites  == {w \in wire : w.kind \in {"toggle", "bulk", "delete", "create", "edit"}}
Toggles     == {w \in wire : w.kind = "toggle"}
Room == Cardinality(wire) < MaxWire

\* What a write of the draft means to leave, and with those on their way what all do.
Meant(w)   == IF w.kind = "saveDraft" THEN w.arg ELSE None
Meaning(d) == {Meant(w) : w \in {v \in DraftWrites : v.stage = "sent"}} \cup {d}

\* The draft could not be read: there is no data, but a wizard no longer waits for it.
Failed == [failed |-> TRUE]
Kept(q) == cache[q] # None /\ (q = "draft" => cache[q] # Failed)

Idle == [stage |-> "idle", data |-> None, clean |-> TRUE]
Started(clean) == [stage |-> "sent", data |-> None, clean |-> clean]

\* The reads a page keeps in use: the editor that of its alarm.
Uses(u) == CASE u.page = "list"   -> {"list", "draft"}
             [] u.page = "create" -> {"draft"}
             [] u.page = "edit"   -> {u.target}

\* Opening a page reads what it uses, unless that is being read already.
Mounted(fetches, u, writes) ==
  [q \in Queries |->
     IF q \in Uses(u) /\ fetches[q].stage = "idle"
       THEN Started(q = "list" => writes = {}) ELSE fetches[q]]

\* Broken: what is invalidated is only read when it is next opened.
InvalidatedLazily(fetches, q, u, writes) == fetches

\* A reading that has been served does not bring what is written after.
Overtaken(fetches, q) ==
  IF fetches[q].stage = "served" THEN [fetches EXCEPT ![q].clean = FALSE] ELSE fetches

\* While there is no data the reading under way goes on all the same, as it does on a page
\* that does not use it; what it brings is taken for new.
Invalidated(fetches, q, u, writes) ==
  IF q \in Uses(u) /\ (Kept(q) \/ fetches[q].stage = "idle")
    THEN [fetches EXCEPT ![q] = Started(writes = {})]
    ELSE Overtaken(fetches, q)

-----------------------------------------------------------------------------
\* Pages.  A wizard takes its form from what is cached, once.
Blank == [page |-> "list", target |-> None, form |-> None, step |-> 1, hydrated |-> FALSE,
          submitting |-> FALSE, selected |-> {}]

Hydrated(u, c) ==
  IF u.hydrated THEN u
  ELSE IF u.page = "create" /\ c.draft # None
         THEN IF c.draft = Failed \/ c.draft.saved = None THEN [u EXCEPT !.hydrated = TRUE]
              ELSE [u EXCEPT !.hydrated = TRUE, !.form = c.draft.saved.text, !.step = c.draft.saved.step]
  ELSE IF u.page = "edit" /\ c[u.target] # None
         THEN [u EXCEPT !.hydrated = TRUE, !.form = c[u.target]]
  ELSE u

\* The writes that a page has sent answer to nothing on the next.
Left(writes) == {[w EXCEPT !.here = FALSE] : w \in writes}

Goto(page, target) ==
  /\ ui' = Hydrated([Blank EXCEPT !.page = page, !.target = target], cache)
  /\ wire' = Left(wire)
  /\ fetch' = Mounted(fetch, ui', ListWrites)

OpenCreate ==
  /\ Act
  /\ Does("create") /\ ui.page = "list" /\ Goto("create", None)
  /\ UNCHANGED <<alarms, draft, cache, meant, draftMissed, listRaced>>

OpenEdit(a) ==
  /\ Act
  /\ Does("edit") /\ ui.page = "list"
  /\ cache.list # None /\ cache.list[a] # None
  /\ Goto("edit", a)
  /\ UNCHANGED <<alarms, draft, cache, meant, draftMissed, listRaced>>

\* Leaving a wizard; an edit that changed something asks first.
Cancel ==
  /\ Act
  /\ ui.page \in {"create", "edit"} /\ Goto("list", None)
  /\ UNCHANGED <<alarms, draft, cache, meant, draftMissed, listRaced>>

\* Cached data that no page uses is dropped after a while.
Forget(a) ==
  /\ a \notin Uses(ui)
  /\ fetch[a].stage = "idle"
  /\ cache[a] # None
  /\ cache' = [cache EXCEPT ![a] = None]
  /\ UNCHANGED <<session, alarms, draft, wire, fetch, ui, meant, draftMissed, listRaced>>

\* The tab is loaded again: what is on the wire arrives, unheard.
Reload ==
  /\ Act
  /\ Does("reload")
  /\ ui' = Blank
  /\ cache' = [q \in Queries |-> None]
  /\ wire' = {[w EXCEPT !.heard = FALSE] : w \in {v \in wire : v.kind # "leave" /\ v.stage = "sent"}}
  /\ fetch' = Mounted([q \in Queries |-> Idle], Blank, ListWrites)
  /\ listRaced' = (listRaced \/ ListWrites # {})
  /\ UNCHANGED <<alarms, draft, meant, draftMissed>>

-----------------------------------------------------------------------------
\* The wizard.
Type(text) ==
  /\ Act
  /\ ui.page \in {"create", "edit"} /\ ui.step = 1
  /\ ui' = [ui EXCEPT !.form = text]
  /\ UNCHANGED <<alarms, draft, wire, fetch, cache, meant, draftMissed, listRaced>>

\* The draft is written on every step, and the step is not held up for it.
GoTo(next) ==
  /\ Act
  /\ ui.page \in {"create", "edit"} /\ next \in 1..LastStep
  /\ next > ui.step => ui.form # None
  /\ ui' = [ui EXCEPT !.step = next]
  /\ IF ui.page = "create" /\ ui.form # None
       THEN /\ Room
            /\ wire' = wire \cup {Write("saveDraft", [step |-> next, text |-> ui.form])}
            /\ meant' = Meaning([step |-> next, text |-> ui.form])
       ELSE UNCHANGED <<wire, meant>>
  /\ UNCHANGED <<alarms, draft, fetch, cache, draftMissed, listRaced>>

Submit ==
  /\ Act
  /\ ui.page \in {"create", "edit"} /\ ui.step = LastStep /\ ~ui.submitting /\ Room
  /\ wire' = wire \cup {IF ui.page = "create" THEN Write("create", [text |-> ui.form])
                        ELSE Write("edit", [alarm |-> ui.target, text |-> ui.form])}
  /\ ui' = [ui EXCEPT !.submitting = TRUE]
  /\ fetch' = [fetch EXCEPT !.list.clean = FALSE]
  /\ listRaced' = (listRaced \/ Toggles # {})
  /\ UNCHANGED <<alarms, draft, cache, meant, draftMissed>>

\* The discard is sent and the page left in one go.
DiscardDraft ==
  /\ Act
  /\ Does("discard") /\ ui.page = "create" /\ Room
  /\ ui' = Blank
  /\ wire' = Left(wire) \cup {[Write("discard", None) EXCEPT !.here = FALSE]}
  /\ fetch' = Mounted(fetch, Blank, ListWrites)
  /\ meant' = Meaning(None)
  /\ UNCHANGED <<alarms, draft, cache, draftMissed, listRaced>>

-----------------------------------------------------------------------------
\* The list.
SendFromList(write) ==
  /\ Room
  /\ wire' = wire \cup {write}

\* Broken: a read that is under way may still put back what it has read.
StopReadingNot(fetches) == fetches

StopReading(fetches) == [fetches EXCEPT !.list = Idle]

\* A-05: the row flips at once, and what was there before is kept for a rollback.
\* The reading that is stopped may have been about to bring news.
Toggle(a) ==
  /\ Act
  /\ Does("toggle") /\ ui.page = "list"
  /\ cache.list # None
  /\ cache.list[a] # None
  /\ SendFromList(Write("toggle", [alarm |-> a, enabled |-> ~cache.list[a].enabled,
                                   previous |-> cache.list]))
  /\ listRaced' = (listRaced \/ ListWrites # {} \/ (fetch.list.stage # "idle" /\ cache.list # alarms))
  /\ cache' = [cache EXCEPT !.list[a].enabled = ~@]
  /\ fetch' = StopReading(fetch)
  /\ UNCHANGED <<alarms, draft, ui, meant, draftMissed>>

ToggleSelection(a) ==
  /\ Act
  /\ Does("bulk") /\ ui.page = "list"
  /\ cache.list # None
  /\ cache.list[a] # None
  /\ ui' = [ui EXCEPT !.selected = IF a \in @ THEN @ \ {a} ELSE @ \cup {a}]
  /\ UNCHANGED <<alarms, draft, wire, fetch, cache, meant, draftMissed, listRaced>>

BulkToggle(enabled) ==
  /\ Act
  /\ Does("bulk") /\ ui.page = "list" /\ ui.selected # {}
  /\ ~\E w \in wire : w.kind = "bulk" /\ w.here /\ w.heard
  /\ SendFromList(Write("bulk", [alarms |-> ui.selected, enabled |-> enabled]))
  /\ fetch' = [fetch EXCEPT !.list.clean = FALSE]
  /\ listRaced' = (listRaced \/ Toggles # {})
  /\ UNCHANGED <<alarms, draft, cache, ui, meant, draftMissed>>

DeleteAlarm(a) ==
  /\ Act
  /\ Does("delete") /\ ui.page = "list"
  /\ cache.list # None
  /\ cache.list[a] # None
  /\ ~\E w \in wire : w.kind = "delete" /\ w.here /\ w.heard
  /\ SendFromList(Write("delete", [alarm |-> a]))
  /\ fetch' = [fetch EXCEPT !.list.clean = FALSE]
  /\ listRaced' = (listRaced \/ Toggles # {})
  /\ UNCHANGED <<alarms, draft, cache, ui, meant, draftMissed>>

-----------------------------------------------------------------------------
\* The server takes one write, in any order, and answers.

NameTaken(text) == \E a \in Alarms : alarms[a] # None /\ alarms[a].text = text

Serve(w) ==
  /\ w \in wire /\ w.stage = "sent" /\ w.kind # "leave"
  /\ \E stage \in {"ok", "refused"}, reply \in Rows \cup {None} :
       /\ \/ /\ w.kind = "saveDraft" /\ stage = "ok" /\ reply = None
             /\ draft' = w.arg /\ UNCHANGED alarms
          \/ /\ w.kind \in {"discard", "discardCreated"} /\ stage = "ok" /\ reply = None
             /\ draft' = None /\ UNCHANGED alarms
          \/ /\ w.kind = "create" /\ reply = None /\ UNCHANGED draft
             /\ IF NameTaken(w.arg.text) THEN stage = "refused" /\ UNCHANGED alarms
                ELSE /\ stage = "ok"
                     /\ \E a \in Alarms :
                          /\ alarms[a] = None
                          /\ alarms' = [alarms EXCEPT ![a] = [text |-> w.arg.text, enabled |-> TRUE]]
          \/ /\ w.kind = "edit" /\ reply = None /\ UNCHANGED draft
             /\ LET old == alarms[w.arg.alarm] IN
                IF old = None THEN stage = "refused" /\ UNCHANGED alarms
                ELSE IF old.text # w.arg.text /\ NameTaken(w.arg.text)
                       THEN stage = "refused" /\ UNCHANGED alarms
                ELSE /\ stage = "ok"
                     /\ alarms' = [alarms EXCEPT ![w.arg.alarm].text = w.arg.text]
          \/ /\ w.kind = "toggle" /\ UNCHANGED draft
             /\ IF alarms[w.arg.alarm] = None
                  THEN stage = "refused" /\ reply = None /\ UNCHANGED alarms
                  ELSE /\ stage = "ok"
                       /\ alarms' = [alarms EXCEPT ![w.arg.alarm].enabled = w.arg.enabled]
                       /\ reply = alarms'[w.arg.alarm]
          \/ /\ w.kind = "bulk" /\ reply = None /\ UNCHANGED draft
             /\ IF \E a \in w.arg.alarms : alarms[a] = None
                  THEN stage = "refused" /\ UNCHANGED alarms
                  ELSE /\ stage = "ok"
                       /\ alarms' = [a \in Alarms |-> IF a \in w.arg.alarms
                                                        THEN [alarms[a] EXCEPT !.enabled = w.arg.enabled]
                                                        ELSE alarms[a]]
          \/ /\ w.kind = "delete" /\ reply = None /\ UNCHANGED draft
             /\ stage = IF alarms[w.arg.alarm] = None THEN "refused" ELSE "ok"
             /\ alarms' = [alarms EXCEPT ![w.arg.alarm] = None]
       /\ wire' = (wire \ {w}) \cup (IF w.heard THEN {[w EXCEPT !.stage = stage, !.reply = reply]} ELSE {})
  /\ listRaced' = (listRaced \/ (~w.heard /\ w \in ListWrites))
  /\ IF ~w.heard /\ w \in DraftWrites
       THEN draftMissed' = TRUE /\ fetch' = Overtaken(fetch, "draft")
       ELSE UNCHANGED <<draftMissed, fetch>>
  /\ UNCHANGED <<session, cache, ui, meant>>

\* A write is lost on its way, or its answer is.
Lose(w) ==
  /\ Does("lose")
  /\ w \in wire /\ w.heard /\ w.stage # "lost" /\ w.kind # "leave"
  /\ wire' = (wire \ {w}) \cup {[w EXCEPT !.stage = "lost"]}
  /\ listRaced' = (listRaced \/ (w \in ListWrites /\ w.stage # "sent"))
  /\ meant' = IF w \in DraftWrites /\ w.stage = "sent" THEN meant \cup {draft} ELSE meant
  /\ IF w \in DraftWrites /\ w.stage # "sent"
       THEN draftMissed' = TRUE /\ fetch' = Overtaken(fetch, "draft")
       ELSE UNCHANGED <<draftMissed, fetch>>
  /\ UNCHANGED <<session, alarms, draft, cache, ui>>

-----------------------------------------------------------------------------
\* What the tab does with an answer, and with a write that gets none.
Ends(w) == w \in wire /\ w.heard /\ wire' = wire \ {w}
Others(w) == ListWrites \ {w}

DraftWritten(w) ==
  /\ w.kind \in {"saveDraft", "discard"} /\ w.stage = "ok" /\ Ends(w)
  /\ fetch' = Invalidated(fetch, "draft", ui, {})
  /\ UNCHANGED <<session, alarms, draft, cache, ui, meant, draftMissed, listRaced>>

\* An alarm that was created leaves no draft behind, and only then is the wizard left.
Created(w) ==
  /\ w \in wire /\ w.heard /\ w.kind = "create" /\ w.stage = "ok"
  /\ wire' = (wire \ {w}) \cup {[w EXCEPT !.kind = "discardCreated", !.arg = None, !.stage = "sent"]}
  /\ meant' = Meaning(None)
  /\ UNCHANGED <<session, alarms, draft, fetch, cache, ui, draftMissed, listRaced>>

CreatedDiscarded(w) ==
  /\ w \in wire /\ w.heard /\ w.kind = "discardCreated" /\ w.stage = "ok"
  /\ wire' = (wire \ {w}) \cup {[w EXCEPT !.kind = "leave"]}
  /\ fetch' = Invalidated(fetch, "draft", ui, {})
  /\ UNCHANGED <<session, alarms, draft, cache, ui, meant, draftMissed, listRaced>>

\* The end of a submit: the list is read again, and shown, whatever is on screen by
\* then.  A created alarm waits for the draft to be read, which other reads may cut short.
Leave(w) ==
  /\ w \in wire /\ w.heard
  /\ w.kind = "leave" \/ (w.kind = "edit" /\ w.stage = "ok")
  /\ wire' = Left(wire \ {w})
  /\ ui' = IF ui.page = "list" THEN ui ELSE Blank
  /\ fetch' = IF ui.page = "list" THEN Invalidated(fetch, "list", ui, Others(w))
              ELSE Mounted(fetch, Blank, Others(w))
  /\ UNCHANGED <<session, alarms, draft, cache, meant, draftMissed, listRaced>>

\* Broken: the discard of the draft is not waited for, and its loss is not noticed.
SubmitFailsAlone(w) == w.kind \in {"create", "edit"} /\ w.stage \in {"refused", "lost"}

\* Whatever part of a submit fails, the wizard stays, and can submit again.
SubmitFails(w) ==
  \/ w.kind \in {"create", "edit"} /\ w.stage \in {"refused", "lost"}
  \/ w.kind = "discardCreated" /\ w.stage = "lost"

SubmitFailed(w) ==
  /\ SubmitFails(w)
  /\ Ends(w)
  /\ ui' = IF w.here THEN [ui EXCEPT !.submitting = FALSE] ELSE ui
  /\ listRaced' = (listRaced \/ w.kind = "discardCreated")
  /\ UNCHANGED <<session, alarms, draft, fetch, cache, meant, draftMissed>>

Toggled(w) ==
  /\ w.kind = "toggle" /\ w.stage = "ok" /\ Ends(w)
  /\ cache' = [cache EXCEPT !.list[w.arg.alarm] = IF @ = None THEN None ELSE w.reply]
  /\ UNCHANGED <<session, alarms, draft, fetch, ui, meant, draftMissed, listRaced>>

ToggleFailed(w) ==
  /\ w.kind = "toggle" /\ w.stage \in {"refused", "lost"} /\ Ends(w)
  /\ cache' = [cache EXCEPT !.list = w.arg.previous]
  /\ UNCHANGED <<session, alarms, draft, fetch, ui, meant, draftMissed, listRaced>>

\* A bulk toggle and a delete change nothing on screen before they are answered.
ListWritten(w) ==
  /\ w.kind \in {"bulk", "delete"} /\ w.stage = "ok" /\ Ends(w)
  /\ ui' = IF w.kind = "bulk" /\ w.here THEN [ui EXCEPT !.selected = {}] ELSE ui
  /\ fetch' = Invalidated(fetch, "list", ui, Others(w))
  /\ UNCHANGED <<session, alarms, draft, cache, meant, draftMissed, listRaced>>

\* These are told, and nothing else.
OtherFailed(w) ==
  /\ w.kind \in {"bulk", "delete", "saveDraft", "discard"} /\ w.stage \in {"refused", "lost"}
  /\ Ends(w)
  /\ UNCHANGED <<session, alarms, draft, fetch, cache, ui, meant, draftMissed, listRaced>>

Answered(w) ==
  \/ DraftWritten(w) \/ Created(w) \/ CreatedDiscarded(w) \/ Leave(w) \/ SubmitFailed(w)
  \/ Toggled(w) \/ ToggleFailed(w) \/ ListWritten(w) \/ OtherFailed(w)

-----------------------------------------------------------------------------
\* Reads.
Read(q) == CASE q = "list"  -> alarms
             [] q = "draft" -> [saved |-> draft]
             [] OTHER       -> IF alarms[q] = None THEN None ELSE alarms[q].text

ServeRead(q) ==
  /\ fetch[q].stage = "sent"
  /\ fetch' = [fetch EXCEPT ![q].stage = "served", ![q].data = Read(q)]
  /\ UNCHANGED <<session, alarms, draft, wire, cache, ui, meant, draftMissed, listRaced>>

\* An alarm that is not there is an error, which leaves what is cached.
Arrive(q) ==
  /\ fetch[q].stage = "served"
  /\ fetch' = [fetch EXCEPT ![q] = Idle]
  /\ cache' = IF fetch[q].data = None THEN cache ELSE [cache EXCEPT ![q] = fetch[q].data]
  /\ ui' = Hydrated(ui, cache')
  /\ listRaced' = IF q = "list" THEN ~fetch[q].clean ELSE listRaced
  /\ draftMissed' = IF q = "draft" THEN ~fetch[q].clean ELSE draftMissed
  /\ UNCHANGED <<session, alarms, draft, wire, meant>>

\* A read that fails leaves what is cached.  A wizard whose draft could not be read starts
\* from nothing, and so does the next as long as none could.
FailRead(q) ==
  /\ Does("lose") /\ fetch[q].stage = "sent"
  /\ fetch' = [fetch EXCEPT ![q] = Idle]
  /\ cache' = IF q = "draft" /\ cache[q] = None THEN [cache EXCEPT ![q] = Failed] ELSE cache
  /\ ui' = Hydrated(ui, cache')
  /\ listRaced' = (listRaced \/ q = "list")
  /\ draftMissed' = (draftMissed \/ q = "draft")
  /\ UNCHANGED <<session, alarms, draft, wire, meant>>

-----------------------------------------------------------------------------
Init ==
  /\ session \in Sessions
  /\ alarms = FirstAlarms
  /\ draft = None /\ meant = {None}
  /\ wire = {}
  /\ cache = [q \in Queries |-> None]
  /\ ui = Blank
  /\ fetch = Mounted([q \in Queries |-> Idle], Blank, {})
  /\ draftMissed = FALSE /\ listRaced = FALSE

UserNext ==
  \/ OpenCreate \/ Cancel \/ Reload \/ Submit \/ DiscardDraft
  \/ \E a \in Alarms : OpenEdit(a) \/ Forget(a) \/ Toggle(a) \/ ToggleSelection(a) \/ DeleteAlarm(a)
  \/ \E enabled \in BOOLEAN : BulkToggle(enabled)
  \/ \E t \in Texts : Type(t)
  \/ \E n \in {ui.step - 1, ui.step + 1} : GoTo(n)

Next ==
  \/ UserNext
  \/ \E w \in wire : Serve(w) \/ Lose(w) \/ Answered(w)
  \/ \E q \in Queries : ServeRead(q) \/ Arrive(q) \/ FailRead(q)

\* A request is served or given up, and an answer that has come is handled.
Fairness ==
  /\ \A s \in 1..MaxWire : WF_vars(\E w \in wire : w.slot = s /\ (Serve(w) \/ Answered(w)))
  /\ \A q \in Queries : WF_vars(ServeRead(q) \/ Arrive(q))

Spec == Init /\ [][Next]_vars /\ Fairness

-----------------------------------------------------------------------------
\* When nothing is on the wire and the list is on screen, it is what the server has:
\* the row that a toggle flipped, the rows a bulk toggle or a delete changed, the alarm
\* that a wizard wrote while the list was away.  What the page itself loses is named by
\* listRaced: a toggle that overlaps another write or stops a reading that had news, and
\* a write or a read that failed (AlarmsPage.tsx toggleEnabled, bulkToggle, deleteAlarm).
ListTruth ==
  (ListWrites = {} /\ fetch.list.stage = "idle" /\ ui.page = "list" /\ ~listRaced)
    => cache.list = alarms

\* When no write of the draft is on its way to the server, the draft is what one of the
\* operations meant that were under way together, so the last one's where they did not
\* overlap, whichever page sent it: the last step, nothing after a discard, nothing after
\* an alarm was made of it.  And however they overlapped, the draft that the list offers
\* and a wizard resumes is the server's, once every write that was served has been answered.
\* What is cached may miss one only as draftMissed says: its answer was lost, or a
\* reading failed or was not begun again (WizardPage.tsx saveDraft, discardDraft, submit).
DraftTruth ==
  /\ (\A w \in DraftWrites : w.stage # "sent") => draft \in meant
  /\ (/\ \A w \in DraftWrites : w.stage # "ok"
      /\ fetch.draft.stage = "idle" /\ "draft" \in Uses(ui) /\ ~draftMissed)
       => cache.draft = [saved |-> draft]

\* A wizard that is submitted either leaves or can be submitted again: no loss on the way
\* of any of its three requests leaves its button disabled (WizardPage.tsx submit, isPending).
SubmitEnds == ui.submitting ~> ~ui.submitting
=============================================================================
