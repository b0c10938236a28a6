---------------------------- MODULE SpeechProofs ----------------------------
(***************************************************************************)
(* Theorems about Speech, for every number of tabs, messages, words and    *)
(* jobs, and every limit.                                                  *)
(*                                                                         *)
(* Two jobs for the same words may both have found nothing, and the audio  *)
(* that was paid for may be lost before it is kept: the account is that    *)
(* every payment but one for each word was excused, and that one is held,  *)
(* by the store or by a job that is about to save it.                      *)
(***************************************************************************)
EXTENDS Speech, TLAPS

\* What a message in stage is worth: its audio is kept, or its job is its own.
Fits(s) ==
  says[s] # None =>
    /\ says[s].stage \in {"loading", "playing"} => says[s].words \in stored
    /\ says[s].job # None =>
         LET j == says[s].job IN
         says[s].stage = "api" /\ jobs[j] # None /\ jobs[j].words = says[s].words /\ jobs[j].heard

AllFit == \A s \in Says : Fits(s)

\* No job is waited for by two messages.
JobsApart ==
  \A s, x \in Says :
    s # x /\ says[s] # None /\ says[x] # None /\ says[s].job = says[x].job => says[s].job = None

\* Who the player and the voice of a tab belong to.
PlayerOf(t, s) == says[s] # None /\ says[s].tab = t /\ says[s].stage \in {"loading", "playing"}
VoiceOf(t, s) == says[s] # None /\ says[s].tab = t /\ says[s].stage = "speaking"

AllTaken ==
  \A t \in Tabs :
    /\ tabs[t].player # None => PlayerOf(t, tabs[t].player)
    /\ tabs[t].voice # None => VoiceOf(t, tabs[t].voice)

\* A job that generates found nothing, and one that is done has kept its audio.
JobFits(j) ==
  jobs[j] # None =>
    /\ jobs[j].stage = "generate" => ~jobs[j].kept
    /\ jobs[j].stage = "done" => jobs[j].words \in stored

AllJobsFit == \A j \in Jobs : JobFits(j)

\* The audio is kept, or a job has it in hand.
Held(w) == w \in stored \/ \E j \in Jobs : At(j, "save") /\ jobs[j].words = w

Accounted == \A w \in Words : paid[w] <= excused[w] + (IF Held(w) THEN 1 ELSE 0)

IInv == TypeOK /\ AllFit /\ JobsApart /\ AllTaken /\ AllJobsFit /\ Accounted

-----------------------------------------------------------------------------
\* Rows with a field changed.
LEMMA SayRows ==
  ASSUME NEW r \in SayRow, NEW g \in Waiting \cup Audible
  PROVE  LET n == [r EXCEPT !.stage = g] IN
         n \in SayRow /\ n # None /\ n.stage = g /\ n.tab = r.tab /\ n.words = r.words /\ n.job = r.job
<1>1. None \notin SayRow
  BY SpeechAssumption
<1>2. QED
  BY <1>1 DEF SayRow

LEMMA NoRow == None \notin JobRow
BY SpeechAssumption

\* One tab has another row.
LEMMA OneTab ==
  ASSUME IInv, NEW t \in Tabs, NEW r \in TabRow, tabs' = [tabs EXCEPT ![t] = r]
  PROVE  tabs' \in [Tabs -> TabRow] /\ tabs'[t] = r /\ \A u \in Tabs \ {t} : tabs'[u] = tabs[u]
BY DEF IInv, TypeOK

\* The messages after a step: gone, as they were, or with no job and nothing to play
\* that is not kept.
LEMMA SayingsFit ==
  ASSUME IInv, stored \subseteq stored',
         \A x \in Says :
           \/ says'[x] = None
           \/ /\ says'[x] = says[x]
              /\ says[x] # None /\ says[x].job # None =>
                   LET j == says[x].job IN
                   jobs'[j] # None /\ jobs'[j].words = jobs[j].words /\ jobs'[j].heard = jobs[j].heard
           \/ /\ says'[x].job = None
              /\ says'[x].stage \in {"loading", "playing"} => says'[x].words \in stored'
  PROVE  AllFit' /\ JobsApart'
<1>1. AllFit'
  <2>1. SUFFICES ASSUME NEW x \in Says PROVE Fits(x)'
    BY DEF AllFit
  <2>2. Fits(x)
    BY DEF IInv, AllFit
  <2>3. QED
    BY <2>2 DEF Fits
<1>2. JobsApart'
  BY DEF IInv, JobsApart
<1>3. QED
  BY <1>1, <1>2

\* The same while no job changes.
LEMMA SayingsOnly ==
  ASSUME IInv, UNCHANGED jobs, stored \subseteq stored',
         \A x \in Says :
           \/ says'[x] = None \/ says'[x] = says[x]
           \/ /\ says'[x].job = None
              /\ says'[x].stage \in {"loading", "playing"} => says'[x].words \in stored'
  PROVE  AllFit' /\ JobsApart'
<1>1. \A x \in Says : says[x] # None /\ says[x].job # None => jobs'[says[x].job] # None
  BY DEF IInv, AllFit, Fits
<1>2. QED
  BY <1>1, SayingsFit

\* Players and voices after a step: freed, or of the same message still, or taken by
\* one that is there for them.
LEMMA TabsTaken ==
  ASSUME IInv,
         \A t \in Tabs :
           /\ \/ tabs'[t].player = None
              \/ PlayerOf(t, tabs[t].player)'
              \/ /\ tabs'[t].player = tabs[t].player /\ says'[tabs[t].player] = says[tabs[t].player]
           /\ \/ tabs'[t].voice = None
              \/ VoiceOf(t, tabs[t].voice)'
              \/ /\ tabs'[t].voice = tabs[t].voice /\ says'[tabs[t].voice] = says[tabs[t].voice]
  PROVE  AllTaken'
<1>1. SUFFICES ASSUME NEW t \in Tabs
      PROVE  /\ tabs'[t].player # None => PlayerOf(t, tabs[t].player)'
             /\ tabs'[t].voice # None => VoiceOf(t, tabs[t].voice)'
  BY DEF AllTaken
<1>2. /\ tabs[t].player # None => PlayerOf(t, tabs[t].player)
      /\ tabs[t].voice # None => VoiceOf(t, tabs[t].voice)
  BY DEF IInv, AllTaken
<1>3. QED
  BY <1>2 DEF PlayerOf, VoiceOf

\* What is paid, and what is excused, does not change, and nothing held is lost.
LEMMA NothingLost ==
  ASSUME IInv, UNCHANGED <<paid, excused>>, \A w \in Words : Held(w) => Held(w)'
  PROVE  Accounted'
<1>1. SUFFICES ASSUME NEW w \in Words PROVE paid[w] <= excused[w] + (IF Held(w)' THEN 1 ELSE 0)
  BY DEF Accounted
<1>2. /\ paid[w] <= excused[w] + (IF Held(w) THEN 1 ELSE 0)
      /\ Held(w) => Held(w)'
      /\ paid[w] \in Nat /\ excused[w] \in Nat
  BY DEF IInv, Accounted, TypeOK
<1>3. CASE Held(w)
  BY <1>2, <1>3
<1>4. CASE ~Held(w)
  BY <1>2, <1>4
<1>5. QED
  BY <1>3, <1>4

\* The service goes on or stays as it is.
LEMMA ServiceQuiet ==
  ASSUME IInv, UNCHANGED <<stored, jobs, paid, excused>>
  PROVE  AllJobsFit' /\ Accounted'
<1>1. AllJobsFit'
  BY DEF IInv, AllJobsFit, JobFits
<1>2. \A w \in Words : Held(w) => Held(w)'
  BY DEF Held, At
<1>3. QED
  BY <1>1, <1>2, NothingLost

-----------------------------------------------------------------------------
\* The tab.

\* What every step of a message starts from.
LEMMA Given ==
  ASSUME IInv, NEW s \in Says, says[s] # None
  PROVE  /\ says[s] \in SayRow /\ says[s].tab \in Tabs /\ says[s].words \in Words
         /\ tabs[says[s].tab] \in TabRow /\ Fits(s)
<1>1. says[s] \in SayRow
  BY DEF IInv, TypeOK
<1>2. QED
  BY <1>1 DEF IInv, TypeOK, AllFit, SayRow

LEMMA SayStep ==
  ASSUME IInv, NEW t \in Tabs, NEW s \in Says, NEW w \in Words, Say(t, s, w)
  PROVE  IInv'
<1>1. PICK r : r = [tab |-> t, words |-> w, stage |-> "settings", job |-> None]
  OBVIOUS
<1>2. /\ says[s] = None /\ says' = [says EXCEPT ![s] = r] /\ said' = said + 1
      /\ UNCHANGED <<paidTier, used, up, stored, jobs, paid, excused, tabs, faults>>
  BY <1>1 DEF Say, service
<1>3. r \in SayRow /\ r.job = None /\ r.stage = "settings"
  BY <1>1 DEF SayRow, Waiting
<1>4. TypeOK'
  BY <1>2, <1>3 DEF IInv, TypeOK
<1>5. says'[s] = r /\ \A x \in Says \ {s} : says'[x] = says[x]
  BY <1>2 DEF IInv, TypeOK
<1>6. AllFit' /\ JobsApart'
  BY <1>2, <1>3, <1>5, SayingsOnly
<1>7. AllTaken'
  <2>1. \A t2 \in Tabs : /\ tabs[t2].player # None => tabs[t2].player \in Says \ {s}
                         /\ tabs[t2].voice # None => tabs[t2].voice \in Says \ {s}
    BY <1>2 DEF IInv, TypeOK, TabRow, AllTaken, PlayerOf, VoiceOf
  <2>2. QED
    BY <1>2, <1>5, <2>1, TabsTaken
<1>8. QED
  BY <1>2, <1>4, <1>6, <1>7, ServiceQuiet DEF IInv

LEMMA SettingsStep ==
  ASSUME IInv, NEW t \in Tabs, AskSettings(t)
  PROVE  IInv'
<1>1. PICK x \in {"on", "off"} : tabs' = [tabs EXCEPT ![t].settings = x]
  BY DEF AskSettings
<1>2. UNCHANGED <<paidTier, used, up, stored, jobs, paid, excused, says, said, faults>>
  BY DEF AskSettings, service, counts
<1>3. \A r \in TabRow : LET n == [r EXCEPT !.settings = x] IN
        n \in TabRow /\ n.player = r.player /\ n.voice = r.voice
  BY DEF TabRow
<1>4. /\ tabs' \in [Tabs -> TabRow]
      /\ \A u \in Tabs : tabs'[u].player = tabs[u].player /\ tabs'[u].voice = tabs[u].voice
  BY <1>1, <1>3 DEF IInv, TypeOK
<1>5. TypeOK'
  BY <1>2, <1>4 DEF IInv, TypeOK
<1>6. AllFit' /\ JobsApart'
  BY <1>2, SayingsOnly
<1>7. AllTaken'
  BY <1>2, <1>4, TabsTaken
<1>8. QED
  BY <1>2, <1>5, <1>6, <1>7, ServiceQuiet DEF IInv

\* The tabs keep whom they play and speak for, when that is not s.
LEMMA OthersTaken ==
  ASSUME IInv, NEW s \in Says, \A x \in Says \ {s} : says'[x] = says[x],
         \A t \in Tabs : /\ tabs'[t].player \in {tabs[t].player, None}
                         /\ tabs'[t].voice \in {tabs[t].voice, None}
                         /\ tabs'[t].player # s \/ PlayerOf(t, s)'
                         /\ tabs'[t].voice # s \/ VoiceOf(t, s)'
  PROVE  AllTaken'
<1>1. \A t \in Tabs : tabs[t].player \in Says \cup {None} /\ tabs[t].voice \in Says \cup {None}
  BY DEF IInv, TypeOK, TabRow
<1>2. SUFFICES ASSUME NEW t \in Tabs
      PROVE  /\ \/ tabs'[t].player = None
                \/ PlayerOf(t, tabs[t].player)'
                \/ /\ tabs'[t].player = tabs[t].player /\ says'[tabs[t].player] = says[tabs[t].player]
             /\ \/ tabs'[t].voice = None
                \/ VoiceOf(t, tabs[t].voice)'
                \/ /\ tabs'[t].voice = tabs[t].voice /\ says'[tabs[t].voice] = says[tabs[t].voice]
  BY TabsTaken
<1>3. QED
  BY <1>1 DEF PlayerOf, VoiceOf

\* A message goes from stage to stage and no player or voice changes.
LEMMA SentStep ==
  ASSUME IInv, NEW s \in Says, says[s] # None, NEW g \in Waiting \cup Audible, says' = Sent(s, g),
         says[s].job = None, g \in {"loading", "playing"} => says[s].words \in stored,
         \/ says[s].stage \notin {"loading", "playing", "speaking"}
         \/ says[s].stage \in {"loading", "playing"} /\ g \in {"loading", "playing"},
         UNCHANGED <<paidTier, stored, jobs, paid, excused, tabs>>,
         used' \in Nat, up' \in BOOLEAN, said' \in Nat, faults' \in Nat
  PROVE  IInv'
<1>1. PICK r : r = [says[s] EXCEPT !.stage = g]
  OBVIOUS
<1>2. says' = [says EXCEPT ![s] = r]
  BY <1>1 DEF Sent
<1>3. /\ r \in SayRow /\ r # None /\ r.stage = g /\ r.job = None /\ r.words = says[s].words
      /\ r.tab = says[s].tab
  BY <1>1, Given, SayRows
<1>4. says'[s] = r /\ \A x \in Says \ {s} : says'[x] = says[x]
  BY <1>2 DEF IInv, TypeOK
<1>5. TypeOK'
  BY <1>2, <1>3 DEF IInv, TypeOK
<1>6. AllFit' /\ JobsApart'
  BY <1>3, <1>4, SayingsOnly
<1>7. AllTaken'
  <2>1. \A t \in Tabs : /\ tabs[t].player # s \/ (says[s].tab = t /\ says[s].stage \in {"loading", "playing"})
                        /\ tabs[t].voice # s \/ says[s].stage = "speaking"
    BY SpeechAssumption DEF IInv, AllTaken, PlayerOf, VoiceOf
  <2>2. \A t \in Tabs : /\ tabs'[t].player # s \/ PlayerOf(t, s)'
                        /\ tabs'[t].voice # s
    BY <1>3, <1>4, <2>1 DEF PlayerOf
  <2>3. QED
    BY <1>4, <2>2, OthersTaken
<1>8. QED
  BY <1>5, <1>6, <1>7, ServiceQuiet DEF IInv

LEMMA PostStep ==
  ASSUME IInv, NEW s \in Says, Post(s)
  PROVE  IInv'
<1>1. PICK g : g = IF tabs[says[s].tab].settings = "on" THEN "api" ELSE "failed"
  OBVIOUS
<1>2. /\ says[s] # None /\ says[s].stage = "settings" /\ says' = Sent(s, g)
      /\ UNCHANGED <<paidTier, used, up, stored, jobs, paid, excused, tabs, said, faults>>
  BY <1>1 DEF Post, service, counts
<1>3. says[s].job = None
  BY <1>2, Given DEF Fits
<1>4. g \in Waiting \cup Audible /\ g \notin {"loading", "playing"}
  BY <1>1 DEF Waiting
<1>5. QED
  BY <1>2, <1>3, <1>4, SentStep DEF IInv, TypeOK

LEMMA LoadedStep ==
  ASSUME IInv, NEW s \in Says, Loaded(s)
  PROVE  IInv'
<1>1. /\ says[s] # None /\ says[s].stage = "loading" /\ says[s].words \in stored
      /\ says' = Sent(s, "playing")
      /\ UNCHANGED <<paidTier, used, up, stored, jobs, paid, excused, tabs, said, faults>>
  BY DEF Loaded, service, counts
<1>2. says[s].job = None
  BY <1>1, Given DEF Fits
<1>3. "playing" \in Waiting \cup Audible
  BY DEF Audible
<1>4. QED
  BY <1>1, <1>2, <1>3, SentStep DEF IInv, TypeOK

\* Message s leaves the player and the voice, or was with neither.
LEMMA LeavesStep ==
  ASSUME IInv, NEW s \in Says, says[s] # None, NEW v \in SayRow \cup {None},
         v # None => v.job = None /\ v.stage \notin {"loading", "playing"},
         says' = [says EXCEPT ![s] = v],
         tabs' \in [Tabs -> TabRow],
         \A t \in Tabs : /\ tabs'[t].player \in {tabs[t].player, None} \ {s}
                         /\ tabs'[t].voice \in {tabs[t].voice, None} \ {s},
         UNCHANGED <<paidTier, used, up, stored, jobs, paid, excused>>,
         said' \in Nat, faults' \in Nat
  PROVE  IInv'
<1>1. says'[s] = v /\ \A x \in Says \ {s} : says'[x] = says[x]
  BY DEF IInv, TypeOK
<1>2. TypeOK'
  BY DEF IInv, TypeOK
<1>3. AllFit' /\ JobsApart'
  BY <1>1, SayingsOnly
<1>4. AllTaken'
  BY <1>1, OthersTaken
<1>5. QED
  BY <1>2, <1>3, <1>4, ServiceQuiet DEF IInv

\* Whom a tab plays, or speaks for, is with that tab and no other.
LEMMA TakenByOne ==
  ASSUME IInv, NEW s \in Says, says[s] # None
  PROVE  \A t \in Tabs :
           /\ tabs[t].player = s => says[s].tab = t /\ says[s].stage \in {"loading", "playing"}
           /\ tabs[t].voice = s => says[s].tab = t /\ says[s].stage = "speaking"
           /\ tabs[t].player \in Says \cup {None} /\ tabs[t].voice \in Says \cup {None}
BY SpeechAssumption DEF IInv, AllTaken, PlayerOf, VoiceOf, TypeOK, TabRow

LEMMA NotLoadedStep ==
  ASSUME IInv, NEW s \in Says, NotLoaded(s)
  PROVE  IInv'
<1>1. PICK v : v = [says[s] EXCEPT !.stage = "failed"]
  OBVIOUS
<1>2. PICK t : t = says[s].tab
  OBVIOUS
<1>3. /\ says[s] # None /\ says[s].stage = "loading" /\ says' = [says EXCEPT ![s] = v]
      /\ tabs' = [tabs EXCEPT ![t].player = None]
      /\ UNCHANGED <<paidTier, used, up, stored, jobs, paid, excused, said>>
  BY <1>1, <1>2 DEF NotLoaded, Sent, service
<1>4. v \in SayRow /\ v.job = None /\ v.stage = "failed" /\ t \in Tabs
  BY <1>1, <1>2, <1>3, Given, SayRows DEF Fits, Waiting
<1>5. /\ tabs' \in [Tabs -> TabRow]
      /\ \A u \in Tabs : tabs'[u].voice = tabs[u].voice /\ tabs'[u].player = IF u = t THEN None ELSE tabs[u].player
  <2>1. PICK r : r = [tabs[t] EXCEPT !.player = None]
    OBVIOUS
  <2>2. r \in TabRow /\ r.player = None /\ r.voice = tabs[t].voice
    BY <1>4, <2>1 DEF IInv, TypeOK, TabRow
  <2>3. tabs' = [tabs EXCEPT ![t] = r]
    BY <1>3, <2>1
  <2>4. QED
    BY <1>4, <2>2, <2>3, OneTab
<1>6. faults' \in Nat
  BY DEF NotLoaded, Fault, IInv, TypeOK
<1>7. s # None
  BY SpeechAssumption
<1>8. \A u \in Tabs : /\ tabs'[u].player \in {tabs[u].player, None} \ {s}
                      /\ tabs'[u].voice \in {tabs[u].voice, None} \ {s}
  BY <1>2, <1>3, <1>5, <1>7, TakenByOne
<1>9. QED
  BY <1>3, <1>4, <1>5, <1>6, <1>8, LeavesStep DEF IInv, TypeOK

\* A message that ends frees what it had of its tab.
LEMMA SilentFrees ==
  ASSUME IInv, NEW s \in Says, says[s] # None, tabs' = Silent(says[s].tab, s)
  PROVE  /\ tabs' \in [Tabs -> TabRow]
         /\ \A u \in Tabs : /\ tabs'[u].player \in {tabs[u].player, None} \ {s}
                            /\ tabs'[u].voice \in {tabs[u].voice, None} \ {s}
<1>1. PICK t \in Tabs : t = says[s].tab
  BY Given
<1>2. PICK p : p = IF tabs[t].player = s THEN None ELSE tabs[t].player
  OBVIOUS
<1>3. PICK v : v = IF tabs[t].voice = s THEN None ELSE tabs[t].voice
  OBVIOUS
<1>4. p \in Says \cup {None} /\ v \in Says \cup {None} /\ s # None
  BY <1>1, <1>2, <1>3, TakenByOne, SpeechAssumption
<1>5. PICK r : r = [tabs[t] EXCEPT !.player = p, !.voice = v] /\ tabs' = [tabs EXCEPT ![t] = r]
  BY <1>1, <1>2, <1>3 DEF Silent, IInv, TypeOK, TabRow
<1>6. /\ tabs' \in [Tabs -> TabRow]
      /\ \A u \in Tabs \ {t} : tabs'[u] = tabs[u]
      /\ tabs'[t].player = p /\ tabs'[t].voice = v
  <2>1. r \in TabRow /\ r.player = p /\ r.voice = v
    <3>1. PICK row \in TabRow : row = tabs[t]
      BY DEF IInv, TypeOK
    <3>2. r = [row EXCEPT !.player = p, !.voice = v]
      BY <1>5, <3>1
    <3>3. QED
      BY ONLY <1>4, <3>1, <3>2 DEF TabRow
  <2>2. QED
    BY <1>5, <2>1, OneTab
<1>7. QED
  BY <1>1, <1>2, <1>3, <1>4, <1>6, TakenByOne

LEMMA EndedStep ==
  ASSUME IInv, NEW s \in Says, Ended(s)
  PROVE  IInv'
<1>1. /\ says[s] # None /\ says' = [says EXCEPT ![s] = None] /\ tabs' = Silent(says[s].tab, s)
      /\ UNCHANGED <<paidTier, used, up, stored, jobs, paid, excused, said, faults>>
  BY DEF Ended, CutOff, service, counts
<1>2. QED
  BY <1>1, SilentFrees, LeavesStep DEF IInv, TypeOK

LEMMA BreaksOffStep ==
  ASSUME IInv, NEW s \in Says, BreaksOff(s)
  PROVE  IInv'
<1>1. PICK v : v = [says[s] EXCEPT !.stage = "failed"]
  OBVIOUS
<1>2. /\ says[s] # None /\ says[s].stage = "playing" /\ says' = [says EXCEPT ![s] = v]
      /\ tabs' = Silent(says[s].tab, s) /\ faults' = faults + 1
      /\ UNCHANGED <<paidTier, used, up, stored, jobs, paid, excused, said>>
  BY <1>1 DEF BreaksOff, Sent, Fault, service
<1>3. v \in SayRow /\ v.job = None /\ v.stage = "failed"
  BY <1>1, <1>2, Given, SayRows DEF Fits, Waiting
<1>4. said' \in Nat /\ faults' \in Nat
  BY <1>2 DEF IInv, TypeOK
<1>5. QED
  BY <1>2, <1>3, <1>4, SilentFrees, LeavesStep

\* A voice or a player that is taken away: who had it is gone, or falls back.
LEMMA RefusedIs ==
  ASSUME NEW m \in [Says -> SayRow \cup {None}], NEW p \in Says \cup {None}, p # None => m[p] # None
  PROVE  /\ Refused(m, p) \in [Says -> SayRow \cup {None}]
         /\ \A x \in Says : x # p => Refused(m, p)[x] = m[x]
         /\ p # None => \/ Refused(m, p)[p] = None
                        \/ /\ m[p].stage = "loading" /\ Refused(m, p)[p] \in SayRow
                           /\ Refused(m, p)[p].stage = "failed" /\ Refused(m, p)[p].job = m[p].job
<1>1. CASE p = None
  BY <1>1, SpeechAssumption DEF Refused
<1>2. CASE p # None /\ m[p].stage = "loading"
  <2>1. PICK v : v = [m[p] EXCEPT !.stage = "failed"]
    OBVIOUS
  <2>2. v \in SayRow /\ v.stage = "failed" /\ v.job = m[p].job
    BY <1>2, <2>1, SayRows DEF Waiting
  <2>3. Refused(m, p) = [m EXCEPT ![p] = v]
    BY <1>2, <2>1 DEF Refused
  <2>4. QED
    BY <1>2, <2>2, <2>3
<1>3. CASE p # None /\ m[p].stage # "loading"
  BY <1>3 DEF Refused, CutOff
<1>4. QED
  BY <1>1, <1>2, <1>3

LEMMA CutOffIs ==
  ASSUME IInv, NEW v \in Says \cup {None}
  PROVE  LET m == IF v = None THEN says ELSE CutOff(says, v) IN
         /\ m \in [Says -> SayRow \cup {None}]
         /\ v # None => m[v] = None
         /\ \A x \in Says : x # v => m[x] = says[x]
BY SpeechAssumption DEF CutOff, IInv, TypeOK

\* speak(): s takes the voice from whoever had it.
LEMMA SpeakStep ==
  ASSUME IInv, NEW s \in Says, Speak(s)
  PROVE  IInv'
<1>1. PICK t \in Tabs : t = says[s].tab
  BY Given DEF Speak
<1>2. PICK b \in Says \cup {None} : b = tabs[t].voice
  BY <1>1 DEF IInv, TypeOK, TabRow
<1>3. PICK m : m = IF b = None THEN says ELSE CutOff(says, b)
  OBVIOUS
<1>4. /\ says[s] # None /\ says[s].stage = "failed" /\ says' = Spoken(m, s)
      /\ tabs' = [tabs EXCEPT ![t].voice = s]
      /\ UNCHANGED <<paidTier, used, up, stored, jobs, paid, excused, said, faults>>
  BY <1>1, <1>2, <1>3 DEF Speak, service, counts
<1>5. /\ m \in [Says -> SayRow \cup {None}] /\ (b # None => m[b] = None)
      /\ \A x \in Says : x # b => m[x] = says[x]
  BY <1>3, CutOffIs
<1>6. b # s
  BY <1>2, <1>4, TakenByOne
<1>7. PICK v : v = [says[s] EXCEPT !.stage = "speaking"]
  OBVIOUS
<1>8. v \in SayRow /\ v # None /\ v.job = None /\ v.stage = "speaking" /\ v.tab = t
  BY <1>1, <1>4, <1>7, Given, SayRows DEF Fits, Audible
<1>9. /\ says' \in [Says -> SayRow \cup {None}] /\ says'[s] = v
      /\ b # None => says'[b] = None
      /\ \A x \in Says : x # b /\ x # s => says'[x] = says[x]
  BY <1>4, <1>5, <1>6, <1>7, <1>8 DEF Spoken
<1>10. /\ tabs' \in [Tabs -> TabRow] /\ \A u \in Tabs \ {t} : tabs'[u] = tabs[u]
       /\ tabs'[t].voice = s /\ tabs'[t].player = tabs[t].player
  <2>1. PICK r : r = [tabs[t] EXCEPT !.voice = s]
    OBVIOUS
  <2>2. r \in TabRow /\ r.player = tabs[t].player /\ r.voice = s
    BY <2>1 DEF IInv, TypeOK, TabRow
  <2>3. tabs' = [tabs EXCEPT ![t] = r]
    BY <1>4, <2>1
  <2>4. QED
    BY <2>2, <2>3, OneTab
<1>11. TypeOK'
  BY <1>4, <1>9, <1>10 DEF IInv, TypeOK
<1>12. AllFit' /\ JobsApart'
  <2>1. \A x \in Says : says'[x] = None \/ says'[x] = says[x]
                        \/ /\ says'[x].job = None
                           /\ says'[x].stage \in {"loading", "playing"} => says'[x].words \in stored'
    <3>1. ASSUME NEW x \in Says PROVE says'[x] = None \/ says'[x] = says[x] \/ says'[x] = v
      BY <1>2, <1>9, SpeechAssumption
    <3>2. v.stage \notin {"loading", "playing"} /\ v.job = None
      BY <1>8
    <3>3. QED
      BY <3>1, <3>2
  <2>2. QED
    BY <1>4, <2>1, SayingsOnly
<1>13. AllTaken'
  <2>1. ASSUME NEW u \in Tabs
        PROVE  /\ \/ tabs'[u].player = None
                  \/ /\ tabs'[u].player = tabs[u].player /\ says'[tabs[u].player] = says[tabs[u].player]
               /\ \/ tabs'[u].voice = None
                  \/ VoiceOf(u, tabs[u].voice)'
                  \/ /\ tabs'[u].voice = tabs[u].voice /\ says'[tabs[u].voice] = says[tabs[u].voice]
    <3>1. tabs'[u].player = tabs[u].player /\ (u # t => tabs'[u].voice = tabs[u].voice)
      BY <1>10
    <3>2. u = t => VoiceOf(u, tabs[u].voice)'
      BY <1>8, <1>9, <1>10 DEF VoiceOf
    <3>3. tabs[u].player # None => tabs[u].player \in Says /\ tabs[u].player # s /\ tabs[u].player # b
      BY <1>2, <1>4, TakenByOne, SpeechAssumption DEF IInv, TypeOK, TabRow, AllTaken, PlayerOf, VoiceOf
    <3>4. u # t /\ tabs[u].voice # None => tabs[u].voice \in Says /\ tabs[u].voice # s /\ tabs[u].voice # b
      BY <1>1, <1>2, <1>4, TakenByOne, SpeechAssumption DEF IInv, TypeOK, TabRow, AllTaken, VoiceOf
    <3>5. QED
      BY <1>9, <3>1, <3>2, <3>3, <3>4
  <2>2. QED
    BY <2>1, TabsTaken
<1>14. QED
  BY <1>4, <1>11, <1>12, <1>13, ServiceQuiet DEF IInv

\* stopSaying(): the tab is silent.
LEMMA StopStep ==
  ASSUME IInv, NEW t \in Tabs, StopSaying(t)
  PROVE  IInv'
<1>1. PICK p \in Says \cup {None}, v \in Says \cup {None} : p = tabs[t].player /\ v = tabs[t].voice
  BY DEF IInv, TypeOK, TabRow
<1>2. PICK m : m = IF v = None THEN says ELSE CutOff(says, v)
  OBVIOUS
<1>3. /\ says' = Refused(m, p) /\ tabs' = [tabs EXCEPT ![t].player = None, ![t].voice = None]
      /\ faults' = faults + 1
      /\ UNCHANGED <<paidTier, used, up, stored, jobs, paid, excused, said>>
  BY <1>1, <1>2 DEF StopSaying, Fault, service
<1>4. /\ m \in [Says -> SayRow \cup {None}] /\ (v # None => m[v] = None)
      /\ \A x \in Says : x # v => m[x] = says[x]
  BY <1>2, CutOffIs
<1>5. /\ p # None => /\ p # v /\ p \in Says /\ says[p] # None /\ says[p].tab = t
                     /\ says[p].stage \in {"loading", "playing"}
      /\ v # None => v \in Says /\ says[v] # None /\ says[v].tab = t /\ says[v].stage = "speaking"
  BY <1>1 DEF IInv, AllTaken, PlayerOf, VoiceOf
<1>6. p # None => m[p] # None /\ m[p].job = None
  <2>1. p # None => m[p] = says[p]
    BY <1>4, <1>5
  <2>2. QED
    BY <1>5, <2>1, Given DEF Fits
<1>7. /\ says' \in [Says -> SayRow \cup {None}]
      /\ \A x \in Says : x # p /\ x # v => says'[x] = says[x]
      /\ v # None => says'[v] = None
      /\ p # None => says'[p] = None \/ (says'[p].job = None /\ says'[p].stage = "failed")
  BY <1>3, <1>4, <1>5, <1>6, RefusedIs
<1>8. /\ tabs' \in [Tabs -> TabRow] /\ \A u \in Tabs \ {t} : tabs'[u] = tabs[u]
      /\ tabs'[t].voice = None /\ tabs'[t].player = None
  <2>1. PICK r : r = [tabs[t] EXCEPT !.player = None, !.voice = None]
    OBVIOUS
  <2>2. tabs' = [tabs EXCEPT ![t] = r]
    BY <1>3, <2>1 DEF IInv, TypeOK, TabRow
  <2>3. r \in TabRow /\ r.player = None /\ r.voice = None
    BY <2>1 DEF IInv, TypeOK, TabRow
  <2>4. QED
    BY <2>2, <2>3, OneTab
<1>9. TypeOK'
  BY <1>3, <1>7, <1>8 DEF IInv, TypeOK
<1>10. AllFit' /\ JobsApart'
  <2>1. \A x \in Says : says'[x] = None \/ says'[x] = says[x]
                        \/ /\ says'[x].job = None
                           /\ says'[x].stage \in {"loading", "playing"} => says'[x].words \in stored'
    BY <1>7, SpeechAssumption
  <2>2. QED
    BY <1>3, <2>1, SayingsOnly
<1>11. AllTaken'
  <2>1. ASSUME NEW u \in Tabs \ {t}
        PROVE  /\ tabs'[u] = tabs[u]
               /\ tabs[u].player # None => says'[tabs[u].player] = says[tabs[u].player]
               /\ tabs[u].voice # None => says'[tabs[u].voice] = says[tabs[u].voice]
    <3>1. /\ tabs[u].player # None => tabs[u].player \in Says /\ says[tabs[u].player].tab = u
          /\ tabs[u].voice # None => tabs[u].voice \in Says /\ says[tabs[u].voice].tab = u
      BY DEF IInv, TypeOK, TabRow, AllTaken, PlayerOf, VoiceOf
    <3>2. QED
      BY <1>5, <1>7, <1>8, <3>1
  <2>2. QED
    BY <1>8, <2>1, TabsTaken
<1>12. QED
  BY <1>3, <1>9, <1>10, <1>11, ServiceQuiet DEF IInv

-----------------------------------------------------------------------------
\* The service.

\* One job has another row, or is over.
LEMMA OneJob ==
  ASSUME IInv, NEW j \in Jobs, NEW v \in JobRow \cup {None}, jobs' = [jobs EXCEPT ![j] = v],
         stored \subseteq stored',
         v # None /\ v.stage = "generate" => ~v.kept,
         v # None /\ v.stage = "done" => v.words \in stored'
  PROVE  /\ jobs' \in [Jobs -> JobRow \cup {None}] /\ jobs'[j] = v
         /\ \A k \in Jobs \ {j} : jobs'[k] = jobs[k]
         /\ AllJobsFit'
<1>1. jobs' \in [Jobs -> JobRow \cup {None}] /\ jobs'[j] = v /\ \A k \in Jobs \ {j} : jobs'[k] = jobs[k]
  BY DEF IInv, TypeOK
<1>2. AllJobsFit'
  <2>1. SUFFICES ASSUME NEW k \in Jobs PROVE JobFits(k)'
    BY DEF AllJobsFit
  <2>2. CASE k = j
    BY <1>1, <2>2 DEF JobFits
  <2>3. CASE k # j
    <3>1. JobFits(k) /\ jobs'[k] = jobs[k]
      BY <1>1, <2>3 DEF IInv, AllJobsFit
    <3>2. QED
      BY <3>1 DEF JobFits
  <2>4. QED
    BY <2>2, <2>3
<1>3. QED
  BY <1>1, <1>2

\* Nothing is lost with a job that had nothing to save.
LEMMA NothingToSave ==
  ASSUME IInv, NEW j \in Jobs, ~At(j, "save"), \A k \in Jobs \ {j} : jobs'[k] = jobs[k],
         UNCHANGED <<stored, paid, excused>>
  PROVE  Accounted'
<1>1. ASSUME NEW w \in Words, Held(w) PROVE Held(w)'
  <2>1. CASE w \in stored
    BY <2>1 DEF Held
  <2>2. CASE \E k \in Jobs : At(k, "save") /\ jobs[k].words = w
    <3>1. PICK k \in Jobs : At(k, "save") /\ jobs[k].words = w
      BY <2>2
    <3>2. jobs'[k] = jobs[k]
      BY <3>1
    <3>3. QED
      BY <3>1, <3>2 DEF Held, At
  <2>3. QED
    BY <1>1, <2>1, <2>2 DEF Held
<1>2. QED
  BY <1>1, NothingLost

\* A job that goes on says nothing to those who wait for it.
LEMMA JobGoesOn ==
  ASSUME IInv, NEW j \in Jobs, jobs[j] # None, NEW v \in JobRow, v # None,
         v.words = jobs[j].words, v.heard = jobs[j].heard,
         jobs' = [jobs EXCEPT ![j] = v], stored \subseteq stored', UNCHANGED <<says, tabs>>
  PROVE  AllFit' /\ JobsApart' /\ AllTaken'
<1>1. jobs'[j] = v /\ \A k \in Jobs \ {j} : jobs'[k] = jobs[k]
  BY DEF IInv, TypeOK
<1>2. ASSUME NEW x \in Says, says[x] # None, says[x].job # None
      PROVE  LET k == says[x].job IN
             jobs'[k] # None /\ jobs'[k].words = jobs[k].words /\ jobs'[k].heard = jobs[k].heard
  <2>1. says[x].job \in Jobs /\ jobs[says[x].job] # None
    BY <1>2, Given DEF SayRow, Fits
  <2>2. QED
    BY <1>1, <2>1
<1>3. AllFit' /\ JobsApart'
  BY <1>2, SayingsFit
<1>4. AllTaken'
  BY TabsTaken
<1>5. QED
  BY <1>3, <1>4

LEMMA LookStep ==
  ASSUME IInv, NEW j \in Jobs, Look(j)
  PROVE  IInv'
<1>1. PICK v : v = [jobs[j] EXCEPT !.stage = IF jobs[j].words \in stored THEN "done" ELSE "generate",
                                   !.kept = (jobs[j].words \in stored)]
  OBVIOUS
<1>2. /\ jobs[j] # None /\ jobs[j].stage = "look" /\ jobs' = [jobs EXCEPT ![j] = v]
      /\ UNCHANGED <<paidTier, used, up, stored, says, tabs, paid, excused, said, faults>>
  BY <1>1 DEF Look, At, Found, counts
<1>3. jobs[j] \in JobRow
  BY <1>2 DEF IInv, TypeOK
<1>4. v \in JobRow /\ v.words = jobs[j].words /\ v.heard = jobs[j].heard
  <2>1. CASE jobs[j].words \in stored
    <3>1. v = [jobs[j] EXCEPT !.stage = "done", !.kept = TRUE]
      BY <1>1, <2>1, Zenon
    <3>2. QED
      BY <1>3, <3>1 DEF JobRow
  <2>2. CASE jobs[j].words \notin stored
    <3>1. (jobs[j].words \in stored) = FALSE
      BY <2>2
    <3>2. v = [jobs[j] EXCEPT !.stage = "generate", !.kept = FALSE]
      BY <1>1, <2>2, <3>1, Zenon
    <3>3. QED
      BY <1>3, <3>2 DEF JobRow
  <2>3. QED
    BY <2>1, <2>2
<1>5. /\ v # None /\ (v.stage = "generate" => ~v.kept) /\ (v.stage = "done" => v.words \in stored)
  <2>1. CASE jobs[j].words \in stored
    <3>1. v.stage = "done" /\ v.words \in stored
      BY <1>1, <1>3, <1>4, <2>1 DEF JobRow
    <3>2. QED
      BY <1>4, <3>1, NoRow
  <2>2. CASE jobs[j].words \notin stored
    <3>1. v.stage = "generate" /\ ~v.kept
      BY <1>1, <1>3, <2>2 DEF JobRow
    <3>2. QED
      BY <1>4, <3>1, NoRow
  <2>3. QED
    BY <2>1, <2>2
<1>6. jobs' \in [Jobs -> JobRow \cup {None}] /\ AllJobsFit' /\ \A k \in Jobs \ {j} : jobs'[k] = jobs[k]
  BY <1>2, <1>4, <1>5, OneJob
<1>7. TypeOK'
  BY <1>2, <1>6 DEF IInv, TypeOK
<1>8. AllFit' /\ JobsApart' /\ AllTaken'
  BY <1>2, <1>4, <1>5, JobGoesOn
<1>9. Accounted'
  BY <1>2, <1>6, NothingToSave DEF At
<1>10. QED
  BY <1>6, <1>7, <1>8, <1>9 DEF IInv

\* A job goes from stage to stage, in what it keeps as the invariant has it.
LEMMA StageStep ==
  ASSUME IInv, NEW j \in Jobs, jobs[j] # None, NEW g \in {"save", "done", "refused"},
         jobs' = [jobs EXCEPT ![j].stage = g],
         stored \subseteq stored', stored' \subseteq Words, g = "done" => jobs[j].words \in stored',
         UNCHANGED <<paidTier, used, up, says, tabs, said>>, faults' \in Nat,
         paid' \in [Words -> Nat], excused' \in [Words -> Nat]
  PROVE  /\ jobs'[j] # None /\ jobs'[j].stage = g /\ jobs'[j].words = jobs[j].words
         /\ \A k \in Jobs \ {j} : jobs'[k] = jobs[k]
         /\ Accounted' => IInv'
<1>1. PICK v : v = [jobs[j] EXCEPT !.stage = g]
  OBVIOUS
<1>2. jobs[j] \in JobRow /\ jobs' = [jobs EXCEPT ![j] = v]
  BY <1>1 DEF IInv, TypeOK
<1>3. v \in JobRow /\ v # None /\ v.stage = g /\ v.words = jobs[j].words /\ v.heard = jobs[j].heard
  <2>1. v \in JobRow /\ v.stage = g /\ v.words = jobs[j].words /\ v.heard = jobs[j].heard
    BY <1>1, <1>2 DEF JobRow
  <2>2. QED
    BY <2>1, NoRow
<1>4. /\ jobs' \in [Jobs -> JobRow \cup {None}] /\ jobs'[j] = v /\ AllJobsFit'
      /\ \A k \in Jobs \ {j} : jobs'[k] = jobs[k]
  BY <1>2, <1>3, OneJob
<1>5. TypeOK'
  BY <1>4 DEF IInv, TypeOK
<1>6. AllFit' /\ JobsApart' /\ AllTaken'
  BY <1>2, <1>3, JobGoesOn
<1>7. QED
  BY <1>3, <1>4, <1>5, <1>6 DEF IInv

\* What excuses leave, word by word.
LEMMA Excused ==
  ASSUME IInv, NEW words, excused' = Excuse(words)
  PROVE  /\ excused' \in [Words -> Nat]
         /\ \A w \in Words : excused'[w] = IF w \in words THEN excused[w] + 1 ELSE excused[w]
BY DEF Excuse, IInv, TypeOK

\* The provider is paid: either nobody had these words yet, or this job could not know.
LEMMA GeneratedStep ==
  ASSUME IInv, NEW j \in Jobs, Generated(j)
  PROVE  IInv'
<1>1. PICK w : w = jobs[j].words
  OBVIOUS
<1>2. /\ jobs[j] # None /\ jobs[j].stage = "generate" /\ jobs' = [jobs EXCEPT ![j].stage = "save"]
      /\ paid' = [paid EXCEPT ![w] = paid[w] + 1]
      /\ UNCHANGED <<paidTier, used, up, stored, says, tabs, said, faults>>
  BY <1>1 DEF Generated, At, counts
<1>3. jobs[j] \in JobRow /\ w \in Words /\ ~jobs[j].kept
  BY <1>1, <1>2 DEF IInv, TypeOK, JobRow, AllJobsFit, JobFits
<1>4. \/ excused' = Excuse({w})
      \/ excused' = excused /\ w \notin stored /\ ~\E k \in Others(j) : jobs[k].stage = "save"
  BY <1>1, <1>3 DEF Generated
<1>5. /\ excused' \in [Words -> Nat] /\ \A x \in Words \ {w} : excused'[x] = excused[x]
      /\ excused'[w] = excused[w] + 1
         \/ (excused'[w] = excused[w] /\ w \notin stored /\ ~\E k \in Others(j) : jobs[k].stage = "save")
  BY <1>3, <1>4, Excused DEF IInv, TypeOK
<1>6. /\ paid' \in [Words -> Nat] /\ paid'[w] = paid[w] + 1
      /\ \A x \in Words \ {w} : paid'[x] = paid[x]
  BY <1>2, <1>3 DEF IInv, TypeOK
<1>7. /\ jobs'[j] # None /\ jobs'[j].stage = "save" /\ jobs'[j].words = w
      /\ \A k \in Jobs \ {j} : jobs'[k] = jobs[k]
      /\ Accounted' => IInv'
  <2>1. faults' \in Nat /\ stored' \subseteq Words
    BY <1>2 DEF IInv, TypeOK
  <2>2. QED
    BY <1>1, <1>2, <1>5, <1>6, <2>1, StageStep
<1>8. ASSUME NEW x \in Words PROVE paid'[x] <= excused'[x] + (IF Held(x)' THEN 1 ELSE 0)
  <2>1. /\ paid[x] \in Nat /\ excused[x] \in Nat
        /\ paid[x] <= excused[x] + (IF Held(x) THEN 1 ELSE 0)
    BY DEF IInv, TypeOK, Accounted
  <2>2. CASE x = w
    <3>1. Held(w)'
      BY <1>7 DEF Held, At
    <3>2. excused'[w] = excused[w] \/ excused'[w] = excused[w] + 1
      BY <1>5
    <3>3. excused'[w] = excused[w] => ~Held(w)
      <4>1. excused[w] # excused[w] + 1
        BY <2>1, <2>2
      <4>2. ASSUME excused'[w] = excused[w], NEW k \in Jobs, At(k, "save"), jobs[k].words = w
            PROVE  FALSE
        BY <1>1, <1>2, <1>5, <4>1, <4>2 DEF At, Others
      <4>3. QED
        BY <1>5, <4>1, <4>2 DEF Held
    <3>4. CASE Held(w)
      BY <1>6, <2>1, <2>2, <3>1, <3>2, <3>3, <3>4
    <3>5. CASE ~Held(w)
      BY <1>6, <2>1, <2>2, <3>1, <3>2, <3>5
    <3>6. QED
      BY <3>4, <3>5
  <2>3. CASE x # w
    <3>1. Held(x) => Held(x)'
      <4>1. ASSUME NEW k \in Jobs, At(k, "save"), jobs[k].words = x PROVE jobs'[k] = jobs[k]
        BY <1>2, <1>7, <4>1 DEF At
      <4>2. QED
        BY <1>2, <4>1 DEF Held, At
    <3>2. paid'[x] = paid[x] /\ excused'[x] = excused[x]
      BY <1>5, <1>6, <2>3
    <3>3. CASE Held(x)
      BY <2>1, <3>1, <3>2, <3>3
    <3>4. CASE ~Held(x)
      BY <2>1, <3>2, <3>4
    <3>5. QED
      BY <3>3, <3>4
  <2>4. QED
    BY <2>2, <2>3
<1>9. QED
  BY <1>7, <1>8 DEF Accounted

LEMMA NotGeneratedStep ==
  ASSUME IInv, NEW j \in Jobs, NotGenerated(j)
  PROVE  IInv'
<1>1. PICK w : w = jobs[j].words
  OBVIOUS
<1>2. /\ jobs[j] # None /\ jobs[j].stage = "generate" /\ jobs' = [jobs EXCEPT ![j].stage = "refused"]
      /\ faults' = faults + 1
      /\ UNCHANGED <<paidTier, used, up, stored, says, tabs, said>>
  BY DEF NotGenerated, Fault, At
<1>3. w \in Words
  BY <1>1, <1>2 DEF IInv, TypeOK, JobRow
<1>4. \/ UNCHANGED <<paid, excused>>
      \/ paid' = [paid EXCEPT ![w] = paid[w] + 1] /\ excused' = Excuse({w})
  BY <1>1 DEF NotGenerated
<1>5. /\ paid' \in [Words -> Nat] /\ excused' \in [Words -> Nat]
      /\ \A x \in Words : \/ paid'[x] = paid[x] /\ excused'[x] = excused[x]
                          \/ paid'[x] = paid[x] + 1 /\ excused'[x] = excused[x] + 1
  <2>1. CASE UNCHANGED <<paid, excused>>
    BY <2>1 DEF IInv, TypeOK
  <2>2. CASE paid' = [paid EXCEPT ![w] = paid[w] + 1] /\ excused' = Excuse({w})
    <3>1. /\ excused' \in [Words -> Nat]
          /\ \A x \in Words : excused'[x] = IF x \in {w} THEN excused[x] + 1 ELSE excused[x]
      BY <2>2, Excused
    <3>2. /\ paid' \in [Words -> Nat] /\ paid'[w] = paid[w] + 1
          /\ \A x \in Words \ {w} : paid'[x] = paid[x]
      BY <1>3, <2>2 DEF IInv, TypeOK
    <3>3. QED
      BY <3>1, <3>2
  <2>3. QED
    BY <1>4, <2>1, <2>2
<1>6. (\A k \in Jobs \ {j} : jobs'[k] = jobs[k]) /\ (Accounted' => IInv')
  <2>1. faults' \in Nat /\ stored' \subseteq Words
    BY <1>2 DEF IInv, TypeOK
  <2>2. QED
    BY <1>2, <1>5, <2>1, StageStep
<1>7. ASSUME NEW x \in Words PROVE paid'[x] <= excused'[x] + (IF Held(x)' THEN 1 ELSE 0)
  <2>1. /\ paid[x] \in Nat /\ excused[x] \in Nat
        /\ paid[x] <= excused[x] + (IF Held(x) THEN 1 ELSE 0)
    BY DEF IInv, TypeOK, Accounted
  <2>2. Held(x) => Held(x)'
    <3>1. ASSUME NEW k \in Jobs, At(k, "save"), jobs[k].words = x PROVE jobs'[k] = jobs[k]
      BY <1>2, <1>6, <3>1 DEF At
    <3>2. QED
      BY <1>2, <3>1 DEF Held, At
  <2>3. CASE Held(x)
    BY <1>5, <2>1, <2>2, <2>3
  <2>4. CASE ~Held(x)
    BY <1>5, <2>1, <2>4
  <2>5. QED
    BY <2>3, <2>4
<1>8. QED
  BY <1>6, <1>7 DEF Accounted

\* What a job had in hand is now in the store.
LEMMA SaveStep ==
  ASSUME IInv, NEW j \in Jobs, Save(j)
  PROVE  IInv'
<1>1. PICK w : w = jobs[j].words
  OBVIOUS
<1>2. /\ jobs[j] # None /\ jobs[j].stage = "save" /\ jobs' = [jobs EXCEPT ![j].stage = "done"]
      /\ stored' = stored \cup {w}
      /\ UNCHANGED <<paidTier, used, up, says, tabs, paid, excused, said, faults>>
  BY <1>1 DEF Save, At, Kept, counts
<1>3. w \in Words
  BY <1>1, <1>2 DEF IInv, TypeOK, JobRow
<1>4. (\A k \in Jobs \ {j} : jobs'[k] = jobs[k]) /\ (Accounted' => IInv')
  <2>1. faults' \in Nat /\ stored' \subseteq Words /\ paid' \in [Words -> Nat] /\ excused' \in [Words -> Nat]
    BY <1>2, <1>3 DEF IInv, TypeOK
  <2>2. QED
    BY <1>1, <1>2, <2>1, StageStep
<1>5. ASSUME NEW x \in Words, Held(x) PROVE Held(x)'
  <2>1. CASE x \in stored'
    BY <2>1 DEF Held
  <2>2. CASE x \notin stored'
    <3>1. PICK k \in Jobs : At(k, "save") /\ jobs[k].words = x
      BY <1>2, <1>5, <2>2 DEF Held
    <3>2. jobs'[k] = jobs[k]
      BY <1>1, <1>2, <1>4, <2>2, <3>1
    <3>3. QED
      BY <3>1, <3>2 DEF Held, At
  <2>3. QED
    BY <2>1, <2>2
<1>6. QED
  BY <1>2, <1>4, <1>5, NothingLost

\* What is lost with these jobs is excused, and what is not lost is still held.
LEMMA LossExcused ==
  ASSUME IInv, NEW js \in SUBSET Jobs, excused' = Excuse(Lost(js)), UNCHANGED <<stored, paid>>,
         \A k \in Jobs \ js : jobs'[k] = jobs[k]
  PROVE  excused' \in [Words -> Nat] /\ Accounted'
<1>1. /\ excused' \in [Words -> Nat]
      /\ \A w \in Words : excused'[w] = IF w \in Lost(js) THEN excused[w] + 1 ELSE excused[w]
  BY Excused
<1>2. ASSUME NEW w \in Words PROVE paid'[w] <= excused'[w] + (IF Held(w)' THEN 1 ELSE 0)
  <2>1. /\ paid[w] \in Nat /\ excused[w] \in Nat
        /\ paid[w] <= excused[w] + (IF Held(w) THEN 1 ELSE 0)
    BY DEF IInv, TypeOK, Accounted
  <2>2. CASE w \in Lost(js)
    <3>1. CASE Held(w)'
      BY <1>1, <2>1, <2>2, <3>1
    <3>2. CASE ~Held(w)'
      BY <1>1, <2>1, <2>2, <3>2
    <3>3. QED
      BY <3>1, <3>2
  <2>3. CASE w \notin Lost(js)
    <3>1. ASSUME Held(w) PROVE Held(w)'
      <4>1. CASE w \in stored
        BY <4>1 DEF Held
      <4>2. CASE w \notin stored
        <5>1. PICK k \in Jobs : At(k, "save") /\ jobs[k].words = w
          BY <3>1, <4>2 DEF Held
        <5>2. PICK l \in Jobs \ js : At(l, "save") /\ jobs[l].words = w
          BY <2>3, <4>2, <5>1 DEF Lost
        <5>3. jobs'[l] = jobs[l]
          BY <5>2
        <5>4. QED
          BY <5>2, <5>3 DEF Held, At
      <4>3. QED
        BY <4>1, <4>2
    <3>2. CASE Held(w)
      BY <1>1, <2>1, <2>3, <3>1, <3>2
    <3>3. CASE ~Held(w)
      BY <1>1, <2>1, <2>3, <3>3
    <3>4. QED
      BY <3>2, <3>3
  <2>4. QED
    BY <2>2, <2>3
<1>3. QED
  BY <1>1, <1>2 DEF Accounted

LEMMA NotSavedStep ==
  ASSUME IInv, NEW j \in Jobs, NotSaved(j)
  PROVE  IInv'
<1>1. /\ jobs[j] # None /\ jobs' = [jobs EXCEPT ![j].stage = "refused"]
      /\ faults' = faults + 1 /\ excused' = Excuse(Lost({j}))
      /\ UNCHANGED <<paidTier, used, up, stored, says, tabs, paid, said>>
  BY DEF NotSaved, Fault, At
<1>2. excused' \in [Words -> Nat]
  BY <1>1, Excused
<1>3. (\A k \in Jobs \ {j} : jobs'[k] = jobs[k]) /\ (Accounted' => IInv')
  <2>1. faults' \in Nat /\ stored' \subseteq Words /\ paid' \in [Words -> Nat]
    BY <1>1 DEF IInv, TypeOK
  <2>2. QED
    BY <1>1, <1>2, <2>1, StageStep
<1>4. {j} \in SUBSET Jobs /\ \A k \in Jobs \ {j} : jobs'[k] = jobs[k]
  BY <1>3
<1>5. Accounted'
  BY <1>1, <1>4, LossExcused
<1>6. QED
  BY <1>3, <1>5

\* The service goes down with all it was doing, and every message knows.
LEMMA CrashStep ==
  ASSUME IInv, Crash
  PROVE  IInv'
<1>1. /\ up' = FALSE /\ faults' = faults + 1
      /\ excused' = Excuse(Lost(Jobs)) /\ jobs' = [j \in Jobs |-> None]
      /\ UNCHANGED <<paidTier, used, stored, tabs, paid, said>>
  BY DEF Crash, Fault
<1>2. excused' \in [Words -> Nat] /\ Accounted'
  BY <1>1, LossExcused
<1>3. says' = [s \in Says |-> IF says[s] = None THEN None
                             ELSE IF says[s].job = None THEN says[s]
                             ELSE [says[s] EXCEPT !.stage = "failed", !.job = None]]
  BY DEF Crash
<1>4. ASSUME NEW x \in Says
      PROVE  \/ says'[x] = says[x] /\ (says[x] # None => says[x].job = None)
             \/ /\ says[x] # None /\ says[x].stage = "api"
                /\ says'[x] \in SayRow /\ says'[x].job = None /\ says'[x].stage = "failed"
  <2>1. CASE says[x] = None \/ says[x].job = None
    BY <1>3, <2>1
  <2>2. CASE says[x] # None /\ says[x].job # None
    <3>1. says[x] \in SayRow /\ says[x].stage = "api"
      BY <2>2, Given DEF Fits
    <3>2. "failed" \in Waiting \cup Audible /\ None \in Jobs \cup {None}
      BY DEF Waiting
    <3>3. PICK v : v = [says[x] EXCEPT !.stage = "failed", !.job = None]
      OBVIOUS
    <3>4. v \in SayRow /\ v.job = None /\ v.stage = "failed"
      BY <3>1, <3>2, <3>3 DEF SayRow
    <3>5. QED
      BY <1>3, <2>2, <3>1, <3>3, <3>4
  <2>3. QED
    BY <2>1, <2>2
<1>5. \A x \in Says : says'[x] \in SayRow \cup {None}
  BY <1>4 DEF IInv, TypeOK
<1>6. TypeOK'
  <2>1. says' = [x \in Says |-> says'[x]]
    BY <1>3, Zenon
  <2>2. says' \in [Says -> SayRow \cup {None}]
    BY <1>5, <2>1
  <2>3. jobs' \in [Jobs -> JobRow \cup {None}]
    BY <1>1
  <2>4. UNCHANGED <<paidTier, used, stored, tabs, paid, said>> /\ up' \in BOOLEAN
    BY <1>1
  <2>5. faults \in Nat /\ faults' = faults + 1
    BY DEF IInv, TypeOK, Crash, Fault
  <2>6. QED
    BY <1>2, <2>2, <2>3, <2>4, <2>5 DEF IInv, TypeOK
<1>7. AllFit' /\ JobsApart'
  BY <1>1, <1>4, SayingsFit
<1>8. AllTaken'
  <2>1. \A t \in Tabs :
          /\ tabs[t].player # None => says'[tabs[t].player] = says[tabs[t].player]
          /\ tabs[t].voice # None => says'[tabs[t].voice] = says[tabs[t].voice]
    BY <1>4 DEF IInv, TypeOK, TabRow, AllTaken, PlayerOf, VoiceOf
  <2>2. QED
    BY <1>1, <2>1, TabsTaken
<1>9. AllJobsFit'
  BY <1>1 DEF AllJobsFit, JobFits
<1>10. QED
  BY <1>2, <1>6, <1>7, <1>8, <1>9 DEF IInv

LEMMA UnheardStep ==
  ASSUME IInv, NEW j \in Jobs, Unheard(j)
  PROVE  IInv'
<1>1. /\ ~At(j, "save") /\ ~jobs[j].heard /\ jobs' = [jobs EXCEPT ![j] = None]
      /\ UNCHANGED <<paidTier, used, up, stored, says, tabs, paid, excused, said, faults>>
  BY DEF Unheard, At, counts
<1>2. /\ jobs' \in [Jobs -> JobRow \cup {None}] /\ AllJobsFit'
      /\ \A k \in Jobs \ {j} : jobs'[k] = jobs[k]
  BY <1>1, OneJob
<1>3. TypeOK'
  BY <1>1, <1>2 DEF IInv, TypeOK
<1>4. ASSUME NEW x \in Says, says[x] # None, says[x].job # None
      PROVE  says[x].job \in Jobs \ {j} /\ jobs[says[x].job] # None
  BY <1>1, <1>4, Given DEF Fits, SayRow
<1>5. AllFit' /\ JobsApart'
  BY <1>1, <1>2, <1>4, SayingsFit
<1>6. AllTaken'
  BY <1>1, TabsTaken
<1>7. Accounted'
  BY <1>1, <1>2, NothingToSave
<1>8. QED
  BY <1>2, <1>3, <1>5, <1>6, <1>7 DEF IInv

-----------------------------------------------------------------------------
\* The API.

\* Messages that wait for their job, or for nothing yet, have neither player nor voice.
LEMMA NotTaken ==
  ASSUME IInv, NEW s \in Says, says[s] # None, says[s].stage \in {"settings", "api", "failed"},
         UNCHANGED tabs, \A x \in Says \ {s} : says'[x] = says[x]
  PROVE  AllTaken'
<1>1. \A t \in Tabs : /\ tabs[t].player \in Says \cup {None} /\ tabs[t].player # s
                      /\ tabs[t].voice \in Says \cup {None} /\ tabs[t].voice # s
  BY TakenByOne
<1>2. QED
  BY <1>1, OthersTaken

\* POST /speech: what is refused is said by the browser, and what is not has a job of
\* its own.
LEMMA AskStep ==
  ASSUME IInv, NEW s \in Says, Ask(s)
  PROVE  IInv'
<1>1. /\ says[s] # None /\ says[s].stage = "api" /\ says[s].job = None
      /\ used' \in Nat
      /\ UNCHANGED <<paidTier, up, stored, tabs, paid, excused, said, faults>>
  BY DEF Ask, counts, IInv, TypeOK
<1>2. CASE says' = Sent(s, "failed") /\ UNCHANGED jobs
  <2>1. up' \in BOOLEAN /\ said' \in Nat /\ faults' \in Nat
    BY <1>1 DEF IInv, TypeOK
  <2>2. "failed" \in Waiting \cup Audible
    BY DEF Waiting
  <2>3. QED
    BY <1>1, <1>2, <2>1, <2>2, SentStep
<1>3. ASSUME NEW j \in Jobs, jobs[j] = None,
             jobs' = [jobs EXCEPT ![j] = [words |-> says[s].words, stage |-> "look",
                                          kept |-> FALSE, heard |-> TRUE]],
             says' = [says EXCEPT ![s].job = j]
      PROVE  IInv'
  <2>1. PICK v : v = [words |-> says[s].words, stage |-> "look", kept |-> FALSE, heard |-> TRUE]
    OBVIOUS
  <2>2. v \in JobRow /\ v.words = says[s].words /\ v.stage = "look" /\ v.heard /\ v # None
    <3>1. v \in JobRow /\ v.words = says[s].words /\ v.stage = "look" /\ v.heard
      BY <1>1, <2>1, Given DEF JobRow
    <3>2. QED
      BY <3>1, NoRow
  <2>3. /\ jobs' \in [Jobs -> JobRow \cup {None}] /\ jobs'[j] = v /\ AllJobsFit'
        /\ \A k \in Jobs \ {j} : jobs'[k] = jobs[k]
    BY <1>1, <1>3, <2>1, <2>2, OneJob
  <2>4. PICK r : r = [says[s] EXCEPT !.job = j]
    OBVIOUS
  <2>5. r \in SayRow /\ r.job = j /\ r.stage = "api" /\ r.words = says[s].words
    BY <1>1, <2>4, Given DEF SayRow
  <2>6. /\ says' \in [Says -> SayRow \cup {None}] /\ says'[s] = r
        /\ \A x \in Says \ {s} : says'[x] = says[x]
    BY <1>3, <2>4, <2>5 DEF IInv, TypeOK
  <2>7. TypeOK'
    BY <1>1, <2>3, <2>6 DEF IInv, TypeOK
  <2>8. ASSUME NEW x \in Says, says[x] # None, says[x].job # None
        PROVE  says[x].job \in Jobs \ {j} /\ jobs'[says[x].job] = jobs[says[x].job]
    BY <1>3, <2>3, <2>8, Given DEF Fits, SayRow
  <2>9. AllFit'
    <3>1. Fits(s)'
      BY <2>2, <2>3, <2>5, <2>6 DEF Fits
    <3>2. ASSUME NEW x \in Says \ {s} PROVE Fits(x)'
      <4>1. Fits(x) /\ says'[x] = says[x]
        BY <2>6 DEF IInv, AllFit
      <4>2. QED
        BY <1>1, <2>8, <4>1 DEF Fits
    <3>3. QED
      BY <3>1, <3>2 DEF AllFit
  <2>10. JobsApart'
    <3>1. \A x \in Says \ {s} : says'[x] # None => says'[x].job # j
      BY <2>6, <2>8, SpeechAssumption
    <3>2. QED
      BY <2>5, <2>6, <3>1 DEF IInv, JobsApart
  <2>11. AllTaken'
    BY <1>1, <2>6, NotTaken
  <2>12. Accounted'
    BY <1>1, <1>3, <2>3, NothingToSave DEF At
  <2>13. QED
    BY <2>3, <2>7, <2>9, <2>10, <2>11, <2>12 DEF IInv
<1>4. \/ says' = Sent(s, "failed") /\ UNCHANGED jobs
      \/ \E j \in Jobs :
           /\ jobs[j] = None
           /\ jobs' = [jobs EXCEPT ![j] = [words |-> says[s].words, stage |-> "look",
                                           kept |-> FALSE, heard |-> TRUE]]
           /\ says' = [says EXCEPT ![s].job = j]
  BY DEF Ask
<1>5. QED
  BY <1>2, <1>3, <1>4

LEMMA QuietStep ==
  ASSUME IInv, UNCHANGED <<stored, jobs, paid, excused, says, tabs, said>>,
         paidTier' \in BOOLEAN, used' \in Nat, up' \in BOOLEAN, faults' \in Nat
  PROVE  IInv'
<1>1. TypeOK'
  BY DEF IInv, TypeOK
<1>2. AllFit' /\ JobsApart'
  BY SayingsOnly
<1>3. AllTaken'
  BY TabsTaken
<1>4. QED
  BY <1>1, <1>2, <1>3, ServiceQuiet DEF IInv

\* A message whose job is j leaves it, with nothing to play that is not kept; the job is
\* over, or goes on unheard.
LEMMA JobLeft ==
  ASSUME IInv, NEW s \in Says, says[s] # None, NEW j \in Jobs, says[s].job = j,
         \A k \in Jobs \ {j} : jobs'[k] = jobs[k], UNCHANGED stored,
         \A x \in Says : \/ says'[x] = None
                         \/ x # s /\ says'[x] = says[x]
                         \/ /\ says'[x].job = None
                            /\ says'[x].stage \in {"loading", "playing"} => says'[x].words \in stored
  PROVE  AllFit' /\ JobsApart'
<1>1. ASSUME NEW x \in Says, x # s, says[x] # None, says[x].job # None
      PROVE  LET k == says[x].job IN
             jobs'[k] # None /\ jobs'[k].words = jobs[k].words /\ jobs'[k].heard = jobs[k].heard
  <2>1. says[x].job \in Jobs /\ jobs[says[x].job] # None
    BY <1>1, Given DEF SayRow, Fits
  <2>2. says[x].job # j
    BY <1>1, SpeechAssumption DEF IInv, JobsApart
  <2>3. QED
    BY <2>1, <2>2
<1>2. ASSUME NEW x \in Says
      PROVE  \/ says'[x] = None
             \/ /\ says'[x] = says[x]
                /\ says[x] # None /\ says[x].job # None =>
                     LET k == says[x].job IN
                     jobs'[k] # None /\ jobs'[k].words = jobs[k].words /\ jobs'[k].heard = jobs[k].heard
             \/ /\ says'[x].job = None
                /\ says'[x].stage \in {"loading", "playing"} => says'[x].words \in stored'
  BY <1>1
<1>3. QED
  BY <1>2, SayingsFit

LEMMA GiveUpStep ==
  ASSUME IInv, NEW s \in Says, GiveUp(s)
  PROVE  IInv'
<1>1. PICK j : j = says[s].job
  OBVIOUS
<1>2. PICK v : v = [jobs[j] EXCEPT !.heard = FALSE]
  OBVIOUS
<1>3. PICK r : r = [says[s] EXCEPT !.stage = "failed", !.job = None]
  OBVIOUS
<1>4. /\ says[s] # None /\ j # None /\ jobs' = [jobs EXCEPT ![j] = v] /\ says' = [says EXCEPT ![s] = r]
      /\ faults' = faults + 1
      /\ UNCHANGED <<paidTier, used, up, stored, tabs, paid, excused, said>>
  BY <1>1, <1>2, <1>3 DEF GiveUp, Fault
<1>5. /\ says[s] \in SayRow /\ says[s].stage = "api" /\ j \in Jobs
      /\ jobs[j] # None /\ jobs[j] \in JobRow
  BY <1>1, <1>4, Given DEF Fits, SayRow, IInv, TypeOK
<1>6. r \in SayRow /\ r.stage = "failed" /\ r.job = None
  BY <1>3, <1>5 DEF SayRow, Waiting
<1>7. /\ says' \in [Says -> SayRow \cup {None}] /\ says'[s] = r
      /\ \A x \in Says \ {s} : says'[x] = says[x]
  BY <1>4, <1>6 DEF IInv, TypeOK
<1>8. v \in JobRow /\ v.stage = jobs[j].stage /\ v.words = jobs[j].words /\ v.kept = jobs[j].kept
  BY <1>2, <1>5 DEF JobRow
<1>9. /\ jobs' \in [Jobs -> JobRow \cup {None}] /\ jobs'[j] = v /\ AllJobsFit'
      /\ \A k \in Jobs \ {j} : jobs'[k] = jobs[k]
  <2>1. (v.stage = "generate" => ~v.kept) /\ (v.stage = "done" => v.words \in stored)
    BY <1>5, <1>8 DEF IInv, AllJobsFit, JobFits
  <2>2. QED
    BY <1>4, <1>5, <1>8, <2>1, OneJob
<1>10. TypeOK'
  BY <1>4, <1>7, <1>9 DEF IInv, TypeOK
<1>11. AllFit' /\ JobsApart'
  BY <1>1, <1>4, <1>5, <1>6, <1>7, <1>9, JobLeft
<1>12. AllTaken'
  BY <1>4, <1>5, <1>7, NotTaken
<1>13. Accounted'
  <2>1. ASSUME NEW w \in Words, Held(w) PROVE Held(w)'
    <3>1. ASSUME NEW k \in Jobs, At(k, "save"), jobs[k].words = w
          PROVE  At(k, "save")' /\ jobs'[k].words = w
      BY <1>5, <1>8, <1>9, <3>1, NoRow DEF At
    <3>2. QED
      BY <1>4, <2>1, <3>1 DEF Held
  <2>2. QED
    BY <1>4, <2>1, NothingLost
<1>14. QED
  BY <1>9, <1>10, <1>11, <1>12, <1>13 DEF IInv

\* The answer: a message that is told of an audio takes the player from whoever had it.
LEMMA AnswerStep ==
  ASSUME IInv, NEW s \in Says, Answer(s)
  PROVE  IInv'
<1>1. PICK j : j = says[s].job
  OBVIOUS
<1>2. /\ says[s] # None /\ j # None /\ jobs[j].stage \in {"done", "refused"}
      /\ jobs' = [jobs EXCEPT ![j] = None]
      /\ UNCHANGED <<paidTier, used, up, stored, paid, excused, said, faults>>
  BY <1>1 DEF Answer, counts
<1>3. /\ says[s] \in SayRow /\ says[s].stage = "api" /\ says[s].tab \in Tabs /\ j \in Jobs
      /\ jobs[j] # None /\ jobs[j].words = says[s].words
  BY <1>1, <1>2, Given DEF Fits, SayRow
<1>4. /\ jobs' \in [Jobs -> JobRow \cup {None}] /\ AllJobsFit'
      /\ \A k \in Jobs \ {j} : jobs'[k] = jobs[k]
  BY <1>2, <1>3, OneJob
<1>5. Accounted'
  BY <1>2, <1>3, <1>4, NothingToSave DEF At
<1>6. CASE jobs[j].stage = "refused"
  <2>1. PICK r : r = [says[s] EXCEPT !.stage = "failed", !.job = None]
    OBVIOUS
  <2>2. says' = [says EXCEPT ![s] = r] /\ UNCHANGED tabs
    BY <1>1, <1>6, <2>1 DEF Answer
  <2>3. r \in SayRow /\ r.stage = "failed" /\ r.job = None
    BY <1>3, <2>1 DEF SayRow, Waiting
  <2>4. /\ says' \in [Says -> SayRow \cup {None}] /\ says'[s] = r
        /\ \A x \in Says \ {s} : says'[x] = says[x]
    BY <2>2, <2>3 DEF IInv, TypeOK
  <2>5. TypeOK'
    BY <1>2, <1>4, <2>2, <2>4 DEF IInv, TypeOK
  <2>6. AllFit' /\ JobsApart'
    BY <1>1, <1>2, <1>3, <1>4, <2>3, <2>4, JobLeft
  <2>7. AllTaken'
    BY <1>2, <1>3, <2>2, <2>4, NotTaken
  <2>8. QED
    BY <1>4, <1>5, <2>5, <2>6, <2>7 DEF IInv
<1>7. CASE jobs[j].stage = "done"
  <2>1. PICK t \in Tabs : t = says[s].tab
    BY <1>3
  <2>2. PICK p \in Says \cup {None} : p = tabs[t].player
    BY DEF IInv, TypeOK, TabRow
  <2>3. PICK m : m = Refused(says, p)
    OBVIOUS
  <2>4. /\ says' = [m EXCEPT ![s].stage = "loading", ![s].job = None]
        /\ tabs' = [tabs EXCEPT ![t].player = s]
    BY <1>1, <1>7, <2>1, <2>2, <2>3 DEF Answer, Play
  <2>5. p # None => /\ p \in Says /\ says[p] # None /\ says[p].tab = t /\ p # s
                    /\ says[p].stage \in {"loading", "playing"} /\ says[p].job = None
    <3>1. p # None => /\ p \in Says /\ says[p] # None /\ says[p].tab = t
                      /\ says[p].stage \in {"loading", "playing"}
      BY <2>2 DEF IInv, AllTaken, PlayerOf
    <3>2. QED
      BY <1>3, <3>1, Given DEF Fits
  <2>6. /\ m \in [Says -> SayRow \cup {None}] /\ \A x \in Says : x # p => m[x] = says[x]
        /\ p # None => m[p] = None \/ (m[p].stage = "failed" /\ m[p].job = None)
    <3>1. says \in [Says -> SayRow \cup {None}] /\ (p # None => says[p] # None)
      BY <2>5 DEF IInv, TypeOK
    <3>2. QED
      BY <2>3, <2>5, <3>1, RefusedIs
  <2>7. PICK r : r = [says[s] EXCEPT !.stage = "loading", !.job = None]
    OBVIOUS
  <2>8. r \in SayRow /\ r.stage = "loading" /\ r.job = None /\ r.words = says[s].words /\ r.tab = t
    BY <1>3, <2>1, <2>7 DEF SayRow, Waiting
  <2>9. s # p /\ m[s] = says[s]
    BY <2>5, <2>6, SpeechAssumption
  <2>10. says' = [m EXCEPT ![s] = r]
    BY <2>4, <2>6, <2>7, <2>9
  <2>11. /\ says' \in [Says -> SayRow \cup {None}] /\ says'[s] = r
         /\ \A x \in Says : x # s /\ x # p => says'[x] = says[x]
         /\ p # None => says'[p] = None \/ (says'[p].stage = "failed" /\ says'[p].job = None)
    BY <2>5, <2>6, <2>8, <2>10
  <2>12. /\ tabs' \in [Tabs -> TabRow] /\ \A u \in Tabs \ {t} : tabs'[u] = tabs[u]
         /\ tabs'[t].player = s /\ tabs'[t].voice = tabs[t].voice
    <3>1. PICK q : q = [tabs[t] EXCEPT !.player = s]
      OBVIOUS
    <3>2. q \in TabRow /\ q.player = s /\ q.voice = tabs[t].voice
      BY <3>1 DEF IInv, TypeOK, TabRow
    <3>3. tabs' = [tabs EXCEPT ![t] = q]
      BY <2>4, <3>1
    <3>4. QED
      BY <3>2, <3>3, OneTab
  <2>13. TypeOK'
    BY <1>2, <1>4, <2>11, <2>12 DEF IInv, TypeOK
  <2>14. AllFit' /\ JobsApart'
    <3>1. says[s].words \in stored
      BY <1>3, <1>7 DEF IInv, AllJobsFit, JobFits
    <3>2. ASSUME NEW x \in Says
          PROVE  \/ says'[x] = None
                 \/ x # s /\ says'[x] = says[x]
                 \/ /\ says'[x].job = None
                    /\ says'[x].stage \in {"loading", "playing"} => says'[x].words \in stored
      <4>1. CASE x = s
        BY <2>8, <2>11, <3>1, <4>1
      <4>2. CASE x = p
        <5>1. says'[x] = None \/ (says'[x].stage = "failed" /\ says'[x].job = None)
          BY <2>11, <4>2, SpeechAssumption
        <5>2. QED
          BY <5>1
      <4>3. QED
        BY <2>11, <4>1, <4>2
    <3>3. QED
      BY <1>1, <1>2, <1>3, <1>4, <3>2, JobLeft
  <2>15. AllTaken'
    <3>1. ASSUME NEW u \in Tabs
          PROVE  /\ \/ tabs'[u].player = None
                    \/ PlayerOf(u, tabs[u].player)'
                    \/ /\ tabs'[u].player = tabs[u].player /\ says'[tabs[u].player] = says[tabs[u].player]
                 /\ \/ tabs'[u].voice = None
                    \/ /\ tabs'[u].voice = tabs[u].voice /\ says'[tabs[u].voice] = says[tabs[u].voice]
      <4>1. tabs'[u].voice = tabs[u].voice /\ (u # t => tabs'[u].player = tabs[u].player)
        BY <2>12
      <4>2. u = t => PlayerOf(u, tabs[u].player)'
        <5>1. r # None
          BY <2>8, SpeechAssumption
        <5>2. QED
          BY <2>8, <2>11, <2>12, <5>1 DEF PlayerOf
      <4>3. tabs[u].voice # None => tabs[u].voice \in Says /\ tabs[u].voice # s /\ tabs[u].voice # p
        BY <1>2, <1>3, <2>5, TakenByOne DEF IInv, TypeOK, TabRow, AllTaken, VoiceOf
      <4>4. u # t /\ tabs[u].player # None => tabs[u].player \in Says /\ tabs[u].player # s /\ tabs[u].player # p
        BY <1>2, <1>3, <2>1, <2>5, TakenByOne DEF IInv, TypeOK, TabRow, AllTaken, PlayerOf
      <4>5. QED
        BY <2>11, <4>1, <4>2, <4>3, <4>4
    <3>2. QED
      BY <3>1, TabsTaken
  <2>16. QED
    BY <1>4, <1>5, <2>13, <2>14, <2>15 DEF IInv
<1>8. QED
  BY <1>2, <1>6, <1>7

-----------------------------------------------------------------------------
LEMMA InitHolds == Init => IInv
<1>1. SUFFICES ASSUME Init PROVE IInv
  OBVIOUS
<1>2. TypeOK
  <2>1. tabs \in [Tabs -> TabRow]
    BY <1>1 DEF Init, TabRow
  <2>2. jobs \in [Jobs -> JobRow \cup {None}] /\ says \in [Says -> SayRow \cup {None}]
    BY <1>1 DEF Init
  <2>3. QED
    BY <1>1, <2>1, <2>2 DEF Init, TypeOK
<1>3. AllFit /\ JobsApart /\ AllJobsFit
  BY <1>1 DEF Init, AllFit, Fits, JobsApart, AllJobsFit, JobFits
<1>4. AllTaken
  BY <1>1 DEF Init, AllTaken
<1>5. Accounted
  <2>1. \A w \in Words : paid[w] = 0 /\ excused[w] = 0
    BY <1>1 DEF Init
  <2>2. QED
    BY <2>1 DEF Accounted
<1>6. QED
  BY <1>2, <1>3, <1>4, <1>5 DEF IInv

LEMMA TabNextKeeps ==
  ASSUME IInv, TabNext
  PROVE  IInv'
<1>1. CASE \E t \in Tabs : AskSettings(t) \/ StopSaying(t)
  BY <1>1, SettingsStep, StopStep
<1>2. CASE \E t \in Tabs, s \in Says, w \in Words : Say(t, s, w)
  BY <1>2, SayStep
<1>3. ASSUME NEW s \in Says,
             Post(s) \/ Loaded(s) \/ NotLoaded(s) \/ Speak(s) \/ Ended(s) \/ BreaksOff(s)
      PROVE  IInv'
  BY <1>3, PostStep, LoadedStep, NotLoadedStep, SpeakStep, EndedStep, BreaksOffStep
<1>4. QED
  BY <1>1, <1>2, <1>3 DEF TabNext

LEMMA ApiNextKeeps ==
  ASSUME IInv, ApiNext
  PROVE  IInv'
<1>1. CASE WindowPasses \/ SetTier
  <2>1. /\ UNCHANGED <<stored, jobs, paid, excused, says, tabs, said>>
        /\ paidTier' \in BOOLEAN /\ used' \in Nat /\ up' \in BOOLEAN /\ faults' \in Nat
    <3>1. CASE WindowPasses
      BY <3>1 DEF WindowPasses, service, counts, IInv, TypeOK
    <3>2. CASE SetTier
      BY <3>2 DEF SetTier, Fault, service, IInv, TypeOK
    <3>3. QED
      BY <1>1, <3>1, <3>2
  <2>2. QED
    BY <2>1, QuietStep
<1>2. ASSUME NEW s \in Says, Ask(s) \/ Answer(s) \/ GiveUp(s) PROVE IInv'
  BY <1>2, AskStep, AnswerStep, GiveUpStep
<1>3. QED
  BY <1>1, <1>2 DEF ApiNext

LEMMA ServiceNextKeeps ==
  ASSUME IInv, ServiceNext
  PROVE  IInv'
<1>1. CASE Crash
  BY <1>1, CrashStep
<1>2. CASE Restart
  <2>1. /\ UNCHANGED <<stored, jobs, paid, excused, says, tabs, said>>
        /\ paidTier' \in BOOLEAN /\ used' \in Nat /\ up' \in BOOLEAN /\ faults' \in Nat
    BY <1>2 DEF Restart, counts, IInv, TypeOK
  <2>2. QED
    BY <2>1, QuietStep
<1>3. ASSUME NEW j \in Jobs,
             Look(j) \/ Generated(j) \/ NotGenerated(j) \/ Save(j) \/ NotSaved(j) \/ Unheard(j)
      PROVE  IInv'
  BY <1>3, LookStep, GeneratedStep, NotGeneratedStep, SaveStep, NotSavedStep, UnheardStep
<1>4. QED
  BY <1>1, <1>2, <1>3 DEF ServiceNext

LEMMA NextKeeps == IInv /\ [Next]_vars => IInv'
<1>1. SUFFICES ASSUME IInv, [Next]_vars PROVE IInv'
  OBVIOUS
<1>2. CASE Next
  BY <1>1, <1>2, TabNextKeeps, ApiNextKeeps, ServiceNextKeeps DEF Next
<1>3. CASE UNCHANGED vars
  <2>1. /\ UNCHANGED <<stored, jobs, paid, excused, says, tabs, said>>
        /\ paidTier' \in BOOLEAN /\ used' \in Nat /\ up' \in BOOLEAN /\ faults' \in Nat
    BY <1>1, <1>3 DEF vars, IInv, TypeOK
  <2>2. QED
    BY <1>1, <2>1, QuietStep
<1>4. QED
  BY <1>1, <1>2, <1>3

\* The inductive invariant: every message has a job of its own or what it needs, every
\* player and voice is with one message, and every payment is accounted for (synthesis.ts
\* audioFor, store.ts, audioSpeech.ts play, speech.ts speak).
THEOREM SpeechInvariant == Spec => []IInv
<1>1. QED
  BY InitHolds, NextKeeps, PTL DEF Spec

\* For any number of tabs, messages and jobs: the provider is paid once for the same words
\* in the same voice, but for what no job could have known and what was lost before it was
\* kept (synthesis.ts audioFor).
THEOREM PaidAtMostOnce == Spec => []PaidOnce
<1>1. ASSUME IInv PROVE PaidOnce
  <2>1. SUFFICES ASSUME NEW w \in Words PROVE paid[w] =< 1 + excused[w]
    BY DEF PaidOnce
  <2>2. /\ paid[w] \in Nat /\ excused[w] \in Nat
        /\ paid[w] <= excused[w] + (IF Held(w) THEN 1 ELSE 0)
    BY <1>1 DEF IInv, TypeOK, Accounted
  <2>3. CASE Held(w)
    BY <2>2, <2>3
  <2>4. CASE ~Held(w)
    BY <2>2, <2>4
  <2>5. QED
    BY <2>3, <2>4
<1>2. QED
  BY <1>1, SpeechInvariant, PTL

\* For any number of tabs, messages and jobs: what a tab has been told of is kept, whatever
\* becomes of the service in between (server.ts POST /syntheses, GET /audio/:id).
THEOREM AnsweredStaysKept == Spec => []AnsweredIsKept
<1>1. IInv => AnsweredIsKept
  BY DEF IInv, AllFit, Fits, AnsweredIsKept
<1>2. QED
  BY <1>1, SpeechInvariant, PTL
=============================================================================
