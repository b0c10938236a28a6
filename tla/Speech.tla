------------------------------- MODULE Speech -------------------------------
(***************************************************************************)
(* What a message goes through until it is heard: the tab that says it     *)
(* (web/src/lib/audioSpeech.ts, speech.ts), the routes that stand between  *)
(* (api/src/routes/speech.ts, speech/client.ts) and the speech service     *)
(* that generates audio and keeps it (speech/src/server.ts, synthesis.ts,  *)
(* store.ts, providers.ts).                                                *)
(*                                                                         *)
(* The provider, which is paid for every audio, and the <audio> element    *)
(* and voices of the browser are external.  A browser has voices.          *)
(***************************************************************************)
EXTENDS Integers, FiniteSets

CONSTANTS
  Tabs,          \* tabs of one user
  Says,          \* messages that are being said, or waiting to be
  Words,         \* what is said, in which voice: the key of an audio
  Jobs,          \* syntheses that the service works on
  MaxSynthesis,  \* requests a user may make in a window
  MaxSaid,       \* bound: messages that are said
  MaxFaults,     \* bound: crashes, refusals, changes of tier, stops
  None

Waiting == {"settings", "api", "loading", "failed"}
Audible == {"playing", "speaking"}

SayRow == [tab : Tabs, words : Words, stage : Waiting \cup Audible, job : Jobs \cup {None}]
JobRow == [words : Words, stage : {"look", "generate", "save", "done", "refused"},
           kept : BOOLEAN, heard : BOOLEAN]
TabRow == [settings : {"on", "off", None}, player : Says \cup {None}, voice : Says \cup {None}]

ASSUME SpeechAssumption ==
  /\ MaxSynthesis \in Nat /\ MaxSaid \in Nat /\ MaxFaults \in Nat
  /\ None \notin Says \cup Jobs \cup SayRow \cup JobRow

VARIABLES
  paidTier,  \* whether the account's tier includes generated speech
  used,      \* requests counted in the window of this user
  up,        \* whether the service runs
  stored,    \* the words whose audio the service keeps
  jobs,      \* what the service is working on
  says,      \* messages in a tab, until they have been heard or cut off
  tabs,      \* settings as the tab knows them, its player and its browser voice
  paid,      \* history: how often the provider was paid for these words
  excused,   \* history: how often of these it could not have been known, or was lost
  said, faults

vars == <<paidTier, used, up, stored, jobs, says, tabs, paid, excused, said, faults>>
service == <<up, stored, jobs, paid, excused>>
counts == <<said, faults>>

Fault == faults < MaxFaults /\ faults' = faults + 1
Sent(s, stage) == [says EXCEPT ![s].stage = stage]

-----------------------------------------------------------------------------
\* The tab.

\* say(): nothing is heard before the settings are known.
Say(t, s, w) ==
  /\ says[s] = None /\ said < MaxSaid
  /\ said' = said + 1
  /\ says' = [says EXCEPT ![s] = [tab |-> t, words |-> w, stage |-> "settings", job |-> None]]
  /\ UNCHANGED <<paidTier, used, service, tabs, faults>>

\* GET /speech/settings: what the service offers, and to this account.
Offered == up /\ paidTier

\* speechSettings(): asked once in the life of a tab.  A service that does not answer,
\* and one that is not there for this account, both read as "off" from then on.
AskSettings(t) ==
  /\ tabs[t].settings = None
  /\ \E s \in Says : says[s] # None /\ says[s].tab = t
  /\ \E settings \in {"on", "off"} :
       /\ settings = "on" => Offered
       /\ tabs' = [tabs EXCEPT ![t].settings = settings]
  /\ UNCHANGED <<paidTier, used, service, says, counts>>

\* With the settings known: to the API, or straight to the browser's voice.
Post(s) ==
  /\ says[s] # None
  /\ says[s].stage = "settings"
  /\ tabs[says[s].tab].settings # None
  /\ says' = Sent(s, IF tabs[says[s].tab].settings = "on" THEN "api" ELSE "failed")
  /\ UNCHANGED <<paidTier, used, service, tabs, counts>>

\* Who the voice or the player of a tab is taken from is cut off and not heard of again;
\* only a player that had not started yet refuses, which its message takes for a failure.
CutOff(sayings, s) == [sayings EXCEPT ![s] = None]
Refused(sayings, s) ==
  IF s = None THEN sayings
  ELSE IF sayings[s].stage = "loading" THEN [sayings EXCEPT ![s].stage = "failed"]
  ELSE CutOff(sayings, s)

\* play(): the one player of the tab drops what it had.
Play(s) ==
  LET t == says[s].tab IN
  /\ says' = [Refused(says, tabs[t].player) EXCEPT ![s].stage = "loading", ![s].job = None]
  /\ tabs' = [tabs EXCEPT ![t].player = s]

\* The player fetches the audio through the API.
Loaded(s) ==
  /\ says[s] # None
  /\ says[s].stage = "loading"
  /\ up /\ says[s].words \in stored
  /\ says' = Sent(s, "playing")
  /\ UNCHANGED <<paidTier, used, service, tabs, counts>>

\* There is nothing to fetch, or the network or the browser's autoplay rules refuse.
NotLoaded(s) ==
  /\ says[s] # None
  /\ says[s].stage = "loading"
  /\ IF up /\ says[s].words \in stored THEN Fault ELSE UNCHANGED faults
  /\ says' = Sent(s, "failed")
  /\ tabs' = [tabs EXCEPT ![says[s].tab].player = None]
  /\ UNCHANGED <<paidTier, used, service, said>>

\* Broken: a message that could not be played is dropped.
SpokenNot(sayings, s) == CutOff(sayings, s)

Spoken(sayings, s) == [sayings EXCEPT ![s].stage = "speaking"]

\* speak(): every failure ends here.  The browser's voice drops what it was saying; the
\* player goes on.
Speak(s) ==
  /\ says[s] # None
  /\ says[s].stage = "failed"
  /\ LET t == says[s].tab
         before == tabs[t].voice IN
     /\ says' = Spoken(IF before = None THEN says ELSE CutOff(says, before), s)
     /\ tabs' = [tabs EXCEPT ![t].voice = s]
  /\ UNCHANGED <<paidTier, used, service, counts>>

Silent(t, s) == [tabs EXCEPT ![t].player = IF @ = s THEN None ELSE @,
                             ![t].voice  = IF @ = s THEN None ELSE @]

Ended(s) ==
  /\ says[s] # None
  /\ says[s].stage \in Audible
  /\ says' = CutOff(says, s)
  /\ tabs' = Silent(says[s].tab, s)
  /\ UNCHANGED <<paidTier, used, service, counts>>

\* An audio that breaks off half way is said again, by the browser.
BreaksOff(s) ==
  /\ Fault
  /\ says[s] # None
  /\ says[s].stage = "playing"
  /\ says' = Sent(s, "failed")
  /\ tabs' = Silent(says[s].tab, s)
  /\ UNCHANGED <<paidTier, used, service, said>>

\* stopSaying(): both routes.  What is on its way to either is not called back.
StopSaying(t) ==
  /\ Fault
  /\ LET player == tabs[t].player
         voice  == tabs[t].voice IN
     says' = Refused(IF voice = None THEN says ELSE CutOff(says, voice), player)
  /\ tabs' = [tabs EXCEPT ![t].player = None, ![t].voice = None]
  /\ UNCHANGED <<paidTier, used, service, said>>

-----------------------------------------------------------------------------
\* The API.

\* POST /speech: the tier, then the count, then the service.  What it refuses and a
\* service that cannot be reached are the same to the tab.
Ask(s) ==
  /\ says[s] # None
  /\ says[s].stage = "api" /\ says[s].job = None
  /\ IF ~paidTier \/ used >= MaxSynthesis \/ ~up
       THEN /\ says' = Sent(s, "failed")
            /\ used' = IF paidTier /\ used < MaxSynthesis THEN used + 1 ELSE used
            /\ UNCHANGED jobs
       ELSE \E j \in Jobs :
              /\ jobs[j] = None
              /\ jobs' = [jobs EXCEPT ![j] = [words |-> says[s].words, stage |-> "look",
                                              kept |-> FALSE, heard |-> TRUE]]
              /\ says' = [says EXCEPT ![s].job = j]
              /\ used' = used + 1
  /\ UNCHANGED <<paidTier, up, stored, tabs, paid, excused, counts>>

\* The window of the limit has passed.
WindowPasses ==
  /\ used > 0 /\ used' = 0
  /\ UNCHANGED <<paidTier, service, says, tabs, counts>>

SetTier ==
  /\ Fault
  /\ paidTier' = ~paidTier
  /\ UNCHANGED <<used, service, says, tabs, said>>

\* The answer of the service, once there is one.
Answer(s) ==
  /\ says[s] # None
  /\ says[s].job # None
  /\ LET j == says[s].job IN
     /\ jobs[j].stage \in {"done", "refused"}
     /\ jobs' = [jobs EXCEPT ![j] = None]
     /\ IF jobs[j].stage = "done" THEN Play(s)
        ELSE says' = [says EXCEPT ![s].stage = "failed", ![s].job = None] /\ UNCHANGED tabs
  /\ UNCHANGED <<paidTier, used, up, stored, paid, excused, counts>>

\* The API waits so long and no longer, and the service goes on.
GiveUp(s) ==
  /\ Fault
  /\ says[s] # None
  /\ says[s].job # None
  /\ jobs' = [jobs EXCEPT ![says[s].job].heard = FALSE]
  /\ says' = [says EXCEPT ![s].stage = "failed", ![s].job = None]
  /\ UNCHANGED <<paidTier, used, up, stored, tabs, paid, excused, said>>

-----------------------------------------------------------------------------
\* The service.
At(j, stage) == jobs[j] # None /\ jobs[j].stage = stage

Others(j) == {k \in Jobs \ {j} : jobs[k] # None /\ jobs[k].words = jobs[j].words}

\* Broken: what is kept is not found, as by a key that changes.
FoundNone(w) == FALSE

Found(w) == w \in stored

\* audioFor(): what is kept is not generated again.
Look(j) ==
  /\ At(j, "look")
  /\ jobs' = [jobs EXCEPT ![j].stage = IF Found(jobs[j].words) THEN "done" ELSE "generate",
                          ![j].kept = (jobs[j].words \in stored)]
  /\ UNCHANGED <<paidTier, used, up, stored, says, tabs, paid, excused, counts>>

\* One payment for these that is accounted for.
Excuse(words) == [w \in Words |-> IF w \in words THEN excused[w] + 1 ELSE excused[w]]

\* The provider was paid: not for the first time if another job came in between, which
\* this one, having looked before, could not know.
Generated(j) ==
  /\ At(j, "generate")
  /\ jobs' = [jobs EXCEPT ![j].stage = "save"]
  /\ paid' = [paid EXCEPT ![jobs[j].words] = @ + 1]
  /\ excused' = IF /\ ~jobs[j].kept
                   /\ jobs[j].words \in stored \/ \E k \in Others(j) : jobs[k].stage = "save"
                  THEN Excuse({jobs[j].words}) ELSE excused
  /\ UNCHANGED <<paidTier, used, up, stored, says, tabs, counts>>

\* A refusal, a quota, an outage or a timeout: 502 or 503, and the tab falls back on either.
\* The provider may have made the audio, and been paid, when its answer is lost.
NotGenerated(j) ==
  /\ Fault
  /\ At(j, "generate")
  /\ jobs' = [jobs EXCEPT ![j].stage = "refused"]
  /\ \/ UNCHANGED <<paid, excused>>
     \/ /\ paid' = [paid EXCEPT ![jobs[j].words] = @ + 1]
        /\ excused' = Excuse({jobs[j].words})
  /\ UNCHANGED <<paidTier, used, up, stored, says, tabs, said>>

\* Broken: the audio is handed out, and kept when there is time.
KeptLater(w) == stored

Kept(w) == stored \cup {w}

\* Who saves second keeps what was there.
Save(j) ==
  /\ At(j, "save")
  /\ stored' = Kept(jobs[j].words)
  /\ jobs' = [jobs EXCEPT ![j].stage = "done"]
  /\ UNCHANGED <<paidTier, used, up, says, tabs, paid, excused, counts>>

\* Whose audio was paid for, and these jobs were the last to have it.
Lost(js) == {w \in Words :
  /\ w \notin stored
  /\ \E j \in js : At(j, "save") /\ jobs[j].words = w
  /\ ~\E j \in Jobs \ js : At(j, "save") /\ jobs[j].words = w}

NotSaved(j) ==
  /\ Fault
  /\ At(j, "save")
  /\ jobs' = [jobs EXCEPT ![j].stage = "refused"]
  /\ excused' = Excuse(Lost({j}))
  /\ UNCHANGED <<paidTier, used, up, stored, says, tabs, paid, said>>

\* The service goes down, with all it was doing: whoever waits is told.
Crash ==
  /\ Fault
  /\ up /\ up' = FALSE
  /\ excused' = Excuse(Lost(Jobs))
  /\ jobs' = [j \in Jobs |-> None]
  /\ says' = [s \in Says |-> IF says[s] = None THEN None
                             ELSE IF says[s].job = None THEN says[s]
                             ELSE [says[s] EXCEPT !.stage = "failed", !.job = None]]
  /\ UNCHANGED <<paidTier, used, stored, tabs, paid, said>>

Restart ==
  /\ ~up /\ up' = TRUE
  /\ UNCHANGED <<paidTier, used, stored, jobs, says, tabs, paid, excused, counts>>

\* A job that nobody waits for any more ends all the same.
Unheard(j) ==
  /\ At(j, "done") \/ At(j, "refused")
  /\ ~jobs[j].heard
  /\ jobs' = [jobs EXCEPT ![j] = None]
  /\ UNCHANGED <<paidTier, used, up, stored, says, tabs, paid, excused, counts>>

-----------------------------------------------------------------------------
Init ==
  /\ paidTier = TRUE /\ used = 0
  /\ up = TRUE /\ stored = {} /\ jobs = [j \in Jobs |-> None]
  /\ says = [s \in Says |-> None]
  /\ tabs = [t \in Tabs |-> [settings |-> None, player |-> None, voice |-> None]]
  /\ paid = [w \in Words |-> 0] /\ excused = [w \in Words |-> 0]
  /\ said = 0 /\ faults = 0

TabNext ==
  \/ \E t \in Tabs : AskSettings(t) \/ StopSaying(t)
  \/ \E t \in Tabs, s \in Says, w \in Words : Say(t, s, w)
  \/ \E s \in Says : Post(s) \/ Loaded(s) \/ NotLoaded(s) \/ Speak(s) \/ Ended(s) \/ BreaksOff(s)

ApiNext ==
  \/ WindowPasses \/ SetTier
  \/ \E s \in Says : Ask(s) \/ Answer(s) \/ GiveUp(s)

ServiceNext ==
  \/ Crash \/ Restart
  \/ \E j \in Jobs : Look(j) \/ Generated(j) \/ NotGenerated(j) \/ Save(j) \/ NotSaved(j) \/ Unheard(j)

Next == TabNext \/ ApiNext \/ ServiceNext

\* A request is answered, a job goes on while the service runs, a tab runs its callbacks.
Fairness ==
  /\ \A t \in Tabs : WF_vars(AskSettings(t))
  /\ \A s \in Says : WF_vars(Post(s) \/ Ask(s) \/ Answer(s) \/ Loaded(s) \/ NotLoaded(s) \/ Speak(s))
  /\ \A j \in Jobs : WF_vars(Look(j) \/ Generated(j) \/ Save(j) \/ Unheard(j))

Spec == Init /\ [][Next]_vars /\ Fairness

-----------------------------------------------------------------------------
\* Properties.

TypeOK ==
  /\ used \in Nat /\ said \in Nat /\ faults \in Nat
  /\ paidTier \in BOOLEAN /\ up \in BOOLEAN /\ stored \subseteq Words
  /\ jobs \in [Jobs -> JobRow \cup {None}]
  /\ says \in [Says -> SayRow \cup {None}]
  /\ tabs \in [Tabs -> TabRow]
  /\ paid \in [Words -> Nat] /\ excused \in [Words -> Nat]

\* The provider is paid once for the same words in the same voice, however many tabs say
\* them and whatever becomes of the request that asked first, but for what no job could
\* have known: another that had looked before the first had saved, or an audio that was
\* lost before it was kept (synthesis.ts audioFor, "never paid for twice").
PaidOnce == \A w \in Words : paid[w] =< 1 + excused[w]

\* An audio that a tab has been told of is kept: the address it was given keeps answering,
\* also after the service has been down (server.ts POST /syntheses, GET /audio/:id).
AnsweredIsKept ==
  \A s \in Says : says[s] # None => (says[s].stage \in {"loading", "playing"} => says[s].words \in stored)

\* Whatever is said is heard, in one voice or the other: a service that is down or slow, a
\* provider that refuses, a tier that changes, a limit that is reached, a player that
\* refuses or is taken by the next message, none of them means silence (audioSpeech.ts say).
Heard ==
  \A s \in Says : (says[s] # None /\ says[s].stage \in Waiting)
                    ~> (says[s] # None /\ says[s].stage \in Audible)
=============================================================================
