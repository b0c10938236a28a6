------------------------------ MODULE Accounts ------------------------------
(***************************************************************************)
(* Accounts and sessions of the API: registration, confirmation, sign-in   *)
(* and password reset (routes/auth.ts, auth/*.ts), the signed-in account   *)
(* (routes/me.ts) and its administration (routes/admin.ts).                *)
(*                                                                         *)
(* As in SequenceRuns a request has one step per SQL statement, with the   *)
(* code up to the next await; none of these routes opens a transaction, so *)
(* a request that fails halfway leaves what it wrote before.               *)
(*                                                                         *)
(* A password and a six-digit code are the serial number they were set     *)
(* with: a submission is right or wrong, and no two codes are taken to be  *)
(* equal.  The attempt limiter lives in the memory of the one process.     *)
(***************************************************************************)
EXTENDS Integers, FiniteSets

CONSTANTS
  Users, Sessions,      \* uuids
  Emails,               \* addresses, up to what the unique index compares
  Known,                \* the accounts of the seed: user -> its row
  Open,                 \* sessions that are open from the start: id -> row
  Seeded,               \* those with an external_key, which cannot be deleted
  Requests,             \* places for requests in flight
  Ops,                  \* the operations clients call
  MaxAttempts,          \* wrong codes a code survives: 5 in the code
  MaxTries,             \* requests a limiter lets through in a window: 10 and 5
  CodeTtl, SessionTtl, LimitWindow,
  None,
  MaxTime,              \* bound: the clock stops here
  MaxArrivals           \* bound: requests that arrive

AllOps == {"register", "verify", "resend", "forgot", "reset", "login",
           "logout", "password", "deleteMe", "patch"}

Kinds == {"verify", "reset"}                  \* email_verifications, password_resets
Limiters == {"login", "registration", "reset"}

UserRow == [email : Emails, verified : BOOLEAN, password : Nat, suspended : BOOLEAN,
            role : {"user", "admin"}]

\* proof and excused are history: the password the session was opened on, and
\* whether the account had moved on already when it was opened.
SessionRow == [user : Users, expires : Nat, proof : Nat, excused : BOOLEAN]

CodeRow == [code : Nat, attempts : Nat, expires : Nat]

ASSUME AccountsAssumption ==
  /\ DOMAIN Known \subseteq Users /\ Known \in [DOMAIN Known -> UserRow]
  /\ \A u, v \in DOMAIN Known : u # v => Known[u].email # Known[v].email
  /\ DOMAIN Open \subseteq Sessions /\ Open \in [DOMAIN Open -> SessionRow]
  /\ \A s \in DOMAIN Open : Open[s].user \in DOMAIN Known /\ Known[Open[s].user].verified
  /\ \A s \in DOMAIN Open : Open[s].proof = 0
  /\ \A u \in DOMAIN Known : Known[u].password = 0 /\ ~Known[u].suspended
  /\ Ops \subseteq AllOps
  /\ None \notin Users \cup Sessions /\ Users \cap Sessions = {}
  /\ IsFiniteSet(Requests) /\ Requests # {}
  /\ MaxAttempts \in Nat /\ MaxTries \in Nat
  /\ CodeTtl \in Nat /\ SessionTtl \in Nat /\ LimitWindow \in Nat
  /\ MaxTime \in Nat /\ MaxArrivals \in Nat

VARIABLES
  now,        \* the server's clock
  users,      \* table: id -> row
  sessions,   \* table: id -> row
  codes,      \* tables: kind -> user -> row
  windows,    \* limiter -> address -> [count, started]
  req,        \* place -> the request it holds
  issued,     \* history: every uuid handed out
  serial,     \* history: codes and passwords handed out
  cut,        \* history: accounts a request was cut short on
  arrivals    \* how many requests have arrived

vars == <<now, users, sessions, codes, windows, req, issued, serial, cut, arrivals>>

PCs == {"idle", "insertUser", "issue", "find", "readCode", "bump", "confirm", "setPassword",
        "discard", "endAll", "open", "guard", "destroy", "readHash", "endOthers",
        "readAccount", "removeUser", "isAdmin", "target", "patch"}

Bodies == [role : {"user", "admin", None}, suspended : BOOLEAN \cup {None}]

\* raced is history: another request has changed an account since this one began.
Request == [pc : PCs, op : AllOps, email : Emails \cup {None}, user : Users \cup {None},
            session : Sessions \cup {None}, password : Nat, body : Bodies,
            target : Users \cup {None}, code : Nat, raced : BOOLEAN]

NoBody == [role |-> None, suspended |-> None]

Blank == [pc |-> "idle", op |-> "login", email |-> None, user |-> None, session |-> None,
          password |-> 0, body |-> NoBody, target |-> None, code |-> 0, raced |-> FALSE]

Become(p, request) == req' = [req EXCEPT ![p] = request]
Finish(p) == Become(p, Blank)

\* p goes on as request, having changed a row of users.
Commit(p, request) ==
  req' = [x \in Requests |-> IF x = p THEN request
                             ELSE [req[x] EXCEPT !.raced = req[x].pc # "idle"]]

Empty == [u \in {} |-> None]
Tables == <<users, sessions, codes>>
History == <<issued, serial, cut, arrivals>>

\* Every account that is not confirmed yet has the code of its registration.
Init ==
  /\ now = 0
  /\ users = Known
  /\ sessions = Open
  /\ codes = [k \in Kinds |->
       [u \in {v \in DOMAIN Known : k = "verify" /\ ~Known[v].verified} |->
          [code |-> 0, attempts |-> 0, expires |-> CodeTtl]]]
  /\ windows = [l \in Limiters |-> Empty]
  /\ req = [p \in Requests |-> Blank]
  /\ issued = DOMAIN Known \cup DOMAIN Open
  /\ serial = 0
  /\ cut = {}
  /\ arrivals = 0

Put(f, x, row) == [y \in DOMAIN f \cup {x} |-> IF y = x THEN row ELSE f[y]]
Drop(f, xs) == [y \in DOMAIN f \ xs |-> f[y]]

SessionsOf(u) == {s \in DOMAIN sessions : sessions[s].user = u}

-----------------------------------------------------------------------------
\* The attempt limiters: a fixed window for each address, started by the first
\* request after the last one ran out.

WindowOver(w) == now - w.started >= LimitWindow

Allows(l, e) ==
  e \in DOMAIN windows[l] =>
    WindowOver(windows[l][e]) \/ windows[l][e].count < MaxTries

Consume(l, e) ==
  windows' = [windows EXCEPT ![l] =
    IF e \notin DOMAIN windows[l] \/ WindowOver(windows[l][e])
    THEN Put(windows[l], e, [count |-> 1, started |-> now])
    ELSE [windows[l] EXCEPT ![e].count = @ + 1]]

LimiterOf(op) ==
  IF op \in {"register", "resend"} THEN "registration"
  ELSE IF op = "forgot" THEN "reset" ELSE "login"

-----------------------------------------------------------------------------
\* A request arrives.

Arrive(p, op, request) ==
  /\ req[p].pc = "idle"
  /\ op \in Ops
  /\ arrivals < MaxArrivals /\ arrivals' = arrivals + 1
  /\ Become(p, [request EXCEPT !.op = op])
  /\ UNCHANGED <<now, Tables, issued, serial, cut>>

\* One that is turned away with 429 changes nothing, so only the others appear.
ArriveLimited(p) ==
  \E op \in {"register", "resend", "forgot", "login"}, e \in Emails :
    /\ Allows(LimiterOf(op), e)
    /\ Consume(LimiterOf(op), e)
    /\ Arrive(p, op, [Blank EXCEPT !.pc = IF op = "register" THEN "insertUser" ELSE "find",
                                   !.email = e])

ArriveWithCode(p) ==
  \E op \in {"verify", "reset"}, e \in Emails :
    Arrive(p, op, [Blank EXCEPT !.pc = "find", !.email = e]) /\ UNCHANGED windows

ArriveSignedIn(p) ==
  \E op \in {"logout", "password", "deleteMe", "patch"}, s \in Sessions \cap issued :
    Arrive(p, op, [Blank EXCEPT !.pc = "guard", !.session = s]) /\ UNCHANGED windows

-----------------------------------------------------------------------------
\* POST /auth/register: the row, then its code.  Sending the mail may fail; the
\* answer says so, the code stays.

InsertUser(p) ==
  LET q == req[p] IN
  /\ q.pc = "insertUser"
  /\ IF \E u \in DOMAIN users : users[u].email = q.email
     THEN Finish(p) /\ UNCHANGED <<users, issued, serial>>                \* 409
     ELSE \E u \in Users \ issued :
            /\ users' = Put(users, u, [email |-> q.email, verified |-> FALSE,
                                       password |-> serial + 1, suspended |-> FALSE,
                                       role |-> "user"])
            /\ issued' = issued \cup {u}
            /\ serial' = serial + 1
            /\ Commit(p, [q EXCEPT !.pc = "issue", !.user = u])
  /\ UNCHANGED <<now, sessions, codes, windows, cut, arrivals>>

KindOf(op) == IF op \in {"forgot", "reset"} THEN "reset" ELSE "verify"

\* issueCode and issueResetCode: an upsert that replaces any outstanding code.
\* The foreign key refuses an account that has gone meanwhile.
IssueCode(p) ==
  LET q == req[p] IN
  /\ q.pc = "issue"
  /\ IF q.user \in DOMAIN users
     THEN /\ codes' = [codes EXCEPT ![KindOf(q.op)] =
               Put(@, q.user, [code |-> serial + 1, attempts |-> 0, expires |-> now + CodeTtl])]
          /\ serial' = serial + 1
     ELSE UNCHANGED <<codes, serial>>
  /\ Finish(p)
  /\ UNCHANGED <<now, users, sessions, windows, issued, cut, arrivals>>

-----------------------------------------------------------------------------
\* The lookup by address that verify, resend, forgot, reset and login begin with.

\* Broken: forgot-password mails a code to addresses never confirmed.
LooksFineUnconfirmed(op, row) ==
  \/ op \in {"verify", "resend"} /\ ~row.verified
  \/ op \in {"forgot", "reset"}
  \/ op = "login" /\ ~row.suspended /\ row.verified

\* reset asks nothing of the row: a reset code only exists for an account that
\* was confirmed.
LooksFine(op, row) ==
  \/ op \in {"verify", "resend"} /\ ~row.verified
  \/ op = "forgot" /\ row.verified
  \/ op = "reset"
  \/ op = "login" /\ ~row.suspended /\ row.verified

After(op) ==
  IF op = "login" THEN "open" ELSE IF op \in {"resend", "forgot"} THEN "issue" ELSE "readCode"

\* login compares the password it read here; the comparison takes time, and the
\* session is opened on what was read.  The first disjunct is also the wrong
\* password, and the body that names the address in the new one.
Find(p) ==
  LET q == req[p] IN
  /\ q.pc = "find"
  /\ \/ Finish(p)
     \/ \E u \in DOMAIN users :
          /\ users[u].email = q.email
          /\ LooksFine(q.op, users[u])
          /\ Become(p, [q EXCEPT !.pc = After(q.op), !.user = u, !.raced = FALSE,
                                 !.password = users[u].password])
  /\ UNCHANGED <<now, Tables, windows, History>>

-----------------------------------------------------------------------------
\* verifyCode and resetPassword: read, compare, then bump or write and discard.

\* Broken: one more try than MAX_ATTEMPTS.
ExhaustedLate(row) == row.attempts > MaxAttempts

Exhausted(row) == row.attempts >= MaxAttempts

ReadCode(p) ==
  LET q == req[p]
      table == codes[KindOf(q.op)] IN
  /\ q.pc = "readCode"
  /\ IF q.user \notin DOMAIN table THEN Finish(p)                         \* no_code
     ELSE IF table[q.user].expires <= now THEN Finish(p)                  \* expired
     ELSE IF Exhausted(table[q.user]) THEN Finish(p)                      \* 429
     ELSE \/ Become(p, [q EXCEPT !.pc = "bump"])                          \* incorrect
          \/ Become(p, [q EXCEPT !.pc = IF q.op = "verify" THEN "confirm" ELSE "setPassword",
                                 !.code = table[q.user].code])
  /\ UNCHANGED <<now, Tables, windows, History>>

Charged(table, u) ==
  [v \in DOMAIN table |-> IF v = u THEN [table[v] EXCEPT !.attempts = @ + 1] ELSE table[v]]

\* By user id: the attempt is charged to whatever code is outstanding now.
Bump(p) ==
  LET q == req[p] IN
  /\ q.pc = "bump"
  /\ codes' = [codes EXCEPT ![KindOf(q.op)] = Charged(@, q.user)]
  /\ Finish(p)
  /\ UNCHANGED <<now, users, sessions, windows, History>>

ConfirmAddress(p) ==
  LET q == req[p] IN
  /\ q.pc = "confirm"
  /\ users' = [u \in DOMAIN users |->
       IF u = q.user THEN [users[u] EXCEPT !.verified = TRUE] ELSE users[u]]
  /\ Commit(p, [q EXCEPT !.pc = "discard"])
  /\ UNCHANGED <<now, sessions, codes, windows, History>>

\* The new hash, for a reset and for a change while signed in, whose session
\* is then one that knows the new password.
SetPassword(p) ==
  LET q == req[p] IN
  /\ q.pc = "setPassword"
  /\ users' = [u \in DOMAIN users |->
       IF u = q.user THEN [users[u] EXCEPT !.password = serial + 1] ELSE users[u]]
  /\ sessions' = [s \in DOMAIN sessions |->
       IF s = q.session THEN [sessions[s] EXCEPT !.proof = serial + 1] ELSE sessions[s]]
  /\ serial' = serial + 1
  /\ Commit(p, [q EXCEPT !.pc = IF q.op = "reset" THEN "discard" ELSE "endOthers",
                         !.password = serial + 1])
  /\ UNCHANGED <<now, codes, windows, issued, cut, arrivals>>

\* By user id as well: a code issued meanwhile goes too.
Discard(p) ==
  LET q == req[p] IN
  /\ q.pc = "discard"
  /\ codes' = [codes EXCEPT ![KindOf(q.op)] = Drop(@, {q.user})]
  /\ Become(p, [q EXCEPT !.pc = IF q.op = "reset" THEN "endAll" ELSE "open"])
  /\ UNCHANGED <<now, users, sessions, windows, History>>

\* Broken: a reset leaves the sessions to expire.
EndAllNot(p) ==
  LET q == req[p] IN
  /\ q.pc = "endAll"
  /\ IF q.op = "reset" THEN Become(p, [q EXCEPT !.pc = "open"]) ELSE Finish(p)
  /\ UNCHANGED <<now, Tables, windows, History>>

\* DELETE FROM sessions of a whole account, after a reset or a suspension.
EndAll(p) ==
  LET q == req[p]
      u == IF q.op = "reset" THEN q.user ELSE q.target IN
  /\ q.pc = "endAll"
  /\ sessions' = Drop(sessions, SessionsOf(u))
  /\ IF q.op = "reset" THEN Become(p, [q EXCEPT !.pc = "open"]) ELSE Finish(p)
  /\ UNCHANGED <<now, users, codes, windows, History>>

\* createSession, after clearLoginAttempts when it was a sign-in.  Nothing is
\* asked of the account again; only the foreign key refuses one that has gone.
OpenSession(p) ==
  LET q == req[p] IN
  /\ q.pc = "open"
  /\ IF q.user \in DOMAIN users
     THEN \E s \in Sessions \ issued :
            /\ sessions' = Put(sessions, s,
                 [user |-> q.user, expires |-> now + SessionTtl, proof |-> q.password,
                  excused |-> \/ users[q.user].password # q.password
                              \/ users[q.user].suspended])
            /\ issued' = issued \cup {s}
     ELSE UNCHANGED <<sessions, issued>>
  /\ windows' = IF q.op = "login" THEN [windows EXCEPT !["login"] = Drop(@, {q.email})]
                                  ELSE windows
  /\ Finish(p)
  /\ UNCHANGED <<now, users, codes, serial, cut, arrivals>>

-----------------------------------------------------------------------------
\* What is asked while signed in.  requireUser loads the session first; one that
\* has ended or run out is 401.

NextAfterGuard(op) ==
  IF op = "logout" THEN "destroy"
  ELSE IF op = "password" THEN "readHash"
  ELSE IF op = "deleteMe" THEN "readAccount" ELSE "isAdmin"

\* loadSession: it asks nothing of the account but that it is there.
Live(s) == s \in DOMAIN sessions /\ sessions[s].expires > now

RequireUser(p) ==
  LET q == req[p] IN
  /\ q.pc = "guard"
  /\ IF Live(q.session)
       THEN Become(p, [q EXCEPT !.pc = NextAfterGuard(q.op),
                                !.user = sessions[q.session].user, !.raced = FALSE])
       ELSE Finish(p)
  /\ UNCHANGED <<now, Tables, windows, History>>

Logout(p) ==
  LET q == req[p] IN
  /\ q.pc = "destroy"
  /\ sessions' = Drop(sessions, {q.session})
  /\ Finish(p)
  /\ UNCHANGED <<now, users, codes, windows, History>>

\* The current password is wrong, the new one is refused, or it goes on.
ReadHash(p) ==
  LET q == req[p] IN
  /\ q.pc = "readHash"
  /\ \/ Finish(p)
     \/ q.user \in DOMAIN users /\ Become(p, [q EXCEPT !.pc = "setPassword"])
  /\ UNCHANGED <<now, Tables, windows, History>>

EndOthers(p) ==
  LET q == req[p] IN
  /\ q.pc = "endOthers"
  /\ sessions' = Drop(sessions, SessionsOf(q.user) \ {q.session})
  /\ Finish(p)
  /\ UNCHANGED <<now, users, codes, windows, History>>

\* A seeded account stays; otherwise the password and ?confirm=true are needed.
ReadAccount(p) ==
  LET q == req[p] IN
  /\ q.pc = "readAccount"
  /\ \/ Finish(p)
     \/ /\ q.user \in DOMAIN users \ Seeded
        /\ Become(p, [q EXCEPT !.pc = "removeUser"])
  /\ UNCHANGED <<now, Tables, windows, History>>

\* Broken: the reference of sessions does not cascade.
RemoveUserOnly(p) ==
  LET q == req[p] IN
  /\ q.pc = "removeUser"
  /\ users' = Drop(users, {q.user})
  /\ codes' = [k \in Kinds |-> Drop(codes[k], {q.user})]
  /\ Commit(p, Blank)
  /\ UNCHANGED <<now, sessions, windows, History>>

\* Everything of the account goes with the row, ON DELETE CASCADE.
RemoveUser(p) ==
  LET q == req[p] IN
  /\ q.pc = "removeUser"
  /\ users' = Drop(users, {q.user})
  /\ sessions' = Drop(sessions, SessionsOf(q.user))
  /\ codes' = [k \in Kinds |-> Drop(codes[k], {q.user})]
  /\ Commit(p, Blank)
  /\ UNCHANGED <<now, windows, History>>

-----------------------------------------------------------------------------
\* PATCH /admin/users/:id.

RequireAdmin(p) ==
  LET q == req[p] IN
  /\ q.pc = "isAdmin"
  /\ IF q.user \in DOMAIN users /\ users[q.user].role = "admin"
       THEN Become(p, [q EXCEPT !.pc = "target"])
       ELSE Finish(p)                                                     \* 404
  /\ UNCHANGED <<now, Tables, windows, History>>

\* Broken: only the suspension of oneself is refused.
RefusesSelfSuspension(q, u, body) == u = q.user /\ body.suspended = TRUE

RefusesSelf(q, u, body) == u = q.user /\ (body.role = "user" \/ body.suspended = TRUE)

ReadTarget(p) ==
  LET q == req[p] IN
  /\ q.pc = "target"
  /\ \E u \in Users \cap issued, body \in Bodies \ {NoBody} :
       IF u \notin DOMAIN users \/ RefusesSelf(q, u, body)
       THEN Finish(p)                                                     \* 404, 409
       ELSE Become(p, [q EXCEPT !.pc = "patch", !.target = u, !.body = body])
  /\ UNCHANGED <<now, Tables, windows, History>>

\* A field that is not in the body keeps its value.  Suspending goes on to end
\* the sessions; of an account that has gone the answer is 500.
PatchUser(p) ==
  LET q == req[p]
      given(field, old) == IF q.body[field] = None THEN old ELSE q.body[field]
      then == IF q.body.suspended = TRUE THEN [q EXCEPT !.pc = "endAll"] ELSE Blank IN
  /\ q.pc = "patch"
  /\ users' = [u \in DOMAIN users |->
       IF u # q.target THEN users[u]
       ELSE [users[u] EXCEPT !.role = given("role", @), !.suspended = given("suspended", @)]]
  /\ Commit(p, then)
  /\ UNCHANGED <<now, sessions, codes, windows, History>>

-----------------------------------------------------------------------------
\* Whose sessions the request has still to end.
Ending(q) ==
  IF (q.pc \in {"discard", "endAll"} /\ q.op = "reset") \/ q.pc = "endOthers" THEN {q.user}
  ELSE IF q.pc = "endAll" THEN {q.target} ELSE {}

\* A statement fails: the request ends there (500).
Fail(p) ==
  /\ req[p].pc # "idle"
  /\ cut' = cut \cup Ending(req[p])
  /\ Finish(p)
  /\ UNCHANGED <<now, Tables, windows, issued, serial, arrivals>>

\* The process goes down: its requests and its limiters are lost, the tables stay.
Restart ==
  /\ \E p \in Requests : req[p].pc # "idle"
  /\ cut' = cut \cup UNION {Ending(req[p]) : p \in Requests}
  /\ req' = [p \in Requests |-> Blank]
  /\ windows' = [l \in Limiters |-> Empty]
  /\ UNCHANGED <<now, Tables, issued, serial, arrivals>>

Tick ==
  /\ now < MaxTime
  /\ now' = now + 1
  /\ UNCHANGED <<Tables, windows, req, History>>

Next ==
  \/ \E p \in Requests :
       \/ ArriveLimited(p) \/ ArriveWithCode(p) \/ ArriveSignedIn(p)
       \/ InsertUser(p) \/ IssueCode(p) \/ Find(p) \/ ReadCode(p) \/ Bump(p)
       \/ ConfirmAddress(p) \/ SetPassword(p) \/ Discard(p) \/ EndAll(p) \/ OpenSession(p)
       \/ RequireUser(p) \/ Logout(p) \/ ReadHash(p) \/ EndOthers(p)
       \/ ReadAccount(p) \/ RemoveUser(p)
       \/ RequireAdmin(p) \/ ReadTarget(p) \/ PatchUser(p) \/ Fail(p)
  \/ Restart \/ Tick

Spec == Init /\ [][Next]_vars

-----------------------------------------------------------------------------
\* Properties.

TypeOK ==
  /\ now \in Nat /\ serial \in Nat /\ arrivals \in Nat
  /\ DOMAIN users \subseteq Users /\ users \in [DOMAIN users -> UserRow]
  /\ DOMAIN sessions \subseteq Sessions /\ sessions \in [DOMAIN sessions -> SessionRow]
  /\ DOMAIN codes = Kinds /\ DOMAIN windows = Limiters
  /\ \A k \in Kinds : DOMAIN codes[k] \subseteq Users /\ codes[k] \in [DOMAIN codes[k] -> CodeRow]
  /\ \A l \in Limiters : DOMAIN windows[l] \subseteq Emails
  /\ req \in [Requests -> Request]
  /\ issued \subseteq Users \cup Sessions /\ cut \subseteq Users

\* A session belongs to an account that exists and was confirmed, whichever of
\* verify, reset and login opened it and whatever was deleted meanwhile; reset
\* never looks, and relies on forgot having looked before it issued the code.
SessionsConfirmed ==
  \A s \in DOMAIN sessions :
    LET u == sessions[s].user IN u \in DOMAIN users /\ users[u].verified

\* A change or reset of the password, and a suspension, sign the account out
\* (passwordReset.ts:59-61, admin.ts:176).  Whoever is still signed in opened the
\* session on a row read before, or by a reset, which asks nothing about
\* suspension; or the request that ends the sessions is under way, or was cut
\* short between its two statements.
StaleSessionsExplained ==
  \A s \in DOMAIN sessions :
    LET u == sessions[s].user IN
    (u \in DOMAIN users /\ (users[u].suspended \/ users[u].password # sessions[s].proof)) =>
      \/ sessions[s].excused
      \/ u \in cut
      \/ \E p \in Requests : u \in Ending(req[p])

\* MAX_ATTEMPTS is compared in one statement and counted in another
\* (verification.ts:75): a code takes no more wrong tries than that, save one for
\* each further request in flight.
AttemptsBounded ==
  \A k \in Kinds : \A u \in DOMAIN codes[k] :
    codes[k][u].attempts < MaxAttempts + Cardinality(Requests)

\* admin.ts:139-153 refuses to demote oneself, because there would be no way back:
\* unless another request has changed an account since it began, a PATCH
\* leaves its sender an administrator.
AdministratorStays ==
  [][\A p \in Requests :
       req[p].pc = "patch" /\ req'[p].pc # "patch" /\ cut' = cut /\ users' # users
         /\ ~req[p].raced =>
         users'[req[p].user].role = "admin"]_vars

Account == INSTANCE AccountLifecycle WITH
  phase <- [u \in Users |->
              IF u \in DOMAIN users THEN IF users[u].verified THEN "confirmed" ELSE "registered"
              ELSE IF u \in issued THEN "gone" ELSE "none"],
  signedIn <- {sessions[s].user : s \in DOMAIN sessions}

\* What the routes do to an account is a life the abstract specification allows.
ImplementsAccountLifecycle == Account!LifeSpec

=============================================================================
