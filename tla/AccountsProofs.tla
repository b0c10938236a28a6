--------------------------- MODULE AccountsProofs ---------------------------
(***************************************************************************)
(* Theorems about Accounts, for every number of accounts, sessions and     *)
(* requests in flight, every limit and every lifetime.                     *)
(*                                                                         *)
(* A session is opened by a request that looked at the account several     *)
(* statements earlier, or never looked and holds a code instead.  The      *)
(* invariant says what that is worth: confirmation is never taken back and *)
(* ids are never handed out twice, so the account is confirmed or gone.    *)
(***************************************************************************)
EXTENDS Accounts, FiniteSetTheorems, TLAPS

\* What the fields of a request are once the code has set them.
WellFormed(q) ==
  /\ q.pc = "insertUser" => q.email \in Emails /\ q.op = "register"
  /\ q.pc \notin {"idle", "insertUser", "find", "guard"} => q.user \in Users /\ q.user \in issued
  /\ q.pc = "readHash" => q.op = "password"
  /\ q.pc \in {"guard", "isAdmin", "target", "patch"} => q.op # "reset"
  /\ q.pc = "patch" => q.target \in Users
  /\ q.pc = "endAll" => q.op = "reset" \/ q.target \in Users

\* Where a request counts on a confirmed account.
Relies(q) ==
  \/ q.pc \in {"open", "discard"}
  \/ q.pc = "issue" /\ KindOf(q.op) = "reset"
  \/ q.pc \in {"setPassword", "endAll"} /\ q.op = "reset"

ConfirmedIfThere(u) == u \in DOMAIN users => users[u].verified

Fit(q) == q \in Request /\ WellFormed(q) /\ (Relies(q) => ConfirmedIfThere(q.user))

IdsKnown == DOMAIN users \subseteq issued /\ DOMAIN sessions \subseteq issued

\* forgot-password has looked: a reset code only ever belongs to a confirmed account.
ResetCodesConfirmed == \A u \in DOMAIN codes["reset"] : u \in DOMAIN users /\ users[u].verified

AllFit == \A p \in Requests : Fit(req[p])

IInv == TypeOK /\ IdsKnown /\ ResetCodesConfirmed /\ AllFit /\ SessionsConfirmed

\* Accounts that stay keep their confirmation, and new ones have new ids.
UsersKept ==
  /\ issued \subseteq issued'
  /\ \A u \in DOMAIN users' :
       \/ u \in DOMAIN users /\ (users[u].verified => users'[u].verified)
       \/ u \notin issued

-----------------------------------------------------------------------------
LEMMA BlankFit == Fit(Blank)
BY DEF Fit, Request, Blank, PCs, AllOps, Bodies, NoBody, WellFormed, Relies

\* What a request is told of an account outlives every such change.
LEMMA FitKept ==
  ASSUME NEW q, Fit(q), UsersKept
  PROVE  Fit(q)'
<1>1. WellFormed(q)'
  BY DEF Fit, WellFormed, UsersKept
<1>2. Relies(q) => q.user \in issued
  BY DEF Fit, Relies, WellFormed
<1>3. Relies(q)' => ConfirmedIfThere(q.user)'
  BY <1>2 DEF Fit, Relies, ConfirmedIfThere, UsersKept, KindOf
<1>4. QED
  BY <1>1, <1>3 DEF Fit

LEMMA RacedFit ==
  ASSUME NEW q, Fit(q), NEW b \in BOOLEAN
  PROVE  Fit([q EXCEPT !.raced = b])
<1> DEFINE r == [q EXCEPT !.raced = b]
<1>1. /\ r \in Request /\ r.pc = q.pc /\ r.email = q.email /\ r.user = q.user
      /\ r.op = q.op /\ r.target = q.target
  BY DEF Fit, Request
<1>2. WellFormed(r)
  BY <1>1 DEF Fit, WellFormed
<1>3. Relies(r) => ConfirmedIfThere(r.user)
  BY <1>1 DEF Fit, Relies, ConfirmedIfThere
<1>4. QED
  BY <1>1, <1>2, <1>3 DEF Fit

\* Any step: its request becomes q, the others go on, raced or not.
LEMMA Onward ==
  ASSUME IInv, NEW p \in Requests, NEW q, Fit(q)', UsersKept, Become(p, q) \/ Commit(p, q)
  PROVE  AllFit' /\ req' \in [Requests -> Request]
<1>1. ASSUME NEW x \in Requests
      PROVE  \E r : r = req'[x] /\ Fit(r)'
  <2>1. CASE x = p
    BY <2>1 DEF Become, Commit, IInv, TypeOK
  <2>2. CASE x # p /\ Become(p, q)
    <3>1. Fit(req[x]) /\ req'[x] = req[x]
      BY <2>2 DEF Become, IInv, TypeOK, AllFit
    <3>2. PICK r : r = req[x]
      OBVIOUS
    <3>3. QED
      BY <3>1, <3>2, FitKept
  <2>3. CASE x # p /\ Commit(p, q)
    <3>1. PICK r : r = [req[x] EXCEPT !.raced = req[x].pc # "idle"]
      OBVIOUS
    <3>2. Fit(r)
      BY <3>1, RacedFit DEF IInv, AllFit
    <3>3. req'[x] = r
      BY <2>3, <3>1 DEF Commit
    <3>4. QED
      BY <3>2, <3>3, FitKept
  <2>4. QED
    BY <2>1, <2>2, <2>3
<1>2. \A x \in Requests : req'[x] \in Request
  BY <1>1 DEF Fit
<1>3. req' \in [Requests -> Request]
  BY <1>2 DEF Become, Commit, IInv, TypeOK
<1>4. AllFit'
  <2>1. SUFFICES ASSUME NEW x \in Requests PROVE Fit(req[x])'
    BY DEF AllFit
  <2>2. PICK r : r = req'[x] /\ Fit(r)'
    BY <1>1
  <2>3. QED
    BY <2>2 DEF Fit, WellFormed, Relies, ConfirmedIfThere
<1>5. QED
  BY <1>3, <1>4

\* A step that changes no table but perhaps the limiters.
LEMMA QuietStep ==
  ASSUME IInv, NEW p \in Requests, NEW q, Fit(q), Become(p, q),
         UNCHANGED <<users, sessions, codes, issued, serial, now>>,
         cut' \subseteq Users, arrivals' \in Nat,
         DOMAIN windows' = Limiters, \A l \in Limiters : DOMAIN windows'[l] \subseteq Emails
  PROVE  IInv'
<1>1. UsersKept
  BY DEF UsersKept
<1>2. Fit(q)'
  BY <1>1, FitKept
<1>3. AllFit' /\ req' \in [Requests -> Request]
  BY <1>1, <1>2, Onward
<1>4. TypeOK'
  BY <1>3 DEF IInv, TypeOK
<1>5. IdsKnown' /\ ResetCodesConfirmed' /\ SessionsConfirmed'
  BY DEF IInv, IdsKnown, ResetCodesConfirmed, SessionsConfirmed
<1>6. QED
  BY <1>3, <1>4, <1>5 DEF IInv

\* What a request and the tables are known to be.
LEMMA Held ==
  ASSUME IInv, NEW p \in Requests
  PROVE  /\ req[p] \in Request /\ Fit(req[p]) /\ now \in Nat /\ serial \in Nat /\ arrivals \in Nat
         /\ \A u \in DOMAIN users : users[u] \in UserRow /\ u \in Users /\ u \in issued
         /\ \A s \in DOMAIN sessions : sessions[s] \in SessionRow /\ s \in Sessions
BY DEF IInv, TypeOK, AllFit, IdsKnown

\* The limiters only ever hold addresses.
LEMMA ConsumeTyped ==
  ASSUME IInv, NEW l \in Limiters, NEW e \in Emails, Consume(l, e)
  PROVE  DOMAIN windows' = Limiters /\ \A k \in Limiters : DOMAIN windows'[k] \subseteq Emails
<1>1. PICK w : windows' = [windows EXCEPT ![l] = w] /\ DOMAIN w \subseteq Emails
  <2>1. DOMAIN windows[l] \subseteq Emails
    BY DEF IInv, TypeOK
  <2>2. CASE e \notin DOMAIN windows[l] \/ WindowOver(windows[l][e])
    <3>1. DOMAIN Put(windows[l], e, [count |-> 1, started |-> now]) \subseteq Emails
      BY <2>1 DEF Put
    <3>2. QED
      BY <2>2, <3>1 DEF Consume
  <2>3. CASE ~(e \notin DOMAIN windows[l] \/ WindowOver(windows[l][e]))
    <3>1. DOMAIN [windows[l] EXCEPT ![e].count = @ + 1] \subseteq Emails
      BY <2>1
    <3>2. QED
      BY <2>3, <3>1 DEF Consume
  <2>4. QED
    BY <2>2, <2>3
<1>2. QED
  BY <1>1 DEF IInv, TypeOK

LEMMA ArriveStep ==
  ASSUME IInv, NEW p \in Requests, ArriveLimited(p) \/ ArriveWithCode(p) \/ ArriveSignedIn(p)
  PROVE  IInv'
<1>1. PICK op \in AllOps, r \in Request :
        /\ Arrive(p, op, r) /\ r.pc \in {"insertUser", "find", "guard"}
        /\ r.pc = "insertUser" => r.email \in Emails /\ op = "register"
        /\ r.pc = "guard" => op # "reset"
  <2>0. Blank \in Request
    BY BlankFit DEF Fit
  <2> USE DEF Request, PCs, AllOps
  <2>1. CASE ArriveLimited(p)
    <3>1. PICK op \in {"register", "resend", "forgot", "login"}, e \in Emails :
            Arrive(p, op, [Blank EXCEPT !.pc = IF op = "register" THEN "insertUser" ELSE "find",
                                        !.email = e])
      BY <2>1 DEF ArriveLimited
    <3> DEFINE r == [Blank EXCEPT !.pc = IF op = "register" THEN "insertUser" ELSE "find", !.email = e]
    <3>2. /\ r \in Request /\ r.pc \in {"insertUser", "find"} /\ r.email = e
          /\ r.pc = "insertUser" => op = "register"
      BY <2>0, <3>1
    <3>3. Arrive(p, op, r) /\ op \in AllOps
      BY <3>1
    <3> HIDE DEF r
    <3>4. QED
      BY <3>2, <3>3
  <2>2. CASE ArriveWithCode(p)
    <3>1. PICK op \in {"verify", "reset"}, e \in Emails :
            Arrive(p, op, [Blank EXCEPT !.pc = "find", !.email = e])
      BY <2>2 DEF ArriveWithCode
    <3>2. [Blank EXCEPT !.pc = "find", !.email = e] \in Request
      BY <2>0, <3>1
    <3>3. [Blank EXCEPT !.pc = "find", !.email = e].pc = "find"
      BY <2>0
    <3>4. QED
      BY <3>1, <3>2, <3>3
  <2>3. CASE ArriveSignedIn(p)
    <3>1. PICK op \in {"logout", "password", "deleteMe", "patch"}, x \in Sessions :
            Arrive(p, op, [Blank EXCEPT !.pc = "guard", !.session = x])
      BY <2>3 DEF ArriveSignedIn
    <3> DEFINE r == [Blank EXCEPT !.pc = "guard", !.session = x]
    <3>2. r \in Request /\ r.pc = "guard"
      BY <2>0, <3>1
    <3>3. Arrive(p, op, r) /\ op \in AllOps /\ op # "reset"
      BY <3>1
    <3> HIDE DEF r
    <3>4. QED
      BY <3>2, <3>3
  <2>4. QED
    BY <2>1, <2>2, <2>3
<1> DEFINE q == [r EXCEPT !.op = op]
<1>2. q \in Request /\ q.pc = r.pc /\ q.email = r.email /\ q.op = op
  BY <1>1 DEF Request
<1>3. Fit(q)
  BY <1>1, <1>2 DEF Fit, WellFormed, Relies
<1>4. /\ Become(p, q) /\ arrivals' = arrivals + 1
      /\ UNCHANGED <<now, users, sessions, codes, issued, serial, cut>>
  BY <1>1 DEF Arrive, Tables
<1>5. DOMAIN windows' = Limiters /\ \A l \in Limiters : DOMAIN windows'[l] \subseteq Emails
  <2>1. CASE UNCHANGED windows
    BY <2>1 DEF IInv, TypeOK
  <2>2. CASE ArriveLimited(p)
    BY <2>2, ConsumeTyped DEF ArriveLimited, LimiterOf, Limiters
  <2>3. QED
    BY <2>1, <2>2 DEF ArriveWithCode, ArriveSignedIn
<1> HIDE DEF q
<1>6. QED
  BY <1>3, <1>4, <1>5, QuietStep DEF IInv, TypeOK

\* The statements that only read leave a request that knows what it will count on.
LEMMA ReadStep ==
  ASSUME IInv, NEW p \in Requests,
         \/ Find(p) \/ ReadCode(p) \/ RequireUser(p) \/ ReadHash(p) \/ ReadAccount(p)
         \/ RequireAdmin(p) \/ ReadTarget(p)
  PROVE  (\E q : Fit(q) /\ Become(p, q)) /\ UNCHANGED <<now, Tables, windows, History>>
<1> DEFINE q == req[p]
<1>0. /\ q \in Request /\ Fit(q) /\ Fit(Blank)
      /\ \A u \in DOMAIN users : users[u] \in UserRow /\ u \in Users /\ u \in issued
      /\ \A s \in DOMAIN sessions : sessions[s] \in SessionRow
  BY Held, BlankFit
<1>1. CASE Find(p)
  <2>1. CASE Become(p, Blank)
    BY <1>0, <1>1, <2>1 DEF Find
  <2>2. CASE ~Become(p, Blank)
    <3>1. PICK u \in DOMAIN users :
            /\ LooksFine(q.op, users[u])
            /\ Become(p, [q EXCEPT !.pc = After(q.op), !.user = u, !.raced = FALSE,
                                   !.password = users[u].password])
      BY <1>1, <2>2 DEF Find, Finish
    <3> DEFINE r == [q EXCEPT !.pc = After(q.op), !.user = u, !.raced = FALSE,
                              !.password = users[u].password]
    <3>2. After(q.op) \in PCs /\ users[u].password \in Nat /\ u \in Users /\ u \in issued
      BY <1>0 DEF After, PCs, UserRow
    <3>3. r \in Request /\ r.pc = After(q.op) /\ r.user = u /\ r.op = q.op
      BY <1>0, <3>2 DEF Request
    <3>4. WellFormed(r)
      BY <3>2, <3>3 DEF WellFormed, After
    <3>5. Relies(r) => users[u].verified
      BY <3>1, <3>3 DEF Relies, After, LooksFine, KindOf
    <3>6. Fit(r)
      BY <3>3, <3>4, <3>5 DEF Fit, ConfirmedIfThere
    <3>7. QED
      BY <1>1, <3>1, <3>6 DEF Find
  <2>3. QED
    BY <2>1, <2>2
<1>2. CASE ReadCode(p)
  <2> DEFINE table == codes[KindOf(q.op)]
             r == [q EXCEPT !.pc = IF q.op = "verify" THEN "confirm" ELSE "setPassword",
                            !.code = table[q.user].code]
             b == [q EXCEPT !.pc = "bump"]
  <2>1. \/ Become(p, Blank)
        \/ q.user \in DOMAIN table /\ (Become(p, b) \/ Become(p, r))
    BY <1>2 DEF ReadCode, Finish
  <2>2. q.pc = "readCode" /\ q.user \in Users /\ q.user \in issued
    BY <1>0, <1>2 DEF ReadCode, Fit, WellFormed
  <2>3. b \in Request /\ b.pc = "bump" /\ b.user = q.user
    BY <1>0 DEF Request, PCs
  <2>4. Fit(b)
    BY <2>2, <2>3 DEF Fit, WellFormed, Relies
  <2>5. ASSUME q.user \in DOMAIN table
        PROVE  Fit(r)
    <3>1. KindOf(q.op) \in Kinds
      BY DEF KindOf, Kinds
    <3>2. table[q.user].code \in Nat
      BY <2>5, <3>1 DEF IInv, TypeOK, CodeRow
    <3>3. /\ r \in Request /\ r.pc = (IF q.op = "verify" THEN "confirm" ELSE "setPassword")
          /\ r.user = q.user /\ r.op = q.op
      <4> DEFINE pc == IF q.op = "verify" THEN "confirm" ELSE "setPassword"
      <4>1. pc \in PCs
        BY DEF PCs
      <4> HIDE DEF pc
      <4>2. [q EXCEPT !.pc = pc, !.code = table[q.user].code] \in Request
        BY <1>0, <3>2, <4>1 DEF Request
      <4>3. QED
        BY <1>0, <4>2 DEF Request, pc
    <3>4. WellFormed(r)
      BY <2>2, <3>3 DEF WellFormed
    <3>5. Relies(r) => ConfirmedIfThere(q.user)
      BY <2>5, <3>3 DEF Relies, KindOf, IInv, ResetCodesConfirmed, ConfirmedIfThere
    <3>6. QED
      BY <3>3, <3>4, <3>5 DEF Fit
  <2>6. QED
    BY <1>0, <1>2, <2>1, <2>4, <2>5 DEF ReadCode
<1>3. CASE RequireUser(p)
  <2> DEFINE u == sessions[q.session].user
             r == [q EXCEPT !.pc = NextAfterGuard(q.op), !.user = u, !.raced = FALSE]
  <2>1. Become(p, Blank) \/ (q.session \in DOMAIN sessions /\ Become(p, r))
    BY <1>3 DEF RequireUser, Live, Finish
  <2>2. ASSUME q.session \in DOMAIN sessions
        PROVE  Fit(r)
    <3>1. u \in Users /\ u \in issued
      BY <1>0, <2>2 DEF IInv, SessionsConfirmed
    <3>2. /\ NextAfterGuard(q.op) \in {"destroy", "readHash", "readAccount", "isAdmin"}
          /\ NextAfterGuard(q.op) = "readHash" => q.op = "password"
      BY DEF NextAfterGuard
    <3>3. r \in Request /\ r.pc = NextAfterGuard(q.op) /\ r.user = u /\ r.op = q.op
      BY <1>0, <3>1, <3>2 DEF Request, PCs
    <3>4. q.op # "reset"
      BY <1>0, <1>3 DEF RequireUser, Live, Fit, WellFormed
    <3>5. QED
      BY <3>1, <3>2, <3>3, <3>4 DEF Fit, WellFormed, Relies
  <2>3. QED
    BY <1>0, <1>3, <2>1, <2>2 DEF RequireUser, Live
<1>4. CASE ReadHash(p)
  <2> DEFINE r == [q EXCEPT !.pc = "setPassword"]
  <2>1. Become(p, Blank) \/ Become(p, r)
    BY <1>4 DEF ReadHash, Finish
  <2>2. q.pc = "readHash" /\ q.user \in Users /\ q.user \in issued
    BY <1>0, <1>4 DEF ReadHash, Fit, WellFormed
  <2>3. r \in Request /\ r.pc = "setPassword" /\ r.user = q.user /\ r.op = q.op
    BY <1>0 DEF Request, PCs
  <2>4. q.op = "password"
    BY <1>0, <1>4 DEF ReadHash, Fit, WellFormed
  <2>5. WellFormed(r) /\ ~Relies(r)
    BY <2>2, <2>3, <2>4 DEF WellFormed, Relies
  <2>6. QED
    BY <1>0, <1>4, <2>1, <2>3, <2>5 DEF ReadHash, Fit
<1>5. CASE ReadAccount(p)
  <2> DEFINE r == [q EXCEPT !.pc = "removeUser"]
  <2>1. Become(p, Blank) \/ Become(p, r)
    BY <1>5 DEF ReadAccount, Finish
  <2>2. q.user \in Users /\ q.user \in issued
    BY <1>0, <1>5 DEF ReadAccount, Fit, WellFormed
  <2>3. r \in Request /\ r.pc = "removeUser" /\ r.user = q.user
    BY <1>0 DEF Request, PCs
  <2>4. Fit(r)
    BY <2>2, <2>3 DEF Fit, WellFormed, Relies
  <2>5. QED
    BY <1>0, <1>5, <2>1, <2>4 DEF ReadAccount
<1>6. CASE RequireAdmin(p)
  <2> DEFINE r == [q EXCEPT !.pc = "target"]
  <2>1. Become(p, Blank) \/ Become(p, r)
    BY <1>6 DEF RequireAdmin, Finish
  <2>2. q.user \in Users /\ q.user \in issued
    BY <1>0, <1>6 DEF RequireAdmin, Fit, WellFormed
  <2>3. r \in Request /\ r.pc = "target" /\ r.user = q.user /\ r.op = q.op
    BY <1>0 DEF Request, PCs
  <2>4. Fit(r)
    BY <1>0, <1>6, <2>2, <2>3 DEF RequireAdmin, Fit, WellFormed, Relies
  <2>5. QED
    BY <1>0, <1>6, <2>1, <2>4 DEF RequireAdmin
<1>7. CASE ReadTarget(p)
  <2>1. PICK u \in Users \cap issued, body \in Bodies :
          \/ Become(p, Blank)
          \/ Become(p, [q EXCEPT !.pc = "patch", !.target = u, !.body = body])
    BY <1>7 DEF ReadTarget, Finish
  <2> DEFINE r == [q EXCEPT !.pc = "patch", !.target = u, !.body = body]
  <2>2. q.user \in Users /\ q.user \in issued
    BY <1>0, <1>7 DEF ReadTarget, Fit, WellFormed
  <2>3. r \in Request /\ r.pc = "patch" /\ r.user = q.user /\ r.op = q.op /\ r.target = u
    BY <1>0 DEF Request, PCs
  <2>4. Fit(r)
    BY <1>0, <1>7, <2>2, <2>3 DEF ReadTarget, Fit, WellFormed, Relies
  <2>5. QED
    BY <1>0, <1>7, <2>1, <2>4 DEF ReadTarget
<1>8. QED
  BY <1>1, <1>2, <1>3, <1>4, <1>5, <1>6, <1>7

-----------------------------------------------------------------------------
\* The tables alone.
TablesTyped ==
  /\ now \in Nat /\ serial \in Nat /\ arrivals \in Nat
  /\ DOMAIN users \subseteq Users /\ users \in [DOMAIN users -> UserRow]
  /\ DOMAIN sessions \subseteq Sessions /\ sessions \in [DOMAIN sessions -> SessionRow]
  /\ DOMAIN codes = Kinds /\ DOMAIN windows = Limiters
  /\ \A k \in Kinds : DOMAIN codes[k] \subseteq Users /\ codes[k] \in [DOMAIN codes[k] -> CodeRow]
  /\ \A l \in Limiters : DOMAIN windows[l] \subseteq Emails
  /\ issued \subseteq Users \cup Sessions /\ cut \subseteq Users

LEMMA WriteStep ==
  ASSUME IInv, NEW p \in Requests, NEW q, Fit(q)', UsersKept, Become(p, q) \/ Commit(p, q),
         TablesTyped', IdsKnown', ResetCodesConfirmed', SessionsConfirmed'
  PROVE  IInv'
<1>1. AllFit' /\ req' \in [Requests -> Request]
  BY Onward
<1>2. TypeOK'
  BY <1>1 DEF TypeOK, TablesTyped
<1>3. QED
  BY <1>1, <1>2 DEF IInv

LEMMA InsertUserStep ==
  ASSUME IInv, NEW p \in Requests, InsertUser(p)
  PROVE  IInv'
<1> DEFINE q == req[p]
<1>0. q \in Request /\ Fit(q) /\ Fit(Blank) /\ q.pc = "insertUser" /\ q.email \in Emails /\ q.op = "register"
  BY Held, BlankFit DEF InsertUser, Fit, WellFormed
<1>1. UNCHANGED <<now, sessions, codes, windows, cut, arrivals>>
  BY DEF InsertUser
<1>2. CASE Finish(p) /\ UNCHANGED <<users, issued, serial>>
  BY <1>0, <1>1, <1>2, QuietStep DEF Finish, IInv, TypeOK
<1>3. CASE \E u \in Users \ issued :
             /\ users' = Put(users, u, [email |-> q.email, verified |-> FALSE,
                                        password |-> serial + 1, suspended |-> FALSE,
                                        role |-> "user"])
             /\ issued' = issued \cup {u}
             /\ serial' = serial + 1
             /\ Commit(p, [q EXCEPT !.pc = "issue", !.user = u])
  <2> DEFINE row == [email |-> q.email, verified |-> FALSE, password |-> serial + 1,
                     suspended |-> FALSE, role |-> "user"]
  <2>1. PICK u \in Users \ issued :
          /\ users' = Put(users, u, row) /\ issued' = issued \cup {u} /\ serial' = serial + 1
          /\ Commit(p, [q EXCEPT !.pc = "issue", !.user = u])
    BY <1>3
  <2>2. row \in UserRow
    BY <1>0 DEF UserRow, IInv, TypeOK
  <2> HIDE DEF row
  <2>3. /\ u \notin DOMAIN users /\ DOMAIN users' = DOMAIN users \cup {u} /\ users'[u] = row
        /\ \A v \in DOMAIN users : users'[v] = users[v]
        /\ users' = [v \in DOMAIN users' |-> users'[v]]
    BY <2>1 DEF Put, IInv, IdsKnown
  <2>4. UsersKept /\ IdsKnown'
    BY <1>1, <2>1, <2>3 DEF UsersKept, IInv, IdsKnown
  <2>5. TablesTyped'
    BY <1>1, <2>1, <2>2, <2>3 DEF TablesTyped, IInv, TypeOK
  <2>6. ResetCodesConfirmed'
    BY <1>1, <2>3 DEF IInv, ResetCodesConfirmed
  <2>7. SessionsConfirmed'
    BY <1>1, <2>3 DEF IInv, SessionsConfirmed
  <2> DEFINE r == [q EXCEPT !.pc = "issue", !.user = u]
  <2>8. r \in Request /\ r.pc = "issue" /\ r.user = u /\ r.op = "register"
    BY <1>0 DEF Request, PCs
  <2>9. PICK s : s = r
    OBVIOUS
  <2>10. Fit(s)'
    BY <2>1, <2>8, <2>9 DEF Fit, WellFormed, Relies, KindOf
  <2>11. Commit(p, s)
    BY <2>1, <2>9
  <2>12. QED
    BY <2>4, <2>5, <2>6, <2>7, <2>10, <2>11, WriteStep
<1>4. QED
  BY <1>2, <1>3 DEF InsertUser

LEMMA IssueCodeStep ==
  ASSUME IInv, NEW p \in Requests, IssueCode(p)
  PROVE  IInv'
<1> DEFINE q == req[p]
           k == KindOf(q.op)
           row == [code |-> serial + 1, attempts |-> 0, expires |-> now + CodeTtl]
<1>0. q \in Request /\ Fit(q) /\ Fit(Blank) /\ q.pc = "issue" /\ q.user \in Users
  BY Held, BlankFit DEF IssueCode, Fit, WellFormed
<1>1. UNCHANGED <<now, users, sessions, windows, issued, cut, arrivals>> /\ Become(p, Blank)
  BY DEF IssueCode, Finish
<1>2. CASE UNCHANGED <<codes, serial>>
  BY <1>0, <1>1, <1>2, QuietStep DEF IInv, TypeOK
<1>3. CASE /\ codes' = [codes EXCEPT ![k] = Put(@, q.user, row)] /\ serial' = serial + 1
           /\ q.user \in DOMAIN users
  <2>1. k \in Kinds
    BY DEF KindOf, Kinds
  <2>2. row \in CodeRow
    BY AccountsAssumption DEF CodeRow, IInv, TypeOK
  <2> HIDE DEF row
  <2>3. /\ DOMAIN codes' = Kinds /\ codes'[k] = Put(codes[k], q.user, row)
        /\ \A j \in Kinds : j # k => codes'[j] = codes[j]
    BY <1>3, <2>1 DEF IInv, TypeOK
  <2>4. DOMAIN codes'[k] = DOMAIN codes[k] \cup {q.user} /\ codes'[k] \in [DOMAIN codes'[k] -> CodeRow]
    BY <2>1, <2>2, <2>3 DEF Put, IInv, TypeOK
  <2>5. TablesTyped'
    BY <1>0, <1>1, <1>3, <2>1, <2>3, <2>4 DEF TablesTyped, IInv, TypeOK
  <2>6. ResetCodesConfirmed'
    <3>1. k = "reset" => q.user \in DOMAIN users /\ users[q.user].verified
      BY <1>0, <1>3 DEF Fit, Relies, ConfirmedIfThere
    <3>2. "reset" \in Kinds
      BY DEF Kinds
    <3>3. QED
      BY <1>1, <2>3, <2>4, <3>1, <3>2 DEF IInv, ResetCodesConfirmed
  <2>7. UsersKept /\ IdsKnown' /\ SessionsConfirmed'
    BY <1>1 DEF UsersKept, IInv, IdsKnown, SessionsConfirmed
  <2>8. Fit(Blank)'
    BY <1>0, <2>7, FitKept
  <2>9. QED
    BY <1>1, <2>5, <2>6, <2>7, <2>8, WriteStep
<1>4. QED
  BY <1>2, <1>3 DEF IssueCode

LEMMA BumpStep ==
  ASSUME IInv, NEW p \in Requests, Bump(p)
  PROVE  IInv'
<1> DEFINE q == req[p]
           k == KindOf(q.op)
<1>1. /\ UNCHANGED <<now, users, sessions, windows, issued, serial, cut, arrivals>> /\ Become(p, Blank)
      /\ codes' = [codes EXCEPT ![k] = Charged(@, q.user)]
  BY DEF Bump, Finish, History
<1>2. k \in Kinds /\ "reset" \in Kinds
  BY DEF KindOf, Kinds
<1>3. /\ DOMAIN codes' = Kinds /\ \A j \in Kinds : j # k => codes'[j] = codes[j]
      /\ codes'[k] = Charged(codes[k], q.user)
  BY <1>1, <1>2 DEF IInv, TypeOK
<1>4. DOMAIN codes'[k] = DOMAIN codes[k] /\ codes'[k] \in [DOMAIN codes'[k] -> CodeRow]
  <2>1. codes[k] \in [DOMAIN codes[k] -> CodeRow]
    BY <1>2 DEF IInv, TypeOK
  <2>2. \A row \in CodeRow : [row EXCEPT !.attempts = @ + 1] \in CodeRow
    BY DEF CodeRow
  <2>3. QED
    BY <1>3, <2>1, <2>2 DEF Charged
<1>5. TablesTyped'
  BY <1>1, <1>2, <1>3, <1>4 DEF TablesTyped, IInv, TypeOK
<1>6. ResetCodesConfirmed'
  BY <1>1, <1>2, <1>3, <1>4 DEF IInv, ResetCodesConfirmed
<1>7. UsersKept /\ IdsKnown' /\ SessionsConfirmed'
  BY <1>1 DEF UsersKept, IInv, IdsKnown, SessionsConfirmed
<1>8. Fit(Blank)'
  BY <1>7, BlankFit, FitKept
<1>9. QED
  BY <1>1, <1>5, <1>6, <1>7, <1>8, WriteStep

\* A change of account rows that takes no confirmation back.
LEMMA RowsStep ==
  ASSUME IInv, DOMAIN users' = DOMAIN users, users' = [u \in DOMAIN users |-> users'[u]],
         \A u \in DOMAIN users : users'[u] \in UserRow /\ (users[u].verified => users'[u].verified),
         UNCHANGED <<codes, issued>>,
         \A s \in DOMAIN sessions' : s \in DOMAIN sessions /\ sessions'[s].user = sessions[s].user
  PROVE  /\ UsersKept /\ IdsKnown' /\ ResetCodesConfirmed' /\ SessionsConfirmed'
         /\ DOMAIN users' \subseteq Users /\ users' \in [DOMAIN users' -> UserRow]
<1>1. UsersKept /\ IdsKnown'
  BY DEF UsersKept, IInv, IdsKnown
<1>2. ResetCodesConfirmed'
  BY DEF IInv, ResetCodesConfirmed
<1>3. SessionsConfirmed'
  BY DEF IInv, SessionsConfirmed
<1>4. QED
  BY <1>1, <1>2, <1>3 DEF IInv, TypeOK

LEMMA ConfirmStep ==
  ASSUME IInv, NEW p \in Requests, ConfirmAddress(p)
  PROVE  IInv'
<1> DEFINE q == req[p]
<1>0. q \in Request /\ Fit(q) /\ q.pc = "confirm" /\ q.user \in Users /\ q.user \in issued
  BY Held DEF ConfirmAddress, Fit, WellFormed
<1>1. /\ UNCHANGED <<now, sessions, codes, windows, issued, serial, cut, arrivals>>
      /\ users' = [u \in DOMAIN users |->
           IF u = q.user THEN [users[u] EXCEPT !.verified = TRUE] ELSE users[u]]
      /\ Commit(p, [q EXCEPT !.pc = "discard"])
  BY DEF ConfirmAddress, History
<1>2. \A u \in DOMAIN users : users'[u] \in UserRow /\ (users[u].verified => users'[u].verified)
                              /\ (u = q.user => users'[u].verified)
  <2>1. \A row \in UserRow : /\ [row EXCEPT !.verified = TRUE] \in UserRow
                             /\ [row EXCEPT !.verified = TRUE].verified = TRUE
    BY DEF UserRow
  <2>2. QED
    BY <1>1, <2>1, Held
<1>3. DOMAIN users' = DOMAIN users /\ users' = [u \in DOMAIN users |-> users'[u]]
  BY <1>1
<1>4. /\ UsersKept /\ IdsKnown' /\ ResetCodesConfirmed' /\ SessionsConfirmed'
      /\ DOMAIN users' \subseteq Users /\ users' \in [DOMAIN users' -> UserRow]
  BY <1>1, <1>2, <1>3, RowsStep
<1>5. TablesTyped'
  BY <1>1, <1>4 DEF TablesTyped, IInv, TypeOK
<1>6. PICK r : r = [q EXCEPT !.pc = "discard"]
  OBVIOUS
<1>7. r \in Request /\ r.pc = "discard" /\ r.user = q.user /\ r.op = q.op
  BY <1>0, <1>6 DEF Request, PCs
<1>8. Fit(r)'
  BY <1>0, <1>1, <1>2, <1>3, <1>7 DEF Fit, WellFormed, ConfirmedIfThere
<1>9. Commit(p, r)
  BY <1>1, <1>6
<1>10. QED
  BY <1>4, <1>5, <1>8, <1>9, WriteStep

LEMMA SetPasswordStep ==
  ASSUME IInv, NEW p \in Requests, SetPassword(p)
  PROVE  IInv'
<1> DEFINE q == req[p]
           pc == IF q.op = "reset" THEN "discard" ELSE "endOthers"
<1>0. /\ q \in Request /\ Fit(q) /\ q.pc = "setPassword" /\ q.user \in Users /\ q.user \in issued
      /\ serial \in Nat
  BY Held DEF SetPassword, Fit, WellFormed
<1>1. /\ UNCHANGED <<now, codes, windows, issued, cut, arrivals>> /\ serial' = serial + 1
      /\ users' = [u \in DOMAIN users |->
           IF u = q.user THEN [users[u] EXCEPT !.password = serial + 1] ELSE users[u]]
      /\ sessions' = [s \in DOMAIN sessions |->
           IF s = q.session THEN [sessions[s] EXCEPT !.proof = serial + 1] ELSE sessions[s]]
      /\ Commit(p, [q EXCEPT !.pc = pc, !.password = serial + 1])
  BY DEF SetPassword
<1>2. \A u \in DOMAIN users : users'[u] \in UserRow /\ (users[u].verified => users'[u].verified)
  <2>1. \A row \in UserRow : /\ [row EXCEPT !.password = serial + 1] \in UserRow
                             /\ [row EXCEPT !.password = serial + 1].verified = row.verified
    BY <1>0 DEF UserRow
  <2>2. QED
    BY <1>1, <2>1, Held
<1>3. DOMAIN users' = DOMAIN users /\ users' = [u \in DOMAIN users |-> users'[u]]
  BY <1>1
<1>4. /\ DOMAIN sessions' = DOMAIN sessions /\ sessions' \in [DOMAIN sessions -> SessionRow]
      /\ \A s \in DOMAIN sessions : sessions'[s].user = sessions[s].user
  <2>1. \A row \in SessionRow : /\ [row EXCEPT !.proof = serial + 1] \in SessionRow
                                /\ [row EXCEPT !.proof = serial + 1].user = row.user
    BY <1>0 DEF SessionRow
  <2>2. QED
    BY <1>1, <2>1, Held
<1>5. /\ UsersKept /\ IdsKnown' /\ ResetCodesConfirmed' /\ SessionsConfirmed'
      /\ DOMAIN users' \subseteq Users /\ users' \in [DOMAIN users' -> UserRow]
  BY <1>1, <1>2, <1>3, <1>4, RowsStep
<1>6. TablesTyped'
  BY <1>0, <1>1, <1>4, <1>5 DEF TablesTyped, IInv, TypeOK
<1>7. pc \in PCs /\ serial + 1 \in Nat
  BY <1>0 DEF PCs
<1>8. PICK r : r = [q EXCEPT !.pc = pc, !.password = serial + 1]
  OBVIOUS
<1>9. r \in Request /\ r.pc = pc /\ r.user = q.user /\ r.op = q.op
  <2> DEFINE n == serial + 1
  <2> HIDE DEF pc, n
  <2>1. r = [q EXCEPT !.pc = pc, !.password = n] /\ n \in Nat
    BY <1>7, <1>8 DEF n
  <2>2. r \in Request
    BY <1>0, <1>7, <2>1 DEF Request
  <2>3. QED
    BY <1>0, <2>1, <2>2 DEF Request
<1>10. Fit(r)
  BY <1>0, <1>9 DEF Fit, WellFormed, Relies
<1>11. Fit(r)'
  BY <1>5, <1>10, FitKept
<1>12. Commit(p, r)
  BY <1>1, <1>8
<1>13. QED
  BY <1>5, <1>6, <1>11, <1>12, WriteStep

LEMMA DiscardStep ==
  ASSUME IInv, NEW p \in Requests, Discard(p)
  PROVE  IInv'
<1> DEFINE q == req[p]
           k == KindOf(q.op)
           pc == IF q.op = "reset" THEN "endAll" ELSE "open"
<1>0. q \in Request /\ Fit(q) /\ q.pc = "discard" /\ q.user \in Users /\ q.user \in issued
  BY Held DEF Discard, Fit, WellFormed
<1>1. /\ UNCHANGED <<now, users, sessions, windows, issued, serial, cut, arrivals>>
      /\ codes' = [codes EXCEPT ![k] = Drop(@, {q.user})]
      /\ Become(p, [q EXCEPT !.pc = pc])
  BY DEF Discard, History
<1>2. k \in Kinds /\ "reset" \in Kinds
  BY DEF KindOf, Kinds
<1>3. /\ DOMAIN codes' = Kinds /\ \A j \in Kinds : j # k => codes'[j] = codes[j]
      /\ codes'[k] = Drop(codes[k], {q.user})
  BY <1>1, <1>2 DEF IInv, TypeOK
<1>4. DOMAIN codes'[k] \subseteq DOMAIN codes[k] /\ codes'[k] \in [DOMAIN codes'[k] -> CodeRow]
  BY <1>2, <1>3 DEF Drop, IInv, TypeOK
<1>5. TablesTyped'
  BY <1>1, <1>2, <1>3, <1>4 DEF TablesTyped, IInv, TypeOK
<1>6. ResetCodesConfirmed'
  BY <1>1, <1>2, <1>3, <1>4 DEF IInv, ResetCodesConfirmed
<1>7. UsersKept /\ IdsKnown' /\ SessionsConfirmed'
  BY <1>1 DEF UsersKept, IInv, IdsKnown, SessionsConfirmed
<1>8. pc \in PCs
  BY DEF PCs
<1>9. PICK r : r = [q EXCEPT !.pc = pc]
  OBVIOUS
<1>10. r \in Request /\ r.pc = pc /\ r.user = q.user /\ r.op = q.op
  <2> HIDE DEF pc
  <2>1. QED
    BY <1>0, <1>8, <1>9 DEF Request
<1>11. Fit(r)
  BY <1>0, <1>10 DEF Fit, WellFormed, Relies
<1>12. Fit(r)'
  BY <1>7, <1>11, FitKept
<1>13. Become(p, r)
  BY <1>1, <1>9
<1>14. QED
  BY <1>5, <1>6, <1>7, <1>12, <1>13, WriteStep

\* Ending sessions, of whatever set.
LEMMA DropSessions ==
  ASSUME IInv, NEW ss, sessions' = Drop(sessions, ss), NEW p \in Requests, NEW q, Fit(q), Become(p, q),
         UNCHANGED <<now, users, codes, windows, issued, serial, cut, arrivals>>
  PROVE  IInv'
<1>1. /\ DOMAIN sessions' \subseteq DOMAIN sessions /\ sessions' \in [DOMAIN sessions' -> SessionRow]
      /\ \A s \in DOMAIN sessions' : sessions'[s] = sessions[s]
  BY DEF Drop, IInv, TypeOK
<1>2. TablesTyped'
  BY <1>1 DEF TablesTyped, IInv, TypeOK
<1>3. UsersKept /\ IdsKnown' /\ ResetCodesConfirmed' /\ SessionsConfirmed'
  BY <1>1 DEF UsersKept, IInv, IdsKnown, ResetCodesConfirmed, SessionsConfirmed
<1>4. Fit(q)'
  BY <1>3, FitKept
<1>5. QED
  BY <1>2, <1>3, <1>4, WriteStep

LEMMA EndStep ==
  ASSUME IInv, NEW p \in Requests, EndAll(p) \/ Logout(p) \/ EndOthers(p)
  PROVE  IInv'
<1> DEFINE q == req[p]
<1>0. q \in Request /\ Fit(q) /\ Fit(Blank)
  BY Held, BlankFit
<1>1. UNCHANGED <<now, users, codes, windows, issued, serial, cut, arrivals>>
  BY DEF EndAll, Logout, EndOthers, History
<1>2. PICK ss : sessions' = Drop(sessions, ss)
  BY DEF EndAll, Logout, EndOthers
<1>3. CASE Become(p, Blank)
  BY <1>0, <1>1, <1>2, <1>3, DropSessions
<1>4. CASE EndAll(p) /\ q.op = "reset" /\ Become(p, [q EXCEPT !.pc = "open"])
  <2>1. PICK r : r = [q EXCEPT !.pc = "open"]
    OBVIOUS
  <2>2. r \in Request /\ r.pc = "open" /\ r.user = q.user /\ r.op = q.op
    BY <1>0, <2>1 DEF Request, PCs
  <2>3. Fit(r)
    BY <1>0, <1>4, <2>2 DEF EndAll, Fit, WellFormed, Relies
  <2>4. Become(p, r)
    BY <1>4, <2>1
  <2>5. QED
    BY <1>1, <1>2, <2>3, <2>4, DropSessions
<1>5. QED
  BY <1>3, <1>4 DEF EndAll, Logout, EndOthers, Finish

LEMMA OpenStep ==
  ASSUME IInv, NEW p \in Requests, OpenSession(p)
  PROVE  IInv'
<1> DEFINE q == req[p]
<1>0. /\ q \in Request /\ Fit(q) /\ Fit(Blank) /\ now \in Nat /\ q.user \in Users
      /\ ConfirmedIfThere(q.user)
  BY Held, BlankFit DEF OpenSession, Fit, WellFormed, Relies
<1>1. UNCHANGED <<now, users, codes, serial, cut, arrivals>> /\ Become(p, Blank)
  BY DEF OpenSession, Finish
<1>2. DOMAIN windows' = Limiters /\ \A l \in Limiters : DOMAIN windows'[l] \subseteq Emails
  <2>1. CASE windows' = windows
    BY <2>1 DEF IInv, TypeOK
  <2>2. CASE windows' = [windows EXCEPT !["login"] = Drop(@, {q.email})]
    BY <2>2 DEF IInv, TypeOK, Limiters, Drop
  <2>3. QED
    BY <2>1, <2>2 DEF OpenSession
<1>3. CASE UNCHANGED <<sessions, issued>>
  BY <1>0, <1>1, <1>2, <1>3, QuietStep DEF IInv, TypeOK
<1>4. CASE q.user \in DOMAIN users /\ ~UNCHANGED <<sessions, issued>>
  <2> DEFINE row == [user |-> q.user, expires |-> now + SessionTtl, proof |-> q.password,
                     excused |-> \/ users[q.user].password # q.password
                                 \/ users[q.user].suspended]
  <2>1. PICK s \in Sessions \ issued : sessions' = Put(sessions, s, row) /\ issued' = issued \cup {s}
    BY <1>4 DEF OpenSession
  <2>2. row \in SessionRow /\ row.user = q.user
    BY <1>0, <1>4, Held, AccountsAssumption DEF SessionRow, Request, UserRow
  <2> HIDE DEF row
  <2>3. /\ DOMAIN sessions' = DOMAIN sessions \cup {s} /\ sessions'[s] = row
        /\ \A x \in DOMAIN sessions : x # s => sessions'[x] = sessions[x]
        /\ sessions' = [x \in DOMAIN sessions' |-> sessions'[x]]
    BY <2>1 DEF Put
  <2>4. sessions' \in [DOMAIN sessions' -> SessionRow] /\ DOMAIN sessions' \subseteq Sessions
    BY <2>2, <2>3 DEF IInv, TypeOK
  <2>5. TablesTyped'
    BY <1>1, <1>2, <2>1, <2>4 DEF TablesTyped, IInv, TypeOK
  <2>6. SessionsConfirmed'
    BY <1>0, <1>1, <1>4, <2>2, <2>3 DEF IInv, SessionsConfirmed, ConfirmedIfThere
  <2>7. UsersKept /\ IdsKnown' /\ ResetCodesConfirmed'
    BY <1>1, <2>1, <2>3 DEF UsersKept, IInv, IdsKnown, ResetCodesConfirmed
  <2>8. Fit(Blank)'
    BY <1>0, <2>7, FitKept
  <2>9. QED
    BY <1>1, <2>5, <2>6, <2>7, <2>8, WriteStep
<1>5. QED
  BY <1>3, <1>4 DEF OpenSession

\* The account goes, and its sessions and codes with it.
LEMMA RemoveUserStep ==
  ASSUME IInv, NEW p \in Requests, RemoveUser(p)
  PROVE  IInv'
<1> DEFINE u == req[p].user
<1>1. /\ UNCHANGED <<now, windows, issued, serial, cut, arrivals>> /\ Commit(p, Blank)
      /\ users' = Drop(users, {u}) /\ sessions' = Drop(sessions, SessionsOf(u))
      /\ codes' = [k \in Kinds |-> Drop(codes[k], {u})]
  BY DEF RemoveUser, History
<1>2. /\ DOMAIN users' = DOMAIN users \ {u} /\ users' = [v \in DOMAIN users' |-> users'[v]]
      /\ \A v \in DOMAIN users' : users'[v] = users[v]
  BY <1>1 DEF Drop
<1>3. /\ DOMAIN sessions' = DOMAIN sessions \ SessionsOf(u)
      /\ sessions' = [s \in DOMAIN sessions' |-> sessions'[s]]
      /\ \A s \in DOMAIN sessions' : sessions'[s] = sessions[s]
  BY <1>1 DEF Drop
<1>4. /\ DOMAIN codes' = Kinds
      /\ \A k \in Kinds : /\ DOMAIN codes'[k] = DOMAIN codes[k] \ {u}
                          /\ codes'[k] = [v \in DOMAIN codes'[k] |-> codes[k][v]]
  BY <1>1 DEF Drop
<1>5. TablesTyped'
  <2>1. \A k \in Kinds : DOMAIN codes'[k] \subseteq Users /\ codes'[k] \in [DOMAIN codes'[k] -> CodeRow]
    BY <1>4 DEF IInv, TypeOK
  <2>2. DOMAIN users' \subseteq Users /\ users' \in [DOMAIN users' -> UserRow]
    BY <1>2 DEF IInv, TypeOK
  <2>3. DOMAIN sessions' \subseteq Sessions /\ sessions' \in [DOMAIN sessions' -> SessionRow]
    BY <1>3 DEF IInv, TypeOK
  <2>4. QED
    BY <1>1, <1>4, <2>1, <2>2, <2>3 DEF TablesTyped, IInv, TypeOK
<1>6. UsersKept /\ IdsKnown'
  BY <1>1, <1>2, <1>3 DEF UsersKept, IInv, IdsKnown
<1>7. ResetCodesConfirmed'
  <2>1. "reset" \in Kinds
    BY DEF Kinds
  <2>2. QED
    BY <1>2, <1>4, <2>1 DEF IInv, ResetCodesConfirmed
<1>8. SessionsConfirmed'
  BY <1>2, <1>3 DEF IInv, SessionsConfirmed, SessionsOf
<1>9. Fit(Blank)'
  BY <1>6, BlankFit, FitKept
<1>10. QED
  BY <1>1, <1>5, <1>6, <1>7, <1>8, <1>9, WriteStep

LEMMA PatchUserStep ==
  ASSUME IInv, NEW p \in Requests, PatchUser(p)
  PROVE  IInv'
<1> DEFINE q == req[p]
           role(old) == IF q.body.role = None THEN old ELSE q.body.role
           suspended(old) == IF q.body.suspended = None THEN old ELSE q.body.suspended
           patched(row) == [row EXCEPT !.role = role(row.role),
                                       !.suspended = suspended(row.suspended)]
<1>0. /\ q \in Request /\ Fit(q) /\ Fit(Blank) /\ q.pc = "patch"
      /\ q.user \in Users /\ q.user \in issued
      /\ q.op = "reset" \/ q.target \in Users
  BY Held, BlankFit DEF PatchUser, Fit, WellFormed
<1>1. /\ UNCHANGED <<now, sessions, codes, windows, issued, serial, cut, arrivals>>
      /\ users' = [u \in DOMAIN users |-> IF u # q.target THEN users[u] ELSE patched(users[u])]
      /\ Commit(p, IF q.body.suspended = TRUE THEN [q EXCEPT !.pc = "endAll"] ELSE Blank)
  BY DEF PatchUser, History
<1>2. \A row \in UserRow : patched(row) \in UserRow /\ patched(row).verified = row.verified
  <2>1. q.body \in Bodies
    BY <1>0 DEF Request
  <2>2. ASSUME NEW row \in UserRow
        PROVE  role(row.role) \in {"user", "admin"} /\ suspended(row.suspended) \in BOOLEAN
    BY <2>1, <2>2 DEF Bodies, UserRow
  <2>3. \A row \in UserRow : \A a \in {"user", "admin"}, b \in BOOLEAN :
          /\ [row EXCEPT !.role = a, !.suspended = b] \in UserRow
          /\ [row EXCEPT !.role = a, !.suspended = b].verified = row.verified
    BY DEF UserRow
  <2>4. QED
    BY <2>2, <2>3
<1>3. \A u \in DOMAIN users : users'[u] \in UserRow /\ (users[u].verified => users'[u].verified)
  <2> HIDE DEF patched
  <2>1. QED
    BY <1>1, <1>2, Held
<1>4. DOMAIN users' = DOMAIN users /\ users' = [u \in DOMAIN users |-> users'[u]]
  BY <1>1
<1>5. /\ UsersKept /\ IdsKnown' /\ ResetCodesConfirmed' /\ SessionsConfirmed'
      /\ DOMAIN users' \subseteq Users /\ users' \in [DOMAIN users' -> UserRow]
  BY <1>1, <1>3, <1>4, RowsStep
<1>6. TablesTyped'
  BY <1>1, <1>5 DEF TablesTyped, IInv, TypeOK
<1>7. PICK r : r = IF q.body.suspended = TRUE THEN [q EXCEPT !.pc = "endAll"] ELSE Blank
  OBVIOUS
<1>8. Fit(r)
  <2>1. CASE r = Blank
    BY <1>0, <2>1
  <2>2. CASE r = [q EXCEPT !.pc = "endAll"]
    <3>1. r \in Request /\ r.pc = "endAll" /\ r.user = q.user /\ r.op = q.op /\ r.target = q.target
      BY <1>0, <2>2 DEF Request, PCs
    <3>2. q.op # "reset"
      BY <1>0 DEF Fit, WellFormed
    <3>3. QED
      BY <1>0, <3>1, <3>2 DEF Fit, WellFormed, Relies
  <2>3. QED
    BY <1>7, <2>1, <2>2
<1>9. Fit(r)'
  BY <1>5, <1>8, FitKept
<1>10. Commit(p, r)
  BY <1>1, <1>7
<1>11. QED
  BY <1>5, <1>6, <1>9, <1>10, WriteStep

\* A request that ends early, or all of them, leave the tables as they are.
LEMMA EndingKnown ==
  ASSUME IInv, NEW p \in Requests
  PROVE  Ending(req[p]) \subseteq Users
BY Held DEF Ending, Fit, WellFormed

LEMMA FailStep ==
  ASSUME IInv, NEW p \in Requests, Fail(p)
  PROVE  IInv'
<1>1. /\ UNCHANGED <<now, users, sessions, codes, windows, issued, serial, arrivals>>
      /\ Become(p, Blank) /\ cut' = cut \cup Ending(req[p])
  BY DEF Fail, Tables, Finish
<1>2. QED
  BY <1>1, BlankFit, EndingKnown, QuietStep DEF IInv, TypeOK

LEMMA RestartStep ==
  ASSUME IInv, Restart
  PROVE  IInv'
<1>1. /\ UNCHANGED <<now, users, sessions, codes, issued, serial, arrivals>>
      /\ req' = [p \in Requests |-> Blank] /\ windows' = [l \in Limiters |-> Empty]
      /\ cut' = cut \cup UNION {Ending(req[p]) : p \in Requests}
  BY DEF Restart, Tables
<1>2. UsersKept
  BY <1>1 DEF UsersKept
<1>3. Fit(Blank)'
  BY <1>2, BlankFit, FitKept
<1>4. AllFit'
  <2>1. SUFFICES ASSUME NEW p \in Requests PROVE Fit(req[p])'
    BY DEF AllFit
  <2>2. req'[p] = Blank
    BY <1>1
  <2>3. QED
    BY <1>3, <2>2 DEF Fit, WellFormed, Relies, ConfirmedIfThere
<1>5. req' \in [Requests -> Request]
  BY <1>1, BlankFit DEF Fit
<1>6. cut' \subseteq Users
  BY <1>1, EndingKnown DEF IInv, TypeOK
<1>7. DOMAIN windows' = Limiters /\ \A l \in Limiters : DOMAIN windows'[l] \subseteq Emails
  BY <1>1 DEF Empty
<1>8. TypeOK'
  BY <1>1, <1>5, <1>6, <1>7 DEF IInv, TypeOK
<1>9. IdsKnown' /\ ResetCodesConfirmed' /\ SessionsConfirmed'
  BY <1>1 DEF IInv, IdsKnown, ResetCodesConfirmed, SessionsConfirmed
<1>10. QED
  BY <1>4, <1>8, <1>9 DEF IInv

\* Whatever leaves all but the clock alone.
LEMMA ClockStep ==
  ASSUME IInv, now' \in Nat,
         UNCHANGED <<users, sessions, codes, windows, req, issued, serial, cut, arrivals>>
  PROVE  IInv'
<1>1. UsersKept
  BY DEF UsersKept
<1>2. AllFit'
  <2>1. SUFFICES ASSUME NEW p \in Requests PROVE Fit(req[p])'
    BY DEF AllFit
  <2>2. Fit(req[p]) /\ req'[p] = req[p]
    BY DEF IInv, AllFit
  <2>3. PICK r : r = req[p]
    OBVIOUS
  <2>4. Fit(r)'
    BY <1>1, <2>2, <2>3, FitKept
  <2>5. QED
    BY <2>2, <2>3, <2>4 DEF Fit, WellFormed, Relies, ConfirmedIfThere
<1>3. TypeOK'
  BY DEF IInv, TypeOK
<1>4. IdsKnown' /\ ResetCodesConfirmed' /\ SessionsConfirmed'
  BY DEF IInv, IdsKnown, ResetCodesConfirmed, SessionsConfirmed
<1>5. QED
  BY <1>2, <1>3, <1>4 DEF IInv

-----------------------------------------------------------------------------
LEMMA InitHolds ==
  ASSUME Init
  PROVE  IInv
<1> USE AccountsAssumption DEF Init
<1>1. AllFit /\ req \in [Requests -> Request]
  BY BlankFit DEF AllFit, Fit
<1>2. IdsKnown /\ SessionsConfirmed
  BY DEF IdsKnown, SessionsConfirmed
<1>3. "reset" \in Kinds /\ DOMAIN codes["reset"] = {}
  BY DEF Kinds
<1>4. TypeOK
  <2>1. \A k \in Kinds : DOMAIN codes[k] \subseteq Users /\ codes[k] \in [DOMAIN codes[k] -> CodeRow]
    BY DEF Kinds, CodeRow
  <2>2. DOMAIN codes = Kinds /\ DOMAIN windows = Limiters
        /\ \A l \in Limiters : DOMAIN windows[l] \subseteq Emails
    BY DEF Empty
  <2>3. QED
    BY <1>1, <2>1, <2>2 DEF TypeOK
<1>5. QED
  BY <1>1, <1>2, <1>3, <1>4 DEF IInv, ResetCodesConfirmed

\* One step per action of Next.
LEMMA NextKeeps ==
  ASSUME IInv, [Next]_vars
  PROVE  IInv'
<1>1. ASSUME NEW p \in Requests,
             \/ Find(p) \/ ReadCode(p) \/ RequireUser(p) \/ ReadHash(p) \/ ReadAccount(p)
             \/ RequireAdmin(p) \/ ReadTarget(p)
      PROVE  IInv'
  <2>1. PICK q : Fit(q) /\ Become(p, q)
    BY <1>1, ReadStep
  <2>2. UNCHANGED <<now, users, sessions, codes, windows, issued, serial, cut, arrivals>>
    BY <1>1, ReadStep DEF Tables, History
  <2>3. QED
    BY <2>1, <2>2, QuietStep DEF IInv, TypeOK
<1>2. CASE Restart
  BY <1>2, RestartStep
<1>3. CASE Tick
  <2>1. /\ now' = now + 1
        /\ UNCHANGED <<users, sessions, codes, windows, req, issued, serial, cut, arrivals>>
    BY <1>3 DEF Tick, Tables, History
  <2>2. QED
    BY <2>1, ClockStep DEF IInv, TypeOK
<1>4. CASE UNCHANGED vars
  BY <1>4, ClockStep DEF vars, IInv, TypeOK
<1>5. ASSUME NEW p \in Requests,
             \/ ArriveLimited(p) \/ ArriveWithCode(p) \/ ArriveSignedIn(p)
             \/ InsertUser(p) \/ IssueCode(p) \/ Bump(p) \/ ConfirmAddress(p) \/ SetPassword(p)
      PROVE  IInv'
  BY <1>5, ArriveStep, InsertUserStep, IssueCodeStep, BumpStep, ConfirmStep, SetPasswordStep
<1>6. ASSUME NEW p \in Requests,
             \/ Discard(p) \/ EndAll(p) \/ OpenSession(p) \/ Logout(p) \/ EndOthers(p)
             \/ RemoveUser(p) \/ PatchUser(p) \/ Fail(p)
      PROVE  IInv'
  BY <1>6, DiscardStep, EndStep, OpenStep, RemoveUserStep, PatchUserStep, FailStep
<1>7. QED
  BY <1>1, <1>2, <1>3, <1>4, <1>5, <1>6 DEF Next

\* The tables keep their types, a reset code belongs to a confirmed account, and
\* every request in flight still knows what it counts on: what verify, reset,
\* login and the foreign keys of routes/auth.ts and routes/me.ts leave true.
THEOREM AccountsInvariant == Spec => []IInv
<1>1. Init => IInv
  BY InitHolds
<1>2. IInv /\ [Next]_vars => IInv'
  BY NextKeeps
<1>3. QED
  BY <1>1, <1>2, PTL DEF Spec

\* No session of an account that is not confirmed, or of none, whichever of
\* verify, reset and login opened it (sessions.ts:25-38, which never asks).
THEOREM SessionsStayConfirmed == Spec => []SessionsConfirmed
<1>1. IInv => SessionsConfirmed
  BY DEF IInv
<1>2. QED
  BY <1>1, AccountsInvariant, PTL

-----------------------------------------------------------------------------
\* The abstract account, spelled out for the provers.
Phase == [u \in Users |->
            IF u \in DOMAIN users THEN IF users[u].verified THEN "confirmed" ELSE "registered"
            ELSE IF u \in issued THEN "gone" ELSE "none"]
SignedIn == {sessions[s].user : s \in DOMAIN sessions}

LEMMA PhaseOnly ==
  ASSUME NEW u \in Users, NEW to, Phase'[u] = to, \A v \in Users : v # u => Phase'[v] = Phase[v]
  PROVE  Phase' = [Phase EXCEPT ![u] = to]
<1>1. Phase' = [v \in Users |-> Phase'[v]]
  BY DEF Phase
<1>2. Phase = [v \in Users |-> Phase[v]]
  BY DEF Phase
<1> HIDE DEF Phase
<1>3. QED
  BY <1>1, <1>2

LEMMA PhaseSame ==
  ASSUME DOMAIN users' = DOMAIN users, \A u \in DOMAIN users : users'[u].verified = users[u].verified,
         \A u \in Users : u \in issued' <=> u \in issued
  PROVE  Phase' = Phase
BY DEF Phase

LEMMA LifeInitHolds ==
  ASSUME Init
  PROVE  Account!LifeInit
<1>1. Phase \in [Users -> {"none", "registered", "confirmed"}]
  BY AccountsAssumption DEF Init, Phase
<1>2. ASSUME NEW s \in DOMAIN sessions
      PROVE  sessions[s].user \in Users /\ Phase[sessions[s].user] = "confirmed"
  BY <1>2, AccountsAssumption DEF Init, Phase
<1>3. SignedIn \subseteq {u \in Users : Phase[u] = "confirmed"}
  BY <1>2 DEF SignedIn
<1>4. QED
  BY <1>1, <1>3 DEF Account!LifeInit, Phase, SignedIn

\* What leaves the accounts and the users of sessions alone is no step of a life.
LEMMA LifeStutter ==
  ASSUME Phase' = Phase, SignedIn' = SignedIn
  PROVE  UNCHANGED Account!life
BY DEF Account!life, Phase, SignedIn

LEMMA LifeRegister ==
  ASSUME IInv, NEW p \in Requests, InsertUser(p)
  PROVE  Account!LifeNext \/ UNCHANGED Account!life
<1>1. CASE UNCHANGED <<users, issued, serial>>
  <2>1. Phase' = Phase /\ SignedIn' = SignedIn
    BY <1>1 DEF InsertUser, Phase, SignedIn
  <2>2. QED
    BY <2>1, LifeStutter
<1>2. CASE ~UNCHANGED <<users, issued, serial>>
  <2> DEFINE row == [email |-> req[p].email, verified |-> FALSE, password |-> serial + 1,
                     suspended |-> FALSE, role |-> "user"]
  <2>1. PICK u \in Users \ issued : users' = Put(users, u, row) /\ issued' = issued \cup {u}
    BY <1>2 DEF InsertUser
  <2>2. row.verified = FALSE
    OBVIOUS
  <2> HIDE DEF row
  <2>3. /\ u \notin DOMAIN users /\ DOMAIN users' = DOMAIN users \cup {u} /\ users'[u] = row
        /\ \A v \in DOMAIN users : users'[v] = users[v]
    BY <2>1 DEF Put, IInv, IdsKnown
  <2>4. Phase[u] = "none" /\ Phase'[u] = "registered"
    BY <2>1, <2>2, <2>3 DEF Phase
  <2>5. \A v \in Users : v # u => Phase'[v] = Phase[v]
    BY <2>1, <2>3 DEF Phase
  <2>6. Phase' = [Phase EXCEPT ![u] = "registered"]
    BY <2>4, <2>5, PhaseOnly
  <2>7. SignedIn' = SignedIn
    BY DEF InsertUser, SignedIn
  <2>8. Account!Register(u)
    BY <2>4, <2>6, <2>7 DEF Account!Register, Account!Grow, Phase, SignedIn
  <2>9. QED
    BY <2>8 DEF Account!LifeNext
<1>3. QED
  BY <1>1, <1>2

LEMMA LifeConfirm ==
  ASSUME IInv, NEW p \in Requests, ConfirmAddress(p)
  PROVE  Account!LifeNext \/ UNCHANGED Account!life
<1>0. PICK u : u = req[p].user
  OBVIOUS
<1>1. /\ UNCHANGED <<sessions, issued>>
      /\ users' = [v \in DOMAIN users |-> IF v = u THEN [users[v] EXCEPT !.verified = TRUE] ELSE users[v]]
  BY <1>0 DEF ConfirmAddress, History
<1>2. SignedIn' = SignedIn
  BY <1>1 DEF SignedIn
<1>3. \A row \in UserRow : [row EXCEPT !.verified = TRUE].verified = TRUE
  BY DEF UserRow
<1>4. /\ DOMAIN users' = DOMAIN users
      /\ \A v \in DOMAIN users : users'[v].verified = (v = u \/ users[v].verified)
  BY <1>1, <1>3, Held DEF UserRow
<1>5. CASE u \in DOMAIN users /\ ~users[u].verified
  <2>1. u \in Users /\ Phase[u] = "registered" /\ Phase'[u] = "confirmed"
    BY <1>4, <1>5, Held DEF Phase
  <2>2. \A v \in Users : v # u => Phase'[v] = Phase[v]
    BY <1>1, <1>4 DEF Phase
  <2>3. Phase' = [Phase EXCEPT ![u] = "confirmed"]
    BY <2>1, <2>2, PhaseOnly
  <2>4. Account!Confirm(u)
    BY <1>2, <2>1, <2>3 DEF Account!Confirm, Account!Grow, Phase, SignedIn
  <2>5. QED
    BY <2>1, <2>4 DEF Account!LifeNext
<1>6. CASE ~(u \in DOMAIN users /\ ~users[u].verified)
  <2>1. \A v \in DOMAIN users : users'[v].verified = users[v].verified
    BY <1>1, <1>4, <1>6, Held DEF UserRow
  <2>2. Phase' = Phase
    BY <1>1, <1>4, <2>1, PhaseSame
  <2>3. QED
    BY <1>2, <2>2, LifeStutter
<1>7. QED
  BY <1>5, <1>6

\* A new password or a PATCH touches neither confirmation nor whose a session is.
LEMMA LifeRows ==
  ASSUME IInv, NEW p \in Requests, SetPassword(p) \/ PatchUser(p)
  PROVE  UNCHANGED Account!life
<1>1. CASE SetPassword(p)
  <2>1. /\ UNCHANGED issued
        /\ users' = [u \in DOMAIN users |->
             IF u = req[p].user THEN [users[u] EXCEPT !.password = serial + 1] ELSE users[u]]
        /\ sessions' = [s \in DOMAIN sessions |->
             IF s = req[p].session THEN [sessions[s] EXCEPT !.proof = serial + 1] ELSE sessions[s]]
    BY <1>1 DEF SetPassword
  <2>2. /\ \A row \in UserRow : [row EXCEPT !.password = serial + 1].verified = row.verified
        /\ \A row \in SessionRow : [row EXCEPT !.proof = serial + 1].user = row.user
    BY DEF UserRow, SessionRow
  <2>3. Phase' = Phase
    <3>1. DOMAIN users' = DOMAIN users /\ \A u \in DOMAIN users : users'[u].verified = users[u].verified
      BY <2>1, <2>2, Held
    <3>2. QED
      BY <2>1, <3>1, PhaseSame
  <2>4. DOMAIN sessions' = DOMAIN sessions /\ \A s \in DOMAIN sessions : sessions'[s].user = sessions[s].user
    BY <2>1, <2>2, Held
  <2>5. SignedIn' = SignedIn
    BY <2>4 DEF SignedIn
  <2>6. QED
    BY <2>3, <2>5, LifeStutter
<1>2. CASE PatchUser(p)
  <2> DEFINE q == req[p]
             a(row) == IF q.body.role = None THEN row.role ELSE q.body.role
             b(row) == IF q.body.suspended = None THEN row.suspended ELSE q.body.suspended
  <2>1. /\ UNCHANGED <<sessions, issued>>
        /\ users' = [u \in DOMAIN users |-> IF u # q.target THEN users[u]
                       ELSE [users[u] EXCEPT !.role = a(users[u]), !.suspended = b(users[u])]]
    BY <1>2 DEF PatchUser, History
  <2>2. \A row \in UserRow : [row EXCEPT !.role = a(row), !.suspended = b(row)].verified = row.verified
    BY DEF UserRow
  <2> HIDE DEF a, b
  <2>3. DOMAIN users' = DOMAIN users /\ \A u \in DOMAIN users : users'[u].verified = users[u].verified
    BY <2>1, <2>2, Held
  <2>4. Phase' = Phase
    BY <2>1, <2>3, PhaseSame
  <2>5. SignedIn' = SignedIn
    BY <2>1 DEF SignedIn
  <2>6. QED
    BY <2>4, <2>5, LifeStutter
<1>3. QED
  BY <1>1, <1>2

\* Sessions of one account end, some or all of them.
LEMMA LifeSignOut ==
  ASSUME IInv, NEW u, NEW ss \in SUBSET SessionsOf(u), sessions' = Drop(sessions, ss),
         UNCHANGED <<users, issued>>
  PROVE  Account!LifeNext \/ UNCHANGED Account!life
<1>1. Phase' = Phase
  BY DEF Phase
<1>2. /\ DOMAIN sessions' = DOMAIN sessions \ ss
      /\ \A s \in DOMAIN sessions' : sessions'[s] = sessions[s]
  BY DEF Drop
<1>3. SignedIn' = SignedIn \/ SignedIn' = SignedIn \ {u}
  BY <1>2 DEF SignedIn, SessionsOf
<1>4. CASE SignedIn' = SignedIn
  BY <1>1, <1>4, LifeStutter
<1>5. CASE SignedIn' = SignedIn \ {u} /\ SignedIn' # SignedIn
  <2>1. u \in SignedIn
    BY <1>5
  <2>2. PICK s \in DOMAIN sessions : u = sessions[s].user
    BY <2>1 DEF SignedIn
  <2>3. u \in Users
    BY <2>2 DEF IInv, TypeOK, SessionRow
  <2>4. Account!SignOut(u)
    BY <1>1, <1>5 DEF Account!SignOut, Phase, SignedIn
  <2>5. QED
    BY <2>3, <2>4 DEF Account!LifeNext
<1>6. QED
  BY <1>3, <1>4, <1>5

LEMMA LifeSignIn ==
  ASSUME IInv, NEW p \in Requests, OpenSession(p)
  PROVE  Account!LifeNext \/ UNCHANGED Account!life
<1> DEFINE q == req[p]
<1>0. Fit(q) /\ q.user \in Users /\ ConfirmedIfThere(q.user)
  BY Held DEF OpenSession, Fit, WellFormed, Relies
<1>1. UNCHANGED users
  BY DEF OpenSession
<1>2. CASE UNCHANGED <<sessions, issued>>
  <2>1. Phase' = Phase /\ SignedIn' = SignedIn
    BY <1>1, <1>2 DEF Phase, SignedIn
  <2>2. QED
    BY <2>1, LifeStutter
<1>3. CASE q.user \in DOMAIN users /\ ~UNCHANGED <<sessions, issued>>
  <2> DEFINE row == [user |-> q.user, expires |-> now + SessionTtl, proof |-> q.password,
                     excused |-> \/ users[q.user].password # q.password
                                 \/ users[q.user].suspended]
  <2>1. PICK s \in Sessions \ issued : sessions' = Put(sessions, s, row) /\ issued' = issued \cup {s}
    BY <1>3 DEF OpenSession
  <2>2. row.user = q.user
    OBVIOUS
  <2> HIDE DEF row
  <2>3. /\ DOMAIN sessions' = DOMAIN sessions \cup {s} /\ sessions'[s] = row /\ s \notin DOMAIN sessions
        /\ \A x \in DOMAIN sessions : x # s => sessions'[x] = sessions[x]
    BY <2>1 DEF Put, IInv, IdsKnown
  <2>4. SignedIn' = SignedIn \cup {q.user}
    BY <2>2, <2>3 DEF SignedIn
  <2>5. Phase' = Phase
    BY <1>1, <2>1, AccountsAssumption DEF Phase
  <2>6. Phase[q.user] = "confirmed"
    BY <1>0, <1>3 DEF ConfirmedIfThere, Phase
  <2>7. PICK u \in Users : u = q.user
    BY <1>0
  <2>8. Account!SignIn(u)
    BY <2>4, <2>5, <2>6, <2>7 DEF Account!SignIn, Phase, SignedIn
  <2>9. QED
    BY <2>8 DEF Account!LifeNext
<1>4. QED
  BY <1>2, <1>3 DEF OpenSession

LEMMA LifeRemove ==
  ASSUME IInv, NEW p \in Requests, RemoveUser(p)
  PROVE  Account!LifeNext \/ UNCHANGED Account!life
<1>0. PICK u : u = req[p].user
  OBVIOUS
<1>1. /\ UNCHANGED issued /\ users' = Drop(users, {u}) /\ sessions' = Drop(sessions, SessionsOf(u))
      /\ u \in Users /\ u \in issued
  BY <1>0, Held DEF RemoveUser, History, Fit, WellFormed
<1>2. /\ DOMAIN users' = DOMAIN users \ {u} /\ \A v \in DOMAIN users' : users'[v] = users[v]
      /\ DOMAIN sessions' = DOMAIN sessions \ SessionsOf(u)
      /\ \A s \in DOMAIN sessions' : sessions'[s] = sessions[s]
  BY <1>1 DEF Drop
<1>3. SignedIn' = SignedIn \ {u}
  BY <1>2 DEF SignedIn, SessionsOf
<1>4. \A v \in Users : v # u => Phase'[v] = Phase[v]
  BY <1>1, <1>2 DEF Phase
<1>5. Phase[u] # "none" /\ Phase'[u] = "gone"
  BY <1>1, <1>2 DEF Phase
<1>6. Phase' = [Phase EXCEPT ![u] = "gone"]
  BY <1>1, <1>4, <1>5, PhaseOnly
<1>7. Account!Remove(u)
  BY <1>3, <1>5, <1>6 DEF Account!Remove, Account!Grow, Phase, SignedIn
<1>8. QED
  BY <1>1, <1>7 DEF Account!LifeNext

LEMMA NextLives ==
  ASSUME IInv, [Next]_vars
  PROVE  [Account!LifeNext]_(Account!life)
<1>1. CASE UNCHANGED <<users, sessions, issued>>
  <2>1. Phase' = Phase /\ SignedIn' = SignedIn
    BY <1>1 DEF Phase, SignedIn
  <2>2. QED
    BY <2>1, LifeStutter
<1>2. CASE UNCHANGED vars \/ Restart \/ Tick
  BY <1>1, <1>2 DEF vars, Restart, Tick, Tables, History
<1>3. ASSUME NEW p \in Requests,
             \/ ArriveLimited(p) \/ ArriveWithCode(p) \/ ArriveSignedIn(p)
             \/ IssueCode(p) \/ Bump(p) \/ Discard(p) \/ Fail(p)
      PROVE  [Account!LifeNext]_(Account!life)
  BY <1>1, <1>3 DEF ArriveLimited, ArriveWithCode, ArriveSignedIn, Arrive, IssueCode, Bump, Discard,
                    Fail, Tables, History
<1>4. ASSUME NEW p \in Requests,
             \/ Find(p) \/ ReadCode(p) \/ RequireUser(p) \/ ReadHash(p) \/ ReadAccount(p)
             \/ RequireAdmin(p) \/ ReadTarget(p)
      PROVE  [Account!LifeNext]_(Account!life)
  BY <1>1, <1>4, ReadStep DEF Tables, History
<1>5. ASSUME NEW p \in Requests, InsertUser(p) \/ ConfirmAddress(p) \/ SetPassword(p) \/ PatchUser(p)
      PROVE  [Account!LifeNext]_(Account!life)
  BY <1>5, LifeRegister, LifeConfirm, LifeRows
<1>6. ASSUME NEW p \in Requests, EndAll(p) \/ EndOthers(p) \/ Logout(p)
      PROVE  [Account!LifeNext]_(Account!life)
  <2>1. UNCHANGED <<users, issued>>
    BY <1>6 DEF EndAll, EndOthers, Logout, History
  <2>2. CASE EndAll(p) \/ EndOthers(p)
    <3>1. PICK u : \E ss \in SUBSET SessionsOf(u) : sessions' = Drop(sessions, ss)
      BY <2>2 DEF EndAll, EndOthers
    <3>2. QED
      BY <2>1, <3>1, LifeSignOut
  <2>3. CASE Logout(p)
    <3>1. sessions' = Drop(sessions, {req[p].session})
      BY <2>3 DEF Logout
    <3>2. CASE req[p].session \in DOMAIN sessions
      <4>1. {req[p].session} \in SUBSET SessionsOf(sessions[req[p].session].user)
        BY <3>2 DEF SessionsOf
      <4>2. QED
        BY <2>1, <3>1, <4>1, LifeSignOut
    <3>3. CASE req[p].session \notin DOMAIN sessions
      <4>1. sessions' = sessions
        BY <3>1, <3>3 DEF Drop, IInv, TypeOK
      <4>2. QED
        BY <1>1, <2>1, <4>1
    <3>4. QED
      BY <3>2, <3>3
  <2>4. QED
    BY <1>6, <2>2, <2>3
<1>7. ASSUME NEW p \in Requests, OpenSession(p) \/ RemoveUser(p)
      PROVE  [Account!LifeNext]_(Account!life)
  BY <1>7, LifeSignIn, LifeRemove
<1>8. QED
  BY <1>2, <1>3, <1>4, <1>5, <1>6, <1>7 DEF Next

\* Whatever requests overlap, fail or are cut short, an account lives the life of
\* AccountLifecycle: confirmed before anybody is signed in to it, and gone for good.
THEOREM LivesAsPromised == Spec => ImplementsAccountLifecycle
<1>1. Init => Account!LifeInit
  BY LifeInitHolds
<1>2. IInv /\ [Next]_vars => [Account!LifeNext]_(Account!life)
  BY NextLives
<1>3. QED
  BY <1>1, <1>2, AccountsInvariant, PTL DEF Spec, ImplementsAccountLifecycle, Account!LifeSpec

-----------------------------------------------------------------------------
\* From statement to statement: what a request r goes on as.
Edges == {
  <<"readCode", "bump">>, <<"readCode", "confirm">>, <<"readCode", "setPassword">>,
  <<"confirm", "discard">>, <<"setPassword", "discard">>, <<"setPassword", "endOthers">>,
  <<"discard", "endAll">>, <<"discard", "open">>, <<"endAll", "open">>,
  <<"readHash", "setPassword">>, <<"readAccount", "removeUser">>,
  <<"isAdmin", "target">>, <<"target", "patch">>, <<"patch", "endAll">>}

Continues(r, q) ==
  \/ q = Blank
  \/ r.pc = "idle" /\ q.pc \in {"insertUser", "find"} /\ q.session = None
  \/ r.pc = "idle" /\ q.pc = "guard" /\ q.session \in issued
  \/ r.pc \in {"insertUser", "find"} /\ q.pc \in {"issue", "open", "readCode"} /\ q.session = r.session
  \/ /\ r.pc = "guard" /\ q.pc \in {"destroy", "readHash", "readAccount", "isAdmin"}
     /\ q.session = r.session /\ q.session \in DOMAIN sessions
     /\ q.user = sessions[q.session].user
  \/ <<r.pc, q.pc>> \in Edges /\ q.session = r.session /\ q.user = r.user /\ q.op = r.op

Acts(p) ==
  \/ ArriveLimited(p) \/ ArriveWithCode(p) \/ ArriveSignedIn(p)
  \/ InsertUser(p) \/ IssueCode(p) \/ Find(p) \/ ReadCode(p) \/ Bump(p)
  \/ ConfirmAddress(p) \/ SetPassword(p) \/ Discard(p) \/ EndAll(p) \/ OpenSession(p)
  \/ RequireUser(p) \/ Logout(p) \/ ReadHash(p) \/ EndOthers(p)
  \/ ReadAccount(p) \/ RemoveUser(p)
  \/ RequireAdmin(p) \/ ReadTarget(p) \/ PatchUser(p) \/ Fail(p)

LEMMA ArrivedContinues ==
  ASSUME IInv, NEW p \in Requests, ArriveLimited(p) \/ ArriveWithCode(p) \/ ArriveSignedIn(p)
  PROVE  \E q : Become(p, q) /\ Continues(req[p], q) /\ q.pc \in {"insertUser", "find", "guard"}
<1>0. Blank \in Request /\ Blank.session = None
  BY BlankFit DEF Fit, Blank
<1>1. CASE ArriveLimited(p)
  <2>1. PICK op \in AllOps, pc \in {"insertUser", "find"}, e \in Emails :
          Arrive(p, op, [Blank EXCEPT !.pc = pc, !.email = e])
    BY <1>1 DEF ArriveLimited, AllOps
  <2>2. PICK q : q = [[Blank EXCEPT !.pc = pc, !.email = e] EXCEPT !.op = op]
    OBVIOUS
  <2>3. q.pc = pc /\ q.session = None
    BY <1>0, <2>2 DEF Request
  <2>4. QED
    BY <2>1, <2>2, <2>3 DEF Arrive, Continues
<1>2. CASE ArriveWithCode(p)
  <2>1. PICK op \in AllOps, e \in Emails : Arrive(p, op, [Blank EXCEPT !.pc = "find", !.email = e])
    BY <1>2 DEF ArriveWithCode, AllOps
  <2>2. PICK q : q = [[Blank EXCEPT !.pc = "find", !.email = e] EXCEPT !.op = op]
    OBVIOUS
  <2>3. q.pc = "find" /\ q.session = None
    BY <1>0, <2>2 DEF Request
  <2>4. QED
    BY <2>1, <2>2, <2>3 DEF Arrive, Continues
<1>3. CASE ArriveSignedIn(p)
  <2>1. PICK op \in AllOps, s \in Sessions \cap issued :
          Arrive(p, op, [Blank EXCEPT !.pc = "guard", !.session = s])
    BY <1>3 DEF ArriveSignedIn, AllOps
  <2>2. PICK q : q = [[Blank EXCEPT !.pc = "guard", !.session = s] EXCEPT !.op = op]
    OBVIOUS
  <2>3. q.pc = "guard" /\ q.session = s
    BY <1>0, <2>2 DEF Request
  <2>4. QED
    BY <2>1, <2>2, <2>3 DEF Arrive, Continues
<1>4. QED
  BY <1>1, <1>2, <1>3

\* The routes without an account yet.
LEMMA FoundContinues ==
  ASSUME IInv, NEW p \in Requests, InsertUser(p) \/ Find(p)
  PROVE  \E q : /\ Become(p, q) \/ Commit(p, q)
                /\ Continues(req[p], q) /\ req[p].pc \in {"insertUser", "find"}
                /\ q.pc \in {"idle", "issue", "open", "readCode"}
<1>0. req[p] \in Request /\ Blank.pc = "idle"
  BY Held DEF Blank
<1>1. CASE Become(p, Blank)
  BY <1>0, <1>1 DEF Continues, InsertUser, Find
<1>2. CASE InsertUser(p) /\ ~Become(p, Blank)
  <2>1. PICK u : Commit(p, [req[p] EXCEPT !.pc = "issue", !.user = u]) /\ req[p].pc = "insertUser"
    BY <1>2 DEF InsertUser, Finish
  <2>2. PICK q : q = [req[p] EXCEPT !.pc = "issue", !.user = u]
    OBVIOUS
  <2>3. q.pc = "issue" /\ q.session = req[p].session
    BY <1>0, <2>2 DEF Request
  <2>4. QED
    BY <2>1, <2>2, <2>3 DEF Continues
<1>3. CASE Find(p) /\ ~Become(p, Blank)
  <2>1. PICK u : Become(p, [req[p] EXCEPT !.pc = After(req[p].op), !.user = u, !.raced = FALSE,
                                          !.password = users[u].password]) /\ req[p].pc = "find"
    BY <1>3 DEF Find, Finish
  <2>2. PICK pc : pc = After(req[p].op)
    OBVIOUS
  <2>3. PICK n : n = users[u].password
    OBVIOUS
  <2>4. PICK q : q = [req[p] EXCEPT !.pc = pc, !.user = u, !.raced = FALSE, !.password = n]
    OBVIOUS
  <2>5. q.pc = pc /\ q.session = req[p].session
    BY <1>0, <2>4 DEF Request
  <2>6. pc \in {"issue", "open", "readCode"}
    BY <2>2 DEF After
  <2>7. QED
    BY <2>1, <2>2, <2>3, <2>4, <2>5, <2>6 DEF Continues
<1>4. QED
  BY <1>1, <1>2, <1>3

\* requireUser names the account of the session.
LEMMA GuardContinues ==
  ASSUME IInv, NEW p \in Requests, RequireUser(p)
  PROVE  \E q : /\ Become(p, q) /\ Continues(req[p], q)
                /\ q.pc \in {"idle", "destroy", "readHash", "readAccount", "isAdmin"}
<1>0. req[p] \in Request /\ Blank.pc = "idle"
  BY Held DEF Blank
<1>1. CASE Become(p, Blank)
  BY <1>0, <1>1 DEF Continues
<1>2. CASE ~Become(p, Blank)
  <2>1. /\ req[p].session \in DOMAIN sessions /\ req[p].pc = "guard"
        /\ Become(p, [req[p] EXCEPT !.pc = NextAfterGuard(req[p].op),
                                    !.user = sessions[req[p].session].user, !.raced = FALSE])
    BY <1>2 DEF RequireUser, Finish, Live
  <2>2. PICK pc : pc = NextAfterGuard(req[p].op)
    OBVIOUS
  <2>3. PICK u : u = sessions[req[p].session].user
    OBVIOUS
  <2>4. PICK q : q = [req[p] EXCEPT !.pc = pc, !.user = u, !.raced = FALSE]
    OBVIOUS
  <2>5. q.pc = pc /\ q.session = req[p].session /\ q.user = u
    BY <1>0, <2>4 DEF Request
  <2>6. pc \in {"destroy", "readHash", "readAccount", "isAdmin"}
    BY <2>2 DEF NextAfterGuard
  <2>7. QED
    BY <2>1, <2>2, <2>3, <2>4, <2>5, <2>6 DEF Continues
<1>3. QED
  BY <1>1, <1>2

\* Every other statement keeps the account, the session and the operation.
Later(p) ==
  \/ IssueCode(p) \/ ReadCode(p) \/ Bump(p) \/ ConfirmAddress(p) \/ SetPassword(p)
  \/ Discard(p) \/ EndAll(p) \/ OpenSession(p) \/ Logout(p) \/ ReadHash(p) \/ EndOthers(p)
  \/ ReadAccount(p) \/ RemoveUser(p) \/ RequireAdmin(p) \/ ReadTarget(p) \/ PatchUser(p) \/ Fail(p)

LEMMA LaterContinues ==
  ASSUME IInv, NEW p \in Requests, Later(p)
  PROVE  \E q : /\ Become(p, q) \/ Commit(p, q)
                /\ q = Blank \/ (/\ <<req[p].pc, q.pc>> \in Edges /\ q.session = req[p].session
                                 /\ q.user = req[p].user /\ q.op = req[p].op)
<1> DEFINE r == req[p]
           Goal(q) == q = Blank \/ (/\ <<r.pc, q.pc>> \in Edges /\ q.session = r.session
                                    /\ q.user = r.user /\ q.op = r.op)
<1>0. r \in Request
  BY Held
<1>1. CASE Become(p, Blank) \/ Commit(p, Blank)
  BY <1>1
<1>2. ASSUME NEW pc \in PCs, <<r.pc, pc>> \in Edges,
             Become(p, [r EXCEPT !.pc = pc]) \/ Commit(p, [r EXCEPT !.pc = pc])
      PROVE  \E q : (Become(p, q) \/ Commit(p, q)) /\ Goal(q)
  <2>1. PICK q : q = [r EXCEPT !.pc = pc]
    OBVIOUS
  <2>2. Goal(q)
    BY <1>0, <1>2, <2>1 DEF Request
  <2>3. QED
    BY <1>2, <2>1, <2>2
<1>3. CASE IssueCode(p) \/ Bump(p) \/ OpenSession(p) \/ Logout(p) \/ EndOthers(p) \/ RemoveUser(p) \/ Fail(p)
  BY <1>1, <1>3 DEF IssueCode, Bump, OpenSession, Logout, EndOthers, RemoveUser, Fail, Finish
<1>4. CASE ReadHash(p) \/ ReadAccount(p) \/ RequireAdmin(p)
  <2>1. CASE Become(p, Blank)
    BY <1>1, <2>1
  <2>2. CASE ~Become(p, Blank)
    <3>1. PICK pc \in {"setPassword", "removeUser", "target"} :
            <<r.pc, pc>> \in Edges /\ Become(p, [r EXCEPT !.pc = pc])
      BY <1>4, <2>2 DEF ReadHash, ReadAccount, RequireAdmin, Finish, Edges
    <3>2. pc \in PCs
      BY DEF PCs
    <3>3. QED
      BY <1>2, <3>1, <3>2
  <2>3. QED
    BY <2>1, <2>2
<1>5. CASE Discard(p) \/ EndAll(p) \/ ConfirmAddress(p)
  <2>1. CASE Become(p, Blank)
    BY <1>1, <2>1
  <2>2. CASE ~Become(p, Blank)
    <3>1. PICK pc \in {"endAll", "open", "discard"} :
            /\ <<r.pc, pc>> \in Edges
            /\ Become(p, [r EXCEPT !.pc = pc]) \/ Commit(p, [r EXCEPT !.pc = pc])
      <4>1. CASE Discard(p)
        BY <4>1 DEF Discard, Edges
      <4>2. CASE EndAll(p)
        BY <2>2, <4>2 DEF EndAll, Edges, Finish
      <4>3. CASE ConfirmAddress(p)
        BY <4>3 DEF ConfirmAddress, Edges
      <4>4. QED
        BY <1>5, <4>1, <4>2, <4>3
    <3>2. pc \in PCs
      BY DEF PCs
    <3>3. QED
      BY <1>2, <3>1, <3>2
  <2>3. QED
    BY <2>1, <2>2
<1>6. CASE ReadCode(p)
  <2>1. CASE Become(p, Blank)
    BY <1>1, <2>1
  <2>2. CASE Become(p, [r EXCEPT !.pc = "bump"])
    BY <1>2, <1>6, <2>2 DEF ReadCode, Edges, PCs
  <2>3. CASE ~Become(p, Blank) /\ ~Become(p, [r EXCEPT !.pc = "bump"])
    <3>1. PICK c, pc : /\ pc \in {"confirm", "setPassword"} /\ r.pc = "readCode"
                       /\ Become(p, [r EXCEPT !.pc = pc, !.code = c])
      BY <1>6, <2>3 DEF ReadCode, Finish
    <3>2. PICK q : q = [r EXCEPT !.pc = pc, !.code = c]
      OBVIOUS
    <3>3. q.pc = pc /\ q.session = r.session /\ q.user = r.user /\ q.op = r.op
      BY <1>0, <3>2 DEF Request
    <3>4. QED
      BY <3>1, <3>2, <3>3 DEF Edges
  <2>4. QED
    BY <2>1, <2>2, <2>3
<1>7. CASE SetPassword(p)
  <2>1. PICK n, pc : /\ pc \in {"discard", "endOthers"} /\ r.pc = "setPassword"
                     /\ Commit(p, [r EXCEPT !.pc = pc, !.password = n])
    BY <1>7 DEF SetPassword
  <2>2. PICK q : q = [r EXCEPT !.pc = pc, !.password = n]
    OBVIOUS
  <2>3. q.pc = pc /\ q.session = r.session /\ q.user = r.user /\ q.op = r.op
    BY <1>0, <2>2 DEF Request
  <2>4. QED
    BY <2>1, <2>2, <2>3 DEF Edges
<1>8. CASE ReadTarget(p)
  <2>1. CASE Become(p, Blank)
    BY <1>1, <2>1
  <2>2. CASE ~Become(p, Blank)
    <3>1. PICK u, b : r.pc = "target" /\ Become(p, [r EXCEPT !.pc = "patch", !.target = u, !.body = b])
      BY <1>8, <2>2 DEF ReadTarget, Finish
    <3>2. PICK q : q = [r EXCEPT !.pc = "patch", !.target = u, !.body = b]
      OBVIOUS
    <3>3. q.pc = "patch" /\ q.session = r.session /\ q.user = r.user /\ q.op = r.op
      BY <1>0, <3>2 DEF Request
    <3>4. QED
      BY <3>1, <3>2, <3>3 DEF Edges
  <2>3. QED
    BY <2>1, <2>2
<1>9. CASE PatchUser(p)
  <2>1. r.pc = "patch" /\ (Commit(p, [r EXCEPT !.pc = "endAll"]) \/ Commit(p, Blank))
    BY <1>9 DEF PatchUser
  <2>2. QED
    BY <1>1, <1>2, <2>1 DEF Edges, PCs
<1>10. QED
  BY <1>3, <1>4, <1>5, <1>6, <1>7, <1>8, <1>9 DEF Later

LEMMA ActorContinues ==
  ASSUME IInv, NEW p \in Requests, Acts(p)
  PROVE  \E q : (Become(p, q) \/ Commit(p, q)) /\ Continues(req[p], q)
<1>1. CASE ArriveLimited(p) \/ ArriveWithCode(p) \/ ArriveSignedIn(p)
  BY <1>1, ArrivedContinues
<1>2. CASE InsertUser(p) \/ Find(p)
  BY <1>2, FoundContinues
<1>3. CASE RequireUser(p)
  BY <1>3, GuardContinues
<1>4. CASE Later(p)
  BY <1>4, LaterContinues DEF Continues
<1>5. QED
  BY <1>1, <1>2, <1>3, <1>4 DEF Acts, Later

\* The other requests wait, and know when an account has changed.
LEMMA OthersWait ==
  ASSUME IInv, NEW p \in Requests, NEW q, Become(p, q) \/ Commit(p, q)
  PROVE  /\ req'[p] = q
         /\ \A x \in Requests \ {p} :
              /\ req'[x].pc = req[x].pc /\ req'[x].op = req[x].op /\ req'[x].user = req[x].user
              /\ req'[x].session = req[x].session /\ req'[x].target = req[x].target
              /\ req'[x].body = req[x].body
              /\ req'[x].raced \/ req[x].pc = "idle" \/ req'[x] = req[x]
         /\ Commit(p, q) => \A x \in Requests \ {p} : req'[x].raced \/ req[x].pc = "idle"
<1>0. req \in [Requests -> Request]
  BY DEF IInv, TypeOK
<1>1. ASSUME Become(p, q)
      PROVE  req'[p] = q /\ \A x \in Requests \ {p} : req'[x] = req[x]
  BY <1>0, <1>1 DEF Become
<1>2. ASSUME Commit(p, q)
      PROVE  /\ req'[p] = q
             /\ \A x \in Requests \ {p} : req'[x] = [req[x] EXCEPT !.raced = req[x].pc # "idle"]
  BY <1>2 DEF Commit
<1>3. ASSUME Commit(p, q), NEW x \in Requests \ {p}
      PROVE  /\ req'[x].pc = req[x].pc /\ req'[x].op = req[x].op /\ req'[x].user = req[x].user
             /\ req'[x].session = req[x].session /\ req'[x].target = req[x].target
             /\ req'[x].body = req[x].body
             /\ req'[x].raced \/ req[x].pc = "idle"
  <2>1. PICK r \in Request : r = req[x]
    BY <1>0
  <2>2. req'[x] = [r EXCEPT !.raced = r.pc # "idle"]
    BY <1>2, <1>3, <2>1
  <2>3. QED
    BY <2>1, <2>2 DEF Request
<1>4. CASE Commit(p, q)
  BY <1>2, <1>3, <1>4
<1>5. CASE ~Commit(p, q)
  BY <1>1, <1>5
<1>6. QED
  BY <1>4, <1>5

-----------------------------------------------------------------------------
\* Whose session a request was sent with: none while it looks up an address, and
\* from requireUser on one of the account it speaks for.
OwnSession(q) ==
  /\ q.session \in issued \cup {None}
  /\ q.pc \in {"insertUser", "find"} => q.session = None
  /\ q.pc # "guard" /\ q.session \in DOMAIN sessions => sessions[q.session].user = q.user

AllOwn == \A p \in Requests : OwnSession(req[p])

\* A session changes hands never: another that opens has a new id.
SessionsKept ==
  /\ issued \subseteq issued'
  /\ DOMAIN sessions' \subseteq Sessions
  /\ \A s \in DOMAIN sessions' :
       \/ s \in DOMAIN sessions /\ sessions'[s].user = sessions[s].user
       \/ s \notin issued

LEMMA StepKeepsSessions ==
  ASSUME IInv, [Next]_vars
  PROVE  SessionsKept
<1>0. DOMAIN sessions' \subseteq Sessions
  BY NextKeeps DEF IInv, TypeOK
<1>1. CASE UNCHANGED <<sessions, issued>>
  BY <1>0, <1>1 DEF SessionsKept
<1>2. CASE UNCHANGED vars \/ Restart \/ Tick
  BY <1>1, <1>2 DEF vars, Restart, Tick, Tables, History
<1>3. ASSUME NEW p \in Requests,
             \/ ArriveLimited(p) \/ ArriveWithCode(p) \/ ArriveSignedIn(p)
             \/ IssueCode(p) \/ Bump(p) \/ Discard(p) \/ Fail(p) \/ ConfirmAddress(p) \/ PatchUser(p)
      PROVE  SessionsKept
  BY <1>1, <1>3 DEF ArriveLimited, ArriveWithCode, ArriveSignedIn, Arrive, IssueCode, Bump, Discard,
                    Fail, ConfirmAddress, PatchUser, Tables, History
<1>4. ASSUME NEW p \in Requests,
             \/ Find(p) \/ ReadCode(p) \/ RequireUser(p) \/ ReadHash(p) \/ ReadAccount(p)
             \/ RequireAdmin(p) \/ ReadTarget(p)
      PROVE  SessionsKept
  BY <1>1, <1>4, ReadStep DEF Tables, History
<1>5. ASSUME NEW p \in Requests, InsertUser(p)
      PROVE  SessionsKept
  <2>1. issued \subseteq issued' /\ sessions' = sessions
    BY <1>5 DEF InsertUser
  <2>2. QED
    BY <1>0, <2>1 DEF SessionsKept
<1>6. ASSUME NEW p \in Requests, SetPassword(p)
      PROVE  SessionsKept
  <2>1. /\ UNCHANGED issued
        /\ sessions' = [s \in DOMAIN sessions |->
             IF s = req[p].session THEN [sessions[s] EXCEPT !.proof = serial + 1] ELSE sessions[s]]
    BY <1>6 DEF SetPassword
  <2>2. \A row \in SessionRow : [row EXCEPT !.proof = serial + 1].user = row.user
    BY DEF SessionRow
  <2>3. QED
    BY <1>0, <2>1, <2>2, Held DEF SessionsKept
<1>7. ASSUME NEW p \in Requests, EndAll(p) \/ Logout(p) \/ EndOthers(p) \/ RemoveUser(p)
      PROVE  SessionsKept
  <2>1. PICK ss : sessions' = Drop(sessions, ss) /\ UNCHANGED issued
    BY <1>7 DEF EndAll, Logout, EndOthers, RemoveUser, History
  <2>2. QED
    BY <1>0, <2>1 DEF SessionsKept, Drop
<1>8. ASSUME NEW p \in Requests, OpenSession(p)
      PROVE  SessionsKept
  <2>1. CASE UNCHANGED <<sessions, issued>>
    BY <1>1, <2>1
  <2>2. CASE ~UNCHANGED <<sessions, issued>>
    <3>1. PICK s \in Sessions \ issued : \E row : sessions' = Put(sessions, s, row) /\ issued' = issued \cup {s}
      BY <1>8, <2>2 DEF OpenSession
    <3>2. /\ DOMAIN sessions' = DOMAIN sessions \cup {s}
          /\ \A x \in DOMAIN sessions : x # s => sessions'[x] = sessions[x]
      BY <3>1 DEF Put
    <3>3. QED
      BY <1>0, <3>1, <3>2 DEF SessionsKept
  <2>3. QED
    BY <2>1, <2>2
<1>9. QED
  BY <1>2, <1>3, <1>4, <1>5, <1>6, <1>7, <1>8 DEF Next

\* What is known of a session stays known.
LEMMA OwnKept ==
  ASSUME IInv, SessionsKept, NEW q, OwnSession(q)
  PROVE  OwnSession(q)'
BY AccountsAssumption DEF OwnSession, SessionsKept

LEMMA OwnContinues ==
  ASSUME IInv, SessionsKept, NEW r, OwnSession(r), NEW q, Continues(r, q)
  PROVE  OwnSession(q)'
<1>0. None \notin DOMAIN sessions'
  BY AccountsAssumption DEF SessionsKept
<1>1. CASE q = Blank
  BY <1>0, <1>1 DEF Blank, OwnSession
<1>2. CASE q.session = None
  BY <1>0, <1>2 DEF OwnSession
<1>3. CASE q.pc = "guard" /\ q.session \in issued
  BY <1>3 DEF OwnSession, SessionsKept
<1>4. CASE r.pc \in {"insertUser", "find"} /\ q.session = r.session
  BY <1>2, <1>4 DEF OwnSession
<1>5. CASE /\ q.pc \notin {"insertUser", "find"} /\ q.session = r.session
           /\ q.session \in DOMAIN sessions /\ q.user = sessions[q.session].user
  BY <1>0, <1>5 DEF OwnSession, SessionsKept, IInv, IdsKnown
<1>6. CASE <<r.pc, q.pc>> \in Edges /\ q.session = r.session /\ q.user = r.user
  <2>1. r.pc # "guard" /\ q.pc \notin {"insertUser", "find"}
    BY <1>6 DEF Edges
  <2>2. QED
    BY <1>0, <1>6, <2>1 DEF OwnSession, SessionsKept
<1>7. QED
  BY <1>1, <1>2, <1>3, <1>4, <1>5, <1>6 DEF Continues

LEMMA OwnStays ==
  ASSUME IInv, AllOwn, [Next]_vars
  PROVE  AllOwn'
<1>0. SessionsKept
  BY StepKeepsSessions
<1>1. CASE req' = req
  <2>1. SUFFICES ASSUME NEW x \in Requests PROVE OwnSession(req[x])'
    BY DEF AllOwn
  <2>2. PICK q : q = req[x]
    OBVIOUS
  <2>3. OwnSession(q)'
    BY <1>0, <2>2, OwnKept DEF AllOwn
  <2>4. QED
    BY <1>1, <2>2, <2>3
<1>2. ASSUME NEW p \in Requests, Acts(p)
      PROVE  AllOwn'
  <2>1. PICK q : (Become(p, q) \/ Commit(p, q)) /\ Continues(req[p], q)
    BY <1>2, ActorContinues
  <2>2. SUFFICES ASSUME NEW x \in Requests PROVE OwnSession(req[x])'
    BY DEF AllOwn
  <2>3. CASE x = p
    <3>1. PICK r : r = req[p]
      OBVIOUS
    <3>2. OwnSession(q)'
      BY <1>0, <2>1, <3>1, OwnContinues DEF AllOwn
    <3>3. QED
      BY <2>1, <2>3, <3>2, OthersWait
  <2>4. CASE x # p
    <3>1. PICK r : r = req[x]
      OBVIOUS
    <3>2. OwnSession(r)'
      BY <1>0, <3>1, OwnKept DEF AllOwn
    <3>3. req'[x].pc = r.pc /\ req'[x].session = r.session /\ req'[x].user = r.user
      BY <2>1, <2>4, <3>1, OthersWait
    <3>4. QED
      BY <3>2, <3>3 DEF OwnSession
  <2>5. QED
    BY <2>3, <2>4
<1>3. CASE Restart
  <2>1. ASSUME NEW x \in Requests PROVE OwnSession(req[x])'
    BY <1>0, <1>3, AccountsAssumption DEF Restart, SessionsKept, Blank, OwnSession
  <2>2. QED
    BY <2>1 DEF AllOwn
<1>4. QED
  BY <1>1, <1>2, <1>3 DEF Next, Acts, vars, Tick

-----------------------------------------------------------------------------
\* Why a session is still there although its account has moved on.
Stale(s) ==
  LET u == sessions[s].user IN
  u \in DOMAIN users /\ (users[u].suspended \/ users[u].password # sessions[s].proof)

\* Request q has still to end the session s of account u: endOthers spares its own.
Ends(q, u, s) == u \in Ending(q) /\ (q.pc = "endOthers" => q.session # s)

Explained(s) ==
  \/ sessions[s].excused
  \/ sessions[s].user \in cut
  \/ \E p \in Requests : Ends(req[p], sessions[s].user, s)

StillEnded == \A s \in DOMAIN sessions : Stale(s) => Explained(s)

\* An explanation stands while the request that has to end the session goes on to,
\* or is cut short.
LEMMA ExplanationStands ==
  ASSUME IInv, NEW p \in Requests, NEW q, Become(p, q) \/ Commit(p, q), cut \subseteq cut',
         NEW s, Explained(s), sessions'[s].user = sessions[s].user,
         sessions'[s].excused = sessions[s].excused,
         Ends(req[p], sessions[s].user, s) =>
           Ends(q, sessions[s].user, s) \/ sessions[s].user \in cut'
  PROVE  Explained(s)'
<1>1. CASE sessions[s].excused \/ sessions[s].user \in cut
  BY <1>1 DEF Explained
<1>2. CASE \E x \in Requests : Ends(req[x], sessions[s].user, s)
  <2>1. PICK x \in Requests : Ends(req[x], sessions[s].user, s)
    BY <1>2
  <2>2. CASE x = p
    <3>1. req'[p] = q
      BY OthersWait
    <3>2. QED
      BY <2>1, <2>2, <3>1 DEF Explained
  <2>3. CASE x # p
    <3>1. /\ req'[x].pc = req[x].pc /\ req'[x].op = req[x].op /\ req'[x].user = req[x].user
          /\ req'[x].session = req[x].session /\ req'[x].target = req[x].target
      BY <2>3, OthersWait
    <3>2. Ends(req'[x], sessions[s].user, s)
      BY <2>1, <3>1 DEF Ends, Ending
    <3>3. QED
      BY <3>2 DEF Explained
  <2>4. QED
    BY <2>2, <2>3
<1>3. QED
  BY <1>1, <1>2 DEF Explained

\* A statement that touches neither table, of a request that keeps what it has to end.
LEMMA QuietExplained ==
  ASSUME IInv, StillEnded, NEW p \in Requests, NEW q, Become(p, q) \/ Commit(p, q),
         UNCHANGED <<users, sessions>>, cut \subseteq cut',
         \A u, s : Ends(req[p], u, s) => Ends(q, u, s) \/ u \in cut'
  PROVE  StillEnded'
<1>1. SUFFICES ASSUME NEW s \in DOMAIN sessions, Stale(s) PROVE Explained(s)'
  BY DEF StillEnded, Stale
<1>2. QED
  BY <1>1, ExplanationStands DEF StillEnded

\* Rows of users change, but no password, and nobody is suspended by p unless p
\* ends the sessions of that account next.
LEMMA RowsExplained ==
  ASSUME IInv, StillEnded, NEW p \in Requests, NEW q, Become(p, q) \/ Commit(p, q),
         UNCHANGED <<sessions, cut>>,
         \A u \in DOMAIN users' : u \in DOMAIN users =>
           /\ users'[u].password = users[u].password
           /\ users'[u].suspended => users[u].suspended \/ \A s : Ends(q, u, s),
         DOMAIN users \subseteq DOMAIN users', Ending(req[p]) = {}
  PROVE  StillEnded'
<1>1. SUFFICES ASSUME NEW s \in DOMAIN sessions, Stale(s)' PROVE Explained(s)'
  BY DEF StillEnded, Stale
<1> DEFINE u == sessions[s].user
<1>2. u \in DOMAIN users /\ u \in DOMAIN users'
  BY <1>1 DEF IInv, SessionsConfirmed
<1>3. CASE Stale(s)
  <2>1. Explained(s) /\ ~Ends(req[p], u, s)
    BY <1>3 DEF StillEnded, Ends
  <2>2. QED
    BY <2>1, ExplanationStands
<1>4. CASE ~Stale(s)
  <2>1. Ends(q, u, s)
    BY <1>1, <1>2, <1>4 DEF Stale
  <2>2. req'[p] = q
    BY OthersWait
  <2>3. QED
    BY <2>1, <2>2 DEF Explained
<1>5. QED
  BY <1>3, <1>4

\* Some sessions end; those that stay are not the ones p had to end.
LEMMA DropExplained ==
  ASSUME IInv, StillEnded, NEW p \in Requests, NEW q, Become(p, q) \/ Commit(p, q),
         NEW ss, sessions' = Drop(sessions, ss), UNCHANGED cut,
         \A u \in DOMAIN users' : u \in DOMAIN users /\ users'[u] = users[u],
         \A s \in DOMAIN sessions \ ss : ~Ends(req[p], sessions[s].user, s)
  PROVE  StillEnded'
<1>1. SUFFICES ASSUME NEW s \in DOMAIN sessions', Stale(s)' PROVE Explained(s)'
  BY DEF StillEnded
<1>2. s \in DOMAIN sessions \ ss /\ sessions'[s] = sessions[s]
  BY DEF Drop
<1>3. Stale(s)
  BY <1>1, <1>2 DEF Stale
<1>4. QED
  BY <1>2, <1>3, ExplanationStands DEF StillEnded

LEMMA NothingToEnd ==
  ASSUME NEW q, q.pc \notin {"discard", "endAll", "endOthers"}
  PROVE  Ending(q) = {} /\ \A u, s : ~Ends(q, u, s)
BY DEF Ending, Ends

\* Statements before the one that makes sessions stale, and those of other routes.
LEMMA PlainExplained ==
  ASSUME IInv, StillEnded, NEW p \in Requests,
         \/ ArriveLimited(p) \/ ArriveWithCode(p) \/ ArriveSignedIn(p) \/ IssueCode(p) \/ Bump(p)
         \/ Find(p) \/ ReadCode(p) \/ RequireUser(p) \/ ReadHash(p) \/ ReadAccount(p)
         \/ RequireAdmin(p) \/ ReadTarget(p)
  PROVE  StillEnded'
<1>1. PICK q : (Become(p, q) \/ Commit(p, q)) /\ Continues(req[p], q)
  BY ActorContinues DEF Acts
<1>2. UNCHANGED <<users, sessions, cut>>
  <2>1. CASE \/ Find(p) \/ ReadCode(p) \/ RequireUser(p) \/ ReadHash(p) \/ ReadAccount(p)
             \/ RequireAdmin(p) \/ ReadTarget(p)
    BY <2>1, ReadStep DEF Tables, History
  <2>2. CASE \/ ArriveLimited(p) \/ ArriveWithCode(p) \/ ArriveSignedIn(p) \/ IssueCode(p) \/ Bump(p)
    BY <2>2 DEF ArriveLimited, ArriveWithCode, ArriveSignedIn, Arrive, IssueCode, Bump, Tables, History
  <2>3. QED
    BY <2>1, <2>2
<1>3. req[p].pc \notin {"discard", "endAll", "endOthers"}
  BY DEF ArriveLimited, ArriveWithCode, ArriveSignedIn, Arrive, IssueCode, Bump, Find, ReadCode,
         RequireUser, ReadHash, ReadAccount, RequireAdmin, ReadTarget
<1>4. \A u, s : ~Ends(req[p], u, s)
  BY <1>3, NothingToEnd
<1>5. QED
  BY <1>1, <1>2, <1>4, QuietExplained

LEMMA DiscardExplained ==
  ASSUME IInv, StillEnded, NEW p \in Requests, Discard(p)
  PROVE  StillEnded'
<1>1. PICK r \in Request : r = req[p]
  BY Held
<1>2. PICK pc : pc = IF r.op = "reset" THEN "endAll" ELSE "open"
  OBVIOUS
<1>3. PICK q : q = [r EXCEPT !.pc = pc]
  OBVIOUS
<1>4. Become(p, q) /\ UNCHANGED <<users, sessions, cut>> /\ r.pc = "discard"
  BY <1>1, <1>2, <1>3 DEF Discard, History
<1>5. q.pc = pc /\ q.op = r.op /\ q.user = r.user
  BY <1>3 DEF Request
<1>6. \A u, s : Ends(r, u, s) => Ends(q, u, s)
  BY <1>2, <1>4, <1>5 DEF Ends, Ending
<1>7. QED
  BY <1>1, <1>4, <1>6, QuietExplained

LEMMA FailExplained ==
  ASSUME IInv, StillEnded, NEW p \in Requests, Fail(p)
  PROVE  StillEnded'
<1>1. Become(p, Blank) /\ UNCHANGED <<users, sessions>> /\ cut' = cut \cup Ending(req[p])
  BY DEF Fail, Finish, Tables
<1>2. \A u, s : Ends(req[p], u, s) => u \in cut'
  BY <1>1 DEF Ends
<1>3. PICK q : q = Blank
  OBVIOUS
<1>4. QED
  BY <1>1, <1>2, <1>3, QuietExplained

LEMMA InsertExplained ==
  ASSUME IInv, StillEnded, NEW p \in Requests, InsertUser(p)
  PROVE  StillEnded'
<1>1. PICK q : Become(p, q) \/ Commit(p, q)
  BY FoundContinues
<1>2. UNCHANGED <<sessions, cut>> /\ req[p].pc = "insertUser"
  BY DEF InsertUser
<1>3. Ending(req[p]) = {}
  BY <1>2, NothingToEnd
<1>4. DOMAIN users \subseteq DOMAIN users' /\ \A u \in DOMAIN users : users'[u] = users[u]
  <2>1. CASE users' = users
    BY <2>1
  <2>2. CASE users' # users
    <3>1. PICK u \in Users \ issued : \E row : users' = Put(users, u, row)
      BY <2>2 DEF InsertUser
    <3>2. u \notin DOMAIN users
      BY <3>1 DEF IInv, IdsKnown
    <3>3. QED
      BY <3>1, <3>2 DEF Put
  <2>3. QED
    BY <2>1, <2>2
<1>5. QED
  BY <1>1, <1>2, <1>3, <1>4, RowsExplained

LEMMA ConfirmExplained ==
  ASSUME IInv, StillEnded, NEW p \in Requests, ConfirmAddress(p)
  PROVE  StillEnded'
<1>1. PICK q : q = [req[p] EXCEPT !.pc = "discard"]
  OBVIOUS
<1>2. /\ Commit(p, q) /\ UNCHANGED <<sessions, cut>> /\ req[p].pc = "confirm"
      /\ users' = [u \in DOMAIN users |->
           IF u = req[p].user THEN [users[u] EXCEPT !.verified = TRUE] ELSE users[u]]
  BY <1>1 DEF ConfirmAddress, History
<1>3. \A row \in UserRow : LET new == [row EXCEPT !.verified = TRUE] IN
        new.password = row.password /\ new.suspended = row.suspended
  BY DEF UserRow
<1>4. \A u \in DOMAIN users : users'[u].password = users[u].password
                              /\ users'[u].suspended = users[u].suspended
  BY <1>2, <1>3, Held
<1>5. Ending(req[p]) = {}
  BY <1>2, NothingToEnd
<1>6. QED
  BY <1>2, <1>4, <1>5, RowsExplained

\* Suspending goes on to end the sessions of the account.
LEMMA PatchExplained ==
  ASSUME IInv, StillEnded, NEW p \in Requests, PatchUser(p)
  PROVE  StillEnded'
<1>0. PICK r \in Request : r = req[p]
  BY Held
<1> DEFINE then == IF r.body.suspended = TRUE THEN [r EXCEPT !.pc = "endAll"] ELSE Blank
           a(row) == IF r.body.role = None THEN row.role ELSE r.body.role
           b(row) == IF r.body.suspended = None THEN row.suspended ELSE r.body.suspended
<1>1. PICK q : q = then
  OBVIOUS
<1>2. /\ Commit(p, q) /\ UNCHANGED <<sessions, cut>> /\ r.pc = "patch"
      /\ users' = [u \in DOMAIN users |-> IF u # r.target THEN users[u]
                     ELSE [users[u] EXCEPT !.role = a(users[u]), !.suspended = b(users[u])]]
  BY <1>0, <1>1 DEF PatchUser, History
<1>3. \A row \in UserRow : LET new == [row EXCEPT !.role = a(row), !.suspended = b(row)] IN
        new.password = row.password /\ new.suspended = b(row)
  BY DEF UserRow
<1>4. r.op # "reset"
  BY <1>0, <1>2, Held DEF Fit, WellFormed
<1>5. r.body.suspended = TRUE => Ending(q) = {r.target} /\ q.pc = "endAll"
  BY <1>0, <1>1, <1>4 DEF Request, Ending
<1>6. r.body.suspended \in BOOLEAN \cup {None}
  BY <1>0 DEF Request, Bodies
<1>7. ASSUME NEW u \in DOMAIN users
      PROVE  /\ users'[u].password = users[u].password
             /\ users'[u].suspended => users[u].suspended \/ \A s : Ends(q, u, s)
  <2>1. users[u] \in UserRow
    BY Held
  <2>2. CASE u # r.target
    BY <1>2, <2>2
  <2>3. CASE u = r.target
    <3>1. users'[u].password = users[u].password /\ users'[u].suspended = b(users[u])
      BY <1>2, <1>3, <2>1, <2>3
    <3>2. CASE r.body.suspended = TRUE
      BY <1>5, <2>3, <3>1, <3>2 DEF Ends
    <3>3. CASE r.body.suspended # TRUE
      BY <1>6, <3>1, <3>3
    <3>4. QED
      BY <3>2, <3>3
  <2>4. QED
    BY <2>2, <2>3
<1>8. Ending(req[p]) = {} /\ DOMAIN users' = DOMAIN users
  BY <1>0, <1>2, NothingToEnd
<1>9. QED
  BY <1>2, <1>7, <1>8, RowsExplained

\* The new password makes the other sessions of the account stale, and the request
\* that sets it has to end them; its own knows the new one.
LEMMA SetPasswordExplained ==
  ASSUME IInv, AllOwn, StillEnded, NEW p \in Requests, SetPassword(p)
  PROVE  StillEnded'
<1>0. PICK r \in Request : r = req[p]
  BY Held
<1>1. PICK pc : pc = IF r.op = "reset" THEN "discard" ELSE "endOthers"
  OBVIOUS
<1>2. PICK n \in Nat : n = serial + 1
  BY Held
<1>3. PICK q : q = [r EXCEPT !.pc = pc, !.password = n]
  OBVIOUS
<1>4. /\ Commit(p, q) /\ UNCHANGED cut /\ r.pc = "setPassword"
      /\ users' = [u \in DOMAIN users |->
           IF u = r.user THEN [users[u] EXCEPT !.password = n] ELSE users[u]]
      /\ sessions' = [s \in DOMAIN sessions |->
           IF s = r.session THEN [sessions[s] EXCEPT !.proof = n] ELSE sessions[s]]
  BY <1>0, <1>1, <1>2, <1>3 DEF SetPassword
<1>5. q.pc = pc /\ q.session = r.session /\ q.user = r.user /\ q.op = r.op
  BY <1>3 DEF Request
<1>6. \A row \in SessionRow : LET new == [row EXCEPT !.proof = n] IN
        new.user = row.user /\ new.excused = row.excused /\ new.proof = n
  BY DEF SessionRow
<1>7. \A row \in UserRow : LET new == [row EXCEPT !.password = n] IN
        new.suspended = row.suspended /\ new.password = n
  BY DEF UserRow
<1>8. SUFFICES ASSUME NEW s \in DOMAIN sessions, Stale(s)' PROVE Explained(s)'
  BY <1>4 DEF StillEnded
<1> DEFINE u == sessions[s].user
<1>9. /\ sessions'[s].user = u /\ sessions'[s].excused = sessions[s].excused
      /\ s = r.session => sessions'[s].proof = n
      /\ s # r.session => sessions'[s] = sessions[s]
  BY <1>4, <1>6, Held
<1>10. u \in DOMAIN users
  BY DEF IInv, SessionsConfirmed
<1>11. s = r.session => u = r.user
  BY <1>0, <1>4 DEF AllOwn, OwnSession
<1>12. CASE u = r.user /\ s # r.session
  <2>1. Ends(q, u, s)
    BY <1>1, <1>5, <1>12 DEF Ends, Ending
  <2>2. QED
    BY <1>4, <1>9, <2>1, OthersWait DEF Explained
<1>13. CASE s = r.session \/ u # r.user
  <2>1. Stale(s)
    <3>1. CASE u # r.user
      BY <1>4, <1>8, <1>9, <1>10, <1>11, <3>1 DEF Stale
    <3>2. CASE s = r.session
      <4>1. users'[u].password = n /\ users'[u].suspended = users[u].suspended
        BY <1>4, <1>7, <1>10, <1>11, <3>2, Held
      <4>2. users[u].suspended
        BY <1>8, <1>9, <3>2, <4>1 DEF Stale
      <4>3. QED
        BY <1>10, <4>2 DEF Stale
    <3>3. QED
      BY <1>13, <3>1, <3>2
  <2>2. ~Ends(req[p], u, s)
    BY <1>0, <1>4, NothingToEnd
  <2>3. QED
    BY <1>4, <1>9, <2>1, <2>2, ExplanationStands DEF StillEnded
<1>14. QED
  BY <1>12, <1>13

\* DELETE FROM sessions: what it leaves of the account is the session that asked.
LEMMA EndExplained ==
  ASSUME IInv, AllOwn, StillEnded, NEW p \in Requests, EndAll(p) \/ EndOthers(p) \/ Logout(p) \/ RemoveUser(p)
  PROVE  StillEnded'
<1> DEFINE r == req[p]
<1>1. PICK q : Become(p, q) \/ Commit(p, q)
  BY ActorContinues DEF Acts
<1>2. CASE EndAll(p)
  <2>1. PICK u : u = IF r.op = "reset" THEN r.user ELSE r.target
    OBVIOUS
  <2>2. sessions' = Drop(sessions, SessionsOf(u)) /\ UNCHANGED <<users, cut>> /\ r.pc = "endAll"
    BY <1>2, <2>1 DEF EndAll, History
  <2>3. \A s \in DOMAIN sessions \ SessionsOf(u) : ~Ends(r, sessions[s].user, s)
    BY <2>1, <2>2 DEF Ends, Ending, SessionsOf
  <2>4. QED
    BY <1>1, <2>2, <2>3, DropExplained
<1>3. CASE EndOthers(p)
  <2>1. /\ sessions' = Drop(sessions, SessionsOf(r.user) \ {r.session})
        /\ UNCHANGED <<users, cut>> /\ r.pc = "endOthers"
    BY <1>3 DEF EndOthers, History
  <2>2. \A s \in DOMAIN sessions \ (SessionsOf(r.user) \ {r.session}) : ~Ends(r, sessions[s].user, s)
    BY <2>1 DEF Ends, Ending, SessionsOf
  <2>3. QED
    BY <1>1, <2>1, <2>2, DropExplained
<1>4. CASE Logout(p)
  <2>1. sessions' = Drop(sessions, {r.session}) /\ UNCHANGED <<users, cut>> /\ r.pc = "destroy"
    BY <1>4 DEF Logout, History
  <2>2. QED
    BY <1>1, <2>1, NothingToEnd, DropExplained
<1>5. CASE RemoveUser(p)
  <2>1. /\ sessions' = Drop(sessions, SessionsOf(r.user)) /\ users' = Drop(users, {r.user})
        /\ UNCHANGED cut /\ r.pc = "removeUser"
    BY <1>5 DEF RemoveUser, History
  <2>2. \A u \in DOMAIN users' : u \in DOMAIN users /\ users'[u] = users[u]
    BY <2>1 DEF Drop
  <2>3. QED
    BY <1>1, <2>1, <2>2, NothingToEnd, DropExplained
<1>6. QED
  BY <1>2, <1>3, <1>4, <1>5

\* A session that opens on an account that has moved on since is one to excuse.
LEMMA OpenExplained ==
  ASSUME IInv, StillEnded, NEW p \in Requests, OpenSession(p)
  PROVE  StillEnded'
<1> DEFINE r == req[p]
<1>1. Become(p, Blank) /\ UNCHANGED <<users, cut>> /\ r.pc = "open"
  BY DEF OpenSession, Finish
<1>2. PICK q : q = Blank
  OBVIOUS
<1>3. \A u, s : ~Ends(r, u, s)
  BY <1>1, NothingToEnd
<1>4. CASE sessions' = sessions
  BY <1>1, <1>2, <1>3, <1>4, QuietExplained
<1>5. CASE sessions' # sessions
  <2> DEFINE moved == \/ users[r.user].password # r.password
                      \/ users[r.user].suspended
             row == [user |-> r.user, expires |-> now + SessionTtl, proof |-> r.password,
                     excused |-> moved]
  <2>1. PICK x \in Sessions \ issued : sessions' = Put(sessions, x, row)
    BY <1>5 DEF OpenSession
  <2>2. row.user = r.user /\ row.proof = r.password /\ (row.excused <=> moved)
    OBVIOUS
  <2> HIDE DEF row
  <2>3. /\ DOMAIN sessions' = DOMAIN sessions \cup {x} /\ sessions'[x] = row /\ x \notin DOMAIN sessions
        /\ \A s \in DOMAIN sessions : sessions'[s] = sessions[s]
    BY <2>1 DEF Put, IInv, IdsKnown
  <2>4. SUFFICES ASSUME NEW s \in DOMAIN sessions', Stale(s)' PROVE Explained(s)'
    BY DEF StillEnded
  <2>5. CASE s = x
    BY <1>1, <2>2, <2>3, <2>4, <2>5 DEF Stale, Explained
  <2>6. CASE s # x
    <3>1. s \in DOMAIN sessions /\ sessions'[s] = sessions[s] /\ Stale(s)
      BY <1>1, <2>3, <2>4, <2>6 DEF Stale
    <3>2. QED
      BY <1>1, <1>2, <1>3, <3>1, ExplanationStands DEF StillEnded
  <2>7. QED
    BY <2>5, <2>6
<1>6. QED
  BY <1>4, <1>5

\* The process goes down: what its requests had to end, they were cut short on.
LEMMA RestartExplained ==
  ASSUME IInv, StillEnded, Restart
  PROVE  StillEnded'
<1>1. UNCHANGED <<users, sessions>> /\ cut' = cut \cup UNION {Ending(req[x]) : x \in Requests}
  BY DEF Restart, Tables
<1>2. SUFFICES ASSUME NEW s \in DOMAIN sessions, Stale(s) PROVE Explained(s)'
  BY <1>1 DEF StillEnded, Stale
<1>3. Explained(s)
  BY <1>2 DEF StillEnded
<1>4. QED
  BY <1>1, <1>3 DEF Explained, Ends

LEMMA StillEndedStays ==
  ASSUME IInv, AllOwn, StillEnded, [Next]_vars
  PROVE  StillEnded'
<1>1. CASE UNCHANGED <<users, sessions, cut, req>>
  BY <1>1 DEF StillEnded, Stale, Explained
<1>2. CASE Tick \/ UNCHANGED vars
  BY <1>1, <1>2 DEF Tick, vars, Tables, History
<1>3. CASE Restart
  BY <1>3, RestartExplained
<1>4. ASSUME NEW p \in Requests,
             \/ ArriveLimited(p) \/ ArriveWithCode(p) \/ ArriveSignedIn(p) \/ IssueCode(p) \/ Bump(p)
             \/ Find(p) \/ ReadCode(p) \/ RequireUser(p) \/ ReadHash(p) \/ ReadAccount(p)
             \/ RequireAdmin(p) \/ ReadTarget(p)
      PROVE  StillEnded'
  BY <1>4, PlainExplained
<1>5. ASSUME NEW p \in Requests,
             \/ InsertUser(p) \/ ConfirmAddress(p) \/ SetPassword(p) \/ PatchUser(p) \/ Discard(p)
             \/ EndAll(p) \/ EndOthers(p) \/ Logout(p) \/ RemoveUser(p) \/ OpenSession(p) \/ Fail(p)
      PROVE  StillEnded'
  BY <1>5, InsertExplained, ConfirmExplained, SetPasswordExplained, PatchExplained, DiscardExplained,
     EndExplained, OpenExplained, FailExplained
<1>6. QED
  BY <1>2, <1>3, <1>4, <1>5 DEF Next

\* Whoever is still signed in after the password changed or the account was suspended
\* is explained: by what the session was opened on, by a request that has yet to end it
\* (passwordReset.ts:59-61, admin.ts:176), or by one that was cut short between the two.
THEOREM StaleSessionsStayExplained == Spec => []StaleSessionsExplained
<1>1. Init => AllOwn /\ StillEnded
  <2>1. ASSUME Init PROVE AllOwn
    BY <2>1, AccountsAssumption DEF Init, AllOwn, OwnSession, Blank
  <2>2. ASSUME Init PROVE StillEnded
    <3>1. SUFFICES ASSUME NEW s \in DOMAIN sessions PROVE ~Stale(s)
      BY DEF StillEnded
    <3>2. Open[s].user \in DOMAIN Known /\ Open[s].proof = 0
      BY <2>2, <3>1, AccountsAssumption DEF Init
    <3>3. QED
      BY <2>2, <3>2, AccountsAssumption DEF Init, Stale
  <2>3. QED
    BY <2>1, <2>2
<1>2. IInv /\ AllOwn /\ StillEnded /\ [Next]_vars => AllOwn' /\ StillEnded'
  BY OwnStays, StillEndedStays
<1>3. StillEnded => StaleSessionsExplained
  BY DEF StillEnded, Stale, Explained, Ends, StaleSessionsExplained
<1>4. QED
  BY <1>1, <1>2, <1>3, AccountsInvariant, PTL DEF Spec

-----------------------------------------------------------------------------
\* The requests that have compared the code of u and have still to charge the try.
Charging(k, u) ==
  {p \in Requests : req[p].pc = "bump" /\ req[p].user = u /\ KindOf(req[p].op) = k}

\* Each of them counts as a try already.
Charges ==
  \A k \in Kinds : \A u \in DOMAIN codes[k] :
    codes[k][u].attempts + Cardinality(Charging(k, u)) < MaxAttempts + Cardinality(Requests)

\* Sets of requests are counted in natural numbers.
LEMMA Counted ==
  ASSUME NEW T \in SUBSET Requests
  PROVE  /\ IsFiniteSet(T) /\ Cardinality(T) \in Nat
         /\ Cardinality(Requests) \in Nat \ {0}
         /\ Cardinality(T) <= Cardinality(Requests)
         /\ \A p \in Requests \ T : Cardinality(T) < Cardinality(Requests)
         /\ \A U \in SUBSET T : Cardinality(U) \in Nat /\ Cardinality(U) <= Cardinality(T)
         /\ \A U \in SUBSET T, p \in T : p \notin U => Cardinality(U) < Cardinality(T)
<1>1. IsFiniteSet(Requests) /\ Requests # {}
  BY AccountsAssumption
<1>2. IsFiniteSet(T) /\ Cardinality(T) <= Cardinality(Requests)
  BY <1>1, FS_Subset
<1>3. Cardinality(T) \in Nat /\ Cardinality(Requests) \in Nat
  BY <1>1, <1>2, FS_CardinalityType
<1>4. Cardinality(Requests) # 0
  BY <1>1, FS_EmptySet
<1>5. ASSUME NEW p \in Requests \ T
      PROVE  Cardinality(T) < Cardinality(Requests)
  <2>1. Cardinality(T) # Cardinality(Requests)
    BY <1>1, <1>5, FS_Subset
  <2>2. QED
    BY <1>2, <1>3, <2>1
<1>6. ASSUME NEW U \in SUBSET T
      PROVE  Cardinality(U) \in Nat /\ Cardinality(U) <= Cardinality(T)
  BY <1>2, FS_Subset, FS_CardinalityType
<1>7. ASSUME NEW U \in SUBSET T, NEW p \in T, p \notin U
      PROVE  Cardinality(U) < Cardinality(T)
  <2>1. Cardinality(T) # Cardinality(U)
    BY <1>2, <1>7, FS_Subset
  <2>2. QED
    BY <1>3, <1>6, <2>1
<1>8. QED
  BY <1>2, <1>3, <1>4, <1>5, <1>6, <1>7

LEMMA ChargingOthers ==
  ASSUME IInv, NEW p \in Requests, NEW q, Become(p, q) \/ Commit(p, q), NEW k, NEW u
  PROVE  /\ Charging(k, u)' \ {p} \subseteq Charging(k, u) \ {p}
         /\ p \in Charging(k, u)' => q.pc = "bump" /\ q.user = u /\ KindOf(q.op) = k
BY OthersWait DEF Charging

\* No code is tried more often than before, and nobody else is about to charge one.
LEMMA ChargesKept ==
  ASSUME IInv, Charges,
         \A k \in Kinds : \A u \in DOMAIN codes'[k] :
           /\ u \in DOMAIN codes[k] /\ codes'[k][u].attempts = codes[k][u].attempts
           /\ Charging(k, u)' \subseteq Charging(k, u)
  PROVE  Charges'
<1>1. SUFFICES ASSUME NEW k \in Kinds, NEW u \in DOMAIN codes'[k]
      PROVE  codes'[k][u].attempts + Cardinality(Charging(k, u)') < MaxAttempts + Cardinality(Requests)
  BY DEF Charges
<1>2. Charging(k, u) \in SUBSET Requests
  BY DEF Charging
<1>3. /\ Cardinality(Charging(k, u)') <= Cardinality(Charging(k, u))
      /\ Cardinality(Charging(k, u)') \in Nat /\ Cardinality(Charging(k, u)) \in Nat
      /\ Cardinality(Requests) \in Nat
  BY <1>2, Counted
<1>4. codes[k][u].attempts \in Nat /\ MaxAttempts \in Nat
  BY AccountsAssumption DEF IInv, TypeOK, CodeRow
<1>5. codes[k][u].attempts + Cardinality(Charging(k, u)) < MaxAttempts + Cardinality(Requests)
  BY DEF Charges
<1>6. QED
  BY <1>3, <1>4, <1>5

\* Everything but a wrong try and a new code.
LEMMA PlainCharges ==
  ASSUME IInv, Charges, NEW p \in Requests, NEW q, Become(p, q) \/ Commit(p, q), q.pc # "bump",
         \A k \in Kinds : \A u \in DOMAIN codes'[k] : u \in DOMAIN codes[k] /\ codes'[k][u] = codes[k][u]
  PROVE  Charges'
<1>1. ASSUME NEW k \in Kinds, NEW u \in DOMAIN codes'[k]
      PROVE  Charging(k, u)' \subseteq Charging(k, u)
  BY ChargingOthers
<1>2. QED
  BY <1>1, ChargesKept

\* MAX_ATTEMPTS is compared here.
LEMMA ReadCodeCharges ==
  ASSUME IInv, Charges, NEW p \in Requests, ReadCode(p)
  PROVE  Charges'
<1>1. PICK r \in Request : r = req[p]
  BY Held
<1> DEFINE K == KindOf(r.op)
<1>2. UNCHANGED codes
  BY DEF ReadCode, Tables
<1>3. CASE \E q : Become(p, q) /\ q.pc # "bump"
  BY <1>2, <1>3, PlainCharges
<1>4. CASE ~\E q : Become(p, q) /\ q.pc # "bump"
  <2>1. Blank.pc # "bump"
    BY DEF Blank
  <2>2. \A c, pc : pc \in {"confirm", "setPassword"} => [r EXCEPT !.pc = pc, !.code = c].pc # "bump"
    BY DEF Request
  <2>3. /\ Become(p, [r EXCEPT !.pc = "bump"]) /\ r.user \in DOMAIN codes[K]
        /\ ~Exhausted(codes[K][r.user])
    BY <1>1, <1>4, <2>1, <2>2 DEF ReadCode, Finish
  <2>4. PICK q : q = [r EXCEPT !.pc = "bump"]
    OBVIOUS
  <2>5. Become(p, q) /\ q.user = r.user /\ q.op = r.op /\ KindOf(q.op) = K
    BY <2>3, <2>4 DEF Request
  <2>6. SUFFICES ASSUME NEW k \in Kinds, NEW u \in DOMAIN codes[k]
        PROVE  codes[k][u].attempts + Cardinality(Charging(k, u)') < MaxAttempts + Cardinality(Requests)
    BY <1>2 DEF Charges
  <2>7. codes[k][u].attempts \in Nat /\ MaxAttempts \in Nat
    BY AccountsAssumption DEF IInv, TypeOK, CodeRow
  <2>8. CASE k = K /\ u = r.user
    <3>1. codes[k][u].attempts < MaxAttempts
      BY <2>3, <2>7, <2>8 DEF Exhausted
    <3>2. Charging(k, u)' \in SUBSET Requests
      BY DEF Charging
    <3>3. /\ Cardinality(Charging(k, u)') <= Cardinality(Requests)
          /\ Cardinality(Charging(k, u)') \in Nat /\ Cardinality(Requests) \in Nat
      BY <3>2, Counted
    <3>4. QED
      BY <2>7, <3>1, <3>3
  <2>9. CASE ~(k = K /\ u = r.user)
    <3>1. p \notin Charging(k, u)'
      BY <2>5, <2>9, ChargingOthers
    <3>2. Charging(k, u)' \subseteq Charging(k, u)
      BY <2>5, <3>1, ChargingOthers
    <3>3. Charging(k, u) \in SUBSET Requests
      BY DEF Charging
    <3>4. /\ Cardinality(Charging(k, u)') <= Cardinality(Charging(k, u))
          /\ Cardinality(Charging(k, u)') \in Nat /\ Cardinality(Charging(k, u)) \in Nat
          /\ Cardinality(Requests) \in Nat
      BY <3>2, <3>3, Counted
    <3>5. codes[k][u].attempts + Cardinality(Charging(k, u)) < MaxAttempts + Cardinality(Requests)
      BY DEF Charges
    <3>6. QED
      BY <2>7, <3>4, <3>5
  <2>10. QED
    BY <2>8, <2>9
<1>5. QED
  BY <1>3, <1>4

\* The try that was announced is charged, to whatever code is there now.
LEMMA BumpCharges ==
  ASSUME IInv, Charges, NEW p \in Requests, Bump(p)
  PROVE  Charges'
<1>1. PICK r \in Request : r = req[p]
  BY Held
<1> DEFINE K == KindOf(r.op)
<1>2. /\ Become(p, Blank) /\ r.pc = "bump"
      /\ codes' = [codes EXCEPT ![K] = Charged(@, r.user)]
  BY <1>1 DEF Bump, Finish
<1>3. K \in Kinds /\ Blank.pc # "bump" /\ DOMAIN codes = Kinds
  BY DEF KindOf, Kinds, Blank, IInv, TypeOK
<1>4. PICK q : q = Blank
  OBVIOUS
<1>5. SUFFICES ASSUME NEW k \in Kinds, NEW u \in DOMAIN codes'[k]
      PROVE  codes'[k][u].attempts + Cardinality(Charging(k, u)') < MaxAttempts + Cardinality(Requests)
  BY DEF Charges
<1>6. Charging(k, u) \in SUBSET Requests /\ p \notin Charging(k, u)' /\ Charging(k, u)' \subseteq Charging(k, u)
  <2>1. p \notin Charging(k, u)'
    BY <1>2, <1>3, <1>4, ChargingOthers
  <2>2. Charging(k, u)' \subseteq Charging(k, u)
    BY <1>2, <1>4, <2>1, ChargingOthers
  <2>3. QED
    BY <2>1, <2>2 DEF Charging
<1>7. /\ Cardinality(Charging(k, u)') \in Nat /\ Cardinality(Charging(k, u)) \in Nat
      /\ Cardinality(Charging(k, u)') <= Cardinality(Charging(k, u))
      /\ Cardinality(Requests) \in Nat
      /\ p \in Charging(k, u) => Cardinality(Charging(k, u)') < Cardinality(Charging(k, u))
  BY <1>6, Counted
<1>8. u \in DOMAIN codes[k] /\ codes[k][u] \in CodeRow
  BY <1>2, <1>3 DEF Charged, IInv, TypeOK
<1>9. codes[k][u].attempts + Cardinality(Charging(k, u)) < MaxAttempts + Cardinality(Requests)
  BY <1>8 DEF Charges
<1>10. codes[k][u].attempts \in Nat /\ MaxAttempts \in Nat
  BY <1>8, AccountsAssumption DEF CodeRow
<1>11. CASE k = K /\ u = r.user
  <2>1. codes'[k][u] = [codes[k][u] EXCEPT !.attempts = @ + 1]
    BY <1>2, <1>3, <1>8, <1>11 DEF Charged
  <2>2. codes'[k][u].attempts = codes[k][u].attempts + 1
    BY <1>8, <2>1 DEF CodeRow
  <2>3. p \in Charging(k, u)
    BY <1>1, <1>2, <1>11 DEF Charging
  <2>4. QED
    BY <1>7, <1>9, <1>10, <2>2, <2>3
<1>12. CASE ~(k = K /\ u = r.user)
  <2>1. codes'[k][u] = codes[k][u]
    BY <1>2, <1>3, <1>8, <1>12 DEF Charged
  <2>2. QED
    BY <1>7, <1>9, <1>10, <2>1
<1>13. QED
  BY <1>11, <1>12

\* A new code starts afresh, whoever has still to charge the one before.
LEMMA IssueCharges ==
  ASSUME IInv, Charges, NEW p \in Requests, IssueCode(p)
  PROVE  Charges'
<1>1. PICK r \in Request : r = req[p]
  BY Held
<1>2. Become(p, Blank) /\ Blank.pc # "bump"
  BY DEF IssueCode, Finish, Blank
<1>3. CASE UNCHANGED codes
  <2>1. PICK q : q = Blank
    OBVIOUS
  <2>2. QED
    BY <1>2, <1>3, <2>1, PlainCharges
<1>4. CASE ~UNCHANGED codes
  <2> DEFINE K == KindOf(r.op)
             row == [code |-> serial + 1, attempts |-> 0, expires |-> now + CodeTtl]
  <2>1. codes' = [codes EXCEPT ![K] = Put(@, r.user, row)]
    BY <1>1, <1>4 DEF IssueCode
  <2>2. K \in Kinds /\ DOMAIN codes = Kinds /\ row.attempts = 0
    BY DEF KindOf, Kinds, IInv, TypeOK
  <2> HIDE DEF row
  <2>3. SUFFICES ASSUME NEW k \in Kinds, NEW u \in DOMAIN codes'[k]
        PROVE  codes'[k][u].attempts + Cardinality(Charging(k, u)') < MaxAttempts + Cardinality(Requests)
    BY DEF Charges
  <2>4. Charging(k, u) \in SUBSET Requests /\ p \notin Charging(k, u)' /\ Charging(k, u)' \subseteq Charging(k, u)
    <3>1. PICK q : q = Blank
      OBVIOUS
    <3>2. p \notin Charging(k, u)'
      BY <1>2, <3>1, ChargingOthers
    <3>3. Charging(k, u)' \subseteq Charging(k, u)
      BY <1>2, <3>1, <3>2, ChargingOthers
    <3>4. QED
      BY <3>2, <3>3 DEF Charging
  <2>5. /\ Cardinality(Charging(k, u)') \in Nat /\ Cardinality(Charging(k, u)) \in Nat
        /\ Cardinality(Charging(k, u)') <= Cardinality(Charging(k, u))
        /\ Cardinality(Requests) \in Nat
    BY <2>4, Counted
  <2>6. Cardinality(Charging(k, u)') < Cardinality(Requests) /\ MaxAttempts \in Nat
    <3>1. Charging(k, u)' \in SUBSET Requests
      BY <2>4
    <3>2. QED
      BY <2>4, <3>1, Counted, AccountsAssumption
  <2>7. CASE k = K /\ u = r.user
    <3>1. codes'[k][u] = row
      BY <2>1, <2>2, <2>7 DEF Put
    <3>2. QED
      BY <2>2, <2>5, <2>6, <3>1
  <2>8. CASE ~(k = K /\ u = r.user)
    <3>1. u \in DOMAIN codes[k] /\ codes'[k][u] = codes[k][u]
      BY <2>1, <2>2, <2>8 DEF Put
    <3>2. codes[k][u].attempts \in Nat
      BY <3>1 DEF IInv, TypeOK, CodeRow
    <3>3. codes[k][u].attempts + Cardinality(Charging(k, u)) < MaxAttempts + Cardinality(Requests)
      BY <3>1 DEF Charges
    <3>4. QED
      BY <2>5, <2>6, <3>1, <3>2, <3>3
  <2>9. QED
    BY <2>7, <2>8
<1>5. QED
  BY <1>3, <1>4

\* Only readCode announces a try.
LEMMA OnlyReadCode ==
  ASSUME NEW r, NEW q, Continues(r, q), r.pc # "readCode"
  PROVE  q.pc # "bump"
BY DEF Continues, Edges, Blank

LEMMA ChargesStay ==
  ASSUME IInv, Charges, [Next]_vars
  PROVE  Charges'
<1>1. CASE UNCHANGED vars \/ Tick
  <2>1. UNCHANGED <<codes, req>>
    BY <1>1 DEF vars, Tick, Tables
  <2>2. \A k, u : Charging(k, u)' = Charging(k, u)
    BY <2>1 DEF Charging
  <2>3. QED
    BY <2>1, <2>2, ChargesKept
<1>2. CASE Restart
  <2>1. UNCHANGED codes /\ req' = [x \in Requests |-> Blank] /\ Blank.pc # "bump"
    BY <1>2 DEF Restart, Tables, Blank
  <2>2. \A k, u : Charging(k, u)' = {}
    BY <2>1 DEF Charging
  <2>3. QED
    BY <2>1, <2>2, ChargesKept
<1>3. ASSUME NEW p \in Requests,
             \/ ArriveLimited(p) \/ ArriveWithCode(p) \/ ArriveSignedIn(p)
             \/ InsertUser(p) \/ Find(p) \/ ConfirmAddress(p) \/ SetPassword(p) \/ Discard(p)
             \/ EndAll(p) \/ OpenSession(p) \/ RequireUser(p) \/ Logout(p) \/ ReadHash(p)
             \/ EndOthers(p) \/ ReadAccount(p) \/ RemoveUser(p) \/ RequireAdmin(p)
             \/ ReadTarget(p) \/ PatchUser(p)
      PROVE  Charges'
  <2>1. PICK q : (Become(p, q) \/ Commit(p, q)) /\ Continues(req[p], q)
    BY <1>3, ActorContinues DEF Acts
  <2>2. req[p].pc # "readCode"
    BY <1>3 DEF ArriveLimited, ArriveWithCode, ArriveSignedIn, Arrive, InsertUser, Find,
         ConfirmAddress, SetPassword, Discard, EndAll, OpenSession, RequireUser, Logout, ReadHash,
         EndOthers, ReadAccount, RemoveUser, RequireAdmin, ReadTarget, PatchUser
  <2>3. \A k \in Kinds : \A u \in DOMAIN codes'[k] : u \in DOMAIN codes[k] /\ codes'[k][u] = codes[k][u]
    <3>1. CASE Discard(p)
      BY <3>1 DEF Discard, Drop, IInv, TypeOK
    <3>2. CASE RemoveUser(p)
      BY <3>2 DEF RemoveUser, Drop
    <3>3. CASE \/ Find(p) \/ RequireUser(p) \/ ReadHash(p) \/ ReadAccount(p) \/ RequireAdmin(p) \/ ReadTarget(p)
      BY <3>3, ReadStep DEF Tables
    <3>4. CASE \/ ArriveLimited(p) \/ ArriveWithCode(p) \/ ArriveSignedIn(p)
               \/ InsertUser(p) \/ ConfirmAddress(p) \/ SetPassword(p)
               \/ EndAll(p) \/ OpenSession(p) \/ Logout(p) \/ EndOthers(p) \/ PatchUser(p)
      BY <3>4 DEF ArriveLimited, ArriveWithCode, ArriveSignedIn, Arrive, InsertUser, ConfirmAddress,
           SetPassword, EndAll, OpenSession, Logout, EndOthers, PatchUser, Tables
    <3>5. QED
      BY <1>3, <3>1, <3>2, <3>3, <3>4
  <2>4. q.pc # "bump"
    BY <2>1, <2>2, OnlyReadCode
  <2>5. QED
    BY <2>1, <2>3, <2>4, PlainCharges
<1>4. ASSUME NEW p \in Requests, Fail(p)
      PROVE  Charges'
  <2>1. PICK q : q = Blank
    OBVIOUS
  <2>2. Become(p, q) /\ UNCHANGED codes /\ q.pc # "bump"
    BY <1>4, <2>1 DEF Fail, Finish, Tables, Blank
  <2>3. QED
    BY <2>2, PlainCharges
<1>5. ASSUME NEW p \in Requests, ReadCode(p) \/ Bump(p) \/ IssueCode(p)
      PROVE  Charges'
  BY <1>5, ReadCodeCharges, BumpCharges, IssueCharges
<1>6. QED
  BY <1>1, <1>2, <1>3, <1>4, <1>5 DEF Next

\* A code takes fewer wrong tries than MAX_ATTEMPTS and the requests in flight together:
\* comparing in one statement and counting in another (verification.ts:75) costs no more.
THEOREM AttemptsStayBounded == Spec => []AttemptsBounded
<1>1. Init => Charges
  <2>1. SUFFICES ASSUME Init, NEW k \in Kinds, NEW u \in DOMAIN codes[k]
        PROVE  codes[k][u].attempts + Cardinality(Charging(k, u)) < MaxAttempts + Cardinality(Requests)
    BY DEF Charges
  <2>2. codes[k][u].attempts = 0
    BY <2>1 DEF Init
  <2>3. Charging(k, u) = {}
    BY <2>1 DEF Init, Charging, Blank
  <2>4. Cardinality(Charging(k, u)) = 0 /\ Cardinality(Requests) \in Nat \ {0} /\ MaxAttempts \in Nat
    BY <2>3, FS_EmptySet, Counted, AccountsAssumption
  <2>5. QED
    BY <2>2, <2>4
<1>2. IInv /\ Charges /\ [Next]_vars => Charges'
  BY ChargesStay
<1>3. IInv /\ Charges => AttemptsBounded
  <2>1. SUFFICES ASSUME IInv, Charges, NEW k \in Kinds, NEW u \in DOMAIN codes[k]
        PROVE  codes[k][u].attempts < MaxAttempts + Cardinality(Requests)
    BY DEF AttemptsBounded
  <2>2. codes[k][u].attempts + Cardinality(Charging(k, u)) < MaxAttempts + Cardinality(Requests)
    BY <2>1 DEF Charges
  <2>3. Charging(k, u) \in SUBSET Requests
    BY DEF Charging
  <2>4. /\ codes[k][u].attempts \in Nat /\ Cardinality(Charging(k, u)) \in Nat
        /\ MaxAttempts \in Nat /\ Cardinality(Requests) \in Nat
    BY <2>1, <2>3, Counted, AccountsAssumption DEF IInv, TypeOK, CodeRow
  <2>5. QED
    BY <2>2, <2>4
<1>4. QED
  BY <1>1, <1>2, <1>3, AccountsInvariant, PTL DEF Spec

-----------------------------------------------------------------------------
\* What an administrator's request counts on, until another changes an account.
Vouched(q) ==
  /\ q.pc \in {"target", "patch"} /\ ~q.raced =>
       q.user \in DOMAIN users /\ users[q.user].role = "admin"
  /\ q.pc = "patch" => ~RefusesSelf(q, q.target, q.body)

AllVouched == \A p \in Requests : Vouched(req[p])

\* Whoever changes an account says so to the others.
LEMMA ChangeTold ==
  ASSUME IInv, NEW p \in Requests, Acts(p)
  PROVE  UNCHANGED users \/ \A x \in Requests \ {p} : req'[x].raced \/ req[x].pc = "idle"
<1>1. CASE \/ Find(p) \/ ReadCode(p) \/ RequireUser(p) \/ ReadHash(p) \/ ReadAccount(p)
           \/ RequireAdmin(p) \/ ReadTarget(p)
  BY <1>1, ReadStep DEF Tables
<1>2. CASE \/ ArriveLimited(p) \/ ArriveWithCode(p) \/ ArriveSignedIn(p) \/ IssueCode(p) \/ Bump(p)
           \/ Discard(p) \/ EndAll(p) \/ OpenSession(p) \/ Logout(p) \/ EndOthers(p) \/ Fail(p)
  BY <1>2 DEF ArriveLimited, ArriveWithCode, ArriveSignedIn, Arrive, IssueCode, Bump, Discard, EndAll,
       OpenSession, Logout, EndOthers, Fail, Tables, History
<1>3. CASE InsertUser(p) \/ ConfirmAddress(p) \/ SetPassword(p) \/ RemoveUser(p) \/ PatchUser(p)
  <2>1. UNCHANGED users \/ \E q : Commit(p, q)
    BY <1>3 DEF InsertUser, ConfirmAddress, SetPassword, RemoveUser, PatchUser
  <2>2. QED
    BY <2>1, OthersWait
<1>4. QED
  BY <1>1, <1>2, <1>3 DEF Acts

\* requireAdmin has looked, and refusing oneself is decided before the row is written.
LEMMA ActorVouched ==
  ASSUME IInv, NEW p \in Requests, Vouched(req[p]), Acts(p)
  PROVE  Vouched(req[p])'
<1>1. PICK r \in Request : r = req[p]
  BY Held
<1>2. CASE RequireAdmin(p) \/ ReadTarget(p)
  <2>1. CASE Become(p, Blank)
    <3>1. PICK q : q = Blank
      OBVIOUS
    <3>2. req'[p] = Blank
      BY <2>1, <3>1, OthersWait
    <3>3. QED
      BY <3>2 DEF Vouched, Blank
  <2>2. CASE RequireAdmin(p) /\ ~Become(p, Blank)
    <3>1. /\ Become(p, [r EXCEPT !.pc = "target"]) /\ UNCHANGED users
          /\ r.user \in DOMAIN users /\ users[r.user].role = "admin"
      BY <1>1, <2>2 DEF RequireAdmin, Finish, Tables
    <3>2. PICK q : q = [r EXCEPT !.pc = "target"]
      OBVIOUS
    <3>3. req'[p] = q /\ q.user = r.user /\ q.pc = "target"
      BY <3>1, <3>2, OthersWait DEF Request
    <3>4. QED
      BY <3>1, <3>3 DEF Vouched
  <2>3. CASE ReadTarget(p) /\ ~Become(p, Blank)
    <3>1. PICK u, b : /\ Become(p, [r EXCEPT !.pc = "patch", !.target = u, !.body = b]) /\ UNCHANGED users
                      /\ ~RefusesSelf(r, u, b) /\ r.pc = "target"
      BY <1>1, <2>3 DEF ReadTarget, Finish, Tables
    <3>2. PICK q : q = [r EXCEPT !.pc = "patch", !.target = u, !.body = b]
      OBVIOUS
    <3>3. /\ req'[p] = q /\ q.user = r.user /\ q.pc = "patch" /\ q.raced = r.raced
          /\ q.target = u /\ q.body = b
      BY <3>1, <3>2, OthersWait DEF Request
    <3>4. ~RefusesSelf(q, q.target, q.body)
      BY <3>1, <3>3 DEF RefusesSelf
    <3>5. QED
      BY <1>1, <3>1, <3>3, <3>4 DEF Vouched, RefusesSelf
  <2>4. QED
    BY <1>2, <2>1, <2>2, <2>3
<1>3. CASE ~(RequireAdmin(p) \/ ReadTarget(p))
  <2>1. PICK q : (Become(p, q) \/ Commit(p, q)) /\ Continues(r, q)
    BY <1>1, ActorContinues
  <2>2. q = Blank \/ r.pc \notin {"isAdmin", "target"}
    <3>1. CASE Fail(p)
      <4>1. PICK b : b = Blank
        OBVIOUS
      <4>2. req'[p] = Blank
        BY <3>1, <4>1, OthersWait DEF Fail, Finish
      <4>3. QED
        BY <2>1, <4>2, OthersWait
    <3>2. CASE ~Fail(p)
      BY <1>1, <1>3, <3>2 DEF Acts, ArriveLimited, ArriveWithCode, ArriveSignedIn, Arrive, InsertUser,
           IssueCode, Find, ReadCode, Bump, ConfirmAddress, SetPassword, Discard, EndAll, OpenSession,
           RequireUser, Logout, ReadHash, EndOthers, ReadAccount, RemoveUser, PatchUser
    <3>3. QED
      BY <3>1, <3>2
  <2>3. q.pc \notin {"target", "patch"}
    BY <2>1, <2>2 DEF Continues, Edges, Blank
  <2>4. req'[p] = q
    BY <2>1, OthersWait
  <2>5. QED
    BY <2>3, <2>4 DEF Vouched
<1>4. QED
  BY <1>2, <1>3

LEMMA VouchedStays ==
  ASSUME IInv, AllVouched, [Next]_vars
  PROVE  AllVouched'
<1>1. CASE UNCHANGED vars \/ Tick
  BY <1>1 DEF vars, Tick, Tables, AllVouched, Vouched, RefusesSelf
<1>2. CASE Restart
  BY <1>2 DEF Restart, AllVouched, Vouched, Blank
<1>3. ASSUME NEW p \in Requests, Acts(p)
      PROVE  AllVouched'
  <2>1. SUFFICES ASSUME NEW x \in Requests PROVE Vouched(req[x])'
    BY DEF AllVouched
  <2>2. CASE x = p
    BY <1>3, <2>2, ActorVouched DEF AllVouched
  <2>3. CASE x # p
    <3>1. PICK q : Become(p, q) \/ Commit(p, q)
      BY <1>3, ActorContinues
    <3>2. /\ req'[x].pc = req[x].pc /\ req'[x].user = req[x].user
          /\ req'[x].target = req[x].target /\ req'[x].body = req[x].body
          /\ req'[x].raced \/ req[x].pc = "idle" \/ req'[x] = req[x]
      BY <2>3, <3>1, OthersWait
    <3>3. UNCHANGED users \/ req'[x].raced \/ req[x].pc = "idle"
      BY <1>3, <2>3, ChangeTold
    <3>4. Vouched(req[x])
      BY DEF AllVouched
    <3>5. QED
      BY <3>2, <3>3, <3>4 DEF Vouched, RefusesSelf
  <2>4. QED
    BY <2>2, <2>3
<1>4. QED
  BY <1>1, <1>2, <1>3 DEF Next, Acts

\* A PATCH on an account nobody else has changed leaves its sender an administrator.
LEMMA PatchKeepsSender ==
  ASSUME IInv, AllVouched, NEW p \in Requests, PatchUser(p), ~req[p].raced
  PROVE  users'[req[p].user].role = "admin"
<1>1. PICK r \in Request : r = req[p]
  BY Held
<1> DEFINE a(row) == IF r.body.role = None THEN row.role ELSE r.body.role
           b(row) == IF r.body.suspended = None THEN row.suspended ELSE r.body.suspended
<1>2. users' = [u \in DOMAIN users |-> IF u # r.target THEN users[u]
                  ELSE [users[u] EXCEPT !.role = a(users[u]), !.suspended = b(users[u])]]
  BY <1>1 DEF PatchUser
<1>3. r.pc = "patch" /\ r.user \in DOMAIN users /\ users[r.user].role = "admin"
      /\ ~RefusesSelf(r, r.target, r.body)
  BY <1>1 DEF PatchUser, AllVouched, Vouched
<1>4. CASE r.user # r.target
  BY <1>1, <1>2, <1>3, <1>4
<1>5. CASE r.user = r.target
  <2>1. r.body.role # "user" /\ r.body.role \in {"user", "admin", None}
    BY <1>3, <1>5 DEF RefusesSelf, Request, Bodies
  <2>2. \A row \in UserRow : [row EXCEPT !.role = a(row), !.suspended = b(row)].role = a(row)
    BY DEF UserRow
  <2>3. users'[r.user].role = a(users[r.user])
    BY <1>2, <1>3, <1>5, <2>2, Held
  <2>4. QED
    BY <1>1, <1>3, <2>1, <2>3
<1>6. QED
  BY <1>4, <1>5

\* There is always a way back: whoever demotes or suspends others remains what they are
\* (admin.ts:139-153), unless another request changed an account meanwhile.
THEOREM AdministratorsStay == Spec => AdministratorStays
<1> DEFINE A == \A p \in Requests :
                  req[p].pc = "patch" /\ req'[p].pc # "patch" /\ cut' = cut /\ users' # users
                    /\ ~req[p].raced => users'[req[p].user].role = "admin"
<1>1. Init => AllVouched
  BY DEF Init, AllVouched, Vouched, Blank
<1>2. IInv /\ AllVouched /\ [Next]_vars => AllVouched'
  BY VouchedStays
<1>3. IInv /\ AllVouched /\ [Next]_vars => [A]_vars
  <2>1. SUFFICES ASSUME IInv, AllVouched, Next, NEW p \in Requests,
                        req[p].pc = "patch", req'[p].pc # "patch", users' # users, ~req[p].raced
                 PROVE  users'[req[p].user].role = "admin"
    OBVIOUS
  <2>2. PICK x \in Requests : Acts(x)
    BY <2>1 DEF Next, Acts, Restart, Tick, Tables
  <2>3. x = p
    <3>1. PICK q : Become(x, q) \/ Commit(x, q)
      BY <2>1, <2>2, ActorContinues
    <3>2. QED
      BY <2>1, <3>1, OthersWait
  <2>4. PatchUser(p)
    BY <2>1, <2>2, <2>3 DEF Acts, ArriveLimited, ArriveWithCode, ArriveSignedIn, Arrive, InsertUser,
         IssueCode, Find, ReadCode, Bump, ConfirmAddress, SetPassword, Discard, EndAll, OpenSession,
         RequireUser, Logout, ReadHash, EndOthers, ReadAccount, RemoveUser, RequireAdmin, ReadTarget,
         Fail, Tables
  <2>5. QED
    BY <2>1, <2>4, PatchKeepsSender
<1>4. QED
  BY <1>1, <1>2, <1>3, AccountsInvariant, PTL DEF Spec, AdministratorStays
=============================================================================
