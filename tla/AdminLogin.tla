----------------------------- MODULE AdminLogin -----------------------------
(* The administrator's sign-in: Auth (internal/web/auth.go) with its copy of   *)
(* the password hash and its set of live sessions, loginGuard and loginBudget, *)
(* handleLogin, and the password change of handlers/system.go.                 *)
(*                                                                             *)
(* A login attempt names the session it opens.  Hashes are the passwords they  *)
(* match: bcrypt.CompareHashAndPassword succeeds exactly on equal values.      *)
(* Every critical section is one step; bcrypt runs between two of them.        *)
EXTENDS Integers, Sequences

CONSTANTS
    Logins,           \* login attempts, and the sessions they open
    PasswordChanges,          \* password-change requests
    LoginClients,          \* client addresses
    Passwords,        \* passwords, and their hashes
    Nobody,           \* no session, address or password
    Threshold,        \* loginFailureThreshold
    LockoutBase,      \* loginLockoutBase
    LockoutMax,       \* loginLockoutMax
    IdleReset,        \* loginFailureIdleReset
    DurationBits,     \* width of a time.Duration
    BudgetFailures,   \* loginBudgetFailures
    BudgetWindow,     \* loginBudgetWindow
    BudgetSpacing,    \* loginBudgetSpacing
    BudgetMaxWait,    \* loginBudgetMaxWait
    MaxTime,          \* bound: the last instant of the clock
    MaxRestarts       \* bound: how often the process restarts

ASSUME LoginAssumption ==
    /\ Nobody \notin Logins \cup LoginClients \cup Passwords
    /\ {Threshold, LockoutBase, BudgetFailures, BudgetSpacing, DurationBits} \subseteq Nat \ {0}
    /\ {LockoutMax, IdleReset, BudgetWindow, BudgetMaxWait, MaxTime, MaxRestarts} \subseteq Nat
    /\ LockoutBase <= LockoutMax /\ LockoutMax <= IdleReset
    /\ LockoutMax < 2^(DurationBits - 1)

VARIABLES
    loginTime,    \* time.Now
    attempt,      \* per login: where handleLogin is, and what it has read
    passwordChange,       \* per password change: where HandleChangeWebPassword is
    sessions,     \* Auth.sessions
    authHash,     \* Auth.passwordHash
    cfgHash,      \* cfg.System.AdminPasswordHash
    savedHash,    \* the hash in router.yaml
    loginGuard,        \* loginGuard.clients
    budgetFailures,     \* loginBudget.failures
    nextSlot,     \* loginBudget.next
    loginRestarts,
    keptSession,         \* history: the session the last password change kept
    loginOverlap,   \* history: logins that were past VerifyPassword's read at it
    overtaken,    \* history: attempts past LockedFor when a lockout began
    slots,        \* history: the slots Reserve has handed out
    disturbed     \* history: a save failed, or two changes ran at once

credentials == <<sessions, authHash, cfgHash, savedHash>>
loginLimits == <<loginGuard, budgetFailures, nextSlot>>
loginHistory == <<keptSession, loginOverlap, overtaken, slots, disturbed>>
loginVars == <<loginTime, attempt, passwordChange, credentials, loginLimits, loginRestarts, loginHistory>>

NoRecord == [failures |-> 0, lockedUntil |-> 0, lastSeen |-> -1]
NoAttempt == [pc |-> "new", ip |-> Nobody, password |-> Nobody, seen |-> Nobody, slot |-> 0]
NoChange == [pc |-> "new", by |-> Nobody, new |-> Nobody]

LoginInit ==
    /\ loginTime = 0
    /\ attempt = [r \in Logins |-> NoAttempt]
    /\ passwordChange = [k \in PasswordChanges |-> NoChange]
    /\ sessions = {}
    /\ savedHash \in Passwords /\ authHash = savedHash /\ cfgHash = savedHash
    /\ loginGuard = [c \in LoginClients |-> NoRecord]
    /\ budgetFailures = << >> /\ nextSlot = 0
    /\ loginRestarts = 0
    /\ keptSession = Nobody /\ loginOverlap = {} /\ overtaken = {} /\ slots = {}
    /\ disturbed = FALSE

-----------------------------------------------------------------------------
(* loginGuard and loginBudget.                                                 *)

\* The value a signed integer of the given width holds.
Wrapped(n) ==
    LET half == 2^(DurationBits - 1)
        m == n % (2 * half)
    IN  IF m >= half THEN m - 2 * half ELSE m

\* The lockout a failure earns: the base, doubled per failure past the
\* threshold, at most the maximum, and the maximum once the shift overflows.
Lockout(count) ==
    LET shifted == Wrapped(LockoutBase * 2^(count - Threshold))
    IN  IF shifted > LockoutMax \/ shifted <= 0 THEN LockoutMax ELSE shifted

Known(c) == loginGuard[c] # NoRecord
LoginQuiet(c) == loginTime - loginGuard[c].lastSeen > IdleReset
Locked(c) == Known(c) /\ ~LoginQuiet(c) /\ loginGuard[c].lockedUntil > loginTime

\* The record RecordFailure leaves.
Failed(c) ==
    LET rec == IF ~Known(c) \/ LoginQuiet(c) THEN NoRecord ELSE loginGuard[c]
        n == rec.failures + 1
    IN  [failures |-> n, lastSeen |-> loginTime,
         lockedUntil |-> IF n < Threshold THEN rec.lockedUntil ELSE loginTime + Lockout(n)]

\* prune: failures are in order, the old ones in front.
Pruned == SelectSeq(budgetFailures, LAMBDA t : loginTime - t <= BudgetWindow)

\* The slot Reserve would start at once the budget is spent.
SlotStart == IF nextSlot > loginTime THEN nextSlot ELSE loginTime

-----------------------------------------------------------------------------
(* handleLogin.                                                                *)

\* handleLogin returns; what it read is gone, except the hash a session rests on.
Answered(r) == attempt' = [attempt EXCEPT ![r] = [NoAttempt EXCEPT !.pc = "done"]]

\* LockedFor: a quiet record is forgotten, a locked address is answered 429.
LockedFor(r, c, p) ==
    /\ attempt[r].pc = "new"
    /\ loginGuard' = [loginGuard EXCEPT ![c] = IF Known(c) /\ LoginQuiet(c) THEN NoRecord ELSE @]
    /\ IF Locked(c) THEN Answered(r)
       ELSE attempt' = [attempt EXCEPT ![r].pc = "checked", ![r].ip = c, ![r].password = p]
    /\ UNCHANGED <<loginTime, passwordChange, credentials, budgetFailures, nextSlot, loginRestarts, loginHistory>>

\* Reserve: free below the budget; past it every attempt gets a slot of its own,
\* or is refused when the slot is too far away.
Reserve(r) ==
    /\ attempt[r].pc = "checked"
    /\ budgetFailures' = Pruned
    /\ \/ /\ Len(Pruned) < BudgetFailures
          /\ attempt' = [attempt EXCEPT ![r].pc = "waiting", ![r].slot = loginTime]
          /\ UNCHANGED <<nextSlot, slots>>
       \/ /\ Len(Pruned) >= BudgetFailures /\ SlotStart - loginTime <= BudgetMaxWait
          /\ nextSlot' = SlotStart + BudgetSpacing
          /\ slots' = slots \cup {<<r, SlotStart>>}
          /\ attempt' = [attempt EXCEPT ![r].pc = "waiting", ![r].slot = SlotStart]
       \/ /\ Len(Pruned) >= BudgetFailures /\ SlotStart - loginTime > BudgetMaxWait
          /\ Answered(r)
          /\ UNCHANGED <<nextSlot, slots>>
    /\ UNCHANGED <<loginTime, passwordChange, credentials, loginGuard, loginRestarts,
                   keptSession, loginOverlap, overtaken, disturbed>>

\* The client gives up while awaitLoginBudget holds it.
GivesUp(r) ==
    /\ attempt[r].pc = "waiting" /\ attempt[r].slot > loginTime
    /\ Answered(r)
    /\ UNCHANGED <<loginTime, passwordChange, credentials, loginLimits, loginRestarts, loginHistory>>
AwaitLoginBudget(r) == Reserve(r) \/ GivesUp(r)

\* VerifyPassword reads the hash under the lock and compares after it.
VerifyRead(r) ==
    /\ attempt[r].pc = "waiting" /\ attempt[r].slot <= loginTime
    /\ attempt' = [attempt EXCEPT ![r].pc = "comparing", ![r].seen = authHash]
    /\ UNCHANGED <<loginTime, passwordChange, credentials, loginLimits, loginRestarts, loginHistory>>

\* A wrong password: loginBudget.RecordFailure, then loginGuard.RecordFailure.
\* Nobody reads both records at once, so the two updates are one step.
RecordFailure(r) ==
    LET c == attempt[r].ip
    IN  /\ attempt[r].pc = "comparing" /\ attempt[r].password # attempt[r].seen
        /\ budgetFailures' = Append(Pruned, loginTime)
        /\ loginGuard' = [loginGuard EXCEPT ![c] = Failed(c)]
        /\ overtaken' = IF Failed(c).lockedUntil <= loginTime THEN overtaken
                        ELSE overtaken \cup {q \in Logins : attempt[q].ip = c /\ attempt[q].pc \notin {"new", "done"}}
        /\ Answered(r)
        /\ UNCHANGED <<loginTime, passwordChange, credentials, nextSlot, loginRestarts,
                       keptSession, loginOverlap, slots, disturbed>>

\* The right password: RecordSuccess clears the address and Auth.Login adds the
\* session, or fails to write its cookie.
RecordSuccess(c) == loginGuard' = [loginGuard EXCEPT ![c] = NoRecord]
Login(r) ==
    /\ attempt[r].pc = "comparing" /\ attempt[r].password = attempt[r].seen
    /\ RecordSuccess(attempt[r].ip)
    /\ \/ /\ sessions' = sessions \cup {r}
          /\ attempt' = [attempt EXCEPT ![r] = [NoAttempt EXCEPT !.pc = "done", !.seen = attempt[r].seen]]
       \/ Answered(r) /\ UNCHANGED sessions
    /\ UNCHANGED <<loginTime, passwordChange, authHash, cfgHash, savedHash, budgetFailures, nextSlot,
                   loginRestarts, loginHistory>>

HandleLogin(r) ==
    \/ \E c \in LoginClients, p \in Passwords : LockedFor(r, c, p)
    \/ AwaitLoginBudget(r) \/ VerifyRead(r) \/ RecordFailure(r) \/ Login(r)

\* Auth.Logout.
Logout(r) ==
    /\ r \in sessions
    /\ sessions' = sessions \ {r}
    /\ Answered(r)
    /\ UNCHANGED <<loginTime, passwordChange, authHash, cfgHash, savedHash, loginLimits,
                   loginRestarts, loginHistory>>

\* The hourly sweep of loginGuard.
Sweep ==
    /\ \E c \in LoginClients : Known(c) /\ LoginQuiet(c) /\ loginTime > loginGuard[c].lockedUntil
    /\ loginGuard' = [c \in LoginClients |->
                    IF Known(c) /\ LoginQuiet(c) /\ loginTime > loginGuard[c].lockedUntil THEN NoRecord
                    ELSE loginGuard[c]]
    /\ UNCHANGED <<loginTime, attempt, passwordChange, credentials, budgetFailures, nextSlot,
                   loginRestarts, loginHistory>>

-----------------------------------------------------------------------------
(* HandleChangeWebPassword.  No lock spans it.                                 *)

Changing == {k \in PasswordChanges : passwordChange[k].pc \notin {"new", "done"}}

\* AuthRequired lets a live session in, and the current password is compared with
\* the hash in the config.
IsAuthenticated(s) == s \in sessions
CurrentPasswordMatches(current) == current = cfgHash
ChangeRequest(k, s, current, new) ==
    /\ passwordChange[k].pc = "new" /\ IsAuthenticated(s)
    /\ passwordChange' = [passwordChange EXCEPT ![k] = 
           IF CurrentPasswordMatches(current) THEN [pc |-> "hashed", by |-> s, new |-> new]
           ELSE [NoChange EXCEPT !.pc = "done"]]
    /\ disturbed' = (disturbed \/ (CurrentPasswordMatches(current) /\ Changing # {}))
    /\ UNCHANGED <<loginTime, attempt, credentials, loginLimits, loginRestarts,
                   keptSession, loginOverlap, overtaken, slots>>

ChangeConfig(k) ==
    /\ passwordChange[k].pc = "hashed"
    /\ cfgHash' = passwordChange[k].new
    /\ passwordChange' = [passwordChange EXCEPT ![k].pc = "changed"]
    /\ UNCHANGED <<loginTime, attempt, sessions, authHash, savedHash, loginLimits,
                   loginRestarts, loginHistory>>

\* SaveToFile writes the config as it is by then; a failure ends the request.
ChangeSave(k) ==
    /\ passwordChange[k].pc = "changed"
    /\ \/ /\ savedHash' = cfgHash
          /\ passwordChange' = [passwordChange EXCEPT ![k].pc = "saved"]
          /\ UNCHANGED disturbed
       \/ /\ passwordChange' = [passwordChange EXCEPT ![k] = [NoChange EXCEPT !.pc = "done"]]
          /\ disturbed' = TRUE
          /\ UNCHANGED savedHash
    /\ UNCHANGED <<loginTime, attempt, sessions, authHash, cfgHash, loginLimits, loginRestarts,
                   keptSession, loginOverlap, overtaken, slots>>

\* Variant: SetPasswordHash, which leaves the sessions alone.
ChangePasswordKeepsAll(k) ==
    /\ passwordChange[k].pc = "saved"
    /\ authHash' = passwordChange[k].new
    /\ passwordChange' = [passwordChange EXCEPT ![k] = [NoChange EXCEPT !.pc = "done"]]
    /\ keptSession' = passwordChange[k].by
    /\ loginOverlap' = {r \in Logins : attempt[r].pc = "comparing"}
    /\ UNCHANGED <<loginTime, attempt, sessions, cfgHash, savedHash, loginLimits, loginRestarts,
                   overtaken, slots, disturbed>>
\* passwordSink, which is Auth.ChangePassword.
ChangePassword(k) ==
    /\ passwordChange[k].pc = "saved"
    /\ authHash' = passwordChange[k].new
    /\ sessions' = sessions \cap {passwordChange[k].by}
    /\ passwordChange' = [passwordChange EXCEPT ![k] = [NoChange EXCEPT !.pc = "done"]]
    /\ keptSession' = passwordChange[k].by
    /\ loginOverlap' = {r \in Logins : attempt[r].pc = "comparing"}
    /\ UNCHANGED <<loginTime, attempt, cfgHash, savedHash, loginLimits, loginRestarts,
                   overtaken, slots, disturbed>>

HandleChangeWebPassword(k) ==
    \/ \E s \in Logins, current, new \in Passwords : ChangeRequest(k, s, current, new)
    \/ ChangeConfig(k) \/ ChangeSave(k) \/ ChangePassword(k)

\* Any other handler that saves the config.
OtherSave ==
    /\ savedHash # cfgHash
    /\ savedHash' = cfgHash
    /\ UNCHANGED <<loginTime, attempt, passwordChange, sessions, authHash, cfgHash, loginLimits,
                   loginRestarts, loginHistory>>

-----------------------------------------------------------------------------
(* The process and its clock.                                                  *)

\* A restart ends every request and session and reads router.yaml again.
LoginRestart ==
    /\ loginRestarts < MaxRestarts
    /\ loginRestarts' = loginRestarts + 1
    /\ attempt' = [r \in Logins |-> IF attempt[r].pc = "new" THEN NoAttempt ELSE [NoAttempt EXCEPT !.pc = "done"]]
    /\ passwordChange' = [k \in PasswordChanges |-> IF passwordChange[k].pc = "new" THEN NoChange ELSE [NoChange EXCEPT !.pc = "done"]]
    /\ sessions' = {} /\ authHash' = savedHash /\ cfgHash' = savedHash
    /\ loginGuard' = [c \in LoginClients |-> NoRecord] /\ budgetFailures' = << >> /\ nextSlot' = 0
    /\ overtaken' = {} /\ slots' = {} /\ keptSession' = Nobody /\ loginOverlap' = {}
    /\ disturbed' = FALSE
    /\ UNCHANGED <<loginTime, savedHash>>

LoginTick ==
    /\ loginTime < MaxTime
    /\ loginTime' = loginTime + 1
    /\ UNCHANGED <<attempt, passwordChange, credentials, loginLimits, loginRestarts, loginHistory>>

LoginNext ==
    \/ \E r \in Logins : HandleLogin(r) \/ Logout(r)
    \/ \E k \in PasswordChanges : HandleChangeWebPassword(k)
    \/ Sweep \/ OtherSave \/ LoginRestart \/ LoginTick

LoginSpec == LoginInit /\ [][LoginNext]_loginVars

-----------------------------------------------------------------------------
(* Properties.                                                                 *)

AttemptType ==
    [pc : {"new", "checked", "waiting", "comparing", "done"}, ip : LoginClients \cup {Nobody},
     password : Passwords \cup {Nobody}, seen : Passwords \cup {Nobody}, slot : Nat]
ChangeType ==
    [pc : {"new", "hashed", "changed", "saved", "done"}, by : Logins \cup {Nobody}, new : Passwords \cup {Nobody}]

LoginTypeOK ==
    /\ loginTime \in 0..MaxTime /\ loginRestarts \in 0..MaxRestarts
    /\ attempt \in [Logins -> AttemptType]
    /\ passwordChange \in [PasswordChanges -> ChangeType]
    /\ sessions \subseteq Logins
    /\ {authHash, cfgHash, savedHash} \subseteq Passwords
    /\ loginGuard \in [LoginClients -> [failures : Nat, lockedUntil : Nat, lastSeen : Int]]
    /\ budgetFailures \in Seq(Nat) /\ nextSlot \in Nat
    /\ keptSession \in Logins \cup {Nobody}
    /\ loginOverlap \subseteq Logins /\ overtaken \subseteq Logins
    /\ slots \subseteq Logins \X Nat /\ disturbed \in BOOLEAN

\* ChangePassword ends every session but the changer's (auth.go: "locks out
\* whoever already logged in with it").  A session that is live although its
\* login was checked against another hash than today's is the one the last
\* change kept, or its login was past the read of the hash when it ran.
SessionsJustified ==
    \A s \in sessions : attempt[s].seen = authHash \/ s = keptSession \/ s \in loginOverlap

\* The hash logins are checked against, the one a password change compares with
\* and the one on disk are the same whenever no change is running, unless a save
\* failed or two changes ran at once since the process started.
HashesAgree ==
    Changing = {} /\ ~disturbed => authHash = cfgHash /\ cfgHash = savedHash

\* The lockout is checked before the password: while an address is locked out,
\* an attempt of it still on its way to the comparison was past LockedFor when
\* the lockout began.
LockedIsNotChecked ==
    \A r \in Logins :
        attempt[r].pc \in {"checked", "waiting", "comparing"} /\ Locked(attempt[r].ip)
            => r \in overtaken

\* Parallel failures, overflow of the doubling shift and the idle reset never
\* bring an unlock forward while the address stays on record.
LockoutNeverShortens ==
    [][\A c \in LoginClients : loginGuard'[c] # NoRecord => loginGuard'[c].lockedUntil >= loginGuard[c].lockedUntil
                              \/ LoginQuiet(c)]_loginVars

\* Past the budget, password checks across all addresses are BudgetSpacing apart
\* and no attempt waits longer than BudgetMaxWait.
SlotsSpaced ==
    /\ \A a, b \in slots : a # b => a[2] - b[2] >= BudgetSpacing \/ b[2] - a[2] >= BudgetSpacing
    /\ \A r \in Logins : attempt[r].pc = "waiting" => attempt[r].slot <= loginTime + BudgetMaxWait

\* What handleLogin and HandleChangeWebPassword promise together.
SignInSound ==
    [](SessionsJustified /\ HashesAgree /\ LockedIsNotChecked /\ SlotsSpaced) /\ LockoutNeverShortens

\* Why it is so.  A login that reads the hash reads today's, or a change of the
\* password sees it in between; while nothing went wrong one change runs at a time
\* and knows which hashes it has replaced; the next slot lies past every slot handed
\* out; and a record is locked for what its last failure earned.
SessionInv ==
    /\ \A s \in sessions : attempt[s].pc = "done"
    /\ \A r \in Logins : attempt[r].pc = "comparing" => attempt[r].seen = authHash \/ r \in loginOverlap

HashInv ==
    /\ \A k \in Changing : passwordChange[k].new \in Passwords
    /\ ~disturbed =>
           /\ \A k, l \in Changing : k = l
           /\ Changing = {} => authHash = cfgHash /\ cfgHash = savedHash
           /\ \A k \in Changing :
                 /\ passwordChange[k].pc = "hashed" => authHash = cfgHash /\ cfgHash = savedHash
                 /\ passwordChange[k].pc = "changed" => cfgHash = passwordChange[k].new
                 /\ passwordChange[k].pc = "saved" => cfgHash = passwordChange[k].new /\ savedHash = cfgHash

SlotInv == nextSlot \in Nat /\ slots \subseteq Logins \X Nat /\ \A a \in slots : a[2] + BudgetSpacing <= nextSlot

RecordInv(rec) ==
    /\ rec \in [failures : Nat, lockedUntil : Nat, lastSeen : Int] /\ rec.lastSeen <= loginTime
    /\ rec.lockedUntil = (IF rec.failures < Threshold THEN 0 ELSE rec.lastSeen + Lockout(rec.failures))

GuardInv ==
    /\ loginGuard = [c \in LoginClients |-> loginGuard[c]]
    /\ \A c \in LoginClients : RecordInv(loginGuard[c])
    /\ \A r \in Logins : attempt[r].pc \in {"checked", "waiting", "comparing"} => attempt[r].ip \in LoginClients

LoginInv ==
    /\ loginTime \in Nat /\ attempt \in [Logins -> AttemptType]
    /\ passwordChange \in [PasswordChanges -> ChangeType]
    /\ sessions \subseteq Logins /\ authHash \in Passwords /\ cfgHash \in Passwords /\ savedHash \in Passwords
    /\ disturbed \in BOOLEAN
    /\ SessionInv /\ HashInv /\ SlotInv /\ GuardInv
    /\ SessionsJustified /\ LockedIsNotChecked /\ SlotsSpaced

\* What LockoutNeverShortens asks of the constants: the doubling, cut off at the
\* maximum and taken as the maximum once it overflows, never falls back.
LockoutsGrowOver(counts) == \A m, n \in counts : Threshold <= m /\ m <= n => Lockout(m) <= Lockout(n)
LockoutsGrow == LockoutsGrowOver(Nat)

=============================================================================
