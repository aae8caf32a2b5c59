---------------------------- MODULE BrowserSessions ----------------------------
(* The browser sessions of the Controller: the credential of the one        *)
(* operator, logins under an Idempotency-Key, logouts, password changes,    *)
(* and the audit rows that the limit on failed logins counts.               *)
(*                                                                         *)
(* A login reads the credential, verifies the password outside of any       *)
(* transaction in one of a few derivation slots, and only then takes the    *)
(* write lock.  What it has read by then may be old: a password change,     *)
(* other logins and a repetition of itself go on beside it.                 *)
EXTENDS Naturals, FiniteSets

CONSTANTS
  Logins,      \* login requests: source address, key, password
  Passwords,   \* passwords that are ever chosen or tried
  Threads,     \* threads of the server
  Slots,       \* LOGIN_MAX_CONCURRENT_DERIVATIONS
  MaxFailures, \* LOGIN_MAX_FAILURES of a source ...
  Window,      \* ... within LOGIN_WINDOW_SECONDS
  Lifetime,    \* SESSION_TTL_SECONDS
  MaxClock,    \* bound on time
  MaxChanges   \* bound on the versions of the credential

ASSUME SessionAssumption ==
  /\ \A l \in Logins : l.password \in Passwords
  /\ "none" \notin Passwords
  /\ Slots \in Nat \ {0} /\ MaxFailures \in Nat \ {0}
  /\ Window \in Nat /\ Lifetime \in Nat \ {0}
  /\ MaxClock \in Nat /\ MaxChanges \in Nat

VARIABLES
  clock,      \* the time, in ticks
  credential, \* controller_operator_credentials: a version (0: no row) and its password
  file,       \* the file with the initial password
  operator,   \* what the operator's program does
  sessions,   \* controller_browser_sessions: login -> its session
  ledger,     \* controller_auth_idempotency, the logins: rows with a status
  failures,   \* controller_auth_audit: failed logins
  blocks,     \* controller_auth_audit: rate_limited logins
  thread      \* thread -> what it does

accountVars == <<credential, file, operator>>
loginVars   == <<sessions, ledger, failures, blocks>>
vars == <<clock, accountVars, loginVars, thread>>

NoSession == [granted |-> 0, created |-> 0, revoked |-> FALSE]
IdleThread == [pc |-> "idle"]
IdleOperator == [pc |-> "idle"]

Init ==
  /\ clock = 0
  /\ credential = [version |-> 0, password |-> "none"]
  /\ file = "none" /\ operator = IdleOperator
  /\ sessions = [l \in Logins |-> NoSession]
  /\ ledger = {} /\ failures = {} /\ blocks = {}
  /\ thread = [t \in Threads |-> IdleThread]

-----------------------------------------------------------------------------
(* hermesops-controller-operator ensure, which may be killed at any point.  *)

(* An unused password file of an earlier attempt is taken up again.         *)
\* Variant: the file is written after the row.
EnsureLate(p) ==
  /\ operator = IdleOperator /\ credential.version = 0
  /\ IF file = "none"
       THEN operator' = [pc |-> "initialize", password |-> p, created |-> TRUE]
       ELSE operator' = [pc |-> "initialize", password |-> file, created |-> FALSE]
  /\ UNCHANGED <<clock, credential, file, loginVars, thread>>
Ensure(p) ==
  /\ operator = IdleOperator /\ credential.version = 0
  /\ IF file = "none"
       THEN /\ file' = p
            /\ operator' = [pc |-> "initialize", password |-> p, created |-> TRUE]
       ELSE /\ operator' = [pc |-> "initialize", password |-> file, created |-> FALSE]
            /\ UNCHANGED file
  /\ UNCHANGED <<clock, credential, loginVars, thread>>

(* initialize_operator, or its failure, which takes the new file away again *)
Initialize ==
  /\ operator.pc = "initialize"
  /\ operator' = IdleOperator
  /\ \/ /\ credential' = [version |-> 1, password |-> operator.password]
        /\ UNCHANGED file
     \/ /\ file' = IF operator.created THEN "none" ELSE file
        /\ UNCHANGED credential
  /\ UNCHANGED <<clock, loginVars, thread>>

-----------------------------------------------------------------------------
(* Changing the password: set_password, then the cleanup of the file.       *)

(* The derivation; the time of the change is taken before the write lock.   *)
Change(p) ==
  /\ operator = IdleOperator
  /\ operator' = [pc |-> "change", password |-> p, now |-> clock]
  /\ UNCHANGED <<clock, credential, file, loginVars, thread>>

Known(l) == sessions[l].granted # 0
Unrevoked(l) == Known(l) /\ ~sessions[l].revoked
RevokeAll == sessions' = [l \in Logins |-> IF Unrevoked(l)
                                             THEN [sessions[l] EXCEPT !.revoked = TRUE]
                                             ELSE sessions[l]]

(* The trigger on the sessions does not let one be revoked before it was    *)
(* created: a login that was quicker to the lock makes the change fail.     *)
TooLate == \E l \in Logins : Unrevoked(l) /\ sessions[l].created > operator.now

ApplyChange ==
  /\ operator.pc = "change"
  /\ IF credential.version \in {0, MaxChanges} \/ TooLate
       THEN operator' = IdleOperator /\ UNCHANGED <<credential, sessions>>
       ELSE /\ credential' = [version |-> credential.version + 1,
                              password |-> operator.password]
            /\ RevokeAll
            /\ operator' = [pc |-> "clean"]
  /\ UNCHANGED <<clock, file, ledger, failures, blocks, thread>>

CleanFile ==
  /\ operator.pc = "clean"
  /\ file' = "none" /\ operator' = IdleOperator
  /\ UNCHANGED <<clock, credential, loginVars, thread>>

(* It is killed, or does not get the lock. *)
OperatorStops ==
  /\ operator.pc \in {"initialize", "change", "clean"}
  /\ operator' = IdleOperator
  /\ UNCHANGED <<clock, credential, file, loginVars, thread>>

-----------------------------------------------------------------------------
(* login. *)

(* _session_from_row, require_current *)
Current(l) == Unrevoked(l) /\ clock < sessions[l].created + Lifetime

(* replay_result: the row of the key, and what it answers. *)
RowsOf(l) == {row \in ledger : row.login.source = l.source /\ row.login.key = l.key}
\* Variant: the session of the row is answered as it is.
ReplayedAnyway(l, row) == row.login = l /\ row.status = "granted"
Replayed(l, row) == row.login = l /\ row.status = "granted" /\ Current(l)

Since(x) == IF x > Window THEN x - Window ELSE 0
FailuresOf(l, from) == {f \in failures : f.login.source = l.source /\ f.at >= from}
BlocksOf(l, from) == {b \in blocks : b.login.source = l.source /\ b.at >= from}
TooMany(l, from) == Cardinality(FailuresOf(l, from)) >= MaxFailures
\* Variant: what was counted before the password was verified counts.
CountedBefore(l) == FALSE
TooManyNow(l) == TooMany(l, Since(clock))

Answer(t, l, granted) ==
  thread' = [thread EXCEPT ![t] = IF granted THEN [pc |-> "granted", login |-> l] ELSE IdleThread]
Proceed(t, next) == thread' = [thread EXCEPT ![t] = next]

(* One rate_limited row for a source within the window, however often.      *)
Block(l, from) ==
  blocks' = IF BlocksOf(l, from) = {} THEN blocks \cup {[login |-> l, at |-> clock]} ELSE blocks

Arrive(t, l) ==
  /\ thread[t] = IdleThread
  /\ Proceed(t, [pc |-> "early", login |-> l])
  /\ UNCHANGED <<clock, accountVars, loginVars>>

(* The first look at the key and at the failures, without a transaction.    *)
LookEarly(t) ==
  /\ thread[t].pc = "early"
  /\ LET l == thread[t].login IN
       \/ \E row \in RowsOf(l) : Answer(t, l, Replayed(l, row))
       \/ /\ RowsOf(l) = {}
          /\ Proceed(t, IF TooMany(l, Since(clock))
                          THEN [pc |-> "block", login |-> l, since |-> Since(clock)]
                          ELSE [pc |-> "read", login |-> l])
  /\ UNCHANGED <<clock, accountVars, loginVars>>

(* The failures are counted again under the lock, since the same time.      *)
BlockEarly(t) ==
  /\ thread[t].pc = "block"
  /\ LET l == thread[t].login  from == thread[t].since IN
       IF TooMany(l, from)
         THEN Block(l, from) /\ Proceed(t, IdleThread)
         ELSE Proceed(t, [pc |-> "read", login |-> l]) /\ UNCHANGED blocks
  /\ UNCHANGED <<clock, accountVars, sessions, ledger, failures>>

ReadCredential(t) ==
  /\ thread[t].pc = "read"
  /\ Proceed(t, [pc |-> "slot", login |-> thread[t].login, seen |-> credential])
  /\ UNCHANGED <<clock, accountVars, loginVars>>

Deriving == {t \in Threads : thread[t].pc = "derive"}
TakeSlot(t) ==
  /\ thread[t].pc = "slot"
  /\ IF Cardinality(Deriving) < Slots
       THEN Proceed(t, [thread[t] EXCEPT !.pc = "derive"])
       ELSE Proceed(t, IdleThread)   \* no slot in time
  /\ UNCHANGED <<clock, accountVars, loginVars>>

(* _credential_matches; without a row it compares with a dummy.             *)
Derive(t) ==
  /\ thread[t].pc = "derive"
  /\ Proceed(t, [pc |-> "commit", login |-> thread[t].login, seen |-> thread[t].seen,
                 valid |-> thread[t].login.password = thread[t].seen.password])
  /\ UNCHANGED <<clock, accountVars, loginVars>>

(* The transaction that decides: everything is read again under the lock.   *)
\* Variant: the credential is not.
StillAnyway(seen) == TRUE
StillInForce(seen) == credential = seen

Conclude(t) ==
  /\ thread[t].pc = "commit"
  /\ LET l == thread[t].login
         keep(status) == ledger' = ledger \cup {[login |-> l, status |-> status]}
     IN \/ /\ \E row \in RowsOf(l) : Answer(t, l, Replayed(l, row))
           /\ UNCHANGED loginVars
        \/ /\ RowsOf(l) = {} /\ TooManyNow(l)
           /\ Block(l, Since(clock)) /\ Answer(t, l, FALSE)
           /\ UNCHANGED <<sessions, ledger, failures>>
        \/ /\ RowsOf(l) = {} /\ ~TooManyNow(l)
           /\ ~StillInForce(thread[t].seen)
           /\ Answer(t, l, FALSE)
           /\ UNCHANGED loginVars
        \/ /\ RowsOf(l) = {} /\ ~TooManyNow(l)
           /\ StillInForce(thread[t].seen) /\ ~thread[t].valid
           /\ keep("refused") /\ Answer(t, l, FALSE)
           /\ failures' = failures \cup {[login |-> l, at |-> clock]}
           /\ UNCHANGED <<sessions, blocks>>
        \/ /\ RowsOf(l) = {} /\ ~TooManyNow(l)
           /\ StillInForce(thread[t].seen) /\ thread[t].valid
           /\ keep("granted") /\ Answer(t, l, TRUE)
           /\ sessions' = [sessions EXCEPT ![l] =
                             [granted |-> thread[t].seen.version, created |-> clock,
                              revoked |-> FALSE]]
           /\ UNCHANGED <<failures, blocks>>
  /\ UNCHANGED <<clock, accountVars>>

(* The response with the cookie leaves. *)
Respond(t) ==
  /\ thread[t].pc = "granted"
  /\ Proceed(t, IdleThread)
  /\ UNCHANGED <<clock, accountVars, loginVars>>

(* The database stays locked for longer than busy_timeout, or the           *)
(* Controller stops.                                                        *)
FailLogin(t) ==
  /\ thread[t].pc \in {"early", "block", "read", "commit"}
  /\ Proceed(t, IdleThread)
  /\ UNCHANGED <<clock, accountVars, loginVars>>

-----------------------------------------------------------------------------
(* logout_context takes a session that has ended, too: it changes nothing.  *)
Logout(l) ==
  /\ Known(l)
  /\ sessions' = [sessions EXCEPT ![l].revoked = TRUE]
  /\ UNCHANGED <<clock, accountVars, ledger, failures, blocks, thread>>

Tick ==
  /\ clock < MaxClock
  /\ clock' = clock + 1
  /\ UNCHANGED <<accountVars, loginVars, thread>>

LoginStep(t) ==
  \/ LookEarly(t) \/ BlockEarly(t) \/ ReadCredential(t) \/ TakeSlot(t) \/ Derive(t)
  \/ Conclude(t) \/ Respond(t)

Next ==
  \/ \E t \in Threads : LoginStep(t) \/ FailLogin(t) \/ \E l \in Logins : Arrive(t, l)
  \/ \E l \in Logins : Logout(l)
  \/ \E p \in Passwords : Ensure(p) \/ Change(p)
  \/ Initialize \/ ApplyChange \/ CleanFile \/ OperatorStops
  \/ Tick

Spec == Init /\ [][Next]_vars

-----------------------------------------------------------------------------
(* Properties. *)

(* A session that opens doors was granted for the password in force: a      *)
(* login that was verified against the old one cannot slip in behind the    *)
(* change that was to end them all.                                         *)
SessionsAreInForce == \A l \in Logins : Current(l) => sessions[l].granted = credential.version

(* The limit holds in every window, however many logins of a source are     *)
(* verified at the same time, and a blocked source leaves one row in each,  *)
(* however often it tries.                                                  *)
Within(rows, l, x) == {r \in rows : r.login.source = l.source /\ x <= r.at /\ r.at <= x + Window}
AttemptsLimited ==
  \A l \in Logins, x \in 0 .. clock :
    /\ Cardinality(Within(failures, l, x)) <= MaxFailures
    /\ Cardinality(Within(blocks, l, x)) <= 1

(* What has ended stays ended: no repetition of the login, under its key or *)
(* another, brings a revoked or expired session back or hands it out.       *)
EndedStaysEnded ==
  [][/\ \A l \in Logins : Known(l) /\ ~Current(l) => ~Current(l)'
     /\ \A t \in Threads, l \in Logins :
          thread'[t] = [pc |-> "granted", login |-> l] /\ thread[t].pc # "granted"
            => Current(l)']_vars

(* The operator can always find the password that a new installation made:  *)
(* wherever ensure was killed or failed, the file has it.                   *)
InitialPasswordIsKnown == credential.version = 1 => file = credential.password
=============================================================================
