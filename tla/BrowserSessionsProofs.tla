------------------------ MODULE BrowserSessionsProofs ------------------------
(* What holds of the browser sessions for any logins, threads, slots,      *)
(* limits and changes of the password.                                     *)
EXTENDS BrowserSessions, FiniteSetTheorems, TLAPS

Credentials == [version : Nat, password : Passwords \cup {"none"}]
OperatorStates ==
  {IdleOperator, [pc |-> "clean"]}
    \cup [pc : {"initialize"}, password : Passwords, created : BOOLEAN]
    \cup [pc : {"change"}, password : Passwords, now : Nat]
Entries == [login : Logins, at : Nat]
ThreadStates ==
  {IdleThread}
    \cup [pc : {"early", "read", "granted"}, login : Logins]
    \cup [pc : {"block"}, login : Logins, since : Nat]
    \cup [pc : {"slot", "derive"}, login : Logins, seen : Credentials]
    \cup [pc : {"commit"}, login : Logins, seen : Credentials, valid : BOOLEAN]

TypeOK ==
  /\ clock \in Nat
  /\ credential \in Credentials
  /\ file \in Passwords \cup {"none"}
  /\ operator \in OperatorStates
  /\ sessions \in [Logins -> [granted : Nat, created : Nat, revoked : BOOLEAN]]
  /\ ledger \subseteq [login : Logins, status : {"granted", "refused"}]
  /\ failures \subseteq Entries /\ IsFiniteSet(failures)
  /\ blocks \subseteq Entries /\ IsFiniteSet(blocks)
  /\ thread \in [Threads -> ThreadStates]

(* A credential that does not exist has no password. *)
Sane(c) == c.version = 0 => c.password = "none"
(* What a login has read of the credential, and found out about it. *)
Verified(t) ==
  /\ thread[t].pc \in {"slot", "derive", "commit"} => Sane(thread[t].seen)
  /\ thread[t].pc = "commit" =>
       thread[t].valid = (thread[t].login.password = thread[t].seen.password)

(* The operator's program initializes only what is not there, with the     *)
(* password in the file, and removes the file only after a change.          *)
OperatorInv ==
  /\ Sane(credential)
  /\ operator.pc = "initialize" => credential.version = 0 /\ file = operator.password
  /\ operator.pc = "clean" => credential.version >= 2
  /\ InitialPasswordIsKnown

SessionInv ==
  /\ \A t \in Threads : Verified(t)
  /\ \A l \in Logins : Unrevoked(l) => sessions[l].granted = credential.version
  /\ \A l \in Logins : Known(l) => \E row \in ledger : row.login = l

(* The limits in every window, and a thread counts from no later than now. *)
LimitInv ==
  /\ \A t \in Threads : thread[t].pc = "block" => thread[t].since <= Since(clock)
  /\ \A l \in Logins, x \in Nat :
       /\ Cardinality(Within(failures, l, x)) <= MaxFailures
       /\ Cardinality(Within(blocks, l, x)) <= 1

SessionsInv == TypeOK /\ OperatorInv /\ SessionInv /\ LimitInv

-----------------------------------------------------------------------------
(* What the types say of a thread and of the operator's program. *)

LEMMA ThreadFacts ==
  ASSUME TypeOK, NEW t \in Threads
  PROVE  /\ thread[t] \in ThreadStates
         /\ thread[t].pc \in {"idle", "early", "read", "granted", "block", "slot", "derive", "commit"}
         /\ thread[t].pc # "idle" => thread[t].login \in Logins
         /\ thread[t].pc = "idle" => thread[t] = IdleThread
         /\ thread[t].pc = "block" => thread[t].since \in Nat
         /\ thread[t].pc \in {"slot", "derive", "commit"} => thread[t].seen \in Credentials
         /\ thread[t].pc = "commit" => thread[t].valid \in BOOLEAN
<1>1. thread[t] \in ThreadStates
  BY DEF TypeOK
<1>2. CASE thread[t] = IdleThread
  BY <1>1, <1>2 DEF IdleThread
<1>3. CASE thread[t] \in [pc : {"early", "read", "granted"}, login : Logins]
  BY <1>1, <1>3
<1>4. CASE thread[t] \in [pc : {"block"}, login : Logins, since : Nat]
  BY <1>1, <1>4
<1>5. CASE thread[t] \in [pc : {"slot", "derive"}, login : Logins, seen : Credentials]
  BY <1>1, <1>5
<1>6. CASE thread[t] \in [pc : {"commit"}, login : Logins, seen : Credentials, valid : BOOLEAN]
  BY <1>1, <1>6
<1> QED
  BY <1>1, <1>2, <1>3, <1>4, <1>5, <1>6 DEF ThreadStates

LEMMA OperatorFacts ==
  ASSUME TypeOK
  PROVE  /\ operator \in OperatorStates
         /\ operator.pc = "initialize" => operator.password \in Passwords
         /\ operator.pc = "change" => operator.password \in Passwords /\ operator.now \in Nat
<1>1. operator \in OperatorStates
  BY DEF TypeOK
<1>2. CASE operator \in {IdleOperator, [pc |-> "clean"]}
  BY <1>1, <1>2 DEF IdleOperator
<1>3. CASE operator \in [pc : {"initialize"}, password : Passwords, created : BOOLEAN]
  BY <1>1, <1>3
<1>4. CASE operator \in [pc : {"change"}, password : Passwords, now : Nat]
  BY <1>1, <1>4
<1> QED
  BY <1>1, <1>2, <1>3, <1>4 DEF OperatorStates

LEMMA SinceFacts ==
  ASSUME NEW x \in Nat
  PROVE  Since(x) \in Nat /\ x <= Since(x) + Window /\ \A y \in Nat : x <= y => Since(x) <= Since(y)
  BY SessionAssumption DEF Since

(* A step of a login, in its thread. *)
Proceeds(t) == \E next \in ThreadStates : Proceed(t, next)

LEMMA ThreadTyped ==
  ASSUME TypeOK, NEW t \in Threads, Proceeds(t)
  PROVE  thread' \in [Threads -> ThreadStates]
  BY DEF TypeOK, Proceeds, Proceed

LEMMA AnswerProceeds ==
  ASSUME NEW t, NEW l \in Logins, NEW g, Answer(t, l, g)
  PROVE  Proceeds(t)
<1>1. [pc |-> "granted", login |-> l] \in ThreadStates /\ IdleThread \in ThreadStates
  BY DEF ThreadStates
<1> QED
  BY <1>1 DEF Answer, Proceeds, Proceed

LEMMA RowTyped ==
  ASSUME NEW S, S \subseteq Entries, IsFiniteSet(S), NEW e \in Entries
  PROVE  S \cup {e} \subseteq Entries /\ IsFiniteSet(S \cup {e})
  BY FS_AddElement

LEMMA BlockTyped ==
  ASSUME TypeOK, NEW l \in Logins, NEW from, Block(l, from)
  PROVE  blocks' \subseteq Entries /\ IsFiniteSet(blocks')
<1>1. [login |-> l, at |-> clock] \in Entries
  BY DEF TypeOK, Entries
<1>2. blocks' = blocks \/ blocks' = blocks \cup {[login |-> l, at |-> clock]}
  BY DEF Block
<1>3. blocks \subseteq Entries /\ IsFiniteSet(blocks)
  BY DEF TypeOK
<1> QED
  BY <1>1, <1>2, <1>3, RowTyped

(* The decision writes one row to some of the tables. *)
LEMMA ConcludeTyped ==
  ASSUME TypeOK, NEW t \in Threads, Conclude(t)
  PROVE  TypeOK'
<1> DEFINE l == thread[t].login
           c == thread[t].seen
           S == [sessions EXCEPT ![l] = [granted |-> c.version, created |-> clock, revoked |-> FALSE]]
<1>1. l \in Logins /\ c \in Credentials
  BY ThreadFacts DEF Conclude
<1>2. UNCHANGED <<clock, credential, file, operator>>
  BY DEF Conclude, accountVars
<1>3. \E g : Answer(t, l, g)
  BY Zenon DEF Conclude
<1>4. thread' \in [Threads -> ThreadStates]
  BY <1>1, <1>3, AnswerProceeds, ThreadTyped
<1>5. sessions' \in [Logins -> [granted : Nat, created : Nat, revoked : BOOLEAN]]
  <2>1. sessions' = sessions \/ sessions' = S
    BY DEF Conclude, loginVars
  <2>2. [granted |-> c.version, created |-> clock, revoked |-> FALSE]
          \in [granted : Nat, created : Nat, revoked : BOOLEAN]
    BY <1>1 DEF TypeOK, Credentials
  <2> QED
    BY <2>1, <2>2 DEF TypeOK
<1>6. ledger' \subseteq [login : Logins, status : {"granted", "refused"}]
  <2>1. \/ ledger' = ledger
        \/ \E status \in {"granted", "refused"} : ledger' = ledger \cup {[login |-> l, status |-> status]}
    BY DEF Conclude, loginVars
  <2> QED
    BY <1>1, <2>1 DEF TypeOK
<1>7. failures' \subseteq Entries /\ IsFiniteSet(failures')
  <2>1. failures' = failures \/ failures' = failures \cup {[login |-> l, at |-> clock]}
    BY DEF Conclude, loginVars
  <2>2. [login |-> l, at |-> clock] \in Entries
    BY <1>1 DEF TypeOK, Entries
  <2>3. failures \subseteq Entries /\ IsFiniteSet(failures)
    BY DEF TypeOK
  <2> QED
    BY <2>1, <2>2, <2>3, RowTyped
<1>8. blocks' \subseteq Entries /\ IsFiniteSet(blocks')
  <2>1. blocks' = blocks \/ Block(l, Since(clock))
    BY DEF Conclude, loginVars
  <2> QED
    BY <1>1, <2>1, BlockTyped DEF TypeOK
<1> QED
  BY <1>2, <1>4, <1>5, <1>6, <1>7, <1>8 DEF TypeOK

LEMMA LoginTyped ==
  ASSUME TypeOK, NEW t \in Threads, LoginStep(t) \/ FailLogin(t) \/ \E l \in Logins : Arrive(t, l)
  PROVE  TypeOK'
<1> DEFINE l == thread[t].login
<1> IdleThread \in ThreadStates
  BY DEF ThreadStates
<1>1. ASSUME UNCHANGED <<clock, accountVars, loginVars>>, Proceeds(t) PROVE TypeOK'
  BY <1>1, ThreadTyped DEF TypeOK, accountVars, loginVars
<1>2. ASSUME NEW k \in Logins, Arrive(t, k) PROVE TypeOK'
  <2>1. [pc |-> "early", login |-> k] \in ThreadStates
    BY DEF ThreadStates
  <2> QED
    BY <1>1, <1>2, <2>1 DEF Arrive, Proceeds
<1>3. CASE LookEarly(t)
  <2>1. l \in Logins
    BY <1>3, ThreadFacts DEF LookEarly
  <2>2. CASE \E g : Answer(t, l, g)
    BY <1>1, <1>3, <2>1, <2>2, AnswerProceeds DEF LookEarly
  <2>3. CASE \E next : /\ Proceed(t, next)
                       /\ next \in {[pc |-> "block", login |-> l, since |-> Since(clock)],
                                    [pc |-> "read", login |-> l]}
    <3>1. /\ [pc |-> "block", login |-> l, since |-> Since(clock)] \in ThreadStates
          /\ [pc |-> "read", login |-> l] \in ThreadStates
      BY <2>1, SinceFacts DEF ThreadStates, TypeOK
    <3> QED
      BY <1>1, <1>3, <2>3, <3>1 DEF LookEarly, Proceeds
  <2> QED
    BY <1>3, <2>2, <2>3 DEF LookEarly
<1>4. CASE BlockEarly(t)
  <2>1. l \in Logins /\ UNCHANGED <<clock, accountVars, sessions, ledger, failures>>
    BY <1>4, ThreadFacts DEF BlockEarly
  <2>2. blocks' = blocks \/ \E from : Block(l, from)
    BY <1>4 DEF BlockEarly
  <2>3. [pc |-> "read", login |-> l] \in ThreadStates
    BY <2>1 DEF ThreadStates
  <2>4. Proceeds(t)
    BY <1>4, <2>3 DEF BlockEarly, Proceeds
  <2> QED
    BY <2>1, <2>2, <2>4, BlockTyped, ThreadTyped DEF TypeOK, accountVars
<1>5. CASE ReadCredential(t)
  <2>1. [pc |-> "slot", login |-> l, seen |-> credential] \in ThreadStates
    BY <1>5, ThreadFacts DEF ReadCredential, ThreadStates, TypeOK
  <2> QED
    BY <1>1, <1>5, <2>1 DEF ReadCredential, Proceeds
<1>6. CASE TakeSlot(t)
  <2>1. thread[t] \in [pc : {"slot", "derive"}, login : Logins, seen : Credentials]
    BY <1>6, ThreadFacts DEF TakeSlot, ThreadStates, IdleThread
  <2>2. [thread[t] EXCEPT !.pc = "derive"] \in ThreadStates
    BY <2>1 DEF ThreadStates
  <2> QED
    BY <1>1, <1>6, <2>2 DEF TakeSlot, Proceeds
<1>7. CASE Derive(t)
  <2>1. [pc |-> "commit", login |-> l, seen |-> thread[t].seen,
         valid |-> l.password = thread[t].seen.password] \in ThreadStates
    BY <1>7, ThreadFacts DEF Derive, ThreadStates
  <2> QED
    BY <1>1, <1>7, <2>1 DEF Derive, Proceeds
<1>8. CASE Conclude(t)
  BY <1>8, ConcludeTyped
<1>9. CASE Respond(t) \/ FailLogin(t)
  BY <1>1, <1>9 DEF Respond, FailLogin, Proceeds
<1> QED
  BY <1>2, <1>3, <1>4, <1>5, <1>6, <1>7, <1>8, <1>9 DEF LoginStep

LEMMA RevokedTyped ==
  ASSUME TypeOK, RevokeAll
  PROVE  sessions' \in [Logins -> [granted : Nat, created : Nat, revoked : BOOLEAN]]
<1>1. ASSUME NEW l \in Logins
      PROVE  [sessions[l] EXCEPT !.revoked = TRUE] \in [granted : Nat, created : Nat, revoked : BOOLEAN]
  BY DEF TypeOK
<1> QED
  BY <1>1 DEF RevokeAll, TypeOK

LEMMA TypeStep == TypeOK /\ [Next]_vars => TypeOK'
<1> SUFFICES ASSUME TypeOK, [Next]_vars PROVE TypeOK'
  OBVIOUS
<1> IdleOperator \in OperatorStates /\ [pc |-> "clean"] \in OperatorStates
  BY DEF OperatorStates
<1>1. ASSUME NEW l \in Logins, Logout(l) PROVE TypeOK'
  <2>1. [sessions[l] EXCEPT !.revoked = TRUE] \in [granted : Nat, created : Nat, revoked : BOOLEAN]
    BY DEF TypeOK
  <2>2. sessions' = [sessions EXCEPT ![l] = [sessions[l] EXCEPT !.revoked = TRUE]]
    BY <1>1 DEF Logout
  <2> QED
    BY <1>1, <2>1, <2>2 DEF Logout, TypeOK, accountVars
<1>2. ASSUME NEW p \in Passwords, Ensure(p) PROVE TypeOK'
  <2>1. file' \in Passwords \cup {"none"} /\ operator' \in OperatorStates
    <3>1. CASE file = "none"
      <4>1. file' = p /\ operator' = [pc |-> "initialize", password |-> p, created |-> TRUE]
        BY <1>2, <3>1 DEF Ensure
      <4> QED
        BY <4>1 DEF OperatorStates
    <3>2. CASE file # "none"
      <4>1. /\ file' = file /\ file \in Passwords
            /\ operator' = [pc |-> "initialize", password |-> file, created |-> FALSE]
        BY <1>2, <3>2 DEF Ensure, TypeOK
      <4> QED
        BY <4>1 DEF OperatorStates
    <3> QED
      BY <3>1, <3>2
  <2> QED
    BY <1>2, <2>1 DEF Ensure, TypeOK, loginVars
<1>3. ASSUME NEW p \in Passwords, Change(p) PROVE TypeOK'
  <2>1. operator' \in OperatorStates
    BY <1>3 DEF Change, OperatorStates, TypeOK
  <2> QED
    BY <1>3, <2>1 DEF Change, TypeOK, loginVars
<1>4. CASE Initialize
  <2>1. operator.password \in Passwords
    BY <1>4, OperatorFacts DEF Initialize
  <2> QED
    BY <1>4, <2>1 DEF Initialize, TypeOK, Credentials, loginVars
<1>5. CASE ApplyChange
  <2>1. operator.password \in Passwords
    BY <1>5, OperatorFacts DEF ApplyChange
  <2>2. credential' \in Credentials
    BY <1>5, <2>1 DEF ApplyChange, TypeOK, Credentials
  <2>3. sessions' = sessions \/ RevokeAll
    BY <1>5 DEF ApplyChange
  <2>4. operator' \in OperatorStates
    BY <1>5 DEF ApplyChange
  <2> QED
    BY <1>5, <2>2, <2>3, <2>4, RevokedTyped DEF ApplyChange, TypeOK
<1>6. CASE CleanFile \/ OperatorStops
  BY <1>6 DEF CleanFile, OperatorStops, TypeOK, loginVars
<1>7. CASE Tick
  BY <1>7 DEF Tick, TypeOK, accountVars, loginVars
<1>8. CASE UNCHANGED vars
  BY <1>8 DEF vars, TypeOK, accountVars, loginVars
<1> QED
  BY <1>1, <1>2, <1>3, <1>4, <1>5, <1>6, <1>7, <1>8, LoginTyped DEF Next

-----------------------------------------------------------------------------
(* The password of the installation. *)

LEMMA OperatorStep == TypeOK /\ OperatorInv /\ [Next]_vars => OperatorInv'
<1> SUFFICES ASSUME TypeOK, OperatorInv, [Next]_vars PROVE OperatorInv'
  OBVIOUS
<1> USE DEF OperatorInv, Sane, InitialPasswordIsKnown
<1>0. credential.version \in Nat
  BY DEF TypeOK, Credentials
<1>1. ASSUME NEW p \in Passwords, Ensure(p) PROVE OperatorInv'
  <2>1. /\ credential.version = 0 /\ credential' = credential
        /\ operator'.pc = "initialize" /\ operator'.password = file'
    BY <1>1 DEF Ensure
  <2> QED
    BY <2>1
<1>2. CASE Initialize
  <2>1. /\ operator.pc = "initialize" /\ operator.password \in Passwords
        /\ credential.version = 0 /\ file = operator.password /\ operator'.pc = "idle"
    BY <1>2, OperatorFacts DEF Initialize, IdleOperator
  <2>2. CASE credential' = [version |-> 1, password |-> operator.password] /\ file' = file
    BY <2>1, <2>2
  <2>3. CASE UNCHANGED credential
    BY <2>1, <2>3
  <2> QED
    BY <1>2, <2>2, <2>3 DEF Initialize
<1>3. ASSUME NEW p \in Passwords, Change(p) PROVE OperatorInv'
  BY <1>3 DEF Change
<1>4. CASE ApplyChange
  <2>1. CASE credential' = credential /\ operator' = IdleOperator
    BY <1>4, <2>1 DEF ApplyChange, IdleOperator
  <2>2. CASE /\ credential' = [version |-> credential.version + 1, password |-> operator.password]
             /\ operator' = [pc |-> "clean"] /\ credential.version # 0
    BY <1>0, <2>2
  <2> QED
    BY <1>4, <2>1, <2>2 DEF ApplyChange
<1>5. CASE CleanFile
  BY <1>5 DEF CleanFile, IdleOperator
<1>6. CASE OperatorStops
  BY <1>6 DEF OperatorStops, IdleOperator
<1>7. CASE UNCHANGED accountVars
  BY <1>7 DEF accountVars
<1>8. \/ \E p \in Passwords : Ensure(p) \/ Change(p)
      \/ Initialize \/ ApplyChange \/ CleanFile \/ OperatorStops
      \/ UNCHANGED accountVars
  <2>1. ASSUME NEW t \in Threads, LoginStep(t) \/ FailLogin(t) \/ \E l \in Logins : Arrive(t, l)
        PROVE  UNCHANGED accountVars
    BY <2>1 DEF LoginStep, LookEarly, BlockEarly, ReadCredential, TakeSlot, Derive, Conclude,
                Respond, FailLogin, Arrive
  <2>2. CASE (\E l \in Logins : Logout(l)) \/ Tick \/ UNCHANGED vars
    BY <2>2 DEF Logout, Tick, vars
  <2> QED
    BY <2>1, <2>2 DEF Next
<1> QED
  BY <1>1, <1>2, <1>3, <1>4, <1>5, <1>6, <1>7, <1>8

-----------------------------------------------------------------------------
(* The sessions. *)

(* What a thread knows is still true when it has read and found it out.     *)
LEMMA ThreadsStep ==
  ASSUME TypeOK, OperatorInv, SessionInv, [Next]_vars, NEW u \in Threads
  PROVE  Verified(u)'
<1> Verified(u)
  BY DEF SessionInv
<1>1. CASE thread'[u] = thread[u]
  BY <1>1 DEF Verified
<1>2. CASE thread'[u].pc \notin {"slot", "derive", "commit"}
  BY <1>2 DEF Verified
<1>3. CASE ReadCredential(u)
  <2>1. thread'[u] = [pc |-> "slot", login |-> thread[u].login, seen |-> credential]
    BY <1>3 DEF ReadCredential, Proceed, TypeOK
  <2> QED
    BY <2>1 DEF Verified, OperatorInv
<1>4. CASE TakeSlot(u)
  <2>1. thread[u].pc = "slot"
    BY <1>4 DEF TakeSlot
  <2>2. thread[u] \in [pc : {"slot", "derive"}, login : Logins, seen : Credentials]
    BY <2>1, ThreadFacts DEF ThreadStates, IdleThread
  <2>3. thread'[u] = [thread[u] EXCEPT !.pc = "derive"] \/ thread'[u] = IdleThread
    BY <1>4 DEF TakeSlot, Proceed, TypeOK
  <2> QED
    BY <2>1, <2>2, <2>3 DEF Verified, IdleThread
<1>5. CASE Derive(u)
  <2>1. thread'[u] = [pc |-> "commit", login |-> thread[u].login, seen |-> thread[u].seen,
                      valid |-> thread[u].login.password = thread[u].seen.password]
    BY <1>5 DEF Derive, Proceed, TypeOK
  <2>2. Sane(thread[u].seen)
    BY <1>5 DEF Derive, Verified
  <2> QED
    BY <2>1, <2>2 DEF Verified
<1>6. ASSUME NEW t \in Threads, LoginStep(t) \/ FailLogin(t) \/ \E l \in Logins : Arrive(t, l)
      PROVE  Verified(u)'
  <2>1. \E next : Proceed(t, next)
    BY <1>6 DEF LoginStep, LookEarly, BlockEarly, ReadCredential, TakeSlot, Derive, Conclude,
                Respond, FailLogin, Arrive, Answer, Proceed
  <2>2. CASE t # u
    BY <1>1, <2>1, <2>2 DEF Proceed, TypeOK
  <2>3. CASE t = u
    <3>1. ASSUME NEW l, NEW g, Answer(u, l, g) PROVE thread'[u].pc \in {"granted", "idle"}
      BY <3>1 DEF Answer, IdleThread, TypeOK
    <3>2. CASE LookEarly(u)
      <4>1. CASE \E l, g : Answer(u, l, g)
        BY <1>2, <3>1, <4>1
      <4>2. CASE \E next : Proceed(u, next) /\ next.pc \in {"block", "read"}
        BY <1>2, <4>2 DEF Proceed, TypeOK
      <4> QED
        BY <3>2, <4>1, <4>2 DEF LookEarly
    <3>3. CASE BlockEarly(u)
      <4>1. \E next : Proceed(u, next) /\ next.pc \in {"idle", "read"}
        BY <3>3 DEF BlockEarly, IdleThread
      <4> QED
        BY <1>2, <4>1 DEF Proceed, TypeOK
    <3>4. CASE Conclude(u)
      <4>1. \E l, g : Answer(u, l, g)
        BY <3>4, Zenon DEF Conclude
      <4> QED
        BY <1>2, <3>1, <4>1
    <3>5. CASE Respond(u) \/ FailLogin(u)
      BY <1>2, <3>5 DEF Respond, FailLogin, Proceed, IdleThread, TypeOK
    <3>6. CASE \E l \in Logins : Arrive(u, l)
      BY <1>2, <3>6 DEF Arrive, Proceed, TypeOK
    <3> QED
      BY <1>3, <1>4, <1>5, <1>6, <2>3, <3>2, <3>3, <3>4, <3>5, <3>6 DEF LoginStep
  <2> QED
    BY <2>2, <2>3
<1>7. CASE UNCHANGED thread
  BY <1>1, <1>7
<1>8. \/ \E t \in Threads : LoginStep(t) \/ FailLogin(t) \/ \E l \in Logins : Arrive(t, l)
      \/ UNCHANGED thread
  BY DEF Next, Logout, Ensure, Change, Initialize, ApplyChange, CleanFile, OperatorStops, Tick, vars
<1> QED
  BY <1>6, <1>7, <1>8

(* A decision either leaves sessions alone, or grants one, under a key that *)
(* was not used, for the credential in force.                              *)
LEMMA ConcludeGrants ==
  ASSUME TypeOK, OperatorInv, SessionInv, NEW t \in Threads, Conclude(t), sessions' # sessions
  PROVE  LET l == thread[t].login IN
           /\ l \in Logins /\ ~ Known(l)
           /\ credential.version # 0
           /\ sessions' = [sessions EXCEPT ![l] =
                [granted |-> credential.version, created |-> clock, revoked |-> FALSE]]
           /\ ledger' = ledger \cup {[login |-> l, status |-> "granted"]}
<1> DEFINE l == thread[t].login
<1>1. /\ RowsOf(l) = {} /\ StillInForce(thread[t].seen) /\ thread[t].valid
      /\ thread[t].pc = "commit"
      /\ sessions' = [sessions EXCEPT ![l] =
           [granted |-> thread[t].seen.version, created |-> clock, revoked |-> FALSE]]
      /\ ledger' = ledger \cup {[login |-> l, status |-> "granted"]}
  BY DEF Conclude, loginVars
<1>2. l \in Logins /\ credential = thread[t].seen
  BY <1>1, ThreadFacts DEF StillInForce
<1>3. ~ Known(l)
  <2>1. Known(l) => \E row \in ledger : row.login = l
    BY <1>2 DEF SessionInv
  <2> QED
    BY <1>1, <2>1 DEF RowsOf
<1>4. credential.version # 0
  <2>1. l.password = credential.password
    BY <1>1, <1>2 DEF SessionInv, Verified
  <2> QED
    BY <1>2, <2>1, SessionAssumption DEF OperatorInv, Sane
<1> QED
  BY <1>1, <1>2, <1>3, <1>4

(* What a step does to a session that is known: nothing, or it ends it.     *)
LEMMA SessionMoves ==
  ASSUME TypeOK, OperatorInv, SessionInv, [Next]_vars, NEW k \in Logins
  PROVE  \/ sessions'[k] = sessions[k]
         \/ /\ Known(k)
            /\ sessions'[k] = [sessions[k] EXCEPT !.revoked = TRUE]
         \/ /\ ~ Known(k)
            /\ sessions'[k].granted = credential.version
            /\ UNCHANGED <<credential, clock>>
            /\ \E row \in ledger' : row.login = k
<1>1. ASSUME NEW t \in Threads, Conclude(t), sessions' # sessions
      PROVE  \/ sessions'[k] = sessions[k]
             \/ /\ ~ Known(k)
                /\ sessions'[k].granted = credential.version
                /\ UNCHANGED <<credential, clock>>
                /\ \E row \in ledger' : row.login = k
  <2> DEFINE l == thread[t].login
             new == [granted |-> credential.version, created |-> clock, revoked |-> FALSE]
  <2>1. /\ l \in Logins /\ ~ Known(l) /\ sessions' = [sessions EXCEPT ![l] = new]
        /\ ledger' = ledger \cup {[login |-> l, status |-> "granted"]}
    BY <1>1, ConcludeGrants
  <2>2. UNCHANGED <<credential, clock>>
    BY <1>1 DEF Conclude, accountVars
  <2>3. CASE k = l
    <3>1. sessions'[k] = new
      BY <2>1, <2>3 DEF TypeOK
    <3>2. \E row \in ledger' : row.login = k
      <4>1. [login |-> l, status |-> "granted"] \in ledger'
        BY <2>1
      <4> QED
        BY <2>3, <4>1
    <3>3. sessions'[k].granted = credential.version
      BY <3>1
    <3>4. ~ Known(k)
      BY <2>1, <2>3
    <3> QED
      BY <2>2, <3>2, <3>3, <3>4
  <2>4. CASE k # l
    <3> HIDE DEF l, new
    <3> QED
      BY <2>1, <2>4 DEF TypeOK
  <2> QED
    BY <2>3, <2>4
<1>2. CASE ApplyChange
  BY <1>2 DEF ApplyChange, RevokeAll, Unrevoked, TypeOK
<1>3. ASSUME NEW l \in Logins, Logout(l)
      PROVE  \/ sessions'[k] = sessions[k]
             \/ /\ Known(k)
                /\ sessions'[k] = [sessions[k] EXCEPT !.revoked = TRUE]
  BY <1>3 DEF Logout, TypeOK
<1>4. \/ \E t \in Threads : Conclude(t)
      \/ ApplyChange
      \/ \E l \in Logins : Logout(l)
      \/ UNCHANGED sessions
  <2>1. ASSUME NEW t \in Threads, LoginStep(t) \/ FailLogin(t) \/ \E l \in Logins : Arrive(t, l)
        PROVE  Conclude(t) \/ UNCHANGED sessions
    BY <2>1 DEF LoginStep, LookEarly, BlockEarly, ReadCredential, TakeSlot, Derive,
                Respond, FailLogin, Arrive, loginVars
  <2>2. CASE \/ \E p \in Passwords : Ensure(p) \/ Change(p)
             \/ Initialize \/ CleanFile \/ OperatorStops \/ Tick \/ UNCHANGED vars
    BY <2>2 DEF Ensure, Change, Initialize, CleanFile, OperatorStops, Tick, vars, loginVars
  <2> QED
    BY <2>1, <2>2 DEF Next
<1> QED
  BY <1>1, <1>2, <1>3, <1>4

(* Whenever the credential changes, all sessions end. *)
LEMMA CredentialMoves ==
  ASSUME TypeOK, OperatorInv, SessionInv, [Next]_vars, credential' # credential,
         NEW k \in Logins
  PROVE  ~ Unrevoked(k)'
<1>1. CASE Initialize
  <2>1. credential.version = 0 /\ sessions' = sessions
    BY <1>1 DEF Initialize, OperatorInv, loginVars
  <2>2. ~ Unrevoked(k)
    BY <2>1 DEF SessionInv, Unrevoked, Known
  <2> QED
    BY <2>1, <2>2 DEF Unrevoked, Known
<1>2. CASE ApplyChange
  <2>1. RevokeAll
    BY <1>2 DEF ApplyChange
  <2>2. sessions[k] \in [granted : Nat, created : Nat, revoked : BOOLEAN]
    BY DEF TypeOK
  <2>3. sessions'[k] = IF Unrevoked(k) THEN [sessions[k] EXCEPT !.revoked = TRUE] ELSE sessions[k]
    BY <2>1 DEF RevokeAll
  <2> QED
    BY <2>2, <2>3 DEF Unrevoked, Known
<1>3. Initialize \/ ApplyChange
  <2>1. ASSUME NEW t \in Threads, LoginStep(t) \/ FailLogin(t) \/ \E l \in Logins : Arrive(t, l)
        PROVE  UNCHANGED credential
    BY <2>1 DEF LoginStep, LookEarly, BlockEarly, ReadCredential, TakeSlot, Derive, Conclude,
                Respond, FailLogin, Arrive, accountVars
  <2>2. CASE \/ \E p \in Passwords : Ensure(p) \/ Change(p)
             \/ \E l \in Logins : Logout(l)
             \/ CleanFile \/ OperatorStops \/ Tick \/ UNCHANGED vars
    BY <2>2 DEF Ensure, Change, Logout, CleanFile, OperatorStops, Tick, vars, accountVars
  <2> QED
    BY <2>1, <2>2 DEF Next
<1> QED
  BY <1>1, <1>2, <1>3

LEMMA LedgerGrows ==
  ASSUME [Next]_vars
  PROVE  ledger \subseteq ledger'
<1>1. ASSUME NEW t \in Threads, LoginStep(t) \/ FailLogin(t) \/ \E l \in Logins : Arrive(t, l)
      PROVE  ledger \subseteq ledger'
  BY <1>1 DEF LoginStep, LookEarly, BlockEarly, ReadCredential, TakeSlot, Derive, Conclude,
              Respond, FailLogin, Arrive, loginVars
<1>2. CASE \/ \E p \in Passwords : Ensure(p) \/ Change(p)
           \/ \E l \in Logins : Logout(l)
           \/ Initialize \/ ApplyChange \/ CleanFile \/ OperatorStops \/ Tick \/ UNCHANGED vars
  BY <1>2 DEF Ensure, Change, Logout, Initialize, ApplyChange, CleanFile, OperatorStops, Tick,
              vars, loginVars
<1> QED
  BY <1>1, <1>2 DEF Next

LEMMA SessionStep == TypeOK /\ OperatorInv /\ SessionInv /\ [Next]_vars => SessionInv'
<1> SUFFICES ASSUME TypeOK, OperatorInv, SessionInv, [Next]_vars PROVE SessionInv'
  OBVIOUS
<1>1. \A t \in Threads : Verified(t)'
  BY ThreadsStep
<1>2. ASSUME NEW k \in Logins, Unrevoked(k)' PROVE sessions'[k].granted = credential'.version
  <2>1. credential' = credential
    BY <1>2, CredentialMoves
  <2>2. sessions[k] \in [granted : Nat, created : Nat, revoked : BOOLEAN]
    BY DEF TypeOK
  <2>3. sessions'[k] # [sessions[k] EXCEPT !.revoked = TRUE]
    BY <1>2, <2>2 DEF Unrevoked, Known
  <2>4. CASE sessions'[k] = sessions[k]
    BY <1>2, <2>1, <2>4 DEF SessionInv, Unrevoked, Known
  <2> QED
    BY <2>1, <2>3, <2>4, SessionMoves
<1>3. ASSUME NEW k \in Logins, Known(k)' PROVE \E row \in ledger' : row.login = k
  <2>1. CASE Known(k)
    BY <2>1, LedgerGrows DEF SessionInv
  <2>2. CASE ~ Known(k)
    BY <1>3, <2>2, SessionMoves DEF Known
  <2> QED
    BY <2>1, <2>2
<1> QED
  BY <1>1, <1>2, <1>3 DEF SessionInv

-----------------------------------------------------------------------------
(* The limits.  Whoever adds a row at this time has found too few of them   *)
(* since a time no later than the beginning of any window it falls into.    *)

LatestOf(rows, l, from) == {r \in rows : r.login.source = l.source /\ r.at >= from}

LEMMA WithinGrows ==
  ASSUME NEW now \in Nat,
         NEW rows, rows \subseteq Entries, IsFiniteSet(rows),
         NEW e \in Entries, e.at = now,
         NEW from \in Nat, from <= Since(now),
         NEW bound \in Nat, Cardinality(LatestOf(rows, e.login, from)) < bound,
         NEW l \in Logins, NEW x \in Nat,
         Cardinality(Within(rows, l, x)) <= bound
  PROVE  Cardinality(Within(rows \cup {e}, l, x)) <= bound
<1> DEFINE W == Within(rows, l, x)
           F == LatestOf(rows, e.login, from)
<1>1. IsFiniteSet(W) /\ IsFiniteSet(F)
  BY FS_Subset DEF Within, LatestOf
<1>2. CASE e.login.source = l.source /\ x <= now /\ now <= x + Window
  <2>1. Since(now) <= x
    BY <1>2, SessionAssumption DEF Since
  <2>2. W \subseteq F
    <3> SUFFICES ASSUME NEW r \in W PROVE r \in F
      OBVIOUS
    <3>1. r \in rows /\ r.at \in Nat /\ r.login.source = l.source /\ x <= r.at
      BY DEF Within, Entries
    <3>2. from <= r.at
      BY <2>1, <3>1, SinceFacts
    <3> QED
      BY <1>2, <3>1, <3>2 DEF LatestOf
  <2>3. Cardinality(W) <= Cardinality(F) /\ Cardinality(W) \in Nat /\ Cardinality(F) \in Nat
    BY <1>1, <2>2, FS_Subset, FS_CardinalityType
  <2>4. Within(rows \cup {e}, l, x) = W \cup {e}
    BY <1>2 DEF Within
  <2>5. Cardinality(W \cup {e}) <= Cardinality(W) + 1
    <3> HIDE DEF W
    <3>1. Cardinality(W \cup {e}) = IF e \in W THEN Cardinality(W) ELSE Cardinality(W) + 1
      BY <1>1, FS_AddElement
    <3> QED
      BY <2>3, <3>1
  <2>6. Cardinality(W \cup {e}) \in Nat
    BY <1>1, FS_AddElement, FS_CardinalityType
  <2> HIDE DEF W, F
  <2>7. Cardinality(F) < bound
    BY DEF F
  <2> QED
    BY <2>3, <2>4, <2>5, <2>6, <2>7
<1>3. CASE ~ (e.login.source = l.source /\ x <= now /\ now <= x + Window)
  <2>1. Within(rows \cup {e}, l, x) = W
    BY <1>3 DEF Within
  <2> QED
    BY <2>1
<1> QED
  BY <1>2, <1>3

(* The limit on the rows of a table. *)
Limited(rows, bound) == \A l \in Logins, x \in Nat : Cardinality(Within(rows, l, x)) <= bound

LEMMA BlockKeeps ==
  ASSUME TypeOK, Limited(blocks, 1), NEW l \in Logins,
         NEW from \in Nat, from <= Since(clock), Block(l, from)
  PROVE  Limited(blocks, 1)'
<1> DEFINE e == [login |-> l, at |-> clock]
<1>1. CASE BlocksOf(l, from) # {}
  BY <1>1 DEF Block, Limited, Within
<1>2. CASE BlocksOf(l, from) = {}
  <2>1. blocks' = blocks \cup {e} /\ e \in Entries /\ e.at = clock /\ e.login = l
    BY <1>2 DEF Block, Entries, TypeOK
  <2>2. Cardinality(LatestOf(blocks, e.login, from)) < 1
    <3>1. LatestOf(blocks, e.login, from) = {}
      BY <1>2 DEF LatestOf, BlocksOf
    <3> QED
      BY <3>1, FS_EmptySet
  <2>3. clock \in Nat /\ blocks \subseteq Entries /\ IsFiniteSet(blocks)
    BY DEF TypeOK
  <2> HIDE DEF e
  <2>4. ASSUME NEW k \in Logins, NEW x \in Nat
        PROVE  Cardinality(Within(blocks \cup {e}, k, x)) <= 1
    <3>1. Cardinality(Within(blocks, k, x)) <= 1
      BY DEF Limited
    <3> QED
      BY <2>1, <2>2, <2>3, <3>1, WithinGrows
  <2> QED
    BY <2>1, <2>4 DEF Limited, Within
<1> QED
  BY <1>1, <1>2

LEMMA FailureKeeps ==
  ASSUME TypeOK, Limited(failures, MaxFailures), NEW l \in Logins, ~ TooManyNow(l),
         failures' = failures \cup {[login |-> l, at |-> clock]}
  PROVE  Limited(failures, MaxFailures)'
<1> DEFINE e == [login |-> l, at |-> clock]
<1>1. clock \in Nat /\ failures \subseteq Entries /\ IsFiniteSet(failures)
  BY DEF TypeOK
<1>2. e \in Entries /\ e.at = clock /\ e.login = l
  BY DEF Entries, TypeOK
<1>3. Since(clock) \in Nat /\ MaxFailures \in Nat
  BY <1>1, SinceFacts, SessionAssumption
<1>4. Cardinality(LatestOf(failures, e.login, Since(clock))) < MaxFailures
  <2> DEFINE F == FailuresOf(l, Since(clock))
  <2>1. LatestOf(failures, e.login, Since(clock)) = F
    BY <1>2 DEF LatestOf, FailuresOf
  <2>2. F \subseteq failures /\ ~ (Cardinality(F) >= MaxFailures)
    BY DEF FailuresOf, TooManyNow, TooMany
  <2>3. Cardinality(F) \in Nat
    BY <1>1, <2>2, FS_Subset, FS_CardinalityType
  <2> HIDE DEF F
  <2> QED
    BY <1>3, <2>1, <2>2, <2>3
<1>5. failures' = failures \cup {e}
  OBVIOUS
<1> HIDE DEF e
<1>6. ASSUME NEW k \in Logins, NEW x \in Nat
      PROVE  Cardinality(Within(failures \cup {e}, k, x)) <= MaxFailures
  <2>1. Cardinality(Within(failures, k, x)) <= MaxFailures
    BY DEF Limited
  <2>2. Since(clock) <= Since(clock)
    BY <1>3
  <2> QED
    BY <1>1, <1>2, <1>3, <1>4, <2>1, <2>2, WithinGrows
<1> QED
  BY <1>5, <1>6 DEF Limited, Within

(* The time since which a thread counts. *)
CountsBack(t) == thread[t].pc = "block" => thread[t].since <= Since(clock)

LEMMA TimeStep ==
  ASSUME TypeOK, [Next]_vars
  PROVE  /\ clock' \in Nat /\ clock <= clock'
         /\ Since(clock) <= Since(clock') /\ Since(clock) \in Nat /\ Since(clock') \in Nat
<1>1. clock \in Nat /\ clock' \in Nat
  BY TypeStep DEF TypeOK
<1>2. clock' = clock \/ clock' = clock + 1
  <2>1. ASSUME NEW t \in Threads, LoginStep(t) \/ FailLogin(t) \/ \E l \in Logins : Arrive(t, l)
        PROVE  UNCHANGED clock
    BY <2>1 DEF LoginStep, LookEarly, BlockEarly, ReadCredential, TakeSlot, Derive, Conclude,
                Respond, FailLogin, Arrive
  <2>2. CASE \/ \E p \in Passwords : Ensure(p) \/ Change(p)
             \/ \E l \in Logins : Logout(l)
             \/ Initialize \/ ApplyChange \/ CleanFile \/ OperatorStops \/ UNCHANGED vars
    BY <2>2 DEF Ensure, Change, Logout, Initialize, ApplyChange, CleanFile, OperatorStops, vars
  <2>3. CASE Tick
    BY <2>3 DEF Tick
  <2> QED
    BY <2>1, <2>2, <2>3 DEF Next
<1>3. clock <= clock'
  BY <1>1, <1>2
<1> QED
  BY <1>1, <1>3, SinceFacts

LEMMA CountsStep ==
  ASSUME TypeOK, [Next]_vars, NEW u \in Threads, CountsBack(u)
  PROVE  CountsBack(u)'
<1>0. /\ clock \in Nat /\ clock' \in Nat /\ Since(clock) <= Since(clock')
      /\ Since(clock) \in Nat /\ Since(clock') \in Nat
  BY TimeStep DEF TypeOK
<1>1. CASE thread'[u] = thread[u]
  <2>1. thread[u].pc = "block" => thread[u].since \in Nat /\ thread[u].since <= Since(clock)
    BY ThreadFacts DEF CountsBack
  <2>2. thread[u].pc = "block" => thread[u].since <= Since(clock')
    BY <1>0, <2>1
  <2>3. (Since(clock))' = Since(clock')
    BY DEF Since
  <2> QED
    BY <1>1, <2>2, <2>3 DEF CountsBack
<1>2. CASE thread'[u].pc # "block"
  BY <1>2 DEF CountsBack
<1>3. ASSUME LookEarly(u) PROVE CountsBack(u)'
  <2>1. CASE thread'[u] = [pc |-> "block", login |-> thread[u].login, since |-> Since(clock)]
    <3>1. clock' = clock
      BY <1>3 DEF LookEarly
    <3>2. (Since(clock))' = Since(clock)
      BY <3>1 DEF Since
    <3> QED
      BY <1>0, <2>1, <3>2 DEF CountsBack
  <2>2. CASE \E l, g : Answer(u, l, g)
    <3>1. thread'[u].pc # "block"
      BY <2>2 DEF Answer, IdleThread, TypeOK
    <3> QED
      BY <1>2, <3>1
  <2>3. CASE \E next : Proceed(u, next) /\ next.pc = "read"
    BY <1>2, <2>3 DEF Proceed, TypeOK
  <2> QED
    BY <1>3, <2>1, <2>2, <2>3 DEF LookEarly, Proceed, TypeOK
<1>4. ASSUME NEW t \in Threads, LoginStep(t) \/ FailLogin(t) \/ \E l \in Logins : Arrive(t, l)
      PROVE  CountsBack(u)'
  <2>1. CASE t # u
    <3>1. \E next : Proceed(t, next)
      BY <1>4 DEF LoginStep, LookEarly, BlockEarly, ReadCredential, TakeSlot, Derive, Conclude,
                  Respond, FailLogin, Arrive, Answer, Proceed
    <3> QED
      BY <1>1, <2>1, <3>1 DEF Proceed, TypeOK
  <2>2. CASE t = u
    <3>1. CASE Conclude(u)
      <4>1. \E l, g : Answer(u, l, g)
        BY <3>1, Zenon DEF Conclude
      <4>2. thread'[u].pc # "block"
        BY <4>1 DEF Answer, IdleThread, TypeOK
      <4> QED
        BY <1>2, <4>2
    <3>2. CASE TakeSlot(u)
      <4>1. thread[u] \in [pc : {"slot", "derive"}, login : Logins, seen : Credentials]
        BY <3>2, ThreadFacts DEF TakeSlot, ThreadStates, IdleThread
      <4>2. thread'[u] = [thread[u] EXCEPT !.pc = "derive"] \/ thread'[u] = IdleThread
        BY <3>2 DEF TakeSlot, Proceed, TypeOK
      <4> QED
        BY <1>2, <4>1, <4>2 DEF IdleThread
    <3>3. CASE BlockEarly(u) \/ ReadCredential(u) \/ Derive(u) \/ Respond(u) \/ FailLogin(u)
                 \/ \E l \in Logins : Arrive(u, l)
      <4>1. \E next : Proceed(u, next) /\ next.pc # "block"
        <5>1. CASE BlockEarly(u) \/ Respond(u) \/ FailLogin(u)
          BY <5>1 DEF BlockEarly, Respond, FailLogin, IdleThread
        <5>2. CASE ReadCredential(u)
          BY <5>2 DEF ReadCredential
        <5>3. CASE Derive(u)
          BY <5>3 DEF Derive
        <5>4. CASE \E l \in Logins : Arrive(u, l)
          BY <5>4 DEF Arrive
        <5> QED
          BY <3>3, <5>1, <5>2, <5>3, <5>4
      <4> QED
        BY <1>2, <4>1 DEF Proceed, TypeOK
    <3> QED
      BY <1>3, <1>4, <2>2, <3>1, <3>2, <3>3 DEF LoginStep
  <2> QED
    BY <2>1, <2>2
<1>5. CASE UNCHANGED thread
  BY <1>1, <1>5
<1>6. \/ \E t \in Threads : LoginStep(t) \/ FailLogin(t) \/ \E l \in Logins : Arrive(t, l)
      \/ UNCHANGED thread
  BY DEF Next, Logout, Ensure, Change, Initialize, ApplyChange, CleanFile, OperatorStops, Tick, vars
<1> QED
  BY <1>4, <1>5, <1>6

LEMMA LimitStep == TypeOK /\ LimitInv /\ [Next]_vars => LimitInv'
<1> SUFFICES ASSUME TypeOK, LimitInv, [Next]_vars PROVE LimitInv'
  OBVIOUS
<1>1. ASSUME NEW t \in Threads PROVE CountsBack(t)'
  BY CountsStep DEF LimitInv, CountsBack
<1>2. Limited(failures, MaxFailures) /\ Limited(blocks, 1)
  BY DEF LimitInv, Limited
<1>3. UNCHANGED <<failures, blocks>> => Limited(failures, MaxFailures)' /\ Limited(blocks, 1)'
  BY <1>2 DEF Limited, Within
<1>4. ASSUME NEW t \in Threads, BlockEarly(t)
      PROVE  Limited(failures, MaxFailures)' /\ Limited(blocks, 1)'
  <2>1. /\ thread[t].pc = "block" /\ failures' = failures
        /\ blocks' = blocks \/ Block(thread[t].login, thread[t].since)
    BY <1>4 DEF BlockEarly
  <2>2. /\ thread[t].login \in Logins /\ thread[t].since \in Nat
        /\ thread[t].since <= Since(clock)
    BY <2>1, ThreadFacts DEF LimitInv
  <2>3. CASE blocks' = blocks
    BY <1>3, <2>1, <2>3
  <2>4. CASE Block(thread[t].login, thread[t].since)
    <3>1. Limited(blocks, 1)'
      BY <1>2, <2>2, <2>4, BlockKeeps
    <3> QED
      BY <1>2, <2>1, <3>1 DEF Limited, Within
  <2> QED
    BY <2>1, <2>3, <2>4
<1>5. ASSUME NEW t \in Threads, Conclude(t)
      PROVE  Limited(failures, MaxFailures)' /\ Limited(blocks, 1)'
  <2> DEFINE l == thread[t].login
  <2>1. l \in Logins /\ clock \in Nat /\ Since(clock) \in Nat /\ Since(clock) <= Since(clock)
    BY <1>5, ThreadFacts, SinceFacts DEF Conclude, TypeOK
  <2>2. CASE Block(l, Since(clock)) /\ failures' = failures
    <3>1. Limited(blocks, 1)'
      BY <1>2, <2>1, <2>2, BlockKeeps
    <3> QED
      BY <1>2, <2>2, <3>1 DEF Limited, Within
  <2>3. CASE /\ ~ TooManyNow(l) /\ blocks' = blocks
             /\ failures' = failures \cup {[login |-> l, at |-> clock]}
    <3>1. Limited(failures, MaxFailures)'
      BY <1>2, <2>1, <2>3, FailureKeeps
    <3> QED
      BY <1>2, <2>3, <3>1 DEF Limited, Within
  <2>4. CASE UNCHANGED <<failures, blocks>>
    BY <1>3, <2>4
  <2> QED
    BY <1>5, <2>2, <2>3, <2>4 DEF Conclude, loginVars
<1>6. \/ \E t \in Threads : BlockEarly(t) \/ Conclude(t)
      \/ UNCHANGED <<failures, blocks>>
  <2>1. ASSUME NEW t \in Threads, LoginStep(t) \/ FailLogin(t) \/ \E l \in Logins : Arrive(t, l)
        PROVE  BlockEarly(t) \/ Conclude(t) \/ UNCHANGED <<failures, blocks>>
    BY <2>1 DEF LoginStep, LookEarly, ReadCredential, TakeSlot, Derive, Respond, FailLogin, Arrive,
                loginVars
  <2>2. CASE \/ \E p \in Passwords : Ensure(p) \/ Change(p)
             \/ \E l \in Logins : Logout(l)
             \/ Initialize \/ ApplyChange \/ CleanFile \/ OperatorStops \/ Tick \/ UNCHANGED vars
    BY <2>2 DEF Ensure, Change, Logout, Initialize, ApplyChange, CleanFile, OperatorStops, Tick,
                vars, loginVars
  <2> QED
    BY <2>1, <2>2 DEF Next
<1>7. Limited(failures, MaxFailures)' /\ Limited(blocks, 1)'
  BY <1>3, <1>4, <1>5, <1>6
<1> QED
  BY <1>1, <1>7 DEF LimitInv, Limited, CountsBack

-----------------------------------------------------------------------------
(* What has ended. *)

LEMMA EndedRests ==
  ASSUME SessionsInv, [Next]_vars, NEW k \in Logins, Known(k), ~ Current(k)
  PROVE  ~ Current(k)'
<1> TypeOK /\ OperatorInv /\ SessionInv
  BY DEF SessionsInv
<1>1. sessions[k] \in [granted : Nat, created : Nat, revoked : BOOLEAN]
  BY DEF TypeOK
<1>2. CASE sessions'[k] = [sessions[k] EXCEPT !.revoked = TRUE]
  BY <1>1, <1>2 DEF Current, Unrevoked
<1>3. CASE sessions'[k] = sessions[k]
  <2>1. clock \in Nat /\ clock' \in Nat /\ clock <= clock' /\ Lifetime \in Nat
    BY TimeStep, SessionAssumption DEF TypeOK
  <2>2. CASE ~ Unrevoked(k)
    BY <1>3, <2>2 DEF Current, Unrevoked, Known
  <2>3. CASE ~ (clock < sessions[k].created + Lifetime)
    <3>1. ~ (clock' < sessions'[k].created + Lifetime)
      BY <1>1, <1>3, <2>1, <2>3
    <3> QED
      BY <3>1 DEF Current
  <2> QED
    BY <2>2, <2>3 DEF Current
<1> QED
  BY <1>2, <1>3, SessionMoves

LEMMA GrantedIsCurrent ==
  ASSUME SessionsInv, [Next]_vars, NEW u \in Threads, NEW k \in Logins,
         thread'[u] = [pc |-> "granted", login |-> k], thread[u].pc # "granted"
  PROVE  Current(k)'
<1> TypeOK /\ OperatorInv /\ SessionInv
  BY DEF SessionsInv
<1> thread'[u].pc = "granted" /\ thread'[u].login = k
  OBVIOUS
<1>1. ASSUME NEW l, NEW row, Answer(u, l, Replayed(l, row)), UNCHANGED <<clock, sessions>>
      PROVE  Current(k)'
  <2>1. k = l /\ Replayed(l, row)
    BY <1>1 DEF Answer, IdleThread, TypeOK
  <2>2. Current(k)
    BY <2>1 DEF Replayed
  <2> QED
    BY <1>1, <2>2 DEF Current, Unrevoked, Known
<1>2. ASSUME NEW l, Answer(u, l, FALSE) PROVE FALSE
  BY <1>2 DEF Answer, IdleThread, TypeOK
<1>3. ASSUME NEW next, Proceed(u, next), next.pc # "granted" PROVE FALSE
  BY <1>3 DEF Proceed, TypeOK
<1>4. CASE LookEarly(u)
  <2> DEFINE l == thread[u].login
  <2>1. CASE \E row \in RowsOf(l) : Answer(u, l, Replayed(l, row))
    BY <1>1, <1>4, <2>1 DEF LookEarly, loginVars
  <2>2. CASE \E next : Proceed(u, next) /\ next.pc \in {"block", "read"}
    BY <1>3, <2>2
  <2> QED
    BY <1>4, <2>1, <2>2 DEF LookEarly
<1>5. CASE Conclude(u)
  <2> DEFINE l == thread[u].login
  <2>1. UNCHANGED clock
    BY <1>5 DEF Conclude
  <2>2. CASE (\E row \in RowsOf(l) : Answer(u, l, Replayed(l, row))) /\ UNCHANGED loginVars
    BY <1>1, <2>1, <2>2 DEF loginVars
  <2>3. CASE Answer(u, l, FALSE)
    BY <1>2, <2>3
  <2>4. CASE /\ Answer(u, l, TRUE) /\ RowsOf(l) = {}
             /\ StillInForce(thread[u].seen) /\ thread[u].valid
             /\ sessions' = [sessions EXCEPT ![l] =
                               [granted |-> thread[u].seen.version, created |-> clock,
                                revoked |-> FALSE]]
    <3>1. k = l
      BY <2>4 DEF Answer, TypeOK
    <3>2. sessions'[k] = [granted |-> thread[u].seen.version, created |-> clock, revoked |-> FALSE]
      BY <2>4, <3>1 DEF TypeOK
    <3>3. thread[u].seen.version # 0
      <4>1. l \in Logins /\ l.password = thread[u].seen.password /\ Sane(thread[u].seen)
        BY <1>5, <2>4, ThreadFacts DEF Conclude, SessionInv, Verified
      <4> QED
        BY <4>1, SessionAssumption DEF Sane
    <3>4. clock' < sessions'[k].created + Lifetime
      <4>1. sessions'[k].created = clock
        BY <3>2
      <4> QED
        BY <2>1, <4>1, SessionAssumption DEF TypeOK
    <3>5. sessions'[k].granted # 0 /\ ~ sessions'[k].revoked
      BY <3>2, <3>3
    <3> QED
      BY <3>4, <3>5 DEF Current, Unrevoked, Known
  <2> HIDE DEF l
  <2> QED
    BY <1>5, <2>2, <2>3, <2>4, Zenon DEF Conclude, l
<1>6. CASE BlockEarly(u) \/ Respond(u) \/ FailLogin(u)
  <2>1. \E next : Proceed(u, next) /\ next.pc \in {"idle", "read"}
    BY <1>6 DEF BlockEarly, Respond, FailLogin, IdleThread
  <2> QED
    BY <1>3, <2>1
<1>7. CASE ReadCredential(u)
  BY <1>3, <1>7 DEF ReadCredential
<1>8. CASE TakeSlot(u)
  <2>1. thread[u] \in [pc : {"slot", "derive"}, login : Logins, seen : Credentials]
    BY <1>8, ThreadFacts DEF TakeSlot, ThreadStates, IdleThread
  <2>2. \E next : Proceed(u, next) /\ next.pc \in {"derive", "idle"}
    BY <1>8, <2>1 DEF TakeSlot, IdleThread
  <2> QED
    BY <1>3, <2>2
<1>9. CASE Derive(u)
  BY <1>3, <1>9 DEF Derive
<1>10. CASE \E l \in Logins : Arrive(u, l)
  BY <1>3, <1>10 DEF Arrive
<1>11. LoginStep(u) \/ FailLogin(u) \/ \E l \in Logins : Arrive(u, l)
  <2>1. ASSUME NEW t \in Threads, LoginStep(t) \/ FailLogin(t) \/ \E l \in Logins : Arrive(t, l),
               t # u
        PROVE  thread'[u] = thread[u]
    <3>1. \E next : Proceed(t, next)
      BY <2>1 DEF LoginStep, LookEarly, BlockEarly, ReadCredential, TakeSlot, Derive, Conclude,
                  Respond, FailLogin, Arrive, Answer, Proceed
    <3> QED
      BY <2>1, <3>1 DEF Proceed, TypeOK
  <2>2. \/ \E t \in Threads : LoginStep(t) \/ FailLogin(t) \/ \E l \in Logins : Arrive(t, l)
        \/ UNCHANGED thread
    BY DEF Next, Logout, Ensure, Change, Initialize, ApplyChange, CleanFile, OperatorStops, Tick, vars
  <2> QED
    BY <2>1, <2>2
<1> QED
  BY <1>4, <1>5, <1>6, <1>7, <1>8, <1>9, <1>10, <1>11 DEF LoginStep

-----------------------------------------------------------------------------
(* The theorems. *)

LEMMA SessionsInit == Init => SessionsInv
<1> SUFFICES ASSUME Init PROVE SessionsInv
  OBVIOUS
<1>1. TypeOK
  BY SessionAssumption, FS_EmptySet
     DEF Init, TypeOK, Credentials, OperatorStates, ThreadStates, NoSession
<1>2. OperatorInv
  BY DEF Init, OperatorInv, Sane, IdleOperator, InitialPasswordIsKnown
<1>3. SessionInv
  BY DEF Init, SessionInv, Verified, IdleThread, Unrevoked, Known, NoSession
<1>4. LimitInv
  <2>1. ASSUME NEW t \in Threads PROVE thread[t].pc # "block"
    BY DEF Init, IdleThread
  <2>2. ASSUME NEW l \in Logins, NEW x \in Nat
        PROVE  Within(failures, l, x) = {} /\ Within(blocks, l, x) = {}
    BY DEF Init, Within
  <2>3. Cardinality({}) = 0 /\ 0 <= MaxFailures /\ 0 <= 1
    BY FS_EmptySet, SessionAssumption
  <2> QED
    BY <2>1, <2>2, <2>3 DEF LimitInv
<1> QED
  BY <1>1, <1>2, <1>3, <1>4 DEF SessionsInv

LEMMA SessionsStep == SessionsInv /\ [Next]_vars => SessionsInv'
  BY TypeStep, OperatorStep, SessionStep, LimitStep DEF SessionsInv

LEMMA SessionsInvariant == Spec => []SessionsInv
  BY SessionsInit, SessionsStep, PTL DEF Spec

(* However many logins are verified beside a change of the password, no     *)
(* session that opens doors was granted for another credential than the one *)
(* in force: a login reads it again under the lock that ends all sessions.  *)
THEOREM SessionsKnowTheCredential == Spec => []SessionsAreInForce
<1>1. SessionsInv => SessionsAreInForce
  BY DEF SessionsInv, SessionInv, SessionsAreInForce, Current
<1> QED
  BY <1>1, SessionsInvariant, PTL

(* The limit on failed logins, and that on their audit rows, hold in every  *)
(* window of time for any number of threads, logins and slots.              *)
THEOREM LimitsHold == Spec => []AttemptsLimited
<1>1. SessionsInv => AttemptsLimited
  <2> SUFFICES ASSUME SessionsInv, NEW l \in Logins, NEW x \in 0 .. clock
               PROVE  /\ Cardinality(Within(failures, l, x)) <= MaxFailures
                      /\ Cardinality(Within(blocks, l, x)) <= 1
    BY DEF AttemptsLimited
  <2>1. x \in Nat
    BY DEF SessionsInv, TypeOK
  <2> QED
    BY <2>1 DEF SessionsInv, LimitInv
<1> QED
  BY <1>1, SessionsInvariant, PTL

(* Wherever ensure is killed or fails, the first password is in its file.   *)
THEOREM PasswordIsFound == Spec => []InitialPasswordIsKnown
<1>1. SessionsInv => InitialPasswordIsKnown
  BY DEF SessionsInv, OperatorInv
<1> QED
  BY <1>1, SessionsInvariant, PTL

(* No login, repeated or new, revives a session that has ended, or hands    *)
(* one out.                                                                *)
THEOREM EndedIsFinal == Spec => EndedStaysEnded
<1>1. SessionsInv /\ [Next]_vars =>
        [/\ \A l \in Logins : Known(l) /\ ~Current(l) => ~Current(l)'
         /\ \A t \in Threads, l \in Logins :
              thread'[t] = [pc |-> "granted", login |-> l] /\ thread[t].pc # "granted"
                => Current(l)']_vars
  BY EndedRests, GrantedIsCurrent
<1> QED
  BY <1>1, SessionsInvariant, PTL DEF Spec, EndedStaysEnded
=============================================================================
