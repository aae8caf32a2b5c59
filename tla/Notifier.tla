------------------------------ MODULE Notifier ------------------------------
(***************************************************************************)
(* The notification outbox of hermesops-notifier: events and approvals are *)
(* collected into rows, a worker claims a row under a lease, sends it with *)
(* no transaction open, and records the attempt.  The daemon is one worker *)
(* (a lock file keeps a second one out); run-once and test-message         *)
(* --deliver are others, and share the outbox with it.                     *)
(***************************************************************************)
EXTENDS Integers, Sequences, FiniteSets

CONSTANTS
  Events,       \* rows of "events" and "objective_events" that have a message
  Approvals,    \* rows of "approvals"
  Workers,      \* processes that deliver
  Daemon,       \* the one among them that systemd keeps running
  Rank,         \* severity of a notification: 0 is delivered first
  MaxAttempts,  \* notification_outbox.max_attempts
  NoNote,       \* "no row", for an idle worker
  MaxCrashes    \* bound on worker deaths

(* A notification: one row of the outbox, named by its dedupe_key.          *)
Notes == Events \cup (Approvals \X {"PENDING", "CLOSED"})

ASSUME ConstantsAssumption ==
  /\ IsFiniteSet(Workers) /\ Daemon \in Workers
  /\ Rank \in [Notes -> Nat]
  /\ MaxAttempts \in Nat \ {0}
  /\ NoNote \notin Notes
  /\ MaxCrashes \in Nat

VARIABLES
  log,          \* the event tables, in the order of their rowid
  cursor,       \* notification_cursors.last_rowid
  approval,     \* approvals.status
  outbox,       \* notification_outbox.status, "NONE" for no row
  attempts,     \* notification_outbox.attempt_count
  leased,       \* rows with a lease_expires_at in the future
  deliveries,   \* notification_deliveries: the attempts on record
  worker,       \* where each process is, and the row it has read
  crashes       \* deaths so far

sourceVars == <<log, cursor, approval>>
rowVars    == <<outbox, attempts, leased, deliveries>>
vars == <<log, cursor, approval, outbox, attempts, leased, deliveries, worker, crashes>>

Claimable == {"PENDING", "RETRY"}
Closed    == {"DELIVERED", "DEAD_LETTER"}
Attempt   == [number : Nat, ok : BOOLEAN]

(* What a process has in hand: the row it claimed, the number of its        *)
(* attempt, and the answer it got.                                         *)
Holding == [step : {"idle", "read", "send", "record"}, note : Notes \cup {NoNote},
            number : Nat, ok : BOOLEAN]
Idle == [step |-> "idle", note |-> NoNote, number |-> 0, ok |-> FALSE]

TypeOK ==
  /\ log \in Seq(Events)
  /\ cursor \in 0 .. Len(log)
  /\ approval \in [Approvals -> {"NONE", "PENDING", "CLOSED"}]
  /\ outbox \in [Notes -> {"NONE", "DELIVERING"} \cup Claimable \cup Closed]
  /\ attempts \in [Notes -> Nat]
  /\ leased \subseteq Notes
  /\ deliveries \in [Notes -> SUBSET Attempt]
  /\ worker \in [Workers -> Holding]
  /\ \A w \in Workers : worker[w].step # "idle" => worker[w].note \in Notes
  /\ crashes \in 0 .. MaxCrashes

Init ==
  /\ log = <<>> /\ cursor = 0
  /\ approval = [a \in Approvals |-> "NONE"]
  /\ outbox = [n \in Notes |-> "NONE"]
  /\ attempts = [n \in Notes |-> 0]
  /\ leased = {}
  /\ deliveries = [n \in Notes |-> {}]
  /\ worker = [w \in Workers |-> Idle]
  /\ crashes = 0

-----------------------------------------------------------------------------
(* What the rest of HermesOps writes. *)

Occur(e) ==
  /\ \A i \in DOMAIN log : log[i] # e
  /\ log' = Append(log, e)
  /\ UNCHANGED <<cursor, approval, rowVars, worker, crashes>>

Ask(a) ==
  /\ approval[a] = "NONE"
  /\ approval' = [approval EXCEPT ![a] = "PENDING"]
  /\ UNCHANGED <<log, cursor, rowVars, worker, crashes>>

Answer(a) ==
  /\ approval[a] = "PENDING"
  /\ approval' = [approval EXCEPT ![a] = "CLOSED"]
  /\ UNCHANGED <<log, cursor, rowVars, worker, crashes>>

-----------------------------------------------------------------------------
(* collect_events: one transaction. *)

\* Variant: the row under the cursor is taken for one already read.
FreshSkippingOne == {log[i] : i \in cursor + 2 .. Len(log)}
(* The rows behind the cursor. *)
Fresh == {log[i] : i \in cursor + 1 .. Len(log)}
(* Approvals have no cursor: what is collected is the status at this moment. *)
Asked == {<<a, approval[a]>> : a \in {b \in Approvals : approval[b] # "NONE"}}

LastRow == Len(log)

(* INSERT OR IGNORE, by dedupe_key *)
Collect(w) ==
  /\ worker[w] = Idle
  /\ outbox' = [n \in Notes |-> IF n \in Fresh \cup Asked /\ outbox[n] = "NONE"
                                  THEN "PENDING" ELSE outbox[n]]
  /\ cursor' = LastRow
  /\ UNCHANGED <<log, approval, attempts, leased, deliveries, worker, crashes>>

-----------------------------------------------------------------------------
(* deliver_pending. *)

(* reconcile_abandoned_deliveries, in the transaction of every claim and of *)
(* the daemon's start                                                      *)
Reconciled == [n \in Notes |-> IF outbox[n] = "DELIVERING" /\ n \notin leased
                                 THEN "RETRY" ELSE outbox[n]]

(* Rows that claim_one may select.  next_attempt_at lies in the past        *)
(* whenever the claim comes late enough.                                   *)
Due == {n \in Notes : Reconciled[n] \in Claimable}
(* ORDER BY severity; run-once and test-message may name a row or a channel *)
Eligible(w, n) == n \in Due /\ (w = Daemon => \A m \in Due : Rank[n] <= Rank[m])

Claim(w, n) ==
  /\ worker[w] = Idle /\ Eligible(w, n)
  /\ outbox' = [Reconciled EXCEPT ![n] = "DELIVERING"]
  /\ leased' = leased \cup {n}
  /\ worker' = [worker EXCEPT ![w] = [Idle EXCEPT !.step = "read", !.note = n]]
  /\ UNCHANGED <<sourceVars, attempts, deliveries, crashes>>

(* The daemon's start, and a claim that finds no row: its filters fit none,  *)
(* or none is due yet.                                                     *)
Reconcile(w) ==
  /\ worker[w] = Idle
  /\ outbox' = Reconciled
  /\ UNCHANGED <<sourceVars, attempts, leased, deliveries, worker, crashes>>

(* claim_one selects the row again on a second connection, when the claim   *)
(* is committed.                                                           *)
Read(w) ==
  /\ worker[w].step = "read"
  /\ worker' = [worker EXCEPT ![w].step = "send",
                              ![w].number = attempts[worker[w].note] + 1]
  /\ UNCHANGED <<sourceVars, rowVars, crashes>>

(* deliver_file, deliver_telegram: the call returns or raises; a message   *)
(* whose answer was lost was nevertheless sent.                            *)
Send(w) ==
  /\ worker[w].step = "send"
  /\ \E ok \in BOOLEAN :
       worker' = [worker EXCEPT ![w].step = "record", ![w].ok = ok]
  /\ UNCHANGED <<sourceVars, rowVars, crashes>>

\* Variant: notification_deliveries has no UNIQUE constraint.
NeverOnRecord(w) == FALSE
(* UNIQUE (notification_id, attempt_number) *)
OnRecord(w) == \E d \in deliveries[worker[w].note] : d.number = worker[w].number

\* Variant: the last attempt that max_attempts allows is retried as well.
OutcomeOffByOne(w) == IF worker[w].ok THEN "DELIVERED"
                      ELSE IF worker[w].number > MaxAttempts THEN "DEAD_LETTER"
                      ELSE "RETRY"
Outcome(w) == IF worker[w].ok THEN "DELIVERED"
              ELSE IF worker[w].number >= MaxAttempts THEN "DEAD_LETTER"
              ELSE "RETRY"

(* finish_delivery: by notification_id alone, whoever holds the lease now. *)
Record(w) ==
  /\ worker[w].step = "record" /\ ~OnRecord(w)
  /\ LET n == worker[w].note IN
       /\ deliveries' = [deliveries EXCEPT ![n] =
                           @ \cup {[number |-> worker[w].number, ok |-> worker[w].ok]}]
       /\ outbox' = [outbox EXCEPT ![n] = Outcome(w)]
       /\ attempts' = [attempts EXCEPT ![n] = worker[w].number]
       /\ leased' = leased \ {n}
  /\ worker' = [worker EXCEPT ![w] = Idle]
  /\ UNCHANGED <<sourceVars, crashes>>

(* The INSERT raises: the transaction is undone, and the process ends.  The *)
(* daemon is started again.                                                *)
RecordRefused(w) ==
  /\ worker[w].step = "record" /\ OnRecord(w)
  /\ worker' = [worker EXCEPT ![w] = Idle]
  /\ UNCHANGED <<sourceVars, rowVars, crashes>>

-----------------------------------------------------------------------------
(* Time and death. *)

Expire(n) ==
  /\ n \in leased
  /\ leased' = leased \ {n}
  /\ UNCHANGED <<sourceVars, outbox, attempts, deliveries, worker, crashes>>

Die(w) ==
  /\ worker[w] # Idle /\ crashes < MaxCrashes
  /\ worker' = [worker EXCEPT ![w] = Idle]
  /\ crashes' = crashes + 1
  /\ UNCHANGED <<sourceVars, rowVars>>

Deliver(w) == Read(w) \/ Send(w) \/ Record(w) \/ RecordRefused(w)

Next ==
  \/ \E e \in Events : Occur(e)
  \/ \E a \in Approvals : Ask(a) \/ Answer(a)
  \/ \E w \in Workers : \/ Collect(w) \/ Reconcile(w) \/ \E n \in Notes : Claim(w, n)
                        \/ Deliver(w) \/ Die(w)
  \/ \E n \in Notes : Expire(n)

Spec == Init /\ [][Next]_vars

(* The daemon's loop goes on, an operation that was begun ends, and time    *)
(* passes.  Nothing is assumed of the operator's commands.                 *)
FairSpec ==
  /\ Spec
  /\ WF_vars(Collect(Daemon))
  /\ WF_vars(\E n \in Notes : Claim(Daemon, n))
  /\ \A w \in Workers : WF_vars(Deliver(w))
  /\ \A n \in Notes : WF_vars(Expire(n))

-----------------------------------------------------------------------------
(* The workers whose attempt would be recorded as the next one of this row: *)
(* the number they hold, or are about to read, is not on record yet.       *)
Overtaking(n) ==
  {w \in Workers : /\ worker[w].note = n
                   /\ \/ worker[w].step = "read"
                      \/ /\ worker[w].step \in {"send", "record"}
                         /\ worker[w].number = attempts[n] + 1}

(* The attempts on record (finish_delivery) are numbered without a gap or a *)
(* repetition, and the last of them tells the row's status.  No row is     *)
(* given up before max_attempts, none is left open after it, and each      *)
(* other worker adds at most one attempt beyond it.  Workers that claimed  *)
(* the row one after the other and answer late must not change this.       *)
HistoryMatchesRow ==
  \A n \in Notes :
    LET number(d) == d.number IN
    /\ {number(d) : d \in deliveries[n]} = 1 .. attempts[n]
    /\ \A d, e \in deliveries[n] : d.number = e.number => d = e
    /\ outbox[n] = "DELIVERED" <=> \E d \in deliveries[n] : d.number = attempts[n] /\ d.ok
    /\ outbox[n] = "DEAD_LETTER" => attempts[n] >= MaxAttempts
    /\ attempts[n] >= MaxAttempts => outbox[n] \in Closed
    /\ attempts[n] < MaxAttempts + Cardinality(Workers)

(* A row that is delivered or given up gains no further worker, and is sent *)
(* again or rewritten only by one that had claimed it before: neither one  *)
(* that comes back late from a slow transport nor one that takes the row   *)
(* for abandoned changes it (claim_one; UNIQUE in finish_delivery).        *)
ClosedUnlessOvertaken ==
  [][\A n \in Notes : outbox[n] \in Closed =>
       /\ Overtaking(n)' \subseteq Overtaking(n)
       /\ Overtaking(n) = {} => outbox'[n] = outbox[n] /\ deliveries'[n] = deliveries[n]]_vars

(* The stronger promise one reads in docs/NOTIFICATIONS.md, "Successful rows *)
(* are never resent by normal collection".  Collection keeps it, delivery  *)
(* does not: a worker that reads its claim again after a late answer was   *)
(* recorded (claim_one, finish_delivery) sends the row under the next      *)
(* number.  NotifierResent.cfg is the run that shows it.                   *)
ClosedStaysClosed ==
  [][\A n \in Notes : outbox[n] \in Closed =>
       outbox'[n] = outbox[n] /\ deliveries'[n] = deliveries[n]]_vars

(* Every event, and every approval that is not answered first, ends in a    *)
(* delivery or in a dead letter, whoever died or was slow on the way.      *)
EventIsSettled ==
  /\ \A e \in Events : (\E i \in DOMAIN log : log[i] = e) ~> (outbox[e] \in Closed)
  /\ \A a \in Approvals :
       (approval[a] = "PENDING") ~>
         (approval[a] # "PENDING" \/ outbox[<<a, "PENDING">>] \in Closed)
=============================================================================
