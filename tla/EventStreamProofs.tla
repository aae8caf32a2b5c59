-------------------------- MODULE EventStreamProofs --------------------------
(***************************************************************************)
(* What holds of the streams for any number of clients, threads, events    *)
(* and losses.                                                             *)
(***************************************************************************)
EXTENDS EventStream, FiniteSetTheorems, SequenceTheorems, TLAPS

USE StreamAssumption
-----------------------------------------------------------------------------
(* Types.  A thread that is not idle serves a client. *)
Serving == \A k \in Threads : thread[k].pc # "idle" => thread[k].client \in Clients

TypeInv == TypeOK /\ Serving

LEMMA IdleTyped == Idle \in Thread
<1>1. <<>> \in Seq(Rows) /\ <<>> \in Seq(Messages)
  OBVIOUS
<1> QED BY <1>1 DEF Idle, Thread

(* The fields of a thread that a step of its own replaces. *)
LEMMA PcTyped ==
  ASSUME NEW t \in Thread, NEW pc \in {"idle", "handshake"} \cup Streaming
  PROVE  [t EXCEPT !.pc = pc] \in Thread
<1> HIDE DEF Rows, Messages, Streaming
<1> QED BY DEF Thread

LEMMA ClientTyped ==
  ASSUME NEW t \in Thread, NEW client \in Clients \cup {NoOne}
  PROVE  [t EXCEPT !.client = client] \in Thread
  BY DEF Thread

LEMMA CursorTyped ==
  ASSUME NEW t \in Thread, NEW cursor \in Nat
  PROVE  [t EXCEPT !.cursor = cursor] \in Thread
  BY DEF Thread

LEMMA TopicsTyped ==
  ASSUME NEW t \in Thread, NEW topics \in SUBSET Aggregates
  PROVE  [t EXCEPT !.topics = topics] \in Thread
  BY DEF Thread

LEMMA BatchTyped ==
  ASSUME NEW t \in Thread, NEW batch \in Seq(Rows)
  PROVE  [t EXCEPT !.batch = batch] \in Thread
  BY DEF Thread

LEMMA NetTyped ==
  ASSUME NEW t \in Thread, NEW net \in Seq(Messages)
  PROVE  [t EXCEPT !.net = net] \in Thread
  BY DEF Thread

LEMMA LateTyped ==
  ASSUME NEW t \in Thread, NEW late \in Nat
  PROVE  [t EXCEPT !.late = late] \in Thread
  BY DEF Thread

LEMMA RowsConcat ==
  ASSUME journal \in Seq(Rows), pending \in Seq(Rows) PROVE Visible \in Seq(Rows)
  BY DEF Visible

LEMMA WriteType == ASSUME TypeOK, NEW w \in Writers, Write(w) PROVE TypeOK'
<1> USE DEF TypeOK, slotVars, clientVars, journalVars
<1>0. <<>> \in Seq(Rows)
  OBVIOUS
<1>1. CASE Begin(w) \/ Rollback(w)
  <2>1. CASE Begin(w)
    BY <2>1 DEF Begin
  <2>2. CASE Rollback(w)
    BY <1>0, <2>2 DEF Rollback
  <2> QED BY <1>1, <2>1, <2>2
<1>2. CASE Commit(w)
  BY <1>0, <1>2, RowsConcat DEF Commit, Visible
<1>3. ASSUME NEW a \in Aggregates, Emit(w, a) PROVE TypeOK'
  <2>1. Visible \in Seq(Rows) /\ Len(Visible) + 1 \in Nat
    BY RowsConcat
  <2>2. IsFiniteSet({i \in DOMAIN Visible : Visible[i].aggregate = a})
    <3>1. DOMAIN Visible = 1 .. Len(Visible)
      BY <2>1
    <3>2. IsFiniteSet(1 .. Len(Visible))
      BY <2>1, FS_Interval
    <3> QED BY <3>1, <3>2, FS_Subset
  <2>3. NextRevision(a) \in Nat
    BY <2>2, FS_CardinalityType DEF NextRevision
  <2>4. [seq |-> Len(Visible) + 1, aggregate |-> a, revision |-> NextRevision(a)] \in Rows
    BY <2>1, <2>3 DEF Rows
  <2>5. pending' \in Seq(Rows)
    BY <1>3, <2>4 DEF Emit
  <2> QED BY <1>3, <2>5 DEF Emit
<1> QED BY <1>1, <1>2, <1>3 DEF Write

-----------------------------------------------------------------------------
(* Steps of one connection.  The thread k becomes u, and the slots change  *)
(* by what the two steps hold.  late stays within a batch: it is zero as   *)
(* long as the session is current, and the steps between a check and the   *)
(* batch are passed by threads with none.                                  *)
Permit(held) == IF held THEN 1 ELSE 0

WithinBatch(t) ==
  /\ t.pc \notin {"check", "send", "poll"} => t.late = 0
  /\ t.pc = "send" => t.late + Len(t.batch) <= Batch
  /\ t.late <= Batch
  /\ (t.client \in Clients /\ valid[t.client]) => t.late = 0

LateInv == \A k \in Threads : WithinBatch(thread[k])

Becomes(k, u) ==
  /\ thread' = [thread EXCEPT ![k] = u]
  /\ u \in Thread /\ (u.pc # "idle" => u.client \in Clients)
  /\ WithinBatch(u)
  /\ requests' \in Nat /\ streams' \in Nat
  /\ requests' + Permit(u.pc = "handshake")
       = requests + Permit(thread[k].pc = "handshake")
  /\ streams' + Permit(u.pc \in Streaming)
       = streams + Permit(thread[k].pc \in Streaming)

LEMMA IdleWithin == WithinBatch(Idle) /\ Idle.pc = "idle" /\ Idle.client = NoOne
  BY DEF WithinBatch, Idle, Streaming

(* The thread goes on to another step of the stream. *)
LEMMA GoesOn ==
  ASSUME TypeInv, NEW k \in Threads, thread[k].pc \in Streaming,
         NEW step \in Streaming, Goto(k, step), UNCHANGED slotVars,
         WithinBatch([thread[k] EXCEPT !.pc = step])
  PROVE  \E u : Becomes(k, u)
<1> DEFINE u == [thread[k] EXCEPT !.pc = step]
<1>1. thread[k] \in Thread /\ thread[k].client \in Clients
  BY DEF TypeInv, TypeOK, Serving, Streaming
<1>2. u \in Thread
  BY <1>1, PcTyped
<1>3. u.pc = step /\ u.client = thread[k].client
  BY <1>1 DEF Thread
<1>4. thread[k].pc # "handshake" /\ step # "handshake"
  BY DEF Streaming
<1>5. thread' = [thread EXCEPT ![k] = u]
  BY DEF Goto, TypeInv, TypeOK
<1>6. requests' = requests /\ streams' = streams /\ requests \in Nat /\ streams \in Nat
  BY DEF slotVars, TypeInv, TypeOK
<1> HIDE DEF u
<1>7. Permit(u.pc = "handshake") = Permit(thread[k].pc = "handshake")
      /\ Permit(u.pc \in Streaming) = Permit(thread[k].pc \in Streaming)
  BY <1>3, <1>4 DEF Permit
<1>8. WithinBatch(u)
  BY DEF u
<1> QED BY <1>1, <1>2, <1>3, <1>5, <1>6, <1>7, <1>8 DEF Becomes

(* The stream ends. *)
LEMMA Ends ==
  ASSUME TypeInv, NEW k \in Threads, thread[k].pc \in Streaming,
         NEW msgs \in Seq(Messages), CloseWith(k, msgs)
  PROVE  \E u : Becomes(k, u)
<1> DEFINE c == thread[k].client
           net == thread[k].net \o msgs
           last == [[Idle EXCEPT !.client = c] EXCEPT !.net = net]
           u == IF link[c] = k THEN last ELSE Idle
<1>1. thread[k] \in Thread /\ c \in Clients
  BY DEF TypeInv, TypeOK, Serving, Streaming
<1>2. net \in Seq(Messages)
  <2>1. thread[k].net \in Seq(Messages)
    BY <1>1 DEF Thread
  <2> QED BY <2>1
<1>3. last \in Thread
  BY <1>1, <1>2, IdleTyped, ClientTyped, NetTyped
<1>4. last.pc = "idle" /\ last.late = 0 /\ last.client = c
  BY DEF Idle
<1>5. WithinBatch(last)
  BY <1>4 DEF WithinBatch
<1>6. thread' = [thread EXCEPT ![k] = u]
  BY DEF CloseWith, Idle
<1>7. requests' = requests /\ streams' = streams + 1 /\ requests \in Nat /\ streams \in Nat
  BY DEF CloseWith, TypeInv, TypeOK
<1>8. u \in Thread /\ u.pc = "idle" /\ WithinBatch(u)
  BY <1>3, <1>4, <1>5, IdleTyped, IdleWithin
<1> HIDE DEF u
<1>9. /\ Permit(u.pc = "handshake") = 0 /\ Permit(thread[k].pc = "handshake") = 0
      /\ Permit(u.pc \in Streaming) = 0 /\ Permit(thread[k].pc \in Streaming) = 1
  BY <1>8 DEF Permit, Streaming
<1>10. /\ requests' + Permit(u.pc = "handshake")
            = requests + Permit(thread[k].pc = "handshake")
       /\ streams' + Permit(u.pc \in Streaming)
            = streams + Permit(thread[k].pc \in Streaming)
  BY <1>7, <1>9
<1>11. requests' \in Nat /\ streams' \in Nat
  BY <1>7
<1> HIDE DEF last, net, c
<1> QED BY <1>6, <1>8, <1>10, <1>11 DEF Becomes

(* What a step of a connection leaves with its type. *)
RestTyped ==
  /\ journal \in Seq(Rows) /\ pending \in Seq(Rows)
  /\ writer \in Writers \cup {NoOne}
  /\ link \in [Clients -> Threads \cup {NoOne}]
  /\ applied \in [Clients -> Nat]
  /\ seen \in [Clients -> SUBSET Nat]
  /\ valid \in [Clients -> BOOLEAN]
  /\ losses \in 0..MaxLosses

LEMMA RefuseBecomes ==
  ASSUME TypeInv, NEW k \in Threads, Refuse(k) PROVE \E u : Becomes(k, u)
<1>1. thread' = [thread EXCEPT ![k] = Idle] /\ Idle.pc = "idle"
  BY IdleWithin DEF Refuse
<1>2. /\ requests \in Nat /\ streams \in Nat
      /\ requests' = requests + 1 /\ streams' = streams
  BY DEF Refuse, TypeInv, TypeOK
<1>3. /\ Permit(Idle.pc = "handshake") = 0 /\ Permit(thread[k].pc = "handshake") = 1
      /\ Permit(Idle.pc \in Streaming) = 0 /\ Permit(thread[k].pc \in Streaming) = 0
  BY <1>1 DEF Refuse, Permit, Streaming
<1>4. Becomes(k, Idle)
  BY <1>1, <1>2, <1>3, IdleTyped, IdleWithin DEF Becomes
<1> QED BY <1>4

LEMMA ConnectBecomes ==
  ASSUME TypeInv, NEW c \in Clients, NEW k \in Threads, Connect(c, k)
  PROVE  \E u : Becomes(k, u)
<1> DEFINE u == [[Idle EXCEPT !.pc = "handshake"] EXCEPT !.client = c]
<1>1. u \in Thread
  BY IdleTyped, PcTyped, ClientTyped
<1>2. u.pc = "handshake" /\ u.client = c /\ u.late = 0
  BY DEF Idle
<1>3. thread' = [thread EXCEPT ![k] = u] /\ thread[k] = Idle
  BY DEF Connect, Idle
<1>4. /\ requests \in Nat /\ streams \in Nat /\ requests > 0
      /\ requests' = requests - 1 /\ streams' = streams
  BY DEF Connect, TypeInv, TypeOK
<1> HIDE DEF u
<1>5. /\ Permit(u.pc = "handshake") = 1 /\ Permit(thread[k].pc = "handshake") = 0
      /\ Permit(u.pc \in Streaming) = 0 /\ Permit(thread[k].pc \in Streaming) = 0
  BY <1>2, <1>3, IdleWithin DEF Permit, Streaming
<1>6. WithinBatch(u)
  BY <1>2 DEF WithinBatch
<1>7. Becomes(k, u)
  BY <1>1, <1>2, <1>3, <1>4, <1>5, <1>6 DEF Becomes
<1> QED BY <1>7

LEMMA UpgradeBecomes ==
  ASSUME TypeInv, LateInv, NEW k \in Threads, Upgrade(k) PROVE \E u : Becomes(k, u)
<1> DEFINE c == thread[k].client
           u1 == [thread[k] EXCEPT !.pc = "subscribe"]
           u2 == [[[thread[k] EXCEPT !.pc = "replay"] EXCEPT !.cursor = applied[c]]
                    EXCEPT !.topics = Aggregates]
<1>1. /\ thread[k] \in Thread /\ c \in Clients /\ applied[c] \in Nat
      /\ thread[k].late = 0 /\ thread[k].pc = "handshake"
  BY DEF TypeInv, TypeOK, Serving, Upgrade, LateInv, WithinBatch
<1>2. /\ requests \in Nat /\ streams \in Nat /\ streams > 0
      /\ requests' = requests + 1 /\ streams' = streams - 1
  BY DEF Upgrade, TypeInv, TypeOK
<1>3. ASSUME NEW u \in Thread, u.client = c, u.late = 0, u.pc \in {"subscribe", "replay"},
             thread' = [thread EXCEPT ![k] = u]
      PROVE  Becomes(k, u)
  <2>1. /\ Permit(u.pc = "handshake") = 0 /\ Permit(thread[k].pc = "handshake") = 1
        /\ Permit(u.pc \in Streaming) = 1 /\ Permit(thread[k].pc \in Streaming) = 0
    BY <1>1, <1>3 DEF Permit, Streaming
  <2>2. WithinBatch(u)
    BY <1>3 DEF WithinBatch
  <2> QED BY <1>1, <1>2, <1>3, <2>1, <2>2 DEF Becomes
<1>4. CASE thread' = [thread EXCEPT ![k].pc = "subscribe"]
  <2>1. u1 \in Thread
    BY <1>1, PcTyped DEF Streaming
  <2>2. u1.client = c /\ u1.late = 0 /\ u1.pc = "subscribe"
    BY <1>1 DEF Thread
  <2>3. thread' = [thread EXCEPT ![k] = u1]
    BY <1>4 DEF TypeInv, TypeOK
  <2> HIDE DEF u1
  <2> QED BY <1>3, <2>1, <2>2, <2>3
<1>5. CASE thread' = [thread EXCEPT ![k].pc = "replay", ![k].cursor = applied[c],
                                    ![k].topics = Aggregates]
  <2>1. u2 \in Thread
    BY <1>1, PcTyped, CursorTyped, TopicsTyped DEF Streaming
  <2>2. u2.client = c /\ u2.late = 0 /\ u2.pc = "replay"
    BY <1>1 DEF Thread
  <2>3. thread' = [thread EXCEPT ![k] = u2]
    BY <1>5 DEF TypeInv, TypeOK
  <2> HIDE DEF u2
  <2> QED BY <1>3, <2>1, <2>2, <2>3
<1> QED BY <1>4, <1>5 DEF Upgrade

LEMMA SubscribeBecomes ==
  ASSUME TypeInv, LateInv, NEW k \in Threads, Subscribe(k) PROVE \E u : Becomes(k, u)
<1> DEFINE c == thread[k].client
           u == [[[thread[k] EXCEPT !.pc = "replay"] EXCEPT !.cursor = applied[c]]
                   EXCEPT !.topics = Wanted[c]]
<1>1. /\ thread[k] \in Thread /\ c \in Clients /\ applied[c] \in Nat
      /\ thread[k].late = 0 /\ thread[k].pc = "subscribe"
      /\ Wanted[c] \in SUBSET Aggregates
  BY DEF TypeInv, TypeOK, Serving, Subscribe, LateInv, WithinBatch
<1>2. u \in Thread
  BY <1>1, PcTyped, CursorTyped, TopicsTyped DEF Streaming
<1>3. u.client = c /\ u.late = 0 /\ u.pc = "replay"
  BY <1>1 DEF Thread
<1>4. thread' = [thread EXCEPT ![k] = u]
  BY DEF Subscribe, TypeInv, TypeOK
<1> HIDE DEF u
<1>5. /\ requests \in Nat /\ streams \in Nat
      /\ requests' = requests /\ streams' = streams
  BY DEF Subscribe, slotVars, TypeInv, TypeOK
<1>6. /\ Permit(u.pc = "handshake") = Permit(thread[k].pc = "handshake")
      /\ Permit(u.pc \in Streaming) = Permit(thread[k].pc \in Streaming)
  BY <1>1, <1>3 DEF Permit, Streaming
<1>7. WithinBatch(u)
  BY <1>3 DEF WithinBatch
<1>8. Becomes(k, u)
  BY <1>1, <1>2, <1>3, <1>4, <1>5, <1>6, <1>7 DEF Becomes
<1> QED BY <1>8

LEMMA RefreshTyped ==
  ASSUME TypeInv
  PROVE  <<[type |-> "replay_unavailable", seq |-> Latest]>> \in Seq(Messages)
         /\ <<>> \in Seq(Messages)
<1>1. Latest \in Nat
  BY DEF Latest, TypeInv, TypeOK
<1>2. [type |-> "replay_unavailable", seq |-> Latest] \in Messages
  BY <1>1 DEF Messages
<1> QED BY <1>2

(* The steps that only move the thread on, or end the stream. *)
LEMMA LoopBecomes ==
  ASSUME TypeInv, LateInv, NEW k \in Threads,
         \/ StartReplay(k) \/ CheckSession(k) \/ CheckBounds(k)
         \/ Sent(k) \/ Poll(k) \/ Notice(k)
  PROVE  \E u : Becomes(k, u)
<1>1. /\ thread[k] \in Thread /\ thread[k].client \in Clients
      /\ thread[k].pc \in Streaming
  BY DEF TypeInv, TypeOK, Serving, StartReplay, CheckSession, CheckBounds,
         Sent, Poll, Notice, Streaming
<1>2. WithinBatch(thread[k])
  BY DEF LateInv
<1>3. ASSUME NEW msgs \in Seq(Messages), CloseWith(k, msgs) PROVE \E u : Becomes(k, u)
  BY <1>1, <1>3, Ends
<1>4. ASSUME NEW step \in Streaming, Goto(k, step), UNCHANGED slotVars,
             step # "send", thread[k].late <= Batch,
             step \notin {"check", "poll"} => thread[k].late = 0
      PROVE  \E u : Becomes(k, u)
  <2>1. /\ [thread[k] EXCEPT !.pc = step].late = thread[k].late
        /\ [thread[k] EXCEPT !.pc = step].client = thread[k].client
        /\ [thread[k] EXCEPT !.pc = step].pc = step
    BY <1>1 DEF Thread
  <2>2. WithinBatch([thread[k] EXCEPT !.pc = step])
    BY <1>2, <1>4, <2>1 DEF WithinBatch
  <2> QED BY <1>1, <1>4, <2>2, GoesOn
<1>5. CASE StartReplay(k) \/ CheckBounds(k)
  <2>1. thread[k].late = 0 /\ thread[k].late <= Batch
    BY <1>2, <1>5 DEF StartReplay, CheckBounds, WithinBatch
  <2>2. CASE RequireRefresh(k)
    BY <1>3, <2>2, RefreshTyped DEF RequireRefresh
  <2>3. CASE (Goto(k, "check") \/ Goto(k, "drain")) /\ UNCHANGED slotVars
    BY <1>4, <2>1, <2>3 DEF Streaming
  <2> QED BY <1>5, <2>2, <2>3 DEF StartReplay, CheckBounds
<1>6. CASE CheckSession(k)
  <2>1. CASE valid[thread[k].client]
    <3>1. thread[k].late = 0 /\ thread[k].late <= Batch
      BY <1>1, <1>2, <2>1 DEF WithinBatch
    <3>2. Goto(k, "bounds") /\ UNCHANGED slotVars
      BY <1>6, <2>1 DEF CheckSession
    <3> QED BY <1>4, <3>1, <3>2 DEF Streaming
  <2>2. CASE ~valid[thread[k].client]
    BY <1>3, <1>6, <2>2, RefreshTyped DEF CheckSession
  <2> QED BY <2>1, <2>2
<1>7. CASE Sent(k) \/ Poll(k)
  <2>1. thread[k].late <= Batch
    BY <1>2 DEF WithinBatch
  <2>2. (Goto(k, "poll") \/ Goto(k, "check")) /\ UNCHANGED slotVars
    BY <1>7 DEF Sent, Poll, slotVars
  <2> QED BY <1>4, <2>1, <2>2 DEF Streaming
<1>8. CASE Notice(k)
  BY <1>3, <1>8, RefreshTyped DEF Notice
<1> QED BY <1>5, <1>6, <1>7, <1>8

(* What a batch holds. *)
LEMMA BatchRead ==
  ASSUME journal \in Seq(Rows), NEW cursor \in Nat
  PROVE  LET rows == ReadAfter(cursor, Batch) IN
         /\ rows \in Seq(Rows) /\ Len(rows) <= Batch
         /\ \A i \in DOMAIN rows : cursor + i <= Len(journal) /\ rows[i] = journal[cursor + i]
<1> DEFINE last == IF cursor + Batch < Len(journal) THEN cursor + Batch ELSE Len(journal)
           rows == SubSeq(journal, cursor + 1, last)
<1>1. Len(journal) \in Nat /\ Batch \in Nat /\ last \in Nat
      /\ last <= Len(journal) /\ last <= cursor + Batch
  OBVIOUS
<1>2. CASE last < cursor + 1
  <2>1. rows = <<>>
    BY <1>1, <1>2
  <2> QED BY <1>1, <2>1 DEF ReadAfter
<1>3. CASE last >= cursor + 1
  <2>1. \A i \in (cursor + 1) .. last : journal[i] \in Rows
    BY <1>1
  <2>2. /\ rows \in Seq(Rows) /\ Len(rows) = last - cursor
        /\ \A i \in 1 .. (last - cursor) : rows[i] = journal[cursor + i]
    <3>1. cursor + 1 \in Int /\ last \in Int
      BY <1>1
    <3> HIDE DEF last
    <3>2. /\ rows \in Seq(Rows)
          /\ Len(rows) = IF cursor + 1 <= last THEN last - (cursor + 1) + 1 ELSE 0
          /\ \A i \in 1 .. last - (cursor + 1) + 1 : rows[i] = journal[(cursor + 1) + i - 1]
      BY <2>1, <3>1, SubSeqProperties
    <3>3. last - (cursor + 1) + 1 = last - cursor
      BY <3>1
    <3>4. \A i \in 1 .. (last - cursor) : (cursor + 1) + i - 1 = cursor + i
      OBVIOUS
    <3> HIDE DEF rows
    <3> QED BY <1>3, <3>2, <3>3, <3>4
  <2> HIDE DEF rows
  <2>3. DOMAIN rows = 1 .. (last - cursor)
    BY <2>2
  <2>4. Len(rows) <= Batch
    BY <1>1, <1>3, <2>2
  <2>5. \A i \in DOMAIN rows : cursor + i <= Len(journal) /\ rows[i] = journal[cursor + i]
    <3> SUFFICES ASSUME NEW i \in 1 .. (last - cursor)
                 PROVE  cursor + i <= Len(journal) /\ rows[i] = journal[cursor + i]
      BY <2>3
    <3>1. rows[i] = journal[cursor + i]
      BY <2>2
    <3> HIDE DEF last
    <3>2. cursor + i <= last
      BY <1>1
    <3>3. cursor + i <= Len(journal)
      BY <1>1, <3>2
    <3> QED BY <3>1, <3>3
  <2>6. ReadAfter(cursor, Batch) = rows
    BY DEF ReadAfter, rows
  <2> QED BY <2>2, <2>4, <2>5, <2>6
<1> QED BY <1>1, <1>2, <1>3

(* One event of a batch less to send, and at most one more sent. *)
LEMMA BatchShrinks ==
  ASSUME NEW sent \in Nat, NEW left \in Nat, left >= 1, sent + left <= Batch,
         NEW more \in {sent, sent + 1}
  PROVE  more + (left - 1) <= Batch /\ more <= Batch
<1>1. Batch \in Nat
  OBVIOUS
<1>2. CASE more = sent
  BY <1>1, <1>2
<1>3. CASE more = sent + 1
  BY <1>1, <1>3
<1> QED BY <1>2, <1>3

(* Steps that leave the slots and the place of the thread as they are. *)
LEMMA StaysInPlace ==
  ASSUME TypeInv, NEW k \in Threads, NEW u \in Thread,
         thread' = [thread EXCEPT ![k] = u], UNCHANGED slotVars, WithinBatch(u),
         u.pc = thread[k].pc \/ {u.pc, thread[k].pc} \subseteq Streaming,
         u.pc # "idle" => u.client \in Clients
  PROVE  \E v : Becomes(k, v)
<1>1. /\ requests \in Nat /\ streams \in Nat
      /\ requests' = requests /\ streams' = streams
  BY DEF slotVars, TypeInv, TypeOK
<1>2. /\ Permit(u.pc = "handshake") = Permit(thread[k].pc = "handshake")
      /\ Permit(u.pc \in Streaming) = Permit(thread[k].pc \in Streaming)
  BY DEF Permit, Streaming
<1>3. Becomes(k, u)
  BY <1>1, <1>2 DEF Becomes
<1> QED BY <1>3

LEMMA DrainBecomes ==
  ASSUME TypeInv, LateInv, NEW k \in Threads, Drain(k) PROVE \E u : Becomes(k, u)
<1> DEFINE batch == ReadAfter(thread[k].cursor, Batch)
           u == [[thread[k] EXCEPT !.pc = "send"] EXCEPT !.batch = batch]
<1>1. /\ thread[k] \in Thread /\ thread[k].client \in Clients
      /\ thread[k].late = 0 /\ thread[k].pc = "drain" /\ thread[k].cursor \in Nat
  BY DEF TypeInv, TypeOK, Serving, Drain, LateInv, WithinBatch, Thread
<1>2. batch \in Seq(Rows) /\ Len(batch) <= Batch
  BY <1>1, BatchRead DEF TypeInv, TypeOK
<1> HIDE DEF batch
<1>3. u \in Thread
  BY <1>1, <1>2, PcTyped, BatchTyped DEF Streaming
<1>4. u.client = thread[k].client /\ u.late = 0 /\ u.pc = "send" /\ u.batch = batch
  BY <1>1 DEF Thread
<1>5. thread' = [thread EXCEPT ![k] = u]
  BY DEF Drain, TypeInv, TypeOK, batch
<1> HIDE DEF u
<1>6. WithinBatch(u)
  BY <1>2, <1>4 DEF WithinBatch
<1>7. UNCHANGED slotVars
  BY DEF Drain
<1> QED BY <1>1, <1>3, <1>4, <1>5, <1>6, <1>7, StaysInPlace DEF Streaming

(* The thread after it has sent the first event of its batch. *)
Net(k) ==
  LET t == thread[k] IN
  IF Head(t.batch).aggregate \in t.topics /\ link[t.client] = k
    THEN Append(t.net, [type |-> "event", seq |-> Head(t.batch).seq])
    ELSE t.net

Late(k) ==
  LET t == thread[k] IN
  IF Head(t.batch).aggregate \in t.topics /\ ~valid[t.client] THEN t.late + 1 ELSE t.late

Sending(k) ==
  [[[[thread[k] EXCEPT !.batch = Tail(thread[k].batch)]
       EXCEPT !.cursor = Head(thread[k].batch).seq]
       EXCEPT !.net = Net(k)] EXCEPT !.late = Late(k)]

LEMMA SendTyped ==
  ASSUME TypeInv, NEW k \in Threads, Send(k)
  PROVE  /\ Sending(k) \in Thread
         /\ thread' = [thread EXCEPT ![k] = Sending(k)]
         /\ Sending(k).pc = "send" /\ Sending(k).client = thread[k].client
         /\ Sending(k).batch = Tail(thread[k].batch)
         /\ Sending(k).cursor = Head(thread[k].batch).seq
         /\ Sending(k).topics = thread[k].topics
         /\ Sending(k).net = Net(k) /\ Sending(k).late = Late(k)
<1>1. /\ thread[k] \in Thread /\ thread[k].pc = "send" /\ thread[k].batch # <<>>
      /\ thread[k].batch \in Seq(Rows) /\ thread[k].net \in Seq(Messages)
      /\ thread[k].late \in Nat
  BY DEF TypeInv, TypeOK, Send, Thread
<1>2. Head(thread[k].batch) \in Rows /\ Tail(thread[k].batch) \in Seq(Rows)
  BY <1>1, HeadTailProperties
<1>3. Head(thread[k].batch).seq \in Nat
  BY <1>2 DEF Rows
<1>4. [type |-> "event", seq |-> Head(thread[k].batch).seq] \in Messages
  BY <1>3 DEF Messages
<1>5. Net(k) \in Seq(Messages)
  BY <1>1, <1>4, AppendProperties DEF Net
<1>6. Late(k) \in Nat
  BY <1>1 DEF Late
<1>7. Sending(k) \in Thread
  BY <1>1, <1>2, <1>3, <1>5, <1>6, BatchTyped, CursorTyped, NetTyped, LateTyped DEF Sending
<1>8. thread' = [thread EXCEPT ![k] = Sending(k)]
  BY DEF Send, Sending, Net, Late
<1>9. /\ Sending(k).pc = "send" /\ Sending(k).client = thread[k].client
      /\ Sending(k).batch = Tail(thread[k].batch)
      /\ Sending(k).cursor = Head(thread[k].batch).seq
      /\ Sending(k).topics = thread[k].topics
      /\ Sending(k).net = Net(k) /\ Sending(k).late = Late(k)
  BY <1>1 DEF Sending, Thread
<1> QED BY <1>7, <1>8, <1>9

LEMMA SendBecomes ==
  ASSUME TypeInv, LateInv, NEW k \in Threads, Send(k) PROVE \E u : Becomes(k, u)
<1>1. /\ thread[k] \in Thread /\ thread[k].client \in Clients
      /\ thread[k].pc = "send" /\ thread[k].batch # <<>>
      /\ thread[k].batch \in Seq(Rows) /\ thread[k].late \in Nat
  BY DEF TypeInv, TypeOK, Serving, Send, Thread
<1>2. /\ thread[k].late + Len(thread[k].batch) <= Batch
      /\ valid[thread[k].client] => thread[k].late = 0
  BY <1>1 DEF LateInv, WithinBatch
<1>3. /\ Len(Tail(thread[k].batch)) = Len(thread[k].batch) - 1
      /\ Len(thread[k].batch) \in Nat
  BY <1>1, HeadTailProperties
<1>4. /\ Late(k) + (Len(thread[k].batch) - 1) <= Batch /\ Late(k) <= Batch
      /\ valid[thread[k].client] => Late(k) = 0
  <2>1. Len(thread[k].batch) >= 1
    BY <1>1
  <2>2. Late(k) \in {thread[k].late, thread[k].late + 1}
        /\ (valid[thread[k].client] => Late(k) = thread[k].late)
    BY DEF Late
  <2>3. Late(k) + (Len(thread[k].batch) - 1) <= Batch /\ Late(k) <= Batch
    <3> DEFINE sent == thread[k].late
               left == Len(thread[k].batch)
               more == Late(k)
    <3>1. sent \in Nat /\ left \in Nat /\ left >= 1 /\ sent + left <= Batch
      BY <1>1, <1>2, <1>3, <2>1
    <3>2. more \in {sent, sent + 1}
      BY <2>2
    <3> HIDE DEF sent, left, more
    <3>3. more + (left - 1) <= Batch /\ more <= Batch
      BY <3>1, <3>2, BatchShrinks
    <3> QED BY <3>3 DEF left, more
  <2>4. valid[thread[k].client] => Late(k) = 0
    BY <1>2, <2>2
  <2> QED BY <2>3, <2>4
<1>5. WithinBatch(Sending(k))
  BY <1>1, <1>3, <1>4, SendTyped DEF WithinBatch
<1>6. UNCHANGED slotVars
  BY DEF Send
<1> QED BY <1>1, <1>5, <1>6, SendTyped, StaysInPlace

LEMMA ReceiveBecomes ==
  ASSUME TypeInv, LateInv, NEW c \in Clients, Receive(c)
  PROVE  link[c] \in Threads /\ \E u : Becomes(link[c], u)
<1> DEFINE k == link[c]
           net == Tail(thread[k].net)
           u == [thread[k] EXCEPT !.net = net]
<1>1. /\ k \in Threads /\ thread[k] \in Thread /\ WithinBatch(thread[k])
      /\ thread[k].net \in Seq(Messages) /\ thread[k].net # <<>>
      /\ thread[k].pc # "idle" => thread[k].client \in Clients
  BY DEF TypeInv, TypeOK, Serving, Receive, LateInv, Thread
<1>2. net \in Seq(Messages)
  BY <1>1, HeadTailProperties
<1>3. thread' = [thread EXCEPT ![k] = u]
  BY DEF Receive, TypeInv, TypeOK
<1> HIDE DEF net, k
<1>4. u \in Thread
  BY <1>1, <1>2, NetTyped
<1>5. /\ u.pc = thread[k].pc /\ u.client = thread[k].client
      /\ u.batch = thread[k].batch /\ u.late = thread[k].late
  BY <1>1 DEF Thread
<1> HIDE DEF u
<1>6. WithinBatch(u)
  BY <1>1, <1>5 DEF WithinBatch
<1>7. UNCHANGED slotVars
  BY DEF Receive
<1>8. \E v : Becomes(k, v)
  BY <1>1, <1>3, <1>4, <1>5, <1>6, <1>7, StaysInPlace
<1> QED BY <1>1, <1>8 DEF k

LEMMA HangupBecomes ==
  ASSUME TypeInv, LateInv, NEW c \in Clients, Hangup(c)
  PROVE  link[c] \in Threads /\ \E u : Becomes(link[c], u)
<1>1. link[c] \in Threads /\ thread' = [thread EXCEPT ![link[c]] = Idle]
      /\ thread[link[c]].pc = "idle" /\ UNCHANGED slotVars
  BY DEF TypeInv, TypeOK, Hangup
<1> QED BY <1>1, IdleTyped, IdleWithin, StaysInPlace

LEMMA LoseBecomes ==
  ASSUME TypeInv, LateInv, NEW c \in Clients, Lose(c)
  PROVE  link[c] \in Threads /\ \E u : Becomes(link[c], u)
<1> DEFINE k == link[c]
           u == [thread[k] EXCEPT !.net = <<>>]
<1>1. /\ k \in Threads /\ thread[k] \in Thread /\ WithinBatch(thread[k])
      /\ thread[k].pc # "idle" => thread[k].client \in Clients
  BY DEF TypeInv, TypeOK, Serving, Lose, LateInv
<1>2. thread' = [thread EXCEPT ![k] = u] /\ UNCHANGED slotVars
  BY DEF Lose, slotVars, TypeInv, TypeOK
<1> HIDE DEF k
<1>3. u \in Thread
  BY <1>1, RefreshTyped, NetTyped
<1>4. /\ u.pc = thread[k].pc /\ u.client = thread[k].client
      /\ u.batch = thread[k].batch /\ u.late = thread[k].late
  BY <1>1 DEF Thread
<1> HIDE DEF u
<1>5. WithinBatch(u)
  BY <1>1, <1>4 DEF WithinBatch
<1>6. \E v : Becomes(k, v)
  BY <1>1, <1>2, <1>3, <1>4, <1>5, StaysInPlace
<1> QED BY <1>1, <1>6 DEF k

-----------------------------------------------------------------------------
(* The inductive invariant of types, slots and revoked streams. *)
Handshakes == {k \in Threads : thread[k].pc = "handshake"}
Streams    == {k \in Threads : thread[k].pc \in Streaming}

SlotInv == TypeInv /\ LateInv /\ SlotsBalance

(* One element more or less. *)
LEMMA CountMoves ==
  ASSUME NEW k \in Threads, NEW A \in SUBSET Threads, NEW B \in SUBSET Threads,
         A \ {k} = B \ {k}
  PROVE  Cardinality(B) + Permit(k \in A) = Cardinality(A) + Permit(k \in B)
<1>1. IsFiniteSet(A) /\ IsFiniteSet(B) /\ IsFiniteSet(A \ {k})
  BY FS_Subset, Threads \ {k} \subseteq Threads, A \ {k} \subseteq Threads
<1>2. ASSUME NEW D \in SUBSET Threads, IsFiniteSet(D)
      PROVE  Cardinality(D) = Cardinality(D \ {k}) + Permit(k \in D)
             /\ Cardinality(D \ {k}) \in Nat
  <2>1. IsFiniteSet(D \ {k}) /\ Cardinality(D \ {k}) \in Nat
    BY <1>2, FS_RemoveElement, FS_CardinalityType, FS_Subset, D \ {k} \subseteq D
  <2>2. CASE k \in D
    <3>1. Cardinality(D \ {k}) = Cardinality(D) - 1
      BY <1>2, <2>2, FS_RemoveElement
    <3>2. Cardinality(D) \in Nat
      BY <1>2, FS_CardinalityType
    <3> QED BY <2>1, <2>2, <3>1, <3>2 DEF Permit
  <2>3. CASE k \notin D
    <3>1. D \ {k} = D
      BY <2>3
    <3>2. Cardinality(D) \in Nat /\ Cardinality(D) = Cardinality(D \ {k})
      BY <2>1, <3>1
    <3>3. Permit(k \in D) = 0
      BY <2>3 DEF Permit
    <3> QED BY <3>2, <3>3
  <2> QED BY <2>2, <2>3
<1>3. Permit(k \in A) \in Nat /\ Permit(k \in B) \in Nat
  BY DEF Permit
<1>4. /\ Cardinality(A) = Cardinality(A \ {k}) + Permit(k \in A)
      /\ Cardinality(B) = Cardinality(A \ {k}) + Permit(k \in B)
      /\ Cardinality(A \ {k}) \in Nat
  BY <1>1, <1>2
<1> QED BY <1>3, <1>4

LEMMA BecomesKeeps ==
  ASSUME SlotInv, NEW k \in Threads, NEW u, Becomes(k, u), valid' = valid
  PROVE  /\ thread' \in [Threads -> Thread] /\ requests' \in Nat /\ streams' \in Nat
         /\ Serving' /\ LateInv' /\ SlotsBalance'
<1>1. /\ thread \in [Threads -> Thread]
      /\ thread' = [thread EXCEPT ![k] = u] /\ u \in Thread
  BY DEF SlotInv, TypeInv, TypeOK, Becomes
<1>2. thread' \in [Threads -> Thread] /\ thread'[k] = u
      /\ \A j \in Threads \ {k} : thread'[j] = thread[j]
  BY <1>1
<1>3. Serving'
  BY <1>2 DEF Serving, SlotInv, TypeInv, Becomes
<1>4. LateInv'
  BY <1>2 DEF LateInv, WithinBatch, SlotInv, Becomes
<1>5. Handshakes \ {k} = Handshakes' \ {k} /\ Streams \ {k} = Streams' \ {k}
  BY <1>2 DEF Handshakes, Streams
<1>6. /\ (k \in Handshakes) = (thread[k].pc = "handshake")
      /\ (k \in Handshakes') = (u.pc = "handshake")
      /\ (k \in Streams) = (thread[k].pc \in Streaming)
      /\ (k \in Streams') = (u.pc \in Streaming)
  BY <1>2 DEF Handshakes, Streams
<1>7. /\ Cardinality(Handshakes') + Permit(thread[k].pc = "handshake")
           = Cardinality(Handshakes) + Permit(u.pc = "handshake")
      /\ Cardinality(Streams') + Permit(thread[k].pc \in Streaming)
           = Cardinality(Streams) + Permit(u.pc \in Streaming)
  <2>1. Handshakes \in SUBSET Threads /\ Handshakes' \in SUBSET Threads
        /\ Streams \in SUBSET Threads /\ Streams' \in SUBSET Threads
    BY DEF Handshakes, Streams
  <2> QED BY <1>5, <1>6, <2>1, CountMoves
<1>8. /\ requests + Cardinality(Handshakes) = RequestSlots
      /\ streams + Cardinality(Streams) = StreamSlots
  BY DEF SlotInv, SlotsBalance, Handshakes, Streams
<1>9. /\ Cardinality(Handshakes) \in Nat /\ Cardinality(Handshakes') \in Nat
      /\ Cardinality(Streams) \in Nat /\ Cardinality(Streams') \in Nat
  BY FS_Subset, FS_CardinalityType DEF Handshakes, Streams
<1>10. /\ requests' + Cardinality(Handshakes') = RequestSlots
       /\ streams' + Cardinality(Streams') = StreamSlots
  <2>1. /\ Permit(u.pc = "handshake") \in Nat /\ Permit(thread[k].pc = "handshake") \in Nat
        /\ Permit(u.pc \in Streaming) \in Nat /\ Permit(thread[k].pc \in Streaming) \in Nat
    BY DEF Permit
  <2>2. /\ requests' \in Nat /\ streams' \in Nat /\ requests \in Nat /\ streams \in Nat
        /\ requests' + Permit(u.pc = "handshake")
             = requests + Permit(thread[k].pc = "handshake")
        /\ streams' + Permit(u.pc \in Streaming)
             = streams + Permit(thread[k].pc \in Streaming)
    BY DEF Becomes, SlotInv, TypeInv, TypeOK
  <2> QED BY <1>7, <1>8, <1>9, <2>1, <2>2
<1>11. SlotsBalance'
  BY <1>10 DEF SlotsBalance, Handshakes, Streams
<1>12. requests' \in Nat /\ streams' \in Nat
  BY DEF Becomes
<1> QED BY <1>2, <1>3, <1>4, <1>11, <1>12

LEMMA ServeBecomes ==
  ASSUME SlotInv, NEW k \in Threads, Serve(k)
  PROVE  (\E u : Becomes(k, u)) /\ UNCHANGED <<valid, losses, journalVars, clientVars>>
<1>1. \E u : Becomes(k, u)
  BY RefuseBecomes, UpgradeBecomes, SubscribeBecomes, LoopBecomes, DrainBecomes,
     SendBecomes DEF Serve, SlotInv
<1>2. UNCHANGED <<valid, losses, journalVars, clientVars>>
  BY DEF Serve, Refuse, Upgrade, Subscribe, StartReplay, CheckSession, CheckBounds,
         Drain, Send, Sent, Poll, Notice
<1> QED BY <1>1, <1>2

LEMMA ServeLink ==
  ASSUME SlotInv, NEW k \in Threads, Serve(k)
  PROVE  link' \in [Clients -> Threads \cup {NoOne}]
<1>1. link \in [Clients -> Threads \cup {NoOne}]
  BY DEF SlotInv, TypeInv, TypeOK
<1>2. CASE Refuse(k)
  BY <1>1, <1>2 DEF Refuse
<1>3. CASE ~Refuse(k)
  BY <1>1, <1>3 DEF Serve, Upgrade, Subscribe, StartReplay, CheckSession, CheckBounds,
                    Drain, Send, Sent, Poll, Notice
<1> QED BY <1>2, <1>3

LEMMA SlotInvInit == Init => SlotInv
<1> SUFFICES ASSUME Init PROVE SlotInv
  OBVIOUS
<1> USE DEF Init
<1>1. thread \in [Threads -> Thread] /\ \A k \in Threads : thread[k] = Idle
  BY IdleTyped
<1>2. <<>> \in Seq(Rows)
  OBVIOUS
<1>3. TypeInv /\ LateInv
  BY <1>1, <1>2, IdleWithin DEF TypeInv, TypeOK, Serving, LateInv
<1>4. Handshakes = {} /\ Streams = {}
  BY <1>1, IdleWithin DEF Handshakes, Streams, Streaming
<1>5. Cardinality(Handshakes) = 0 /\ Cardinality(Streams) = 0
  BY <1>4, FS_EmptySet
<1>6. SlotsBalance
  BY <1>5 DEF SlotsBalance, Handshakes, Streams
<1> QED BY <1>3, <1>6 DEF SlotInv

LEMMA SlotInvStep == SlotInv /\ [Next]_vars => SlotInv'
<1> SUFFICES ASSUME SlotInv, [Next]_vars PROVE SlotInv'
  OBVIOUS
<1>0. RestTyped
  BY DEF RestTyped, SlotInv, TypeInv, TypeOK
<1>1. ASSUME RestTyped', thread' \in [Threads -> Thread], requests' \in Nat, streams' \in Nat,
             Serving', LateInv', SlotsBalance'
      PROVE  SlotInv'
  BY <1>1 DEF RestTyped, SlotInv, TypeInv, TypeOK
<1>2. ASSUME NEW k \in Threads, NEW u, Becomes(k, u), valid' = valid, RestTyped'
      PROVE  SlotInv'
  BY <1>1, <1>2, BecomesKeeps
<1>3. ASSUME NEW w \in Writers, Write(w) PROVE SlotInv'
  <2>1. RestTyped' /\ TypeOK'
    BY <1>3, WriteType DEF SlotInv, TypeInv, TypeOK, RestTyped
  <2>2. UNCHANGED <<thread, valid, slotVars>>
    BY <1>3 DEF Write, Begin, Commit, Rollback, Emit
  <2>3. Serving' /\ LateInv' /\ SlotsBalance'
    BY <2>2 DEF SlotInv, TypeInv, Serving, LateInv, WithinBatch, SlotsBalance, slotVars
  <2> QED BY <2>1, <2>3 DEF SlotInv, TypeInv
<1>4. ASSUME NEW c \in Clients, NEW k \in Threads, Connect(c, k) PROVE SlotInv'
  <2>1. RestTyped' /\ valid' = valid
    BY <1>0, <1>4 DEF Connect, RestTyped, journalVars, clientVars
  <2>2. \E u : Becomes(k, u)
    BY <1>4, ConnectBecomes DEF SlotInv
  <2> QED BY <1>2, <2>1, <2>2
<1>5. ASSUME NEW k \in Threads, Serve(k) PROVE SlotInv'
  <2>1. RestTyped' /\ valid' = valid
    BY <1>0, <1>5, ServeBecomes, ServeLink DEF RestTyped, journalVars, clientVars
  <2> QED BY <1>2, <1>5, <2>1, ServeBecomes
<1>6. ASSUME NEW c \in Clients, Receive(c) PROVE SlotInv'
  <2>1. UNCHANGED <<journalVars, link, valid, losses>>
    BY <1>6 DEF Receive
  <2>2. applied' \in [Clients -> Nat] /\ seen' \in [Clients -> SUBSET Nat]
    <3>1. Head(thread[link[c]].net) \in Messages
      <4>1. thread[link[c]].net \in Seq(Messages) /\ thread[link[c]].net # <<>>
        BY <1>6 DEF Receive, SlotInv, TypeInv, TypeOK, Thread
      <4> QED BY <4>1, HeadTailProperties
    <3>2. Head(thread[link[c]].net).seq \in Nat
      BY <3>1 DEF Messages
    <3> DEFINE m == Head(thread[link[c]].net)
               told == IF m.type = "event" THEN {m.seq} ELSE 1..m.seq
    <3>3. told \in SUBSET Nat
      BY <3>2
    <3>4. \/ UNCHANGED clientVars
          \/ /\ applied' = [applied EXCEPT ![c] = m.seq]
             /\ seen' = [seen EXCEPT ![c] = @ \cup told]
      BY <1>6 DEF Receive
    <3>5. m.seq \in Nat
      BY <3>2
    <3> HIDE DEF told, m
    <3>6. CASE UNCHANGED clientVars
      BY <1>0, <3>6 DEF RestTyped, clientVars
    <3>7. CASE /\ applied' = [applied EXCEPT ![c] = m.seq]
               /\ seen' = [seen EXCEPT ![c] = @ \cup told]
      <4>1. applied' \in [Clients -> Nat]
        BY <1>0, <3>5, <3>7 DEF RestTyped
      <4>2. seen[c] \cup told \in SUBSET Nat
        BY <1>0, <3>3 DEF RestTyped
      <4>3. seen' \in [Clients -> SUBSET Nat]
        BY <1>0, <3>7, <4>2 DEF RestTyped
      <4> QED BY <4>1, <4>3
    <3> QED BY <3>4, <3>6, <3>7
  <2>3. RestTyped'
    BY <1>0, <2>1, <2>2 DEF RestTyped, journalVars
  <2> QED BY <1>2, <1>6, <2>1, <2>3, ReceiveBecomes DEF SlotInv
<1>7. ASSUME NEW c \in Clients, Hangup(c) PROVE SlotInv'
  <2>1. RestTyped' /\ valid' = valid
    BY <1>0, <1>7 DEF Hangup, RestTyped, journalVars, clientVars
  <2> QED BY <1>2, <1>7, <2>1, HangupBecomes DEF SlotInv
<1>8. ASSUME NEW c \in Clients, Lose(c) PROVE SlotInv'
  <2>1. RestTyped' /\ valid' = valid
    BY <1>0, <1>8 DEF Lose, RestTyped, journalVars, clientVars
  <2> QED BY <1>2, <1>8, <2>1, LoseBecomes DEF SlotInv
<1>9. ASSUME NEW c \in Clients, Revoke(c) PROVE SlotInv'
  <2>1. RestTyped' /\ UNCHANGED <<thread, slotVars>>
    BY <1>0, <1>9 DEF Revoke, RestTyped, journalVars, clientVars
  <2>2. \A d \in Clients : valid'[d] => valid[d]
    BY <1>0, <1>9 DEF Revoke, RestTyped
  <2>3. LateInv'
    BY <2>1, <2>2 DEF SlotInv, LateInv, WithinBatch
  <2>4. Serving' /\ SlotsBalance' /\ thread' \in [Threads -> Thread]
        /\ requests' \in Nat /\ streams' \in Nat
    BY <2>1 DEF SlotInv, TypeInv, TypeOK, Serving, SlotsBalance, slotVars
  <2> QED BY <1>1, <2>1, <2>3, <2>4
<1>10. CASE Restart
  <2>1. /\ thread' \in [Threads -> Thread] /\ \A k \in Threads : thread'[k] = Idle
        /\ requests' = RequestSlots /\ streams' = StreamSlots
    BY <1>10, IdleTyped DEF Restart
  <2>2. RestTyped'
    <3>1. <<>> \in Seq(Rows)
      OBVIOUS
    <3> QED BY <1>0, <1>10, <3>1 DEF Restart, RestTyped, clientVars
  <2>3. Serving' /\ LateInv'
    BY <2>1, IdleWithin DEF Serving, LateInv, WithinBatch
  <2>4. Handshakes' = {} /\ Streams' = {}
    BY <2>1, IdleWithin DEF Handshakes, Streams, Streaming
  <2>5. Cardinality(Handshakes') = 0 /\ Cardinality(Streams') = 0
    BY <2>4, FS_EmptySet
  <2>6. SlotsBalance'
    BY <2>1, <2>5 DEF SlotsBalance, Handshakes, Streams
  <2> QED BY <1>1, <2>1, <2>2, <2>3, <2>6
<1>11. CASE UNCHANGED vars
  BY <1>11 DEF vars, journalVars, slotVars, clientVars, SlotInv, TypeInv, TypeOK, Serving,
               LateInv, WithinBatch, SlotsBalance
<1> QED BY <1>3, <1>4, <1>5, <1>6, <1>7, <1>8, <1>9, <1>10, <1>11 DEF Next

(* The journal, the slots, the streams and the clients keep their types,    *)
(* and a thread that is not idle serves a client (process_request, run).    *)
THEOREM TypeCorrect == Spec => []TypeOK
<1>1. SlotInv => TypeOK
  BY DEF SlotInv, TypeInv
<1> QED BY <1>1, SlotInvInit, SlotInvStep, PTL DEF Spec

(* However many connections are refused, lost, closed, upgraded or cut by a *)
(* restart: every permit of the two semaphores is free or with one thread   *)
(* that needs it (_handle_websocket, process_request_thread).               *)
THEOREM SlotsAreGivenBack == Spec => []SlotsBalance
<1>1. SlotInv => SlotsBalance
  BY DEF SlotInv
<1> QED BY <1>1, SlotInvInit, SlotInvStep, PTL DEF Spec

(* A stream whose session was revoked sends no more than the batch it has   *)
(* in hand, however long the journal is (WebSocketSession.run).             *)
THEOREM RevokedStreamEnds == Spec => []RevokedIsCutOff
<1>1. SlotInv => RevokedIsCutOff
  BY DEF SlotInv, LateInv, WithinBatch, RevokedIsCutOff
<1> QED BY <1>1, SlotInvInit, SlotInvStep, PTL DEF Spec

-----------------------------------------------------------------------------
(* What is under way to a client.  a is the sequence it applied last, J the *)
(* journal and W what it wants: every event it wants between a and what its *)
(* thread has passed is in the net, in the order of the journal, and a      *)
(* refresh comes last.                                                      *)
Following == Streaming \ {"subscribe"}

Covered(net, top, a, J, W) ==
  \A i \in DOMAIN J :
    (a < i /\ i <= top /\ J[i].aggregate \in W)
      => \E j \in DOMAIN net : net[j].type = "event" /\ net[j].seq = i

InOrder(net) ==
  \A i, j \in DOMAIN net :
    (i < j /\ net[j].type = "event") => net[i].type = "event" /\ net[i].seq < net[j].seq

Carries(net, a, J, W) ==
  /\ InOrder(net)
  /\ \A j \in DOMAIN net : net[j].seq <= Len(J)
  /\ \A j \in DOMAIN net :
       net[j].type = "event" => a < net[j].seq /\ Covered(net, net[j].seq, a, J, W)

Delivers(t, a, J, W) ==
  /\ Carries(t.net, a, J, W)
  /\ t.pc \in {"handshake", "subscribe"} => t.net = <<>>
  /\ t.pc \in Following =>
       /\ W \subseteq t.topics
       /\ a <= t.cursor /\ t.cursor <= Len(J)
       /\ Covered(t.net, t.cursor, a, J, W)
       /\ \A j \in DOMAIN t.net : t.net[j].type = "event" /\ t.net[j].seq <= t.cursor

LEMMA NothingCarried ==
  ASSUME NEW a, NEW J, NEW W PROVE Carries(<<>>, a, J, W)
  BY DEF Carries, InOrder

(* A thread that has sent nothing and passed nothing. *)
LEMMA DeliversNothing ==
  ASSUME NEW t, NEW a \in Nat, NEW J \in Seq(Rows), NEW W, t.net = <<>>, a <= Len(J),
         t.pc \in Following => W \subseteq t.topics /\ t.cursor = a
  PROVE  Delivers(t, a, J, W)
<1>1. Carries(t.net, a, J, W)
  BY NothingCarried
<1>2. Covered(t.net, a, a, J, W)
  <2>1. DOMAIN J = 1 .. Len(J) /\ Len(J) \in Nat
    OBVIOUS
  <2> QED BY <2>1 DEF Covered
<1> QED BY <1>1, <1>2 DEF Delivers

(* The thread goes on without sending. *)
LEMMA DeliversOn ==
  ASSUME NEW t, NEW u, NEW a, NEW J, NEW W, Delivers(t, a, J, W),
         t.pc \in Following, u.pc \in Following, u.net = t.net,
         u.cursor = t.cursor, u.topics = t.topics
  PROVE  Delivers(u, a, J, W)
<1>1. u.pc \notin {"handshake", "subscribe"}
  BY DEF Following, Streaming
<1> QED BY <1>1 DEF Delivers

(* A refresh is put at the end of what is under way. *)
LEMMA CarriesRefresh ==
  ASSUME NEW net \in Seq(Messages), NEW a \in Nat, NEW J \in Seq(Rows), NEW W,
         Carries(net, a, J, W), NEW m \in Messages,
         m.type = "replay_unavailable", m.seq = Len(J)
  PROVE  Carries(net \o <<m>>, a, J, W)
<1> DEFINE new == net \o <<m>>
<1>1. /\ new \in Seq(Messages) /\ Len(new) = Len(net) + 1 /\ Len(net) \in Nat
      /\ \A j \in 1 .. Len(net) : new[j] = net[j]
      /\ new[Len(net) + 1] = m
  OBVIOUS
<1>2. DOMAIN new = 1 .. (Len(net) + 1) /\ DOMAIN net = 1 .. Len(net)
  BY <1>1
<1> HIDE DEF new
<1>3. \A j \in DOMAIN new : new[j].type = "event" => j \in DOMAIN net /\ new[j] = net[j]
  BY <1>1, <1>2
<1>4. InOrder(new)
  <2> SUFFICES ASSUME NEW i \in DOMAIN new, NEW j \in DOMAIN new, i < j, new[j].type = "event"
               PROVE  new[i].type = "event" /\ new[i].seq < new[j].seq
    BY DEF InOrder
  <2>1. j \in DOMAIN net /\ new[j] = net[j]
    BY <1>3
  <2>2. i \in DOMAIN net /\ new[i] = net[i]
    BY <1>1, <1>2, <2>1
  <2> QED BY <2>1, <2>2 DEF Carries, InOrder
<1>5. ASSUME NEW j \in DOMAIN new PROVE new[j].seq <= Len(J)
  <2>1. CASE j \in DOMAIN net
    <3>1. new[j] = net[j]
      BY <1>1, <1>2, <2>1
    <3> QED BY <2>1, <3>1 DEF Carries
  <2>2. CASE j = Len(net) + 1
    <3>1. new[j].seq = Len(J) /\ Len(J) \in Nat
      BY <1>1, <2>2
    <3> QED BY <3>1
  <2> QED BY <1>1, <1>2, <2>1, <2>2
<1>6. ASSUME NEW j \in DOMAIN new, new[j].type = "event"
      PROVE  a < new[j].seq /\ Covered(new, new[j].seq, a, J, W)
  <2>1. j \in DOMAIN net /\ new[j] = net[j]
    BY <1>3, <1>6
  <2>2. a < net[j].seq /\ Covered(net, net[j].seq, a, J, W)
    BY <1>6, <2>1 DEF Carries
  <2>3. \A i \in DOMAIN net : i \in DOMAIN new /\ new[i] = net[i]
    BY <1>1, <1>2
  <2> QED BY <2>1, <2>2, <2>3 DEF Covered
<1>7. Carries(new, a, J, W)
  BY <1>4, <1>5, <1>6 DEF Carries
<1> QED BY <1>7 DEF new

(* The next event is sent ... *)
LEMMA DeliversEvent ==
  ASSUME NEW t \in Thread, NEW u, NEW a \in Nat, NEW J \in Seq(Rows), NEW W,
         Delivers(t, a, J, W), t.pc \in Following, u.pc \in Following,
         u.topics = t.topics, u.cursor = t.cursor + 1, t.cursor + 1 <= Len(J),
         NEW m \in Messages, m.type = "event", m.seq = t.cursor + 1,
         u.net = Append(t.net, m)
  PROVE  Delivers(u, a, J, W)
<1> DEFINE net == t.net
           new == Append(t.net, m)
           p == t.cursor
<1>1. net \in Seq(Messages) /\ p \in Nat
  BY DEF Thread
<1>2. /\ new \in Seq(Messages) /\ Len(new) = Len(net) + 1 /\ Len(net) \in Nat
      /\ \A j \in 1 .. Len(net) : new[j] = net[j]
      /\ new[Len(net) + 1] = m
  BY <1>1, AppendProperties
<1>3. DOMAIN new = 1 .. (Len(net) + 1) /\ DOMAIN net = 1 .. Len(net)
  BY <1>1, <1>2
<1>4. /\ a <= p /\ p <= Len(J) /\ Covered(net, p, a, J, W)
      /\ \A j \in DOMAIN net : net[j].type = "event" /\ net[j].seq <= p
      /\ InOrder(net) /\ W \subseteq t.topics
  BY DEF Delivers, Carries
<1>5. \A j \in DOMAIN net : net[j].seq \in Nat /\ a < net[j].seq
                          /\ net[j].seq <= Len(J) /\ Covered(net, net[j].seq, a, J, W)
  <2>1. \A j \in DOMAIN net : net[j] \in Messages
    BY <1>1, <1>3
  <2>2. \A x \in Messages : x.seq \in Nat
    BY DEF Messages
  <2> QED BY <1>4, <2>1, <2>2 DEF Delivers, Carries
<1> HIDE DEF net, new, p
<1>6. \A j \in DOMAIN new : j \in DOMAIN net \/ (j = Len(net) + 1 /\ new[j] = m)
  BY <1>2, <1>3
<1>7. InOrder(new)
  <2> SUFFICES ASSUME NEW i \in DOMAIN new, NEW j \in DOMAIN new, i < j
               PROVE  new[i].type = "event" /\ new[i].seq < new[j].seq
    BY DEF InOrder
  <2>1. i \in DOMAIN net /\ new[i] = net[i]
    BY <1>2, <1>3
  <2>2. CASE j \in DOMAIN net
    BY <1>2, <1>3, <1>4, <2>1, <2>2 DEF InOrder
  <2>3. CASE j = Len(net) + 1
    <3>1. new[j].seq = p + 1
      BY <1>2, <2>3 DEF p
    <3> QED BY <1>1, <1>4, <1>5, <2>1, <3>1
  <2> QED BY <1>6, <2>2, <2>3
<1>8. Covered(new, p + 1, a, J, W)
  <2> SUFFICES ASSUME NEW i \in DOMAIN J, a < i, i <= p + 1, J[i].aggregate \in W
               PROVE  \E j \in DOMAIN new : new[j].type = "event" /\ new[j].seq = i
    BY DEF Covered
  <2>1. CASE i <= p
    <3>1. PICK j \in DOMAIN net : net[j].type = "event" /\ net[j].seq = i
      BY <1>4, <2>1 DEF Covered
    <3>2. j \in DOMAIN new /\ new[j] = net[j]
      BY <1>2, <1>3
    <3> QED BY <3>1, <3>2
  <2>2. CASE i = p + 1
    <3>1. Len(net) + 1 \in DOMAIN new /\ new[Len(net) + 1] = m /\ m.seq = p + 1
      BY <1>2, <1>3 DEF p
    <3> QED BY <2>2, <3>1
  <2>3. i \in Nat
    OBVIOUS
  <2> QED BY <1>1, <2>1, <2>2, <2>3
<1>9. ASSUME NEW j \in DOMAIN new
      PROVE  /\ a < new[j].seq /\ Covered(new, new[j].seq, a, J, W)
             /\ new[j].seq <= Len(J) /\ new[j].seq <= p + 1 /\ new[j].type = "event"
  <2>1. CASE j \in DOMAIN net
    <3>1. new[j] = net[j]
      BY <1>2, <1>3, <2>1
    <3>2. \A i \in DOMAIN net : i \in DOMAIN new /\ new[i] = net[i]
      BY <1>2, <1>3
    <3>3. Covered(new, new[j].seq, a, J, W)
      BY <1>5, <2>1, <3>1, <3>2 DEF Covered
    <3> QED BY <1>1, <1>4, <1>5, <2>1, <3>1, <3>3
  <2>2. CASE new[j] = m
    <3>1. m.seq = p + 1 /\ p + 1 <= Len(J)
      BY DEF p
    <3>2. a < p + 1
      BY <1>1, <1>4
    <3>3. new[j].seq = p + 1 /\ new[j].type = "event"
      BY <2>2, <3>1
    <3> QED BY <1>1, <1>8, <3>1, <3>2, <3>3
  <2> QED BY <1>6, <2>1, <2>2
<1>10. Carries(new, a, J, W)
  BY <1>7, <1>9 DEF Carries
<1>11. u.pc \notin {"handshake", "subscribe"} /\ u.net = new /\ u.cursor = p + 1
  BY DEF Following, Streaming, new, p
<1>12. a <= p + 1 /\ p + 1 <= Len(J)
  BY <1>1, <1>4 DEF p
<1> QED BY <1>4, <1>8, <1>9, <1>10, <1>11, <1>12 DEF Delivers

(* ... or passed over, since its topic is not subscribed. *)
LEMMA DeliversPast ==
  ASSUME NEW t \in Thread, NEW u, NEW a \in Nat, NEW J \in Seq(Rows), NEW W,
         Delivers(t, a, J, W), t.pc \in Following, u.pc \in Following,
         u.topics = t.topics, u.cursor = t.cursor + 1, t.cursor + 1 <= Len(J),
         J[t.cursor + 1].aggregate \notin t.topics, u.net = t.net
  PROVE  Delivers(u, a, J, W)
<1> DEFINE p == t.cursor
<1>1. p \in Nat /\ t.net \in Seq(Messages)
  BY DEF Thread
<1>2. /\ Carries(t.net, a, J, W) /\ W \subseteq t.topics /\ a <= p
      /\ Covered(t.net, p, a, J, W)
      /\ \A j \in DOMAIN t.net : t.net[j].type = "event" /\ t.net[j].seq <= p
  BY DEF Delivers
<1>3. Covered(t.net, p + 1, a, J, W)
  <2> SUFFICES ASSUME NEW i \in DOMAIN J, a < i, i <= p + 1, J[i].aggregate \in W
               PROVE  i <= p
    BY <1>2 DEF Covered
  <2>1. i # p + 1
    BY <1>2
  <2>2. i \in Nat
    OBVIOUS
  <2> QED BY <1>1, <2>1, <2>2
<1>4. a <= p + 1 /\ \A j \in DOMAIN t.net : t.net[j].seq <= p + 1
  <2>1. \A j \in DOMAIN t.net : t.net[j] \in Messages
    BY <1>1
  <2>2. \A x \in Messages : x.seq \in Nat
    BY DEF Messages
  <2>3. \A j \in DOMAIN t.net : t.net[j].seq \in Nat
    BY <2>1, <2>2
  <2> QED BY <1>1, <1>2, <2>3
<1>5. u.pc \notin {"handshake", "subscribe"}
  BY DEF Following, Streaming
<1> QED BY <1>2, <1>3, <1>4, <1>5 DEF Delivers

(* The journal grows. *)
LEMMA DeliversLonger ==
  ASSUME NEW t \in Thread, NEW a \in Nat, NEW J \in Seq(Rows), NEW P \in Seq(Rows), NEW W,
         Delivers(t, a, J, W)
  PROVE  Delivers(t, a, J \o P, W)
<1> DEFINE L == J \o P
<1>1. /\ L \in Seq(Rows) /\ Len(L) = Len(J) + Len(P) /\ Len(J) \in Nat /\ Len(P) \in Nat
      /\ \A i \in 1 .. Len(J) : L[i] = J[i]
      /\ DOMAIN L = 1 .. Len(L) /\ DOMAIN J = 1 .. Len(J)
  OBVIOUS
<1>2. t.net \in Seq(Messages) /\ t.cursor \in Nat
  BY DEF Thread
<1>3. \A j \in DOMAIN t.net : t.net[j].seq \in Nat
  <2>1. \A j \in DOMAIN t.net : t.net[j] \in Messages
    BY <1>2
  <2> QED BY <2>1 DEF Messages
<1> HIDE DEF L
<1>4. ASSUME NEW top \in Nat, top <= Len(J), Covered(t.net, top, a, J, W)
      PROVE  Covered(t.net, top, a, L, W)
  <2>1. ASSUME NEW i \in DOMAIN L, i <= top PROVE i \in DOMAIN J /\ L[i] = J[i]
    BY <1>1, <1>4, <2>1
  <2> QED BY <1>4, <2>1 DEF Covered
<1>5. \A j \in DOMAIN t.net : t.net[j].seq <= Len(J)
  BY DEF Delivers, Carries
<1>6. Len(J) <= Len(L)
  BY <1>1
<1>7. Carries(t.net, a, L, W)
  <2>1. \A j \in DOMAIN t.net : t.net[j].seq <= Len(L)
    BY <1>1, <1>3, <1>5, <1>6
  <2> QED BY <1>3, <1>4, <1>5, <2>1 DEF Delivers, Carries
<1>8. ASSUME t.pc \in Following PROVE t.cursor <= Len(L) /\ Covered(t.net, t.cursor, a, L, W)
  <2>1. t.cursor <= Len(J) /\ Covered(t.net, t.cursor, a, J, W)
    BY <1>8 DEF Delivers
  <2> QED BY <1>1, <1>2, <1>4, <1>6, <2>1
<1>9. Delivers(t, a, L, W)
  BY <1>7, <1>8 DEF Delivers
<1> QED BY <1>9 DEF L

LEMMA TailOfNet ==
  ASSUME NEW net \in Seq(Messages), net # <<>>
  PROVE  /\ Head(net) = net[1] /\ Head(net) \in Messages /\ Tail(net) \in Seq(Messages)
         /\ 1 \in DOMAIN net
         /\ \A j \in DOMAIN Tail(net) : j + 1 \in DOMAIN net /\ Tail(net)[j] = net[j + 1]
         /\ \A j \in DOMAIN net : j # 1 => j - 1 \in DOMAIN Tail(net)
                                     /\ Tail(net)[j - 1] = net[j]
<1>1. /\ Tail(net) \in Seq(Messages) /\ Len(Tail(net)) = Len(net) - 1
      /\ \A j \in 1 .. Len(Tail(net)) : Tail(net)[j] = net[j + 1]
      /\ Head(net) \in Messages
  BY HeadTailProperties
<1>2. DOMAIN net = 1 .. Len(net) /\ Len(net) \in Nat /\ Len(net) >= 1
  OBVIOUS
<1>3. DOMAIN Tail(net) = 1 .. (Len(net) - 1)
  BY <1>1
<1>4. Head(net) = net[1]
  OBVIOUS
<1>5. ASSUME NEW j \in DOMAIN net, j # 1
      PROVE  j - 1 \in DOMAIN Tail(net) /\ Tail(net)[j - 1] = net[j]
  BY <1>1, <1>2, <1>3, <1>5
<1> QED BY <1>1, <1>2, <1>3, <1>4, <1>5

(* The client takes an event: nothing it wants was before it. *)
LEMMA DeliversTaken ==
  ASSUME NEW t \in Thread, NEW u, NEW a \in Nat, NEW J \in Seq(Rows), NEW W,
         Delivers(t, a, J, W), t.net # <<>>, Head(t.net).type = "event",
         u.pc = t.pc, u.topics = t.topics, u.cursor = t.cursor, u.net = Tail(t.net)
  PROVE  /\ Delivers(u, Head(t.net).seq, J, W)
         /\ Head(t.net).seq \in Nat /\ Head(t.net).seq <= Len(J)
         /\ \A i \in DOMAIN J : (i <= Head(t.net).seq /\ J[i].aggregate \in W)
                                => i <= a \/ i = Head(t.net).seq
<1> DEFINE net == t.net
           new == Tail(t.net)
           s == Head(t.net).seq
<1>1. net \in Seq(Messages) /\ t.cursor \in Nat /\ net # <<>>
  BY DEF Thread
<1>2. \A j \in DOMAIN net : net[j].seq \in Nat
  <2>1. \A j \in DOMAIN net : net[j] \in Messages
    BY <1>1
  <2> QED BY <2>1 DEF Messages
<1>3. DOMAIN net \subseteq Nat \ {0} /\ DOMAIN J \subseteq Nat
  BY <1>1
<1>4. /\ s = net[1].seq /\ net[1].type = "event" /\ s \in Nat /\ 1 \in DOMAIN net
      /\ \A j \in DOMAIN new : j + 1 \in DOMAIN net /\ new[j] = net[j + 1]
      /\ \A j \in DOMAIN net : j # 1 => j - 1 \in DOMAIN new /\ new[j - 1] = net[j]
      /\ new \in Seq(Messages)
  BY <1>1, <1>2, TailOfNet
<1>5. Carries(net, a, J, W)
  BY DEF Delivers
<1> HIDE DEF net, new, s
<1>6. a < s /\ s <= Len(J) /\ Covered(net, s, a, J, W) /\ InOrder(net)
  BY <1>4, <1>5 DEF Carries
<1>7. DOMAIN new \subseteq Nat \ {0}
  BY <1>4
<1>8. \A j \in DOMAIN net : (j # 1 /\ net[j].type = "event") => s < net[j].seq
  BY <1>3, <1>4, <1>6 DEF InOrder
<1>9. ASSUME NEW i \in DOMAIN J, i <= s, J[i].aggregate \in W PROVE i <= a \/ i = s
  <2>1. CASE a < i
    <3>1. PICK j \in DOMAIN net : net[j].type = "event" /\ net[j].seq = i
      BY <1>6, <1>9, <2>1 DEF Covered
    <3>2. j = 1
      <4>1. i \in Nat /\ ~(s < i)
        BY <1>3, <1>4, <1>9
      <4>2. ~(s < net[j].seq)
        BY <3>1, <4>1
      <4> QED BY <1>8, <3>1, <4>2
    <3> QED BY <1>4, <3>1, <3>2
  <2>2. CASE ~(a < i)
    BY <1>3, <2>2
  <2> QED BY <2>1, <2>2
<1>10. ASSUME NEW top \in Nat, Covered(net, top, a, J, W)
       PROVE  Covered(new, top, s, J, W)
  <2> SUFFICES ASSUME NEW i \in DOMAIN J, s < i, i <= top, J[i].aggregate \in W
               PROVE  \E j \in DOMAIN new : new[j].type = "event" /\ new[j].seq = i
    BY DEF Covered
  <2>1. a < i
    BY <1>3, <1>4, <1>6
  <2>2. PICK j \in DOMAIN net : net[j].type = "event" /\ net[j].seq = i
    BY <1>10, <2>1 DEF Covered
  <2>3. j # 1
    BY <1>3, <1>4, <2>2
  <2> QED BY <1>4, <2>2, <2>3
<1>11. InOrder(new)
  <2> SUFFICES ASSUME NEW i \in DOMAIN new, NEW j \in DOMAIN new, i < j, new[j].type = "event"
               PROVE  new[i].type = "event" /\ new[i].seq < new[j].seq
    BY DEF InOrder
  <2>1. i + 1 \in DOMAIN net /\ j + 1 \in DOMAIN net /\ i + 1 < j + 1
        /\ new[i] = net[i + 1] /\ new[j] = net[j + 1]
    BY <1>4, <1>7
  <2> QED BY <1>6, <2>1 DEF InOrder
<1>12. ASSUME NEW j \in DOMAIN new
       PROVE  /\ new[j].seq <= Len(J)
              /\ new[j].type = "event" => s < new[j].seq /\ Covered(new, new[j].seq, s, J, W)
  <2>1. j + 1 \in DOMAIN net /\ new[j] = net[j + 1] /\ j + 1 # 1
    BY <1>4, <1>7
  <2>2. net[j + 1].seq <= Len(J) /\ net[j + 1].seq \in Nat
        /\ (net[j + 1].type = "event" => Covered(net, net[j + 1].seq, a, J, W))
    BY <1>2, <1>5, <2>1 DEF Carries
  <2> QED BY <1>8, <1>10, <2>1, <2>2
<1>13. Carries(new, s, J, W)
  BY <1>11, <1>12 DEF Carries
<1>14. u.pc \notin {"handshake", "subscribe"}
  BY <1>1 DEF Delivers, net
<1>15. ASSUME u.pc \in Following
       PROVE  /\ W \subseteq u.topics /\ s <= u.cursor /\ u.cursor <= Len(J)
              /\ Covered(new, u.cursor, s, J, W)
              /\ \A j \in DOMAIN new : new[j].type = "event" /\ new[j].seq <= u.cursor
  <2>1. /\ W \subseteq t.topics /\ t.cursor <= Len(J) /\ Covered(net, t.cursor, a, J, W)
        /\ \A j \in DOMAIN net : net[j].type = "event" /\ net[j].seq <= t.cursor
    BY <1>15 DEF Delivers, net
  <2>2. s <= t.cursor
    BY <1>4, <2>1
  <2>3. \A j \in DOMAIN new : new[j].type = "event" /\ new[j].seq <= t.cursor
    BY <1>4, <2>1
  <2>4. Covered(new, t.cursor, s, J, W)
    BY <1>1, <1>10, <2>1
  <2> QED BY <2>1, <2>2, <2>3, <2>4
<1>16. Delivers(u, s, J, W)
  BY <1>13, <1>14, <1>15 DEF Delivers, new
<1> QED BY <1>4, <1>6, <1>9, <1>16 DEF s

(* The client takes the refresh: no event comes after it. *)
LEMMA DeliversRefreshed ==
  ASSUME NEW t \in Thread, NEW u, NEW a, NEW b, NEW J \in Seq(Rows), NEW W,
         Delivers(t, a, J, W), t.net # <<>>, Head(t.net).type # "event",
         u.pc = t.pc, u.net = Tail(t.net)
  PROVE  Delivers(u, b, J, W) /\ Head(t.net).seq \in Nat /\ Head(t.net).seq <= Len(J)
<1> DEFINE net == t.net
           new == Tail(t.net)
<1>1. net \in Seq(Messages) /\ net # <<>>
  BY DEF Thread
<1>2. /\ Head(net) = net[1] /\ 1 \in DOMAIN net /\ Head(net) \in Messages
      /\ \A j \in DOMAIN new : j + 1 \in DOMAIN net /\ new[j] = net[j + 1]
      /\ new \in Seq(Messages)
  BY <1>1, TailOfNet
<1>3. Carries(net, a, J, W)
  BY DEF Delivers
<1>4. DOMAIN new \subseteq Nat \ {0}
  BY <1>2
<1>5. t.pc \notin Following /\ t.pc \notin {"handshake", "subscribe"}
  BY <1>1, <1>2 DEF Delivers
<1> HIDE DEF net, new
<1>6. \A j \in DOMAIN new : new[j].type # "event" /\ new[j].seq <= Len(J)
  <2> SUFFICES ASSUME NEW j \in DOMAIN new PROVE new[j].type # "event" /\ new[j].seq <= Len(J)
    OBVIOUS
  <2>1. j + 1 \in DOMAIN net /\ new[j] = net[j + 1] /\ 1 < j + 1
    BY <1>2, <1>4
  <2>2. net[1].type # "event"
    BY <1>2 DEF net
  <2> QED BY <1>2, <1>3, <2>1, <2>2 DEF Carries, InOrder
<1>7. Carries(new, b, J, W)
  BY <1>6 DEF Carries, InOrder
<1>8. Delivers(u, b, J, W)
  BY <1>5, <1>7 DEF Delivers, new
<1>9. net[1].seq <= Len(J)
  BY <1>2, <1>3 DEF Carries
<1>10. net[1].seq \in Nat
  BY <1>2 DEF Messages
<1> QED BY <1>2, <1>8, <1>9, <1>10 DEF net

-----------------------------------------------------------------------------
(* The inductive invariant of delivery. *)
JournalInv ==
  /\ \A i \in DOMAIN journal : journal[i].seq = i
  /\ \A i \in DOMAIN pending : pending[i].seq = Len(journal) + i

BatchOf(t, J) ==
  t.pc = "send" => \A j \in DOMAIN t.batch :
                     t.cursor + j <= Len(J) /\ t.batch[j] = J[t.cursor + j]

BatchInv == \A k \in Threads : BatchOf(thread[k], journal)

Linked(c) ==
  link[c] \in Threads =>
    /\ thread[link[c]].client = c
    /\ Delivers(thread[link[c]], applied[c], journal, Wanted[c])

DeliveryInv ==
  /\ JournalInv /\ BatchInv
  /\ \A c \in Clients : Linked(c) /\ applied[c] <= Len(journal)
  /\ NothingSkipped

LEMMA DeliveryInit == Init => DeliveryInv
<1> SUFFICES ASSUME Init PROVE DeliveryInv
  OBVIOUS
<1>1. journal = <<>> /\ pending = <<>> /\ DOMAIN journal = {} /\ DOMAIN pending = {}
      /\ Len(journal) = 0
  BY DEF Init
<1>2. \A k \in Threads : thread[k].pc = "idle"
  BY IdleWithin DEF Init
<1>3. \A c \in Clients : link[c] \notin Threads /\ applied[c] = 0
  BY DEF Init
<1> QED BY <1>1, <1>2, <1>3 DEF DeliveryInv, JournalInv, BatchInv, BatchOf, Linked, NothingSkipped

(* A client is linked in the next state to what it is then served by. *)
LEMMA LinkedNext ==
  ASSUME NEW c \in Clients,
         link'[c] \in Threads =>
           /\ thread'[link'[c]].client = c
           /\ Delivers(thread'[link'[c]], applied'[c], journal', Wanted[c])
  PROVE  Linked(c)'
<1> SUFFICES ASSUME link'[c] \in Threads
             PROVE  Delivers(thread[link[c]], applied[c], journal, Wanted[c])'
  BY DEF Linked
<1> DEFINE t == thread'[link'[c]]
<1>1. Delivers(t, applied'[c], journal', Wanted[c])
  OBVIOUS
<1>2. Carries(t.net, applied'[c], journal', Wanted[c])
  BY <1>1 DEF Delivers
<1> QED BY <1>1, <1>2 DEF Delivers, Carries, Covered

(* One thread moves; the others, the journal and the clients stay. *)
LEMMA ThreadMoves ==
  ASSUME SlotInv, DeliveryInv, NEW k \in Threads, NEW u \in Thread,
         thread' = [thread EXCEPT ![k] = u],
         UNCHANGED <<journalVars, link, clientVars>>,
         BatchOf(u, journal),
         \A c \in Clients : link[c] = k =>
           u.client = c /\ Delivers(u, applied[c], journal, Wanted[c])
  PROVE  DeliveryInv'
<1>1. thread'[k] = u /\ \A j \in Threads \ {k} : thread'[j] = thread[j]
  BY DEF SlotInv, TypeInv, TypeOK
<1>2. UNCHANGED <<journal, pending, link, applied, seen>>
  BY DEF journalVars, clientVars
<1>3. BatchInv'
  <2> SUFFICES ASSUME NEW j \in Threads PROVE BatchOf(thread'[j], journal)
    BY <1>2 DEF BatchInv, BatchOf
  <2> QED BY <1>1 DEF DeliveryInv, BatchInv
<1>4. ASSUME NEW c \in Clients PROVE Linked(c)'
  <2> SUFFICES ASSUME link[c] \in Threads
               PROVE  /\ thread'[link[c]].client = c
                      /\ Delivers(thread'[link[c]], applied[c], journal, Wanted[c])
    BY <1>2, LinkedNext
  <2> QED BY <1>1 DEF DeliveryInv, Linked
<1>5. JournalInv' /\ NothingSkipped' /\ \A c \in Clients : applied'[c] <= Len(journal')
  BY <1>2 DEF DeliveryInv, JournalInv, NothingSkipped
<1> QED BY <1>3, <1>4, <1>5 DEF DeliveryInv

LEMMA GoesOnDelivers ==
  ASSUME SlotInv, DeliveryInv, NEW k \in Threads, thread[k].pc \in Following,
         NEW step \in Following \ {"send"}, Goto(k, step),
         UNCHANGED <<journalVars, link, clientVars>>
  PROVE  DeliveryInv'
<1> DEFINE u == [thread[k] EXCEPT !.pc = step]
<1>1. thread[k] \in Thread
  BY DEF SlotInv, TypeInv, TypeOK
<1>2. u \in Thread
  BY <1>1, PcTyped DEF Following
<1>3. u.pc = step /\ u.client = thread[k].client /\ u.net = thread[k].net
      /\ u.cursor = thread[k].cursor /\ u.topics = thread[k].topics
  BY <1>1 DEF Thread
<1>4. thread' = [thread EXCEPT ![k] = u]
  BY DEF Goto, SlotInv, TypeInv, TypeOK
<1> HIDE DEF u
<1>5. BatchOf(u, journal)
  BY <1>3 DEF BatchOf
<1>6. ASSUME NEW c \in Clients, link[c] = k
      PROVE  u.client = c /\ Delivers(u, applied[c], journal, Wanted[c])
  <2>1. thread[k].client = c /\ Delivers(thread[k], applied[c], journal, Wanted[c])
    BY <1>6 DEF DeliveryInv, Linked
  <2> QED BY <1>3, <2>1, DeliversOn
<1> QED BY <1>2, <1>4, <1>5, <1>6, ThreadMoves

LEMMA EndsDelivers ==
  ASSUME SlotInv, DeliveryInv, NEW k \in Threads, thread[k].pc \in Streaming,
         NEW msgs, CloseWith(k, msgs),
         msgs = <<>> \/ msgs = <<[type |-> "replay_unavailable", seq |-> Latest]>>,
         UNCHANGED <<journalVars, link, clientVars>>
  PROVE  DeliveryInv'
<1> DEFINE d == thread[k].client
           net == thread[k].net \o msgs
           last == [[Idle EXCEPT !.client = d] EXCEPT !.net = net]
           u == IF link[d] = k THEN last ELSE Idle
<1>1. thread[k] \in Thread /\ d \in Clients /\ thread[k].net \in Seq(Messages)
  BY DEF SlotInv, TypeInv, TypeOK, Serving, Streaming, Thread
<1>2. msgs \in Seq(Messages)
  BY RefreshTyped DEF SlotInv
<1>3. net \in Seq(Messages)
  BY <1>1, <1>2
<1>4. last \in Thread
  BY <1>1, <1>3, IdleTyped, ClientTyped, NetTyped
<1>5. last.pc = "idle" /\ last.client = d /\ last.net = net
  BY DEF Idle
<1>6. thread' = [thread EXCEPT ![k] = u]
  BY DEF CloseWith, Idle
<1>7. ASSUME NEW c \in Clients, link[c] = k
      PROVE  u.client = c /\ Delivers(u, applied[c], journal, Wanted[c])
  <2>1. c = d /\ Delivers(thread[k], applied[c], journal, Wanted[c])
    BY <1>7 DEF DeliveryInv, Linked
  <2>2. Carries(thread[k].net, applied[c], journal, Wanted[c])
    BY <2>1 DEF Delivers
  <2>3. applied[c] \in Nat /\ journal \in Seq(Rows) /\ Latest = Len(journal)
    BY DEF SlotInv, TypeInv, TypeOK, Latest
  <2>4. Carries(net, applied[c], journal, Wanted[c])
    <3>1. CASE msgs = <<>>
      <4>1. net = thread[k].net
        BY <1>1, <3>1
      <4> QED BY <2>2, <4>1
    <3>2. CASE msgs = <<[type |-> "replay_unavailable", seq |-> Latest]>>
      <4> DEFINE m == [type |-> "replay_unavailable", seq |-> Latest]
      <4>1. m \in Messages /\ m.type = "replay_unavailable" /\ m.seq = Len(journal)
        BY <2>3 DEF Messages
      <4> HIDE DEF m
      <4>2. Carries(thread[k].net \o <<m>>, applied[c], journal, Wanted[c])
        BY <1>1, <2>2, <2>3, <4>1, CarriesRefresh
      <4> QED BY <3>2, <4>2 DEF m
    <3> QED BY <3>1, <3>2
  <2>5. u = last
    BY <1>7, <2>1
  <2> HIDE DEF last, net
  <2>6. Delivers(last, applied[c], journal, Wanted[c])
    BY <1>5, <2>4 DEF Delivers, Following, Streaming
  <2> QED BY <1>5, <2>1, <2>5, <2>6
<1>8. u \in Thread /\ u.pc = "idle"
  BY <1>4, <1>5, IdleTyped, IdleWithin
<1> HIDE DEF u
<1>9. BatchOf(u, journal)
  BY <1>8 DEF BatchOf
<1> QED BY <1>6, <1>7, <1>8, <1>9, ThreadMoves

(* The replay starts, or waits for its topics: nothing was sent before. *)
LEMMA StartsDelivers ==
  ASSUME SlotInv, DeliveryInv, NEW k \in Threads, Upgrade(k) \/ Subscribe(k)
  PROVE  DeliveryInv'
<1> DEFINE d == thread[k].client
           u0 == [thread[k] EXCEPT !.pc = "subscribe"]
           w(topics) == [[[thread[k] EXCEPT !.pc = "replay"] EXCEPT !.cursor = applied[d]]
                            EXCEPT !.topics = topics]
<1>1. /\ thread[k] \in Thread /\ d \in Clients /\ applied[d] \in Nat
      /\ thread[k].pc \in {"handshake", "subscribe"}
      /\ Wanted[d] \in SUBSET Aggregates
      /\ journal \in Seq(Rows)
  BY DEF SlotInv, TypeInv, TypeOK, Serving, Upgrade, Subscribe
<1>2. UNCHANGED <<journalVars, link, clientVars>>
  BY DEF Upgrade, Subscribe
<1>3. ASSUME NEW u \in Thread, thread' = [thread EXCEPT ![k] = u], u.pc # "send",
             u.client = d, u.net = thread[k].net,
             u.pc \in Following => Wanted[d] \subseteq u.topics /\ u.cursor = applied[d]
      PROVE  DeliveryInv'
  <2>1. ASSUME NEW c \in Clients, link[c] = k
        PROVE  u.client = c /\ Delivers(u, applied[c], journal, Wanted[c])
    <3>1. c = d /\ Delivers(thread[k], applied[c], journal, Wanted[c])
          /\ applied[c] <= Len(journal)
      BY <2>1 DEF DeliveryInv, Linked
    <3>2. u.net = <<>>
      BY <1>1, <1>3, <3>1 DEF Delivers
    <3> QED BY <1>1, <1>3, <3>1, <3>2, DeliversNothing
  <2>2. BatchOf(u, journal)
    BY <1>3 DEF BatchOf
  <2> QED BY <1>2, <1>3, <2>1, <2>2, ThreadMoves
<1>4. CASE thread' = [thread EXCEPT ![k].pc = "subscribe"]
  <2>1. u0 \in Thread
    BY <1>1, PcTyped DEF Streaming
  <2>2. u0.client = d /\ u0.net = thread[k].net /\ u0.pc = "subscribe"
    BY <1>1 DEF Thread
  <2>3. thread' = [thread EXCEPT ![k] = u0]
    BY <1>4 DEF SlotInv, TypeInv, TypeOK
  <2> HIDE DEF u0
  <2> QED BY <1>3, <2>1, <2>2, <2>3 DEF Following
<1>5. ASSUME NEW topics \in SUBSET Aggregates, Wanted[d] \subseteq topics,
             thread' = [thread EXCEPT ![k].pc = "replay", ![k].cursor = applied[d],
                                      ![k].topics = topics]
      PROVE  DeliveryInv'
  <2> DEFINE u == w(topics)
  <2>1. u \in Thread
    BY <1>1, PcTyped, CursorTyped, TopicsTyped DEF Streaming
  <2>2. u.client = d /\ u.net = thread[k].net /\ u.pc = "replay" /\ u.topics = topics
        /\ u.cursor = applied[d]
    BY <1>1 DEF Thread
  <2>3. thread' = [thread EXCEPT ![k] = u]
    BY <1>5 DEF SlotInv, TypeInv, TypeOK
  <2> HIDE DEF u
  <2> QED BY <1>3, <1>5, <2>1, <2>2, <2>3
<1>6. CASE Upgrade(k)
  BY <1>1, <1>4, <1>5, <1>6 DEF Upgrade
<1>7. CASE Subscribe(k)
  BY <1>1, <1>5, <1>7 DEF Subscribe
<1> QED BY <1>6, <1>7

LEMMA LoopDelivers ==
  ASSUME SlotInv, DeliveryInv, NEW k \in Threads,
         \/ StartReplay(k) \/ CheckSession(k) \/ CheckBounds(k)
         \/ Sent(k) \/ Poll(k) \/ Notice(k)
  PROVE  DeliveryInv'
<1>1. UNCHANGED <<journalVars, link, clientVars>>
  BY DEF StartReplay, CheckSession, CheckBounds, Sent, Poll, Notice
<1>2. thread[k].pc \in Streaming
  BY DEF StartReplay, CheckSession, CheckBounds, Sent, Poll, Notice, Streaming
<1>3. CASE CloseWith(k, <<>>)
  BY <1>1, <1>2, <1>3, EndsDelivers
<1>4. CASE RequireRefresh(k)
  BY <1>1, <1>2, <1>4, EndsDelivers DEF RequireRefresh
<1>5. CASE /\ thread[k].pc \in Following
           /\ \E step \in Following \ {"send"} : Goto(k, step)
  BY <1>1, <1>5, GoesOnDelivers
<1>6. {"check", "bounds", "drain", "poll"} \subseteq Following \ {"send"}
      /\ {"replay", "check", "bounds", "send", "poll"} \subseteq Following
  BY DEF Following, Streaming
<1>7. CASE StartReplay(k) \/ CheckBounds(k)
  BY <1>4, <1>5, <1>6, <1>7 DEF StartReplay, CheckBounds
<1>8. CASE CheckSession(k)
  BY <1>3, <1>5, <1>6, <1>8 DEF CheckSession
<1>9. CASE Sent(k) \/ Poll(k)
  BY <1>5, <1>6, <1>9 DEF Sent, Poll
<1>10. CASE Notice(k)
  BY <1>3, <1>10 DEF Notice
<1> QED BY <1>7, <1>8, <1>9, <1>10

LEMMA DrainDelivers ==
  ASSUME SlotInv, DeliveryInv, NEW k \in Threads, Drain(k) PROVE DeliveryInv'
<1> DEFINE batch == ReadAfter(thread[k].cursor, Batch)
           u == [[thread[k] EXCEPT !.pc = "send"] EXCEPT !.batch = batch]
<1>1. /\ thread[k] \in Thread /\ thread[k].pc = "drain" /\ thread[k].cursor \in Nat
      /\ journal \in Seq(Rows)
  BY DEF SlotInv, TypeInv, TypeOK, Drain, Thread
<1>2. /\ batch \in Seq(Rows)
      /\ \A j \in DOMAIN batch : thread[k].cursor + j <= Len(journal)
                                /\ batch[j] = journal[thread[k].cursor + j]
  BY <1>1, BatchRead
<1> HIDE DEF batch
<1>3. u \in Thread
  BY <1>1, <1>2, PcTyped, BatchTyped DEF Streaming
<1>4. /\ u.pc = "send" /\ u.batch = batch /\ u.client = thread[k].client
      /\ u.net = thread[k].net /\ u.cursor = thread[k].cursor /\ u.topics = thread[k].topics
  BY <1>1 DEF Thread
<1>5. thread' = [thread EXCEPT ![k] = u]
  BY DEF Drain, SlotInv, TypeInv, TypeOK, batch
<1> HIDE DEF u
<1>6. BatchOf(u, journal)
  BY <1>2, <1>4 DEF BatchOf
<1>7. ASSUME NEW c \in Clients, link[c] = k
      PROVE  u.client = c /\ Delivers(u, applied[c], journal, Wanted[c])
  <2>1. thread[k].client = c /\ Delivers(thread[k], applied[c], journal, Wanted[c])
    BY <1>7 DEF DeliveryInv, Linked
  <2>2. thread[k].pc \in Following /\ u.pc \in Following
    BY <1>1, <1>4 DEF Following, Streaming
  <2> QED BY <1>4, <2>1, <2>2, DeliversOn
<1>8. UNCHANGED <<journalVars, link, clientVars>>
  BY DEF Drain
<1> QED BY <1>3, <1>5, <1>6, <1>7, <1>8, ThreadMoves

LEMMA SendDelivers ==
  ASSUME SlotInv, DeliveryInv, NEW k \in Threads, Send(k) PROVE DeliveryInv'
<1> DEFINE t == thread[k]
           u == Sending(k)
           e == Head(t.batch)
<1>1. /\ t \in Thread /\ t.pc = "send" /\ t.batch # <<>> /\ t.batch \in Seq(Rows)
      /\ t.cursor \in Nat /\ journal \in Seq(Rows)
  BY DEF SlotInv, TypeInv, TypeOK, Send, Thread
<1>2. BatchOf(t, journal)
  BY DEF DeliveryInv, BatchInv
<1>3. 1 \in DOMAIN t.batch /\ e = t.batch[1] /\ e \in Rows
  BY <1>1
<1>4. /\ t.cursor + 1 <= Len(journal) /\ e = journal[t.cursor + 1]
      /\ t.cursor + 1 \in DOMAIN journal
  BY <1>1, <1>2, <1>3 DEF BatchOf
<1>5. e.seq = t.cursor + 1
  BY <1>4 DEF DeliveryInv, JournalInv
<1>6. /\ u \in Thread /\ thread' = [thread EXCEPT ![k] = u]
      /\ u.pc = "send" /\ u.client = t.client /\ u.batch = Tail(t.batch)
      /\ u.cursor = t.cursor + 1 /\ u.topics = t.topics /\ u.net = Net(k)
  BY <1>5, SendTyped DEF SlotInv
<1>7. BatchOf(u, journal)
  <2>1. \A j \in DOMAIN Tail(t.batch) :
          j \in Nat /\ j + 1 \in DOMAIN t.batch /\ Tail(t.batch)[j] = t.batch[j + 1]
    <3>1. /\ Tail(t.batch) \in Seq(Rows) /\ Len(Tail(t.batch)) = Len(t.batch) - 1
          /\ \A j \in 1 .. Len(Tail(t.batch)) : Tail(t.batch)[j] = t.batch[j + 1]
      BY <1>1, HeadTailProperties
    <3>2. DOMAIN Tail(t.batch) = 1 .. Len(Tail(t.batch)) /\ DOMAIN t.batch = 1 .. Len(t.batch)
          /\ Len(t.batch) \in Nat
      BY <1>1, <3>1
    <3> QED BY <3>1, <3>2
  <2>2. \A p, j \in Nat : p + (j + 1) = (p + 1) + j
    OBVIOUS
  <2>3. \A j \in DOMAIN t.batch : t.cursor + j <= Len(journal)
                                /\ t.batch[j] = journal[t.cursor + j]
    BY <1>1, <1>2 DEF BatchOf
  <2> HIDE DEF t, u
  <2>4. ASSUME NEW j \in DOMAIN u.batch
        PROVE  u.cursor + j <= Len(journal) /\ u.batch[j] = journal[u.cursor + j]
    <3>1. j \in DOMAIN Tail(t.batch) /\ u.batch[j] = Tail(t.batch)[j]
      BY <1>6, <2>4
    <3>2. u.cursor + j = t.cursor + (j + 1)
      <4>1. j \in Nat /\ t.cursor \in Nat /\ u.cursor = t.cursor + 1
        BY <1>1, <1>6, <2>1, <3>1
      <4> QED BY <2>2, <4>1
    <3> QED BY <2>1, <2>3, <3>1, <3>2
  <2> QED BY <2>4 DEF BatchOf
<1>8. ASSUME NEW c \in Clients, link[c] = k
      PROVE  u.client = c /\ Delivers(u, applied[c], journal, Wanted[c])
  <2>1. t.client = c /\ Delivers(t, applied[c], journal, Wanted[c])
    BY <1>8 DEF DeliveryInv, Linked
  <2>2. applied[c] \in Nat /\ t.pc \in Following /\ u.pc \in Following
    BY <1>1, <1>6 DEF SlotInv, TypeInv, TypeOK, Following, Streaming
  <2>3. CASE e.aggregate \in t.topics
    <3> DEFINE m == [type |-> "event", seq |-> e.seq]
    <3>1. Net(k) = Append(t.net, m)
      BY <1>8, <2>1, <2>3 DEF Net
    <3>2. m \in Messages /\ m.type = "event" /\ m.seq = t.cursor + 1
      <4>1. e.seq \in Nat
        BY <1>3 DEF Rows
      <4> HIDE DEF e
      <4> QED BY <1>5, <4>1 DEF Messages
    <3> HIDE DEF m, e, u, t
    <3> QED BY <1>1, <1>4, <1>6, <2>1, <2>2, <3>1, <3>2, DeliversEvent
  <2>4. CASE e.aggregate \notin t.topics
    <3>1. Net(k) = t.net
      BY <2>4 DEF Net
    <3> HIDE DEF e, u, t
    <3> QED BY <1>1, <1>4, <1>6, <2>1, <2>2, <2>4, <3>1, DeliversPast
  <2> QED BY <1>6, <2>1, <2>3, <2>4
<1>9. UNCHANGED <<journalVars, link, clientVars>>
  BY DEF Send
<1> QED BY <1>6, <1>7, <1>8, <1>9, ThreadMoves

(* Links come and go. *)
LEMMA LinkMoves ==
  ASSUME SlotInv, DeliveryInv, NEW k \in Threads, NEW u \in Thread,
         thread' = [thread EXCEPT ![k] = u], u.pc # "send" \/ u.batch = <<>>
                                             \/ BatchOf(u, journal),
         UNCHANGED <<journalVars, clientVars>>,
         \A c \in Clients :
           \/ link'[c] \notin Threads
           \/ link'[c] = link[c] /\ link[c] # k
           \/ link'[c] = k /\ u.client = c
                /\ Delivers(u, applied[c], journal, Wanted[c])
  PROVE  DeliveryInv'
<1>1. thread'[k] = u /\ \A j \in Threads \ {k} : thread'[j] = thread[j]
  BY DEF SlotInv, TypeInv, TypeOK
<1>2. UNCHANGED <<journal, pending, applied, seen>>
  BY DEF journalVars, clientVars
<1>3. BatchOf(u, journal)
  BY DEF BatchOf
<1>4. BatchInv'
  <2> SUFFICES ASSUME NEW j \in Threads PROVE BatchOf(thread'[j], journal)
    BY <1>2 DEF BatchInv, BatchOf
  <2> QED BY <1>1, <1>3 DEF DeliveryInv, BatchInv
<1>5. ASSUME NEW c \in Clients PROVE Linked(c)'
  <2> SUFFICES ASSUME link'[c] \in Threads
               PROVE  /\ thread'[link'[c]].client = c
                      /\ Delivers(thread'[link'[c]], applied[c], journal, Wanted[c])
    BY <1>2, LinkedNext
  <2> QED BY <1>1 DEF DeliveryInv, Linked
<1>6. JournalInv' /\ NothingSkipped' /\ \A c \in Clients : applied'[c] <= Len(journal')
  BY <1>2 DEF DeliveryInv, JournalInv, NothingSkipped
<1> QED BY <1>4, <1>5, <1>6 DEF DeliveryInv

LEMMA ConnectDelivers ==
  ASSUME SlotInv, DeliveryInv, NEW c \in Clients, NEW k \in Threads, Connect(c, k)
  PROVE  DeliveryInv'
<1> DEFINE u == [[Idle EXCEPT !.pc = "handshake"] EXCEPT !.client = c]
<1>1. u \in Thread
  BY IdleTyped, PcTyped, ClientTyped
<1>2. u.pc = "handshake" /\ u.client = c /\ u.net = <<>>
  BY DEF Idle
<1>3. /\ thread' = [thread EXCEPT ![k] = u] /\ thread[k] = Idle
      /\ link' = [link EXCEPT ![c] = k]
      /\ UNCHANGED <<journalVars, clientVars>>
  BY DEF Connect, Idle
<1> HIDE DEF u
<1>4. /\ link \in [Clients -> Threads \cup {NoOne}] /\ applied[c] \in Nat
      /\ journal \in Seq(Rows) /\ applied[c] <= Len(journal)
  BY DEF SlotInv, TypeInv, TypeOK, DeliveryInv
<1>5. Delivers(u, applied[c], journal, Wanted[c])
  BY <1>2, <1>4, DeliversNothing DEF Following, Streaming
<1>6. ASSUME NEW d \in Clients, d # c, link[d] \in Threads PROVE link[d] # k
  <2>1. thread[link[d]].client = d
    BY <1>6 DEF DeliveryInv, Linked
  <2> QED BY <1>3, <2>1, IdleWithin
<1>7. \A d \in Clients : link'[d] = IF d = c THEN k ELSE link[d]
  BY <1>3, <1>4
<1>8. u.pc # "send"
  BY <1>2
<1>9. \A d \in Clients :
        \/ link'[d] \notin Threads
        \/ link'[d] = link[d] /\ link[d] # k
        \/ link'[d] = k /\ u.client = d /\ Delivers(u, applied[d], journal, Wanted[d])
  BY <1>2, <1>5, <1>6, <1>7
<1>10. thread' = [thread EXCEPT ![k] = u] /\ UNCHANGED <<journalVars, clientVars>>
  BY <1>3
<1> QED BY <1>1, <1>8, <1>9, <1>10, LinkMoves

(* A client that loses or ends its connection. *)
LEMMA UnlinkDelivers ==
  ASSUME SlotInv, DeliveryInv, NEW c \in Clients, NEW k \in Threads,
         thread[k].client = c, NEW u \in Thread,
         thread' = [thread EXCEPT ![k] = u], BatchOf(u, journal),
         UNCHANGED <<journalVars, clientVars>>,
         link' = [link EXCEPT ![c] = IF @ = k THEN NoOne ELSE @]
  PROVE  DeliveryInv'
<1>1. link \in [Clients -> Threads \cup {NoOne}]
  BY DEF SlotInv, TypeInv, TypeOK
<1>2. ASSUME NEW d \in Clients
      PROVE  link'[d] \notin Threads \/ (link'[d] = link[d] /\ link[d] # k)
  <2>1. CASE d = c
    BY <1>1, <2>1
  <2>2. CASE d # c
    <3>1. link'[d] = link[d]
      BY <1>1, <2>2
    <3>2. link[d] # k
      BY <2>2 DEF DeliveryInv, Linked
    <3> QED BY <3>1, <3>2
  <2> QED BY <2>1, <2>2
<1> QED BY <1>2, LinkMoves

LEMMA PartsDelivers ==
  ASSUME SlotInv, DeliveryInv,
         \/ \E k \in Threads : Refuse(k)
         \/ \E c \in Clients : Hangup(c) \/ Lose(c)
  PROVE  DeliveryInv'
<1>1. ASSUME NEW k \in Threads, Refuse(k) PROVE DeliveryInv'
  <2>1. thread[k].client \in Clients
    BY <1>1 DEF SlotInv, TypeInv, Serving, Refuse
  <2>2. BatchOf(Idle, journal)
    BY IdleWithin DEF BatchOf
  <2>3. /\ thread' = [thread EXCEPT ![k] = Idle]
        /\ UNCHANGED <<journalVars, clientVars>>
        /\ link' = [link EXCEPT ![thread[k].client] = IF @ = k THEN NoOne ELSE @]
    BY <1>1 DEF Refuse
  <2> QED BY <2>1, <2>2, <2>3, IdleTyped, UnlinkDelivers
<1>2. ASSUME NEW c \in Clients, Hangup(c) PROVE DeliveryInv'
  <2>1. link[c] \in Threads /\ link \in [Clients -> Threads \cup {NoOne}]
    BY <1>2 DEF SlotInv, TypeInv, TypeOK, Hangup
  <2>2. thread[link[c]].client = c
    BY <2>1 DEF DeliveryInv, Linked
  <2>3. BatchOf(Idle, journal)
    BY IdleWithin DEF BatchOf
  <2>4. /\ thread' = [thread EXCEPT ![link[c]] = Idle]
        /\ UNCHANGED <<journalVars, clientVars>>
        /\ link' = [link EXCEPT ![c] = IF @ = link[c] THEN NoOne ELSE @]
    BY <1>2, <2>1 DEF Hangup
  <2> QED BY <2>1, <2>2, <2>3, <2>4, IdleTyped, UnlinkDelivers
<1>3. ASSUME NEW c \in Clients, Lose(c) PROVE DeliveryInv'
  <2> DEFINE k == link[c]
             u == [thread[k] EXCEPT !.net = <<>>]
  <2>1. /\ k \in Threads /\ link \in [Clients -> Threads \cup {NoOne}]
        /\ thread[k] \in Thread
    BY <1>3 DEF SlotInv, TypeInv, TypeOK, Lose
  <2>2. thread[k].client = c /\ BatchOf(thread[k], journal)
    BY <2>1 DEF DeliveryInv, Linked, BatchInv
  <2>3. u \in Thread
    BY <2>1, RefreshTyped, NetTyped DEF SlotInv
  <2>4. u.pc = thread[k].pc /\ u.batch = thread[k].batch /\ u.cursor = thread[k].cursor
    BY <2>1 DEF Thread
  <2>5. /\ thread' = [thread EXCEPT ![k] = u]
        /\ UNCHANGED <<journalVars, clientVars>>
        /\ link' = [link EXCEPT ![c] = IF @ = k THEN NoOne ELSE @]
    BY <1>3, <2>1 DEF Lose, SlotInv, TypeInv, TypeOK
  <2> HIDE DEF u, k
  <2>6. BatchOf(u, journal)
    BY <2>2, <2>4 DEF BatchOf
  <2> QED BY <2>1, <2>2, <2>3, <2>5, <2>6, UnlinkDelivers
<1> QED BY <1>1, <1>2, <1>3

LEMMA ReceiveDelivers ==
  ASSUME SlotInv, DeliveryInv, NEW c \in Clients, Receive(c) PROVE DeliveryInv'
<1> DEFINE k == link[c]
           t == thread[k]
           m == Head(t.net)
           net == Tail(t.net)
           u == [t EXCEPT !.net = net]
           told == IF m.type = "event" THEN {m.seq} ELSE 1..m.seq
<1>1. /\ k \in Threads /\ t \in Thread /\ t.net \in Seq(Messages) /\ t.net # <<>>
      /\ journal \in Seq(Rows) /\ applied \in [Clients -> Nat]
      /\ seen \in [Clients -> SUBSET Nat]
  BY DEF SlotInv, TypeInv, TypeOK, Receive, Thread
<1>2. thread' = [thread EXCEPT ![k] = u] /\ UNCHANGED <<journalVars, link>>
  BY DEF Receive, SlotInv, TypeInv, TypeOK
<1>3. \/ /\ m.type = "event" \/ valid[c]
         /\ applied' = [applied EXCEPT ![c] = m.seq]
         /\ seen' = [seen EXCEPT ![c] = @ \cup told]
      \/ m.type # "event" /\ UNCHANGED clientVars
  BY DEF Receive
<1>4. net \in Seq(Messages)
  BY <1>1, HeadTailProperties
<1>5. u \in Thread
  BY <1>1, <1>4, NetTyped
<1>6. u.pc = t.pc /\ u.topics = t.topics /\ u.cursor = t.cursor /\ u.net = net
      /\ u.batch = t.batch /\ u.client = t.client
  BY <1>1 DEF Thread
<1>7. /\ t.client = c /\ Delivers(t, applied[c], journal, Wanted[c])
      /\ BatchOf(t, journal) /\ applied[c] \in Nat /\ applied[c] <= Len(journal)
  BY <1>1 DEF DeliveryInv, Linked, BatchInv
<1>8. \A d \in Clients \ {c} : link[d] # k
  BY <1>1, <1>7 DEF DeliveryInv, Linked
<1> HIDE DEF u, net
<1>9. /\ Delivers(u, applied'[c], journal, Wanted[c])
      /\ applied'[c] <= Len(journal)
      /\ \A i \in DOMAIN journal : (i <= applied'[c] /\ journal[i].aggregate \in Wanted[c])
                                    => i \in seen'[c]
  <2>1. \A i \in DOMAIN journal : (i <= applied[c] /\ journal[i].aggregate \in Wanted[c])
                                   => i \in seen[c]
    BY DEF DeliveryInv, NothingSkipped
  <2>2. CASE m.type = "event"
    <3>1. /\ Delivers(u, m.seq, journal, Wanted[c]) /\ m.seq <= Len(journal)
          /\ \A i \in DOMAIN journal : (i <= m.seq /\ journal[i].aggregate \in Wanted[c])
                                        => i <= applied[c] \/ i = m.seq
      <4> HIDE DEF t
      <4> QED BY <1>1, <1>6, <1>7, <2>2, DeliversTaken DEF net
    <3>2. applied'[c] = m.seq /\ seen'[c] = seen[c] \cup {m.seq}
      BY <1>1, <1>3, <2>2
    <3> HIDE DEF m, t
    <3> QED BY <2>1, <3>1, <3>2
  <2>3. CASE m.type # "event"
    <3>1. /\ \A b : Delivers(u, b, journal, Wanted[c])
          /\ m.seq \in Nat /\ m.seq <= Len(journal)
      <4> HIDE DEF t
      <4> QED BY <1>1, <1>6, <1>7, <2>3, DeliversRefreshed DEF net
    <3>2. CASE UNCHANGED clientVars
      BY <1>7, <2>1, <3>1, <3>2 DEF clientVars
    <3>3. CASE applied'[c] = m.seq /\ seen'[c] = seen[c] \cup (1 .. m.seq)
      <4>1. \A i \in DOMAIN journal : i \in Nat \ {0}
        BY <1>1
      <4> HIDE DEF m, t
      <4> QED BY <3>1, <3>3, <4>1
    <3>4. UNCHANGED clientVars
          \/ (applied'[c] = m.seq /\ seen'[c] = seen[c] \cup (1 .. m.seq))
      BY <1>1, <1>3, <2>3
    <3> QED BY <3>2, <3>3, <3>4
  <2> QED BY <2>2, <2>3
<1>10. \A d \in Clients \ {c} : applied'[d] = applied[d] /\ seen'[d] = seen[d]
  BY <1>1, <1>3 DEF clientVars
<1>11. thread'[k] = u /\ \A j \in Threads \ {k} : thread'[j] = thread[j]
  BY <1>1, <1>2 DEF SlotInv, TypeInv, TypeOK
<1> HIDE DEF k, t, m
<1>12. journal' = journal /\ pending' = pending /\ link' = link
  BY <1>2 DEF journalVars
<1>13. BatchInv'
  <2> SUFFICES ASSUME NEW j \in Threads PROVE BatchOf(thread'[j], journal)
    BY <1>12 DEF BatchInv, BatchOf
  <2>1. BatchOf(u, journal)
    BY <1>6, <1>7 DEF BatchOf
  <2> QED BY <1>11, <2>1 DEF DeliveryInv, BatchInv
<1>14. ASSUME NEW d \in Clients PROVE Linked(d)' /\ applied'[d] <= Len(journal')
  <2>1. CASE d = c
    <3>1. /\ thread'[link'[c]] = u /\ u.client = c
          /\ Delivers(u, applied'[c], journal', Wanted[c])
      BY <1>6, <1>7, <1>9, <1>11, <1>12 DEF k
    <3>2. Linked(c)'
      BY <3>1, LinkedNext
    <3> QED BY <1>9, <1>12, <2>1, <3>2
  <2>2. CASE d # c
    <3>1. Linked(d) /\ applied[d] <= Len(journal) /\ link[d] # k /\ applied'[d] = applied[d]
      BY <1>8, <1>10, <2>2 DEF DeliveryInv
    <3>2. Linked(d)'
      <4> SUFFICES ASSUME link[d] \in Threads
                   PROVE  /\ thread'[link[d]].client = d
                          /\ Delivers(thread'[link[d]], applied[d], journal, Wanted[d])
        BY <1>12, <3>1, LinkedNext
      <4>1. thread'[link[d]] = thread[link[d]]
        BY <1>11, <3>1
      <4> QED BY <3>1, <4>1 DEF Linked
    <3> QED BY <1>12, <3>1, <3>2
  <2> QED BY <2>1, <2>2
<1>15. NothingSkipped'
  <2> SUFFICES ASSUME NEW d \in Clients, NEW i \in DOMAIN journal,
                      i <= applied'[d], journal[i].aggregate \in Wanted[d]
               PROVE  i \in seen'[d]
    BY <1>12 DEF NothingSkipped
  <2>1. CASE d = c
    BY <1>9, <2>1
  <2>2. CASE d # c
    BY <1>10, <2>2 DEF DeliveryInv, NothingSkipped
  <2> QED BY <2>1, <2>2
<1>16. JournalInv'
  BY <1>12 DEF DeliveryInv, JournalInv
<1> QED BY <1>13, <1>14, <1>15, <1>16 DEF DeliveryInv

(* Commands write, and the server is started again. *)
LEMMA WriteDelivers ==
  ASSUME SlotInv, DeliveryInv, NEW w \in Writers, Write(w) PROVE DeliveryInv'
<1>1. /\ UNCHANGED <<thread, link, applied, seen>>
      /\ thread \in [Threads -> Thread] /\ applied \in [Clients -> Nat]
      /\ journal \in Seq(Rows) /\ pending \in Seq(Rows)
  BY DEF Write, Begin, Emit, Commit, Rollback, clientVars, SlotInv, TypeInv, TypeOK
<1>2. CASE Commit(w)
  <2>1. journal' = journal \o pending /\ pending' = <<>>
    BY <1>2 DEF Commit
  <2>2. /\ Len(journal \o pending) = Len(journal) + Len(pending)
        /\ Len(journal) \in Nat /\ Len(pending) \in Nat
        /\ DOMAIN journal = 1 .. Len(journal) /\ DOMAIN pending = 1 .. Len(pending)
        /\ DOMAIN (journal \o pending) = 1 .. (Len(journal) + Len(pending))
        /\ \A i \in 1 .. Len(journal) : (journal \o pending)[i] = journal[i]
        /\ \A i \in (Len(journal) + 1) .. (Len(journal) + Len(pending)) :
             i - Len(journal) \in DOMAIN pending
             /\ (journal \o pending)[i] = pending[i - Len(journal)]
    BY <1>1
  <2>3. JournalInv'
    <3> SUFFICES ASSUME NEW i \in DOMAIN (journal \o pending)
                 PROVE  (journal \o pending)[i].seq = i
      BY <2>1 DEF JournalInv
    <3>1. CASE i <= Len(journal)
      BY <2>2, <3>1 DEF DeliveryInv, JournalInv
    <3>2. CASE ~(i <= Len(journal))
      <4>1. /\ i - Len(journal) \in DOMAIN pending
            /\ (journal \o pending)[i] = pending[i - Len(journal)] /\ i \in Nat
        BY <2>2, <3>2
      <4>2. (journal \o pending)[i].seq = Len(journal) + (i - Len(journal))
        BY <4>1 DEF DeliveryInv, JournalInv
      <4>3. Len(journal) + (i - Len(journal)) = i
        BY <2>2, <4>1
      <4> QED BY <4>2, <4>3
    <3> QED BY <3>1, <3>2
  <2>4. BatchInv'
    <3> SUFFICES ASSUME NEW k \in Threads PROVE BatchOf(thread[k], journal \o pending)
      BY <1>1, <2>1 DEF BatchInv, BatchOf
    <3>1. BatchOf(thread[k], journal)
      BY DEF DeliveryInv, BatchInv
    <3>2. thread[k].batch \in Seq(Rows) /\ thread[k].cursor \in Nat
      BY <1>1 DEF Thread
    <3>3. ASSUME thread[k].pc = "send", NEW j \in DOMAIN thread[k].batch
          PROVE  /\ thread[k].cursor + j <= Len(journal) + Len(pending)
                 /\ thread[k].batch[j] = (journal \o pending)[thread[k].cursor + j]
      <4>1. j \in Nat \ {0}
        BY <3>2
      <4>2. /\ thread[k].cursor + j <= Len(journal)
            /\ thread[k].batch[j] = journal[thread[k].cursor + j]
        BY <3>1, <3>3 DEF BatchOf
      <4>3. thread[k].cursor + j \in 1 .. Len(journal)
        <5> DEFINE p == thread[k].cursor + j
        <5>1. p \in Nat \ {0}
          <6> DEFINE q == thread[k].cursor
          <6>1. q \in Nat
            BY <3>2
          <6> HIDE DEF q
          <6>2. q + j \in Nat \ {0}
            BY <4>1, <6>1
          <6> QED BY <6>2 DEF q
        <5>2. p <= Len(journal)
          BY <4>2
        <5> HIDE DEF p
        <5>3. p \in 1 .. Len(journal)
          BY <2>2, <5>1, <5>2
        <5> QED BY <5>3 DEF p
      <4> QED BY <2>2, <4>2, <4>3
    <3> QED BY <2>2, <3>3 DEF BatchOf
  <2>5. ASSUME NEW c \in Clients PROVE Linked(c)' /\ applied'[c] <= Len(journal')
    <3>1. Linked(c) /\ applied[c] <= Len(journal) /\ applied[c] \in Nat
      BY <1>1 DEF DeliveryInv
    <3>2. applied[c] <= Len(journal) + Len(pending)
      BY <2>2, <3>1
    <3>3. ASSUME link[c] \in Threads
          PROVE  Delivers(thread[link[c]], applied[c], journal \o pending, Wanted[c])
      BY <1>1, <3>1, <3>3, DeliversLonger DEF Linked
    <3>4. Linked(c)'
      BY <1>1, <2>1, <3>1, <3>3, LinkedNext DEF Linked
    <3> QED BY <1>1, <2>1, <2>2, <3>2, <3>4
  <2>6. NothingSkipped'
    <3> SUFFICES ASSUME NEW c \in Clients, NEW i \in DOMAIN (journal \o pending),
                        i <= applied[c], (journal \o pending)[i].aggregate \in Wanted[c]
                 PROVE  i \in seen[c]
      BY <1>1, <2>1 DEF NothingSkipped
    <3>1. applied[c] <= Len(journal) /\ applied[c] \in Nat
      BY <1>1 DEF DeliveryInv
    <3>2. i \in DOMAIN journal /\ (journal \o pending)[i] = journal[i]
      BY <2>2, <3>1
    <3> QED BY <3>2 DEF DeliveryInv, NothingSkipped
  <2> QED BY <2>3, <2>4, <2>5, <2>6 DEF DeliveryInv
<1>3. ASSUME journal' = journal, JournalInv' PROVE DeliveryInv'
  <2>1. BatchInv' /\ NothingSkipped' /\ \A c \in Clients : applied'[c] <= Len(journal')
    BY <1>1, <1>3 DEF DeliveryInv, BatchInv, BatchOf, NothingSkipped
  <2>2. ASSUME NEW c \in Clients PROVE Linked(c)'
    <3> SUFFICES ASSUME link[c] \in Threads
                 PROVE  /\ thread[link[c]].client = c
                        /\ Delivers(thread[link[c]], applied[c], journal, Wanted[c])
      BY <1>1, <1>3, LinkedNext
    <3> QED BY DEF DeliveryInv, Linked
  <2> QED BY <1>3, <2>1, <2>2 DEF DeliveryInv
<1>4. CASE Begin(w) \/ Rollback(w)
  BY <1>3, <1>4 DEF Begin, Rollback, DeliveryInv, JournalInv
<1>5. ASSUME NEW a \in Aggregates, Emit(w, a) PROVE DeliveryInv'
  <2> DEFINE row == [seq |-> Len(Visible) + 1, aggregate |-> a, revision |-> NextRevision(a)]
  <2>1. pending' = Append(pending, row) /\ journal' = journal
    BY <1>5 DEF Emit
  <2>2. row.seq = Len(journal) + (Len(pending) + 1)
    <3>1. Len(Visible) = Len(journal) + Len(pending)
      BY <1>1 DEF Visible
    <3>2. Len(journal) \in Nat /\ Len(pending) \in Nat
      BY <1>1
    <3> QED BY <3>1, <3>2
  <2> HIDE DEF row
  <2>3. /\ DOMAIN Append(pending, row) = 1 .. (Len(pending) + 1)
        /\ DOMAIN pending = 1 .. Len(pending) /\ Len(pending) \in Nat
        /\ \A i \in 1 .. Len(pending) : Append(pending, row)[i] = pending[i]
        /\ Append(pending, row)[Len(pending) + 1] = row
    BY <1>1
  <2>4. ASSUME NEW i \in DOMAIN pending' PROVE pending'[i].seq = Len(journal) + i
    <3>1. CASE i \in DOMAIN pending
      BY <2>1, <2>3, <3>1 DEF DeliveryInv, JournalInv
    <3>2. CASE i = Len(pending) + 1
      BY <2>1, <2>2, <2>3, <3>2
    <3> QED BY <2>1, <2>3, <3>1, <3>2
  <2>5. JournalInv'
    BY <2>1, <2>4 DEF DeliveryInv, JournalInv
  <2> QED BY <1>3, <2>1, <2>5
<1> QED BY <1>2, <1>4, <1>5 DEF Write

LEMMA RestartDelivers ==
  ASSUME SlotInv, DeliveryInv, Restart PROVE DeliveryInv'
<1>1. /\ journal' = journal /\ pending' = <<>> /\ applied' = applied /\ seen' = seen
      /\ \A k \in Threads : thread'[k].pc = "idle"
      /\ \A c \in Clients : link'[c] \notin Threads
      /\ DOMAIN pending' = {}
  BY IdleWithin DEF Restart, clientVars
<1> QED BY <1>1 DEF DeliveryInv, JournalInv, BatchInv, BatchOf, Linked, NothingSkipped

LEMMA DeliveryStep == SlotInv /\ DeliveryInv /\ [Next]_vars => DeliveryInv'
<1> SUFFICES ASSUME SlotInv, DeliveryInv, [Next]_vars PROVE DeliveryInv'
  OBVIOUS
<1>1. ASSUME NEW k \in Threads, Serve(k) PROVE DeliveryInv'
  BY <1>1, PartsDelivers, StartsDelivers, LoopDelivers, DrainDelivers, SendDelivers DEF Serve
<1>2. ASSUME UNCHANGED <<journalVars, thread, link, clientVars>> PROVE DeliveryInv'
  <2>1. UNCHANGED <<journal, pending, thread, link, applied, seen>>
    BY <1>2 DEF journalVars, clientVars
  <2>2. JournalInv' /\ BatchInv' /\ NothingSkipped'
    BY <2>1 DEF DeliveryInv, JournalInv, BatchInv, BatchOf, NothingSkipped
  <2>3. ASSUME NEW c \in Clients PROVE Linked(c)'
    <3> SUFFICES ASSUME link[c] \in Threads
                 PROVE  /\ thread[link[c]].client = c
                        /\ Delivers(thread[link[c]], applied[c], journal, Wanted[c])
      BY <2>1, LinkedNext
    <3> QED BY DEF DeliveryInv, Linked
  <2>4. \A c \in Clients : applied'[c] <= Len(journal')
    BY <2>1 DEF DeliveryInv
  <2> QED BY <2>2, <2>3, <2>4 DEF DeliveryInv
<1>3. ASSUME NEW c \in Clients, Revoke(c) PROVE DeliveryInv'
  BY <1>2, <1>3 DEF Revoke
<1>4. CASE UNCHANGED vars
  BY <1>2, <1>4 DEF vars
<1> QED BY <1>1, <1>3, <1>4, WriteDelivers, ConnectDelivers, ReceiveDelivers,
           PartsDelivers, RestartDelivers DEF Next

(* Whatever is lost, filtered, rolled back, too far behind or repeated: a   *)
(* client holds every event of its topics up to the one it applied last     *)
(* (_drain_event_batch, _replay_bounds, Last-Event-Sequence).               *)
THEOREM NoEventIsSkipped == Spec => []NothingSkipped
<1>1. Init => SlotInv /\ DeliveryInv
  BY SlotInvInit, DeliveryInit
<1>2. SlotInv /\ DeliveryInv /\ [Next]_vars => SlotInv' /\ DeliveryInv'
  BY SlotInvStep, DeliveryStep
<1>3. DeliveryInv => NothingSkipped
  BY DEF DeliveryInv
<1> QED BY <1>1, <1>2, <1>3, PTL DEF Spec
=============================================================================
