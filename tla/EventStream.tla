----------------------------- MODULE EventStream -----------------------------
(* The Controller's event journal and its WebSocket streams.               *)
(*                                                                         *)
(* Commands append events to the journal inside the transaction that makes *)
(* the change they report (EventJournal.emit); every stream is a thread of *)
(* the server that follows the journal with a cursor and sends what it     *)
(* reads to one client (WebSocketSession.run).  A client may lose its      *)
(* connection at any moment, and comes back with the sequence number of    *)
(* the last event it applied.  The thread of a lost connection lives on    *)
(* until it notices, and keeps its slot until then.                        *)
EXTENDS Naturals, Sequences, FiniteSets

CONSTANTS
  Writers,       \* connections of the database that run commands
  Clients,       \* consoles, each with a session of its own
  Threads,       \* threads the server can start for requests
  Aggregates,    \* what an event is about
  Wanted,        \* client -> the aggregates of the topics it subscribes to
  NoOne,         \* not a writer, client or thread
  RequestSlots,  \* max_concurrent_requests
  StreamSlots,   \* max_websocket_connections
  Batch,         \* MAX_REPLAY_BATCH
  Window,        \* MAX_REPLAY_WINDOW
  MaxEvents,     \* bound on the length of the journal
  MaxLosses      \* bound on lost connections and restarts of the server

ASSUME StreamAssumption ==
  /\ NoOne \notin Writers \cup Clients \cup Threads
  /\ Wanted \in [Clients -> SUBSET Aggregates]
  /\ {RequestSlots, StreamSlots, Batch, Window} \subseteq Nat \ {0}
  /\ {MaxEvents, MaxLosses} \subseteq Nat
  /\ IsFiniteSet(Threads)

VARIABLES
  journal,   \* controller_event_journal, the committed rows in order
  writer,    \* the connection that holds SQLite's write lock
  pending,   \* the rows its transaction has inserted
  thread,    \* thread -> its connection (see Thread)
  link,      \* client -> the thread it is connected to
  applied,   \* client -> sequence of the last event it has applied
  seen,      \* client -> sequences it received or holds in a snapshot
  valid,     \* client -> its session is current
  requests,  \* permits left of _request_slots
  streams,   \* permits left of _websocket_slots
  losses     \* connections lost and restarts so far

journalVars == <<journal, writer, pending>>
slotVars    == <<requests, streams>>
clientVars  == <<applied, seen>>
vars == <<journalVars, thread, link, clientVars, valid, slotVars, losses>>

Rows     == [seq : Nat, aggregate : Aggregates, revision : Nat]
Messages == [type : {"event"}, seq : Nat] \cup
            [type : {"replay_unavailable"}, seq : Nat]

(* A thread is idle, holds a request slot ("handshake"), or a stream slot  *)
(* (the steps of run).  late counts the events it sent after the session   *)
(* was no longer current; it is read by a property only.                   *)
Streaming == {"subscribe", "replay", "check", "bounds", "drain", "send", "poll"}
Thread == [pc : {"idle", "handshake"} \cup Streaming,
           client : Clients \cup {NoOne}, cursor : Nat,
           topics : SUBSET Aggregates,
           batch : Seq(Rows), net : Seq(Messages), late : Nat]

Idle == [pc |-> "idle", client |-> NoOne, cursor |-> 0, topics |-> {},
         batch |-> <<>>, net |-> <<>>, late |-> 0]

Init ==
  /\ journal = <<>> /\ pending = <<>> /\ writer = NoOne
  /\ thread = [k \in Threads |-> Idle]
  /\ link = [c \in Clients |-> NoOne]
  /\ applied = [c \in Clients |-> 0]
  /\ seen = [c \in Clients |-> {}]
  /\ valid = [c \in Clients |-> TRUE]
  /\ requests = RequestSlots
  /\ streams = StreamSlots
  /\ losses = 0

-----------------------------------------------------------------------------
(* The journal.                                                            *)

(* BEGIN IMMEDIATE: one writer at a time. *)
Begin(w) ==
  /\ writer = NoOne
  /\ writer' = w
  /\ UNCHANGED <<journal, pending, thread, link, clientVars, valid, slotVars, losses>>

(* What a statement of the open transaction sees. *)
Visible == journal \o pending

(* SELECT COALESCE(MAX(aggregate_revision), 0) + 1 of the aggregate. *)
NextRevision(a) ==
  1 + Cardinality({i \in DOMAIN Visible : Visible[i].aggregate = a})

(* emit: the revision is read and the row inserted in the caller's         *)
(* transaction; the sequence is AUTOINCREMENT, which a rollback restores.  *)
Emit(w, a) ==
  /\ writer = w
  /\ Len(Visible) < MaxEvents
  /\ pending' = Append(pending, [seq |-> Len(Visible) + 1, aggregate |-> a,
                                 revision |-> NextRevision(a)])
  /\ UNCHANGED <<journal, writer, thread, link, clientVars, valid, slotVars, losses>>

Commit(w) ==
  /\ writer = w
  /\ journal' = journal \o pending
  /\ pending' = <<>>
  /\ writer' = NoOne
  /\ UNCHANGED <<thread, link, clientVars, valid, slotVars, losses>>

Rollback(w) ==
  /\ writer = w
  /\ pending' = <<>>
  /\ writer' = NoOne
  /\ UNCHANGED <<journal, thread, link, clientVars, valid, slotVars, losses>>

\* Variant: the newest rows instead of the next ones.
ReadNewest(cursor, limit) ==
  SubSeq(journal, 1 + IF cursor + limit < Len(journal) THEN Len(journal) - limit
                                                       ELSE cursor, Len(journal))

(* read_after: the rows after the cursor, at most limit of them. *)
ReadAfter(cursor, limit) ==
  SubSeq(journal, cursor + 1,
         IF cursor + limit < Len(journal) THEN cursor + limit ELSE Len(journal))

(* bounds and _replay_bounds: a cursor from the future, from before the    *)
(* oldest row, or more than the window behind cannot be served.            *)
Latest == Len(journal)
Unavailable(cursor) ==
  \/ cursor > Latest
  \/ journal # <<>> /\ cursor + 1 < journal[1].seq
  \/ Latest > cursor + Window

-----------------------------------------------------------------------------
(* Requests and their slots.                                               *)

(* The connection is accepted (process_request): without a free request    *)
(* slot it is answered 503 and closed, which leaves the client as it was.  *)
Connect(c, k) ==
  /\ link[c] = NoOne
  /\ thread[k] = Idle
  /\ requests > 0
  /\ requests' = requests - 1
  /\ thread' = [thread EXCEPT ![k] = [Idle EXCEPT !.pc = "handshake", !.client = c]]
  /\ link' = [link EXCEPT ![c] = k]
  /\ UNCHANGED <<journalVars, clientVars, valid, streams, losses>>

(* The end of run and of _handle_websocket: the finally clauses shut the   *)
(* connection down and release the stream slot.  What the thread has sent  *)
(* last, msgs, still reaches a client that is there.                       *)
CloseWith(k, msgs) ==
  LET t == thread[k] IN
  /\ streams' = streams + 1
  /\ thread' = [thread EXCEPT ![k] =
       IF link[t.client] = k
         THEN [Idle EXCEPT !.client = t.client, !.net = t.net \o msgs]
         ELSE Idle]
  /\ UNCHANGED requests

(* _handle_websocket refuses the upgrade: the problem is sent and          *)
(* process_request_thread releases the request slot.                       *)
Refuse(k) ==
  /\ thread[k].pc = "handshake"
  /\ ~valid[thread[k].client] \/ streams = 0
  /\ requests' = requests + 1
  /\ thread' = [thread EXCEPT ![k] = Idle]
  /\ link' = [link EXCEPT ![thread[k].client] =
                IF @ = k THEN NoOne ELSE @]
  /\ UNCHANGED <<journalVars, clientVars, valid, streams, losses>>

\* Variant: the request slot is not given back.
UpgradeKeeping(k) ==
  /\ thread[k].pc = "handshake" /\ valid[thread[k].client] /\ streams > 0
  /\ streams' = streams - 1
  /\ thread' = [thread EXCEPT ![k].pc = "subscribe"]
  /\ UNCHANGED <<journalVars, link, clientVars, valid, requests, losses>>

(* _handle_websocket: authenticate, take a stream slot, give the request   *)
(* slot back.  Last-Event-Sequence starts the replay of all topics at      *)
(* once, otherwise a subscribe message has to come first.                  *)
Upgrade(k) ==
  LET c == thread[k].client IN
  /\ thread[k].pc = "handshake"
  /\ valid[c]
  /\ streams > 0
  /\ streams' = streams - 1
  /\ requests' = requests + 1
  /\ \/ thread' = [thread EXCEPT ![k].pc = "subscribe"]
     \/ thread' = [thread EXCEPT ![k].pc = "replay", ![k].cursor = applied[c],
                                 ![k].topics = Aggregates]
  /\ UNCHANGED <<journalVars, link, clientVars, valid, losses>>

-----------------------------------------------------------------------------
(* The thread of a stream (WebSocketSession.run).                          *)

Goto(k, step) == thread' = [thread EXCEPT ![k].pc = step]

(* _receive_subscription, from a client that is there. *)
Subscribe(k) ==
  LET c == thread[k].client IN
  /\ thread[k].pc = "subscribe"
  /\ link[c] = k
  /\ thread' = [thread EXCEPT ![k].pc = "replay", ![k].cursor = applied[c],
                              ![k].topics = Wanted[c]]
  /\ UNCHANGED <<journalVars, link, clientVars, valid, slotVars, losses>>

\* Variant: the connection is closed without the latest sequence.
RefreshUnsaid(k) == CloseWith(k, <<>>)

(* _send_replay_unavailable and the normal close. *)
RequireRefresh(k) ==
  CloseWith(k, <<[type |-> "replay_unavailable", seq |-> Latest]>>)

(* The first look at the bounds; "subscribed" is sent. *)
StartReplay(k) ==
  /\ thread[k].pc = "replay"
  /\ IF Unavailable(thread[k].cursor)
       THEN RequireRefresh(k)
       ELSE Goto(k, "check") /\ UNCHANGED slotVars
  /\ UNCHANGED <<journalVars, link, clientVars, valid, losses>>

(* The head of the loop: a session that was revoked closes the stream. *)
CheckSession(k) ==
  /\ thread[k].pc = "check"
  /\ IF valid[thread[k].client]
       THEN Goto(k, "bounds") /\ UNCHANGED slotVars
       ELSE CloseWith(k, <<>>)
  /\ UNCHANGED <<journalVars, link, clientVars, valid, losses>>

CheckBounds(k) ==
  /\ thread[k].pc = "bounds"
  /\ IF Unavailable(thread[k].cursor)
       THEN RequireRefresh(k)
       ELSE Goto(k, "drain") /\ UNCHANGED slotVars
  /\ UNCHANGED <<journalVars, link, clientVars, valid, losses>>

(* _drain_event_batch reads a batch on a connection of its own ... *)
Drain(k) ==
  /\ thread[k].pc = "drain"
  /\ thread' = [thread EXCEPT ![k].pc = "send",
                              ![k].batch = ReadAfter(thread[k].cursor, Batch)]
  /\ UNCHANGED <<journalVars, link, clientVars, valid, slotVars, losses>>

(* ... and sends the events of the subscribed aggregates; the cursor moves *)
(* over the others too.                                                    *)
Send(k) ==
  LET t == thread[k]
      e == Head(t.batch)
      matches == e.aggregate \in t.topics IN
  /\ t.pc = "send"
  /\ t.batch # <<>>
  /\ thread' = [thread EXCEPT ![k] =
       [t EXCEPT !.batch = Tail(t.batch),
                 !.cursor = e.seq,
                 !.net = IF matches /\ link[t.client] = k
                           THEN Append(t.net, [type |-> "event", seq |-> e.seq])
                           ELSE t.net,
                 !.late = IF matches /\ ~valid[t.client] THEN t.late + 1 ELSE t.late]]
  /\ UNCHANGED <<journalVars, link, clientVars, valid, slotVars, losses>>

Sent(k) ==
  /\ thread[k].pc = "send"
  /\ thread[k].batch = <<>>
  /\ Goto(k, "poll")
  /\ UNCHANGED <<journalVars, link, clientVars, valid, slotVars, losses>>

\* Variant: the loop goes on without the check of the session.
PollOn(k) ==
  /\ thread[k].pc = "poll"
  /\ Goto(k, "bounds")
  /\ UNCHANGED <<journalVars, link, clientVars, valid, slotVars, losses>>

(* No frame of the client within the poll interval, a ping or a pong. *)
Poll(k) ==
  /\ thread[k].pc = "poll"
  /\ Goto(k, "check")
  /\ UNCHANGED <<journalVars, link, clientVars, valid, slotVars, losses>>

(* The thread finds that its peer is gone: it reads the end of the stream  *)
(* where it awaits a frame, a send fails or times out, no subscription     *)
(* comes in time.  (A client that is only too slow counts as lost.)        *)
Notice(k) ==
  /\ thread[k].pc \in {"subscribe", "poll", "send"}
  /\ link[thread[k].client] # k
  /\ CloseWith(k, <<>>)
  /\ UNCHANGED <<journalVars, link, clientVars, valid, losses>>

-----------------------------------------------------------------------------
(* The clients and the network.                                            *)

(* The client takes the next message.  It applies an event, or fetches     *)
(* snapshots over HTTP, which takes a current session, and continues after *)
(* the sequence it was told.                                               *)
Receive(c) ==
  LET k == link[c]
      m == Head(thread[k].net) IN
  /\ k # NoOne
  /\ thread[k].client = c /\ thread[k].net # <<>>
  /\ thread' = [thread EXCEPT ![k].net = Tail(@)]
  /\ IF m.type = "event" \/ valid[c]
       THEN /\ applied' = [applied EXCEPT ![c] = m.seq]
            /\ seen' = [seen EXCEPT ![c] =
                 @ \cup IF m.type = "event" THEN {m.seq} ELSE 1..m.seq]
       ELSE UNCHANGED clientVars
  /\ UNCHANGED <<journalVars, link, valid, slotVars, losses>>

(* The client has read to the end of a closed connection. *)
Hangup(c) ==
  LET k == link[c] IN
  /\ k # NoOne
  /\ thread[k].pc = "idle" /\ thread[k].net = <<>>
  /\ link' = [link EXCEPT ![c] = NoOne]
  /\ thread' = [thread EXCEPT ![k] = Idle]
  /\ UNCHANGED <<journalVars, clientVars, valid, slotVars, losses>>

(* The connection breaks, or the client leaves: what is under way is lost, *)
(* and the thread does not know yet.                                       *)
Lose(c) ==
  LET k == link[c] IN
  /\ k # NoOne
  /\ losses < MaxLosses
  /\ losses' = losses + 1
  /\ link' = [link EXCEPT ![c] = NoOne]
  /\ thread' = [thread EXCEPT ![k].net = <<>>]
  /\ UNCHANGED <<journalVars, clientVars, valid, slotVars>>

(* logout, expiry, a password change or a rotation of the secret. *)
Revoke(c) ==
  /\ valid[c]
  /\ valid' = [valid EXCEPT ![c] = FALSE]
  /\ UNCHANGED <<journalVars, thread, link, clientVars, slotVars, losses>>

(* The server dies and is started again: threads and slots are new, the    *)
(* open transaction is rolled back, the committed journal is there.        *)
Restart ==
  /\ losses < MaxLosses
  /\ losses' = losses + 1
  /\ writer' = NoOne /\ pending' = <<>>
  /\ thread' = [k \in Threads |-> Idle]
  /\ link' = [c \in Clients |-> NoOne]
  /\ requests' = RequestSlots
  /\ streams' = StreamSlots
  /\ UNCHANGED <<journal, clientVars, valid>>

-----------------------------------------------------------------------------
Serve(k) ==
  \/ Refuse(k) \/ Upgrade(k) \/ Subscribe(k) \/ StartReplay(k)
  \/ CheckSession(k) \/ CheckBounds(k) \/ Drain(k) \/ Send(k) \/ Sent(k)
  \/ Poll(k) \/ Notice(k)

Write(w) == Begin(w) \/ Commit(w) \/ Rollback(w) \/ \E a \in Aggregates : Emit(w, a)

Next ==
  \/ \E w \in Writers : Write(w)
  \/ \E c \in Clients, k \in Threads : Connect(c, k)
  \/ \E k \in Threads : Serve(k)
  \/ \E c \in Clients : Receive(c) \/ Hangup(c) \/ Lose(c) \/ Revoke(c)
  \/ Restart

Spec == Init /\ [][Next]_vars

(* Writers owe nothing.  Threads run; a peer that is gone is noticed       *)
(* sooner or later, since heartbeats are sent to it; a client that lost    *)
(* its connection tries again, and finds a free slot one day when there    *)
(* is one again and again.                                                 *)
FairSpec ==
  /\ Spec
  /\ \A k \in Threads : WF_vars(Serve(k)) /\ SF_vars(Notice(k)) /\ SF_vars(Upgrade(k))
  /\ \A c \in Clients : /\ WF_vars(Receive(c) \/ Hangup(c))
                        /\ \A k \in Threads : WF_vars(link[c] = k /\ Subscribe(k))
                        /\ SF_vars(\E k \in Threads : Connect(c, k))

-----------------------------------------------------------------------------
(* Properties.                                                             *)

TypeOK ==
  /\ journal \in Seq(Rows) /\ pending \in Seq(Rows)
  /\ writer \in Writers \cup {NoOne}
  /\ thread \in [Threads -> Thread]
  /\ link \in [Clients -> Threads \cup {NoOne}]
  /\ applied \in [Clients -> Nat]
  /\ seen \in [Clients -> SUBSET Nat]
  /\ valid \in [Clients -> BOOLEAN]
  /\ requests \in Nat /\ streams \in Nat
  /\ losses \in 0..MaxLosses

(* Whatever was lost, repeated, filtered or too far behind: a client holds *)
(* every event of its topics up to the one it applied last, delivered or   *)
(* in a snapshot, so that the cursor it comes back with skips nothing      *)
(* (_drain_event_batch, _replay_bounds).                                   *)
NothingSkipped ==
  \A c \in Clients : \A i \in DOMAIN journal :
    (i <= applied[c] /\ journal[i].aggregate \in Wanted[c]) => i \in seen[c]

(* A stream whose session was revoked sends at most the batch it has in    *)
(* hand: replay yields to the check of the session between batches, however *)
(* much there is to send (run, the loop).                                  *)
RevokedIsCutOff == \A k \in Threads : thread[k].late <= Batch

(* Every permit is with a thread that needs it: a refused, lost, closed or *)
(* upgraded connection gives back what it took, once (_handle_websocket,   *)
(* process_request_thread; a BoundedSemaphore raises when it does not).    *)
SlotsBalance ==
  /\ requests + Cardinality({k \in Threads : thread[k].pc = "handshake"}) = RequestSlots
  /\ streams + Cardinality({k \in Threads : thread[k].pc \in Streaming}) = StreamSlots

(* As long as its session is current, a client gets every event of its     *)
(* topics, or a snapshot with it, also when connections and the server     *)
(* fail and old threads still hold the slots.                              *)
CatchesUp ==
  \A c \in Clients, i \in 1..MaxEvents :
    (i <= Len(journal) /\ journal[i].aggregate \in Wanted[c])
      ~> (i \in seen[c] \/ ~valid[c])
=============================================================================
