----------------------- MODULE ProjectRegistryProofs -----------------------
(***************************************************************************)
(* What holds of a registered project for any number of requests, threads, *)
(* synchronisations and deaths.                                            *)
(***************************************************************************)
EXTENDS ProjectRegistry, TLAPS

(* The threads, as TypeOK has them. *)
ThreadsTyped(f) ==
  /\ f \in [Threads -> Working]
  /\ \A t \in Threads : f[t].step # "idle" => f[t].request \in Requests

Writing(t) == thread[t].step \in {"place", "write", "commit"}

(* A thread that is about to commit holds the write lock, its command has   *)
(* not been executed before, and what the checks have found still holds.    *)
Entitled(t) ==
  /\ Writing(t) => writer = t /\ done[Request(t)] = 0
  /\ At(t, "staged") => Kind[Request(t)] = "create"
  /\ At(t, "place") => Kind[Request(t)] = "create" /\ thread[t].placed < 3
  /\ At(t, "write") => Kind[Request(t)] # "create"
  /\ Writing(t) /\ Kind[Request(t)] = "create" => row = None
  /\ Writing(t) /\ Kind[Request(t)] # "create" =>
       /\ row # None /\ view[Request(t)] # None /\ Matches(Request(t))
       /\ row.archived => Kind[Request(t)] = "rescan"
       /\ ~ Blocked(Request(t))

CoreInv == TypeOK /\ \A t \in Threads : Entitled(t)

-----------------------------------------------------------------------------
(* Types. *)

LEMMA IdleTyped == Idle \in Working
  BY DEF Idle, Working

(* What a request or a synchronisation makes of the row is a row again.     *)
LEMMA NewRowTyped ==
  ASSUME TypeOK, row # None, NEW r \in Requests
  PROVE  NewRow(r) \in Rows /\ NewConfig(r) \in Configs
<1>1. row \in Rows
  BY DEF TypeOK
<1>2. NewConfig(r) \in Configs
  BY <1>1, ConstantsAssumption DEF NewConfig, Configs, Rows
<1>3. NewContent(r) \in Rows
  BY <1>1, <1>2 DEF NewContent, Rows, Configs
<1> QED
  BY <1>2, <1>3 DEF NewRow, Rows

LEMMA UpsertedTyped ==
  ASSUME TypeOK, NEW c \in Configs
  PROVE  Upserted(c) \in Rows
<1> c.enabled \in BOOLEAN
  BY DEF Configs
<1>1. CASE row = None
  BY <1>1 DEF Upserted, Rows, FirstRevision
<1>2. CASE row # None
  <2>1. row \in Rows
    BY <1>2 DEF TypeOK
  <2>2. [row EXCEPT !.hash = c, !.enabled = EnabledBy(c)] \in Rows
    BY <2>1 DEF Rows, EnabledBy, Configs
  <2> DEFINE new == [row EXCEPT !.hash = c, !.enabled = EnabledBy(c)]
  <2>3. [new EXCEPT !.revision = @ + IF new # row THEN 1 ELSE 0] \in Rows
    <3>1. new.revision \in Nat \ {0}
      BY <2>2 DEF Rows
    <3> HIDE DEF new
    <3>2. new.revision + (IF new # row THEN 1 ELSE 0) \in Nat \ {0}
      BY <3>1
    <3>3. new \in Rows
      BY <2>2 DEF new
    <3> QED
      BY <3>2, <3>3 DEF Rows
  <2> QED
    BY <1>2, <2>3 DEF Upserted
<1> QED
  BY <1>1, <1>2

LEMMA WithdrawnTyped ==
  ASSUME TypeOK
  PROVE  Withdrawn \in Rows \cup {None}
<1>1. CASE row = None
  BY <1>1 DEF Withdrawn
<1>2. CASE row # None
  <2>1. row \in Rows
    BY <1>2 DEF TypeOK
  <2>2. row.revision + 1 \in Nat \ {0}
    BY <2>1 DEF Rows
  <2>3. [row EXCEPT !.enabled = FALSE, !.revision = row.revision + 1] \in Rows
    BY <2>1, <2>2 DEF Rows
  <2> QED
    BY <2>1, <2>3 DEF Withdrawn
<1> QED
  BY <1>1, <1>2

LEMMA ThreadTyped == TypeOK => \A t \in Threads : thread[t] \in Working
  BY DEF TypeOK

LEMMA FoundTyped == Found \in 0 .. 1
  BY DEF Found

LEMMA RestTyped ==
  ASSUME TypeOK, NEW t \in Threads
  PROVE  ThreadsTyped(Rest(t))
  BY IdleTyped DEF TypeOK, Rest, Idle, ThreadsTyped

LEMMA GotoTyped ==
  ASSUME TypeOK, NEW t \in Threads, ~ At(t, "idle"),
         NEW s \in {"write", "commit", "restore", "cleanup"}
  PROVE  ThreadsTyped(Goto(t, s))
  BY DEF TypeOK, Goto, Working, At, ThreadsTyped

(* What a clean-up leaves behind is on record. *)
LEMMA CleanupUndoes ==
  ASSUME NEW t, Cleanup(t)
  PROVE  /\ torn \subseteq torn' /\ torn' \subseteq torn \cup {"file", "tree"}
         /\ file' = file \/ file' = None
         /\ data' \in BOOLEAN /\ repo' \in BOOLEAN
         /\ "file" \notin torn' => file' = IF thread[t].placed = 3 THEN None ELSE file
         /\ "tree" \notin torn' =>
              /\ file' = IF thread[t].placed = 3 THEN None ELSE file
              /\ data' = (data /\ thread[t].placed # 2)
              /\ repo' = (repo /\ ~ (thread[t].placed = 1 /\ Found = 0))
<1>1. PICK stays \in BOOLEAN :
        /\ file' = IF thread[t].placed = 3 /\ ~ stays THEN None ELSE file
        /\ data' = (data /\ ~ (thread[t].placed = 2 /\ ~ stays))
        /\ repo' = (repo /\ ~ (thread[t].placed = 1 /\ ~ stays /\ Found = 0))
        /\ torn' = torn \cup (IF stays THEN {"tree"} ELSE {})
                        \cup (IF stays /\ thread[t].placed = 3 THEN {"file"} ELSE {})
  BY DEF Cleanup
<1>2. CASE stays
  BY <1>1, <1>2
<1>3. CASE ~ stays
  BY <1>1, <1>3
<1> QED
  BY <1>2, <1>3

LEMMA TypeStep == CoreInv /\ [Next]_vars => TypeOK'
<1> SUFFICES ASSUME CoreInv, [Next]_vars PROVE TypeOK'
  OBVIOUS
<1> TypeOK
  BY DEF CoreInv
<1> USE ConstantsAssumption
<1>1. ASSUME NEW r \in Requests, Look(r) PROVE TypeOK'
  BY <1>1 DEF Look, TypeOK, tree, work, control
<1>2. ASSUME NEW r \in Requests, NEW t \in Threads, Stage(t, r) PROVE TypeOK'
  <2>1. [thread[t] EXCEPT !.step = "staged", !.request = r] \in Working
    BY ThreadTyped DEF Working
  <2>2. ThreadsTyped(thread')
    BY <1>2, <2>1 DEF Stage, TypeOK, ThreadsTyped
  <2> QED
    BY <1>2, <2>2 DEF Stage, TypeOK, ThreadsTyped, tree, work
<1>3. ASSUME NEW r \in Requests, NEW t \in Threads, Open(t, r) PROVE TypeOK'
  <2>3. file \in Configs \cup {None}
    BY DEF TypeOK
  <2>1. [thread[t] EXCEPT !.step = "write", !.request = r, !.backup = file] \in Working
    BY <2>3, ThreadTyped DEF Working
  <2>2. ThreadsTyped(thread')
    BY <1>3, <2>1 DEF Open, TypeOK, ThreadsTyped
  <2> QED
    BY <1>3, <2>2 DEF Open, TypeOK, ThreadsTyped, tree, work
<1>4. ASSUME NEW t \in Threads, OpenCreate(t) PROVE TypeOK'
  <2>1. [thread[t] EXCEPT !.step = "place", !.placed = Found] \in Working
    <3> Found \in 0 .. 3
      BY FoundTyped
    <3> QED
      BY ThreadTyped DEF Working
  <2>2. ThreadsTyped(thread')
    BY <1>4, <2>1 DEF OpenCreate, TypeOK, ThreadsTyped, At
  <2> QED
    BY <1>4, <2>2 DEF OpenCreate, TypeOK, ThreadsTyped, tree, work
<1>5. ASSUME NEW t \in Threads, DeclineCreate(t) PROVE TypeOK'
  BY <1>5, RestTyped DEF DeclineCreate, TypeOK, ThreadsTyped, tree, work
<1>6. ASSUME NEW t \in Threads, Place(t) PROVE TypeOK'
  <2>1. thread[t].request \in Requests /\ thread[t].placed + 1 \in 0 .. 3
    BY <1>6, ThreadTyped DEF Place, At, CoreInv, Entitled, TypeOK, Working
  <2>2. PICK s \in {"place", "commit"} :
          thread' = [thread EXCEPT ![t].placed = thread[t].placed + 1, ![t].step = s]
    BY <1>6 DEF Place
  <2>3. ThreadsTyped(thread')
    <3>1. [thread[t] EXCEPT !.placed = thread[t].placed + 1, !.step = s] \in Working
      BY <2>1, ThreadTyped DEF Working
    <3> QED
      BY <2>1, <2>2, <3>1 DEF TypeOK, ThreadsTyped
  <2>4. FirstConfig(Request(t)) \in Configs
    BY <2>1 DEF FirstConfig, Configs, Request
  <2> QED
    BY <1>6, <2>3, <2>4 DEF Place, TypeOK, ThreadsTyped, work
<1>7. ASSUME NEW t \in Threads, Cleanup(t) PROVE TypeOK'
  <2>0. /\ torn' \subseteq {"file", "tree"} /\ file' \in Configs \cup {None}
        /\ data' \in BOOLEAN /\ repo' \in BOOLEAN
    BY <1>7, CleanupUndoes DEF TypeOK
  <2>1. CASE thread[t].placed > Found + 1
    <3>1. thread[t].placed - 1 \in 0 .. 3
      BY <2>1, ThreadTyped, FoundTyped DEF Working
    <3>2. [thread[t] EXCEPT !.placed = thread[t].placed - 1] \in Working
      BY <3>1, ThreadTyped DEF Working
    <3>3. ThreadsTyped(thread')
      <4>1. thread' = [thread EXCEPT ![t].placed = thread[t].placed - 1]
        BY <1>7, <2>1 DEF Cleanup
      <4>2. thread[t].request \in Requests
        BY <1>7 DEF Cleanup, At, TypeOK
      <4> QED
        BY <3>2, <4>1, <4>2 DEF TypeOK, ThreadsTyped
    <3> QED
      BY <1>7, <2>0, <2>1, <3>3 DEF Cleanup, TypeOK, ThreadsTyped, work
  <2>2. CASE ~ (thread[t].placed > Found + 1)
    BY <1>7, <2>0, <2>2, RestTyped DEF Cleanup, TypeOK, ThreadsTyped, work
  <2> QED
    BY <2>1, <2>2
<1>8. ASSUME NEW t \in Threads, Write(t) PROVE TypeOK'
  <2>1. thread[t].request \in Requests
    BY <1>8 DEF Write, At, TypeOK
  <2>2. ThreadsTyped(thread')
    BY <1>8, GotoTyped DEF Write, At
  <2>3. file' \in Configs \cup {None}
    BY <1>8, <2>1, NewRowTyped DEF Write, CoreInv, Entitled, Writing, At, Request, TypeOK
  <2> QED
    BY <1>8, <2>2, <2>3 DEF Write, TypeOK, ThreadsTyped, tree, work
<1>9. ASSUME NEW t \in Threads, Restore(t) PROVE TypeOK'
  <2>1. thread[t].backup \in Configs \cup {None}
    BY DEF TypeOK, Working
  <2> QED
    BY <1>9, <2>1, RestTyped DEF Restore, BackupOf, TypeOK, ThreadsTyped, tree, work
<1>10. ASSUME NEW t \in Threads, Commit(t) PROVE TypeOK'
  <2>1. Request(t) \in Requests
    BY <1>10 DEF Commit, At, TypeOK, Request
  <2>2. row' \in Rows
    <3>1. CASE Kind[Request(t)] = "create"
      <4>1. FirstConfig(Request(t)) \in Configs
        BY <2>1 DEF FirstConfig, Configs
      <4> QED
        BY <1>10, <3>1, <4>1 DEF Commit, Rows, FirstRevision
    <3>2. CASE Kind[Request(t)] # "create"
      BY <1>10, <2>1, <3>2, NewRowTyped DEF Commit, CoreInv, Entitled, Writing, At
    <3> QED
      BY <3>1, <3>2
  <2>3. done' \in [Requests -> Nat]
    BY <1>10, <2>1 DEF Commit, TypeOK
  <2> QED
    BY <1>10, <2>2, <2>3, RestTyped DEF Commit, TypeOK, ThreadsTyped, tree, work
<1>11. ASSUME NEW t \in Threads, Abort(t) PROVE TypeOK'
  BY <1>11, GotoTyped DEF Abort, At, TypeOK, ThreadsTyped, tree, work
<1>12. ASSUME NEW s \in Syncs, ReadFiles(s) PROVE TypeOK'
  BY <1>12 DEF ReadFiles, TypeOK, tree, work, control
<1>13. ASSUME NEW s \in Syncs, Apply(s) PROVE TypeOK'
  <2>1. sync[s].seen \in Configs \cup {None}
    BY DEF TypeOK
  <2>2. row' \in Rows \cup {None}
    BY <1>13, <2>1, UpsertedTyped, WithdrawnTyped DEF Apply
  <2>3. torn' \subseteq {"file", "tree"}
    BY <1>13 DEF Apply, TypeOK
  <2> QED
    BY <1>13, <2>2, <2>3 DEF Apply, TypeOK, tree, work, control
<1>14. ASSUME NEW w \in Works, StartWork(w) \/ FinishWork(w) PROVE TypeOK'
  BY <1>14 DEF StartWork, FinishWork, TypeOK, tree, control
<1>15. ASSUME Validate \/ Enqueue PROVE TypeOK'
  BY <1>15 DEF Validate, Enqueue, TypeOK, tree, control
<1>16. ASSUME Die PROVE TypeOK'
  BY <1>16, IdleTyped DEF Die, TypeOK, Idle, tree, work
<1>17. ASSUME UNCHANGED vars PROVE TypeOK'
  BY <1>17 DEF vars, TypeOK
<1> QED
  BY <1>1, <1>2, <1>3, <1>4, <1>5, <1>6, <1>7, <1>8, <1>9, <1>10, <1>11, <1>12, <1>13,
     <1>14, <1>15, <1>16, <1>17 DEF Next, TakeUp, CreateStep, ThreadStep

-----------------------------------------------------------------------------
(* The write lock, and what a command may rely on while it has it. *)

(* A step that leaves thread u alone, and row and lock if u has the lock.    *)
LEMMA OthersKeep ==
  ASSUME CoreInv, NEW u \in Threads,
         thread'[u] = thread[u],
         Writing(u) => /\ writer' = writer /\ row' = row /\ busy' \subseteq busy
                       /\ done'[Request(u)] = done[Request(u)],
         \A r \in Requests : view[r] # None => view'[r] = view[r]
  PROVE  Entitled(u)'
<1>1. Writing(u) => Request(u) \in Requests
  BY DEF CoreInv, TypeOK, Writing, Request
<1> QED
  BY <1>1 DEF CoreInv, Entitled, Writing, At, Request, Matches, Blocked

(* A step after which thread u has nothing to commit. *)
LEMMA LeavesOff ==
  ASSUME NEW u, thread'[u].step \notin {"staged", "place", "write", "commit"}
  PROVE  Entitled(u)'
  BY DEF Entitled, Writing, At

LEMMA EntitledStep ==
  ASSUME CoreInv, [Next]_vars, NEW u \in Threads
  PROVE  Entitled(u)'
<1> TypeOK /\ \A t \in Threads : Entitled(t)
  BY DEF CoreInv
<1> USE ConstantsAssumption
(* While a thread is writing nobody else is. *)
<1>0. \A t \in Threads : Writing(t) /\ Writing(u) => t = u
  BY DEF Entitled
<1>1. ASSUME NEW r \in Requests, Look(r) PROVE Entitled(u)'
  BY <1>1, OthersKeep DEF Look, work, control, TypeOK
<1>2. ASSUME NEW r \in Requests, NEW t \in Threads, Stage(t, r) PROVE Entitled(u)'
  <2>1. CASE u = t
    <3>1. thread'[u].step = "staged" /\ thread'[u].request = r /\ Kind[r] = "create"
      BY <1>2, <2>1 DEF Stage, TypeOK
    <3> QED
      BY <3>1 DEF Entitled, Writing, At, Request
  <2>2. CASE u # t
    BY <1>2, <2>2, OthersKeep DEF Stage, TypeOK, work
  <2> QED
    BY <2>1, <2>2
<1>3. ASSUME NEW r \in Requests, NEW t \in Threads, Open(t, r) PROVE Entitled(u)'
  <2>1. CASE u = t
    <3>1. /\ thread'[u].step = "write" /\ thread'[u].request = r
          /\ UNCHANGED <<row, busy, view, done>> /\ writer' = u
      BY <1>3, <2>1 DEF Open, TypeOK, work
    <3>2. done[r] = 0 /\ Kind[r] # "create" /\ view[r] # None
      BY <1>3 DEF Open, Takes, Replayed, TypeOK
    <3>3. Matches(r) /\ (row.archived => Kind[r] = "rescan") /\ ~ Blocked(r)
      BY <1>3 DEF Open, Allowed
    <3> QED
      BY <3>1, <3>2, <3>3 DEF Entitled, Writing, At, Request, Matches, Blocked
  <2>2. CASE u # t
    <3>1. ~ Writing(u)
      BY <1>3 DEF Open, Entitled
    <3> QED
      BY <1>3, <2>2, <3>1, OthersKeep DEF Open, TypeOK
  <2> QED
    BY <2>1, <2>2
<1>4. ASSUME NEW t \in Threads, OpenCreate(t) PROVE Entitled(u)'
  <2>1. CASE u = t
    <3>1. /\ thread'[u].step = "place" /\ thread'[u].request = Request(u)
          /\ thread'[u].placed < 3
          /\ UNCHANGED <<row, done>> /\ writer' = u
      BY <1>4, <2>1, FoundTyped DEF OpenCreate, TypeOK, Request
    <3>2. /\ Kind[Request(u)] = "create" /\ row = None
          /\ Request(u) \in Requests /\ done[Request(u)] = 0
      BY <1>4, <2>1 DEF OpenCreate, Entitled, At, Replayed, Request, TypeOK
    <3> QED
      BY <3>1, <3>2 DEF Entitled, Writing, At, Request
  <2>2. CASE u # t
    <3>1. ~ Writing(u)
      BY <1>4 DEF OpenCreate, Entitled
    <3> QED
      BY <1>4, <2>2, <3>1, OthersKeep DEF OpenCreate, TypeOK
  <2> QED
    BY <2>1, <2>2
<1>5. ASSUME NEW t \in Threads, DeclineCreate(t) \/ Cleanup(t) \/ Restore(t) PROVE Entitled(u)'
  <2>1. CASE u = t
    <3>1. thread'[u].step \in {"idle", "cleanup"}
      <4>1. CASE DeclineCreate(t) \/ Restore(t)
        BY <2>1, <4>1 DEF DeclineCreate, Restore, Rest, Idle, TypeOK
      <4>2. CASE Cleanup(t)
        <5>1. /\ thread[t].step = "cleanup"
              /\ \/ thread' = [thread EXCEPT ![t].placed = thread[t].placed - 1]
                 \/ thread' = Rest(t)
          BY <4>2 DEF Cleanup, At
        <5>2. Rest(t)[u].step = "idle"
          BY <2>1 DEF Rest, Idle, TypeOK
        <5>3. [thread EXCEPT ![t].placed = thread[t].placed - 1][u].step = thread[u].step
          BY <2>1, ThreadTyped DEF TypeOK, Working
        <5> QED
          BY <2>1, <5>1, <5>2, <5>3
      <4> QED
        BY <1>5, <4>1, <4>2
    <3> QED
      BY <3>1, LeavesOff
  <2>2. CASE u # t
    <3>1. /\ thread'[u] = thread[u]
          /\ UNCHANGED <<writer, row, busy, done, view>>
      BY <1>5, <2>2 DEF DeclineCreate, Cleanup, Restore, Rest, TypeOK, work
    <3> QED
      BY <3>1, OthersKeep
  <2> QED
    BY <2>1, <2>2
<1>6. ASSUME NEW t \in Threads, Place(t) PROVE Entitled(u)'
  <2>1. CASE u = t
    <3>1. /\ thread'[u].step \in {"place", "commit"} /\ thread'[u].request = Request(u)
          /\ thread'[u].step = "place" => thread'[u].placed < 3
          /\ UNCHANGED <<row, done, writer>>
      <4>1. thread[u].placed \in 0 .. 2
        BY <1>6, <2>1, ThreadTyped DEF Place, Entitled, At, Working
      <4> QED
        BY <1>6, <2>1, <4>1 DEF Place, TypeOK, Request
    <3>2. /\ Kind[Request(u)] = "create" /\ row = None
          /\ writer = u /\ done[Request(u)] = 0
      BY <1>6, <2>1 DEF Place, Entitled, Writing, At
    <3> QED
      BY <3>1, <3>2 DEF Entitled, Writing, At, Request
  <2>2. CASE u # t
    <3>1. /\ thread'[u] = thread[u]
          /\ UNCHANGED <<writer, row, busy, done, view>>
      BY <1>6, <2>2 DEF Place, TypeOK, work
    <3> QED
      BY <3>1, OthersKeep
  <2> QED
    BY <2>1, <2>2
<1>7. ASSUME NEW t \in Threads, Write(t) PROVE Entitled(u)'
  <2>0. UNCHANGED <<writer, row, busy, done, view>>
    BY <1>7 DEF Write, work
  <2>1. CASE u = t
    <3>1. thread'[u].step = "commit" /\ thread'[u].request = Request(u)
      BY <1>7, <2>1 DEF Write, Goto, TypeOK, Request
    <3>2. Writing(u) /\ Kind[Request(u)] # "create" /\ Entitled(u)
      BY <1>7, <2>1 DEF Write, Entitled, Writing, At
    <3> QED
      BY <2>0, <3>1, <3>2 DEF Entitled, Writing, At, Request, Matches, Blocked
  <2>2. CASE u # t
    BY <1>7, <2>0, <2>2, OthersKeep DEF Write, Goto, TypeOK
  <2> QED
    BY <2>1, <2>2
<1>8. ASSUME NEW t \in Threads, Commit(t) \/ Abort(t) PROVE Entitled(u)'
  <2>1. CASE u = t
    <3>1. thread'[u].step \in {"idle", "cleanup", "restore"}
      <4>1. CASE Commit(t)
        BY <2>1, <4>1 DEF Commit, Rest, Idle, TypeOK
      <4>2. CASE Abort(t)
        BY <2>1, <4>2 DEF Abort, Goto, TypeOK
      <4> QED
        BY <1>8, <4>1, <4>2
    <3> QED
      BY <3>1, LeavesOff
  <2>2. CASE u # t
    <3>1. ~ Writing(u)
      BY <1>0, <1>8, <2>2 DEF Commit, Abort, Writing, At
    <3>2. thread'[u] = thread[u] /\ view' = view
      BY <1>8, <2>2 DEF Commit, Abort, Rest, Goto, TypeOK
    <3> QED
      BY <3>1, <3>2, OthersKeep
  <2> QED
    BY <2>1, <2>2
<1>9. ASSUME NEW s \in Syncs, ReadFiles(s) \/ Apply(s) PROVE Entitled(u)'
  <2>1. UNCHANGED <<writer, thread, busy, done, view>>
    BY <1>9 DEF ReadFiles, Apply, control, work
  <2>2. Writing(u) => UNCHANGED row
    BY <1>9 DEF ReadFiles, Apply, Entitled
  <2> QED
    BY <2>1, <2>2, OthersKeep
<1>10. ASSUME NEW w \in Works, StartWork(w) \/ FinishWork(w) PROVE Entitled(u)'
  <2>1. UNCHANGED <<writer, thread, row, done, view>>
    BY <1>10 DEF StartWork, FinishWork, control
  <2>2. Writing(u) => busy' \subseteq busy
    BY <1>10 DEF StartWork, FinishWork, Entitled
  <2> QED
    BY <2>1, <2>2, OthersKeep
<1>11. ASSUME Validate \/ Enqueue PROVE Entitled(u)'
  <2>1. UNCHANGED <<writer, thread, row, done, view>>
    BY <1>11 DEF Validate, Enqueue, control
  <2>2. Writing(u) => busy' \subseteq busy
    BY <1>11 DEF Validate, Enqueue, Entitled
  <2> QED
    BY <2>1, <2>2, OthersKeep
<1>12. ASSUME Die PROVE Entitled(u)'
  BY <1>12, LeavesOff DEF Die, Idle
<1>13. ASSUME UNCHANGED vars PROVE Entitled(u)'
  BY <1>13, OthersKeep DEF vars
<1> QED
  BY <1>1, <1>2, <1>3, <1>4, <1>5, <1>6, <1>7, <1>8, <1>9, <1>10, <1>11, <1>12, <1>13
     DEF Next, TakeUp, CreateStep, ThreadStep

-----------------------------------------------------------------------------
(* The row counts up with every change, and what a sender has read is what   *)
(* the row was at that revision.                                            *)

Advances(new) == row # None => new # None /\ (new = row \/ new.revision = row.revision + 1)

LEMMA NewRowAdvances ==
  ASSUME TypeOK, row # None, NEW r \in Requests, Kind[r] = "update" => Changes(r)
  PROVE  Advances(NewRow(r)) /\ NewRow(r) \in Rows
<1>1. row \in Rows
  BY DEF TypeOK
<1>2. NewContent(r) \in Rows /\ NewContent(r).revision = row.revision
  <2>1. NewConfig(r) \in Configs
    BY NewRowTyped
  <2> QED
    BY <1>1, <2>1 DEF NewContent, Rows, Configs
<1>3. NewRow(r) \in Rows
  BY NewRowTyped
<1>4. CASE Changes(r)
  BY <1>2, <1>3, <1>4, ConstantsAssumption DEF NewRow, Advances, Rows
<1>5. CASE ~ Changes(r)
  <2>1. NewRow(r) = [row EXCEPT !.revision = row.revision + 0]
    BY <1>5 DEF NewRow, Changes
  <2>2. NewRow(r) = row
    BY <1>1, <2>1 DEF Rows
  <2> QED
    BY <2>2, <1>3 DEF Advances
<1> QED
  BY <1>4, <1>5

LEMMA UpsertedAdvances ==
  ASSUME TypeOK, NEW c \in Configs
  PROVE  Advances(Upserted(c))
<1> SUFFICES ASSUME row # None PROVE Advances(Upserted(c))
  BY DEF Advances
<1> DEFINE new == [row EXCEPT !.hash = c, !.enabled = EnabledBy(c)]
<1>1. row \in Rows
  BY DEF TypeOK
<1>2. new \in Rows /\ new.revision = row.revision
  BY <1>1 DEF Rows, EnabledBy, Configs
<1>3. Upserted(c) = [new EXCEPT !.revision = new.revision + IF new # row THEN 1 ELSE 0]
  BY DEF Upserted
<1>4. Upserted(c) # None
  BY UpsertedTyped, ConstantsAssumption
<1> HIDE DEF new
<1>5. CASE new # row
  BY <1>2, <1>3, <1>4, <1>5 DEF Advances, Rows
<1>6. CASE new = row
  <2>1. [new EXCEPT !.revision = new.revision + 0] = new
    BY <1>2 DEF Rows
  <2> QED
    BY <1>3, <1>4, <1>6, <2>1 DEF Advances
<1> QED
  BY <1>5, <1>6

LEMMA WithdrawnAdvances ==
  ASSUME TypeOK
  PROVE  Advances(Withdrawn)
<1> SUFFICES ASSUME row # None PROVE Advances(Withdrawn)
  BY DEF Advances
<1>1. row \in Rows
  BY DEF TypeOK
<1>2. Withdrawn # None
  <2>1. row.revision + 1 \in Nat \ {0}
    BY <1>1 DEF Rows
  <2>2. [row EXCEPT !.enabled = FALSE, !.revision = row.revision + 1] \in Rows
    BY <1>1, <2>1 DEF Rows
  <2> QED
    BY <1>1, <2>2, ConstantsAssumption DEF Withdrawn
<1> QED
  BY <1>1, <1>2 DEF Withdrawn, Advances, Rows

ViewInv ==
  \A r \in Requests : view[r] # None =>
    /\ row # None
    /\ view[r].revision <= row.revision
    /\ view[r].revision = row.revision => view[r] = row

LEMMA RowStep ==
  ASSUME CoreInv, [Next]_vars
  PROVE  Advances(row')
<1> TypeOK
  BY DEF CoreInv
<1>1. ASSUME NEW t \in Threads, Commit(t) PROVE Advances(row')
  <2>1. Request(t) \in Requests /\ Writing(t) /\ Entitled(t)
    BY <1>1 DEF Commit, At, Writing, Request, TypeOK, CoreInv
  <2>2. CASE Kind[Request(t)] = "create"
    BY <2>1, <2>2 DEF Entitled, Advances
  <2>3. CASE Kind[Request(t)] # "create"
    BY <1>1, <2>1, <2>3, NewRowAdvances DEF Commit, Entitled
  <2> QED
    BY <2>2, <2>3
<1>2. ASSUME NEW s \in Syncs, Apply(s) PROVE Advances(row')
  <2>1. sync[s].seen \in Configs \cup {None}
    BY DEF TypeOK
  <2> QED
    BY <1>2, <2>1, UpsertedAdvances, WithdrawnAdvances DEF Apply
<1>3. CASE UNCHANGED row
  BY <1>3 DEF Advances
<1>4. \/ \E t \in Threads : Commit(t)
      \/ \E s \in Syncs : Apply(s)
      \/ UNCHANGED row
  BY DEF Next, TakeUp, CreateStep, ThreadStep, vars, Look, Stage, Open, OpenCreate, DeclineCreate,
         Place, Cleanup, Write, Restore, Abort, ReadFiles, StartWork, FinishWork, Validate,
         Enqueue, Die
<1> QED
  BY <1>1, <1>2, <1>3, <1>4

LEMMA ViewStep ==
  ASSUME CoreInv, ViewInv, [Next]_vars
  PROVE  ViewInv'
<1> TypeOK
  BY DEF CoreInv
<1>1. Advances(row')
  BY RowStep
<1>2. ASSUME NEW r \in Requests, Look(r) PROVE ViewInv'
  <2>1. row \in Rows /\ row' = row /\ view' = [view EXCEPT ![r] = row]
    BY <1>2 DEF Look, TypeOK
  <2> QED
    BY <2>1 DEF ViewInv, TypeOK, Rows
<1>3. CASE UNCHANGED view
  <2> SUFFICES ASSUME NEW r \in Requests, view[r] # None
               PROVE  /\ row' # None
                      /\ view[r].revision <= row'.revision
                      /\ view[r].revision = row'.revision => view[r] = row'
    BY <1>3 DEF ViewInv
  <2>1. row \in Rows /\ view[r] \in Rows
    BY DEF ViewInv, TypeOK
  <2>2. row' # None /\ (row' = row \/ row'.revision = row.revision + 1)
    BY <1>1 DEF Advances, ViewInv
  <2>3. row.revision \in Nat /\ view[r].revision \in Nat
    BY <2>1 DEF Rows
  <2> QED
    BY <2>2, <2>3 DEF ViewInv
<1>4. (\E r \in Requests : Look(r)) \/ UNCHANGED view
  BY DEF Next, TakeUp, CreateStep, ThreadStep, vars, Stage, Open, OpenCreate, DeclineCreate,
         Place, Cleanup, Write, Restore, Commit, Abort, ReadFiles, Apply, StartWork, FinishWork,
         Validate, Enqueue, Die
<1> QED
  BY <1>2, <1>3, <1>4

-----------------------------------------------------------------------------
(* Once only, and archived for good. *)

LEMMA OnceStep ==
  ASSUME CoreInv, OnceOnly, [Next]_vars
  PROVE  OnceOnly'
<1> TypeOK
  BY DEF CoreInv
<1>1. ASSUME NEW t \in Threads, Commit(t) PROVE OnceOnly'
  <2>1. Request(t) \in Requests /\ done[Request(t)] = 0
    BY <1>1 DEF Commit, At, Writing, Request, TypeOK, CoreInv, Entitled
  <2> QED
    BY <1>1, <2>1 DEF Commit, OnceOnly, TypeOK
<1>2. CASE UNCHANGED done
  BY <1>2 DEF OnceOnly
<1>3. (\E t \in Threads : Commit(t)) \/ UNCHANGED done
  BY DEF Next, TakeUp, CreateStep, ThreadStep, vars, Look, Stage, Open, OpenCreate, DeclineCreate,
         Place, Cleanup, Write, Restore, Abort, ReadFiles, Apply, StartWork, FinishWork,
         Validate, Enqueue, Die
<1> QED
  BY <1>1, <1>2, <1>3

LEMMA ArchivedStep ==
  ASSUME CoreInv, ArchivedIsIdle, [Next]_vars
  PROVE  ArchivedIsIdle'
<1> TypeOK
  BY DEF CoreInv
<1>1. ASSUME NEW t \in Threads, Commit(t) PROVE ArchivedIsIdle'
  <2> DEFINE r == Request(t)
  <2>1. r \in Requests /\ Writing(t) /\ Entitled(t)
    BY <1>1 DEF Commit, At, Writing, Request, TypeOK, CoreInv
  <2>2. busy' = busy
    BY <1>1 DEF Commit, work
  <2>3. CASE Kind[r] = "create"
    BY <1>1, <2>3 DEF Commit, ArchivedIsIdle
  <2>4. CASE Kind[r] # "create"
    <3>1. /\ row \in Rows /\ row' = NewRow(r)
          /\ row.archived => Kind[r] = "rescan"
          /\ ~ Blocked(r)
      BY <1>1, <2>1, <2>4 DEF Commit, Entitled, TypeOK
    <3>2. /\ row'.enabled = NewConfig(r).enabled
          /\ row'.archived = (row.archived \/ Kind[r] = "archive")
      BY <3>1 DEF NewRow, NewContent, Rows
    <3>3. CASE Kind[r] = "archive"
      BY <2>2, <3>1, <3>2, <3>3 DEF NewConfig, Blocked, ArchivedIsIdle
    <3>4. CASE Kind[r] = "rescan"
      <4>1. row'.enabled = row.enabled /\ row'.archived = row.archived /\ row # None
        BY <2>1, <2>4, <3>2, <3>4 DEF NewConfig, Entitled, Rows, TypeOK
      <4> QED
        BY <2>2, <4>1 DEF ArchivedIsIdle
    <3>5. CASE Kind[r] \notin {"archive", "rescan"}
      BY <3>1, <3>2, <3>5 DEF ArchivedIsIdle, Rows
    <3> QED
      BY <3>3, <3>4, <3>5
  <2> QED
    BY <2>3, <2>4
<1>2. ASSUME NEW s \in Syncs, Apply(s) PROVE ArchivedIsIdle'
  <2>1. busy' = busy
    BY <1>2 DEF Apply, work
  <2>2. PICK c \in Configs \cup {None} : row' = IF c = None THEN Withdrawn ELSE Upserted(c)
    BY <1>2 DEF Apply, TypeOK
  <2>3. CASE row = None
    <3>1. row' = None \/ row'.archived = FALSE
      BY <2>2, <2>3 DEF Withdrawn, Upserted
    <3> QED
      BY <3>1 DEF ArchivedIsIdle
  <2>4. CASE row # None
    <3>1. row \in Rows
      BY <2>4 DEF TypeOK
    <3>2. /\ row'.archived = row.archived
          /\ row'.enabled => ~ row.archived \/ (row' = row /\ c = None)
      BY <2>2, <2>4, <3>1 DEF Withdrawn, Upserted, EnabledBy, Rows
    <3> QED
      BY <2>1, <2>4, <3>2 DEF ArchivedIsIdle
  <2> QED
    BY <2>3, <2>4
<1>3. ASSUME NEW w \in Works, StartWork(w) \/ FinishWork(w) PROVE ArchivedIsIdle'
  BY <1>3 DEF StartWork, FinishWork, ArchivedIsIdle
<1>4. CASE Enqueue
  BY <1>4 DEF Enqueue, ArchivedIsIdle
<1>5. CASE UNCHANGED <<row, busy>>
  BY <1>5 DEF ArchivedIsIdle
<1>6. \/ \E t \in Threads : Commit(t)
      \/ \E s \in Syncs : Apply(s)
      \/ \E w \in Works : StartWork(w) \/ FinishWork(w)
      \/ Enqueue
      \/ UNCHANGED <<row, busy>>
  <2>1. CASE \E t \in Threads : CreateStep(t) \/ ThreadStep(t)
    BY <2>1 DEF CreateStep, ThreadStep, OpenCreate, DeclineCreate, Place, Cleanup, Write,
                Restore, Abort, work
  <2>2. CASE \E r \in Requests : Look(r) \/ \E t \in Threads : TakeUp(t, r)
    BY <2>2 DEF TakeUp, Look, Stage, Open, work
  <2>3. CASE (\E s \in Syncs : ReadFiles(s)) \/ Validate \/ Die \/ UNCHANGED vars
    BY <2>3 DEF ReadFiles, Validate, Die, vars, work
  <2> QED
    BY <2>1, <2>2, <2>3 DEF Next
<1> QED
  BY <1>1, <1>2, <1>3, <1>4, <1>5, <1>6

-----------------------------------------------------------------------------
(* The theorems. *)

LEMMA CoreInit == Init => CoreInv
<1> SUFFICES ASSUME Init PROVE CoreInv
  OBVIOUS
<1>1. TypeOK
  <2>1. thread \in [Threads -> Working] /\ \A t \in Threads : thread[t].step = "idle"
    BY IdleTyped DEF Init, Idle
  <2>2. deaths \in 0 .. MaxDeaths
    BY ConstantsAssumption DEF Init
  <2>3. sync \in [Syncs -> [step : {"ready", "read", "ended"}, seen : Configs \cup {None}]]
    BY DEF Init
  <2> QED
    BY <2>1, <2>2, <2>3, ConstantsAssumption DEF Init, TypeOK
<1>2. ASSUME NEW t \in Threads PROVE Entitled(t)
  BY <1>2 DEF Init, Entitled, Writing, At, Idle
<1> QED
  BY <1>1, <1>2 DEF CoreInv

LEMMA CoreStep == CoreInv /\ [Next]_vars => CoreInv'
  BY TypeStep, EntitledStep DEF CoreInv

LEMMA CoreCorrect == Spec => []CoreInv
  BY CoreInit, CoreStep, PTL DEF Spec

(* For any requests, threads, synchronisations and deaths, the rows, files  *)
(* and threads keep their types.                                           *)
THEOREM TypeCorrect == Spec => []TypeOK
<1>1. CoreInv => TypeOK
  BY DEF CoreInv
<1> QED
  BY <1>1, CoreCorrect, PTL

(* The write lock, taken before the key is looked up and given back with    *)
(* the commit that completes it, makes every command take effect at most    *)
(* once.                                                                   *)
THEOREM OncePerKey == Spec => []OnceOnly
<1>1. Init => OnceOnly
  BY DEF Init, OnceOnly
<1>2. CoreInv /\ OnceOnly /\ [Next]_vars => OnceOnly'
  BY OnceStep
<1> QED
  BY <1>1, <1>2, CoreCorrect, PTL DEF Spec

(* A command changes the very row its sender has read, since the revision   *)
(* counts up with every change, whoever makes it.                          *)
THEOREM ReadBeforeWritten == Spec => NoLostUpdate
<1>1. Init => ViewInv
  BY DEF Init, ViewInv
<1>2. CoreInv /\ ViewInv /\ [Next]_vars => ViewInv'
  BY ViewStep
<1>3. CoreInv /\ ViewInv /\ [Next]_vars =>
        [\A r \in Requests : done'[r] > done[r] /\ Kind[r] # "create" => view[r] = row]_vars
  <2> SUFFICES ASSUME CoreInv, ViewInv, [Next]_vars,
                      NEW r \in Requests, done'[r] > done[r], Kind[r] # "create"
               PROVE  view[r] = row
    OBVIOUS
  <2> TypeOK
    BY DEF CoreInv
  <2>1. done' # done
    BY DEF TypeOK
  <2>2. PICK t \in Threads : Commit(t)
    BY <2>1 DEF Next, TakeUp, CreateStep, ThreadStep, vars, Look, Stage, Open, OpenCreate,
           DeclineCreate, Place, Cleanup, Write, Restore, Abort, ReadFiles, Apply, StartWork,
           FinishWork, Validate, Enqueue, Die
  <2>3. Request(t) = r
    BY <2>2 DEF Commit, TypeOK
  <2>4. view[r] # None /\ Matches(r)
    BY <2>2, <2>3 DEF Commit, CoreInv, Entitled, Writing, At
  <2> QED
    BY <2>4 DEF ViewInv, Matches
<1> QED
  BY <1>1, <1>2, <1>3, CoreCorrect, PTL DEF Spec, NoLostUpdate

(* Neither a file nor a request nor a run brings an archived project back.  *)
THEOREM ArchiveIsFinal == Spec => []ArchivedIsIdle
<1>1. Init => ArchivedIsIdle
  BY DEF Init, ArchivedIsIdle
<1>2. CoreInv /\ ArchivedIsIdle /\ [Next]_vars => ArchivedIsIdle'
  BY ArchivedStep
<1> QED
  BY <1>1, <1>2, CoreCorrect, PTL DEF Spec
-----------------------------------------------------------------------------
(* Row, file and tree.  A create under way has put its first things in      *)
(* place; a change under way has written the file, or may have.            *)

Creates(t) == thread[t].step \in {"place", "commit", "cleanup"} /\ Kind[Request(t)] = "create"
Updates(t) == thread[t].step \in {"write", "commit", "restore"} /\ Kind[Request(t)] # "create"
Under(t)   == Creates(t) \/ Updates(t)

(* A create has the create lock until it has cleaned up; only a project     *)
(* that exists is changed.                                                 *)
Holds(t) ==
  /\ At(t, "staged") \/ Creates(t) => creating = t
  /\ Creates(t) /\ At(t, "commit") => thread[t].placed = 3
  /\ At(t, "cleanup") => Kind[Request(t)] = "create"
  /\ At(t, "restore") => Kind[Request(t)] # "create"
  /\ Updates(t) => row # None
LockInv == \A t \in Threads : Holds(t)

(* What the row makes of file f. *)
Agrees(f) ==
  /\ row = None <=> f = None
  /\ row # None => f = row.hash /\ row.enabled = (f.enabled /\ ~ row.archived)

(* The file while t is under way, and what a restore will put back.         *)
FileOf(t) ==
  /\ Creates(t) =>
       /\ row = None
       /\ file = IF thread[t].placed = 3 THEN FirstConfig(Request(t)) ELSE None
  /\ Updates(t) =>
       /\ Agrees(thread[t].backup)
       /\ At(t, "write") => file = thread[t].backup
       /\ At(t, "commit") =>
            file = IF Kind[Request(t)] = "update" \/ Changes(Request(t))
                     THEN NewConfig(Request(t)) ELSE thread[t].backup
FileInv ==
  "file" \notin torn =>
    /\ \A t, u \in Threads : Under(t) /\ Under(u) => t = u
    /\ \A t \in Threads : FileOf(t)
    /\ (\A t \in Threads : ~ Under(t)) => Agrees(file)

(* Before the row is there, file, data and repository are those that a      *)
(* create under way has placed.                                            *)
Placed(n) ==
  /\ file = None <=> n < 3
  /\ data <=> n >= 2
  /\ repo <=> Existing \/ n >= 1
TreeInv ==
  "tree" \notin torn =>
    /\ \A t \in Threads : Creates(t) => row = None /\ Placed(thread[t].placed)
    /\ row = None /\ (\A t \in Threads : ~ Creates(t)) => Placed(0)
    /\ row # None => data /\ repo

StoresInv == LockInv /\ FileInv /\ TreeInv

-----------------------------------------------------------------------------
(* The locks. *)

LEMMA NotHolding ==
  ASSUME TypeOK, LockInv, NEW t \in Threads, NEW u \in Threads, u # t,
         At(t, "staged") \/ Creates(t)
  PROVE  ~ At(u, "staged") /\ ~ Creates(u)
  BY DEF LockInv, Holds

(* A step that leaves thread u alone, and its lock. *)
LEMMA OthersHold ==
  ASSUME CoreInv, LockInv, [Next]_vars, NEW u \in Threads,
         thread'[u] = thread[u],
         At(u, "staged") \/ Creates(u) => creating' = creating
  PROVE  Holds(u)'
<1>1. row # None => row' # None
  BY RowStep DEF Advances
<1>2. Holds(u)
  BY DEF LockInv
<1> QED
  BY <1>1, <1>2 DEF Holds, Creates, Updates, At, Request

(* A step after which thread u rests. *)
LEMMA RestHolds ==
  ASSUME NEW u \in Threads, thread'[u].step = "idle"
  PROVE  Holds(u)'
  BY DEF Holds, Creates, Updates, At

(* Whoever is under way and has not failed has the write lock. *)
LEMMA UnderWay ==
  ASSUME CoreInv, NEW u \in Threads, Under(u), writer # u
  PROVE  At(u, "cleanup") \/ At(u, "restore")
  BY DEF CoreInv, Entitled, Writing, At, Under, Creates, Updates

LEMMA RestIdles ==
  ASSUME TypeOK, NEW t \in Threads
  PROVE  Rest(t)[t].step = "idle" /\ \A u \in Threads \ {t} : Rest(t)[u] = thread[u]
  BY DEF Rest, Idle, TypeOK

LEMMA GotoGoes ==
  ASSUME TypeOK, NEW t \in Threads, NEW s
  PROVE  /\ Goto(t, s)[t].step = s
         /\ Goto(t, s)[t].request = thread[t].request
         /\ Goto(t, s)[t].placed = thread[t].placed
         /\ Goto(t, s)[t].backup = thread[t].backup
         /\ \A u \in Threads \ {t} : Goto(t, s)[u] = thread[u]
  BY ThreadTyped DEF Goto, TypeOK, Working

(* What an action of thread t makes of it, and that it leaves the others    *)
(* alone.                                                                  *)
Alone(t) == \A u \in Threads \ {t} : thread'[u] = thread[u]

LEMMA StageMoves ==
  ASSUME TypeOK, NEW t \in Threads, NEW r \in Requests, Stage(t, r)
  PROVE  Alone(t) /\ thread'[t].step = "staged"
  BY ThreadTyped DEF Stage, TypeOK, Alone, Working

LEMMA OpenMoves ==
  ASSUME TypeOK, NEW t \in Threads, NEW r \in Requests, Open(t, r)
  PROVE  /\ Alone(t) /\ thread'[t].step = "write"
         /\ thread'[t].request = r /\ thread'[t].backup = file
         /\ thread[t].step = "idle" /\ row # None
  BY ThreadTyped DEF Open, Takes, Idle, TypeOK, Alone, Working, Allowed, Matches

LEMMA OpenCreateMoves ==
  ASSUME TypeOK, NEW t \in Threads, OpenCreate(t)
  PROVE  /\ Alone(t) /\ thread'[t].step = "place"
         /\ thread'[t].request = Request(t) /\ thread'[t].placed = Found
  BY ThreadTyped DEF OpenCreate, TypeOK, Alone, Working, Request

LEMMA PlaceMoves ==
  ASSUME CoreInv, NEW t \in Threads, Place(t)
  PROVE  /\ Alone(t) /\ thread[t].placed \in 0 .. 2
         /\ thread'[t].placed = thread[t].placed + 1
         /\ thread'[t].step = IF thread[t].placed = 2 THEN "commit" ELSE "place"
         /\ thread'[t].request = Request(t) /\ Kind[Request(t)] = "create"
         /\ Request(t) \in Requests
<1> TypeOK /\ Entitled(t)
  BY DEF CoreInv
<1>1. /\ At(t, "place") /\ Kind[Request(t)] = "create" /\ thread[t].placed \in 0 .. 2
      /\ Request(t) \in Requests
  BY ThreadTyped DEF Place, Entitled, Working, TypeOK, Request, At
<1> DEFINE s == IF thread[t].placed + 1 = 3 THEN "commit" ELSE "place"
<1>2. thread' = [thread EXCEPT ![t].placed = thread[t].placed + 1, ![t].step = s]
  BY DEF Place
<1>3. s = IF thread[t].placed = 2 THEN "commit" ELSE "place"
  BY <1>1
<1> HIDE DEF s
<1>4. /\ thread'[t].placed = thread[t].placed + 1 /\ thread'[t].step = s
      /\ thread'[t].request = Request(t) /\ Alone(t)
  BY <1>2, ThreadTyped DEF TypeOK, Working, Alone, Request
<1> QED
  BY <1>1, <1>3, <1>4

(* A clean-up takes one thing back, or the last and rests. *)
LEMMA CleanupMoves ==
  ASSUME TypeOK, NEW t \in Threads, Cleanup(t)
  PROVE  /\ Alone(t)
         /\ IF thread[t].placed > Found + 1
              THEN /\ thread'[t].placed = thread[t].placed - 1
                   /\ thread'[t].step = "cleanup" /\ thread'[t].request = Request(t)
                   /\ creating' = creating
              ELSE thread'[t].step = "idle"
<1>1. CASE thread[t].placed > Found + 1
  <2>1. thread' = [thread EXCEPT ![t].placed = thread[t].placed - 1] /\ creating' = creating
    BY <1>1 DEF Cleanup
  <2>2. thread[t].step = "cleanup"
    BY DEF Cleanup, At
  <2>3. /\ thread'[t].placed = thread[t].placed - 1 /\ thread'[t].step = thread[t].step
        /\ thread'[t].request = thread[t].request /\ Alone(t)
    BY <2>1, ThreadTyped DEF TypeOK, Working, Alone
  <2> QED
    BY <1>1, <2>1, <2>2, <2>3 DEF Request
<1>2. CASE ~ (thread[t].placed > Found + 1)
  BY <1>2, RestIdles DEF Cleanup, Alone
<1> QED
  BY <1>1, <1>2

LEMMA LockStep == CoreInv /\ LockInv /\ [Next]_vars => LockInv'
<1> SUFFICES ASSUME CoreInv, LockInv, [Next]_vars, NEW u \in Threads
             PROVE  Holds(u)'
  BY DEF LockInv
<1> TypeOK /\ Entitled(u) /\ Holds(u)
  BY DEF CoreInv, LockInv
<1>1. ASSUME NEW r \in Requests, NEW t \in Threads, Stage(t, r) PROVE Holds(u)'
  <2>1. creating = None /\ creating' = t
    BY <1>1 DEF Stage
  <2>2. CASE u = t
    BY <1>1, <2>1, <2>2, StageMoves DEF Holds, At, Creates, Updates
  <2>3. CASE u # t
    <3>1. ~ (At(u, "staged") \/ Creates(u))
      BY <2>1, ConstantsAssumption DEF Holds
    <3> QED
      BY <1>1, <2>3, <3>1, StageMoves, OthersHold DEF Alone
  <2> QED
    BY <2>2, <2>3
<1>2. ASSUME NEW r \in Requests, NEW t \in Threads, Open(t, r) PROVE Holds(u)'
  <2>1. UNCHANGED <<creating, row>> /\ Kind[r] # "create"
    BY <1>2 DEF Open
  <2>2. CASE u = t
    BY <1>2, <2>1, <2>2, OpenMoves DEF Holds, At, Creates, Updates, Request
  <2>3. CASE u # t
    BY <1>2, <2>1, <2>3, OpenMoves, OthersHold DEF Alone
  <2> QED
    BY <2>2, <2>3
<1>3. ASSUME NEW t \in Threads, OpenCreate(t) PROVE Holds(u)'
  <2>1. UNCHANGED creating /\ At(t, "staged") /\ Kind[Request(t)] = "create"
    BY <1>3 DEF OpenCreate, CoreInv, Entitled
  <2>2. CASE u = t
    BY <1>3, <2>1, <2>2, OpenCreateMoves DEF Holds, At, Creates, Updates, Request
  <2>3. CASE u # t
    BY <1>3, <2>1, <2>3, OpenCreateMoves, OthersHold DEF Alone
  <2> QED
    BY <2>2, <2>3
<1>4. ASSUME NEW t \in Threads, DeclineCreate(t) PROVE Holds(u)'
  <2>1. CASE u = t
    BY <1>4, <2>1, RestIdles, RestHolds DEF DeclineCreate
  <2>2. CASE u # t
    BY <1>4, <2>2, RestIdles, NotHolding, OthersHold DEF DeclineCreate
  <2> QED
    BY <2>1, <2>2
<1>5. ASSUME NEW t \in Threads, Place(t) PROVE Holds(u)'
  <2>1. UNCHANGED creating /\ At(t, "place")
    BY <1>5 DEF Place
  <2>2. CASE u = t
    <3>1. Creates(t)
      BY <1>5, <2>1, PlaceMoves DEF Creates, At
    <3>2. creating' = u /\ (thread'[u].step = "commit" => thread'[u].placed = 3)
      BY <1>5, <2>1, <2>2, <3>1, PlaceMoves DEF Holds
    <3> QED
      BY <1>5, <2>2, <3>2, PlaceMoves DEF Holds, At, Creates, Updates, Request
  <2>3. CASE u # t
    BY <1>5, <2>1, <2>3, PlaceMoves, OthersHold DEF Alone
  <2> QED
    BY <2>2, <2>3
<1>6. ASSUME NEW t \in Threads, Cleanup(t) PROVE Holds(u)'
  <2>1. At(t, "cleanup") /\ Kind[Request(t)] = "create" /\ Creates(t) /\ creating = t
    BY <1>6 DEF Cleanup, LockInv, Holds, Creates, At
  <2>2. CASE u = t
    <3>1. CASE thread[t].placed > Found + 1
      BY <1>6, <2>1, <2>2, <3>1, CleanupMoves DEF Holds, At, Creates, Updates, Request
    <3>2. CASE ~ (thread[t].placed > Found + 1)
      BY <1>6, <2>2, <3>2, CleanupMoves, RestHolds
    <3> QED
      BY <3>1, <3>2
  <2>3. CASE u # t
    BY <1>6, <2>1, <2>3, CleanupMoves, NotHolding, OthersHold DEF Alone
  <2> QED
    BY <2>2, <2>3
<1>7. ASSUME NEW t \in Threads, Write(t) PROVE Holds(u)'
  <2>1. /\ UNCHANGED <<creating, row>> /\ thread' = Goto(t, "commit")
        /\ Kind[Request(t)] # "create" /\ row # None
    BY <1>7 DEF Write, CoreInv, Entitled, Writing, At
  <2>2. CASE u = t
    BY <2>1, <2>2, GotoGoes DEF Holds, At, Creates, Updates, Request
  <2>3. CASE u # t
    BY <2>1, <2>3, GotoGoes, OthersHold
  <2> QED
    BY <2>2, <2>3
<1>8. ASSUME NEW t \in Threads, Commit(t) PROVE Holds(u)'
  <2>1. thread' = Rest(t)
    BY <1>8 DEF Commit
  <2>2. CASE u = t
    BY <2>1, <2>2, RestIdles, RestHolds
  <2>3. CASE u # t
    <3>1. At(u, "staged") \/ Creates(u) => creating' = creating
      <4>1. At(u, "staged") \/ Creates(u) => creating = u
        BY DEF Holds
      <4> QED
        BY <1>8, <2>3, <4>1 DEF Commit
    <3> QED
      BY <2>1, <2>3, <3>1, RestIdles, OthersHold
  <2> QED
    BY <2>2, <2>3
<1>9. ASSUME NEW t \in Threads, Abort(t) PROVE Holds(u)'
  <2> DEFINE s == IF Kind[Request(t)] = "create" THEN "cleanup" ELSE "restore"
  <2>1. UNCHANGED <<creating, row>> /\ thread' = Goto(t, s)
    BY <1>9 DEF Abort
  <2>2. /\ Writing(t) /\ Entitled(t)
        /\ Kind[Request(t)] = "create" => Creates(t)
        /\ Kind[Request(t)] # "create" => Updates(t)
    BY <1>9 DEF Abort, CoreInv, Writing, Entitled, At, Creates, Updates
  <2>3. CASE u = t
    <3>1. CASE Kind[Request(t)] = "create"
      BY <2>1, <2>2, <2>3, <3>1, GotoGoes DEF Holds, At, Creates, Updates, Request
    <3>2. CASE Kind[Request(t)] # "create"
      BY <2>1, <2>2, <2>3, <3>2, GotoGoes DEF Holds, At, Creates, Updates, Request
    <3> QED
      BY <3>1, <3>2
  <2>4. CASE u # t
    BY <2>1, <2>4, GotoGoes, OthersHold
  <2> QED
    BY <2>3, <2>4
<1>10. ASSUME NEW t \in Threads, Restore(t) PROVE Holds(u)'
  <2>1. UNCHANGED creating /\ thread' = Rest(t)
    BY <1>10 DEF Restore
  <2>2. CASE u = t
    BY <2>1, <2>2, RestIdles, RestHolds
  <2>3. CASE u # t
    BY <2>1, <2>3, RestIdles, OthersHold
  <2> QED
    BY <2>2, <2>3
<1>11. CASE Die
  BY <1>11, RestHolds DEF Die, Idle
<1>12. CASE UNCHANGED control
  BY <1>12, OthersHold DEF control
<1>13. \/ \E r \in Requests, t \in Threads : Stage(t, r) \/ Open(t, r)
       \/ \E t \in Threads : ThreadStep(t)
       \/ Die
       \/ UNCHANGED control
  BY DEF Next, TakeUp, Look, ReadFiles, Apply, StartWork, FinishWork, Validate, Enqueue, vars, control
<1> QED
  BY <1>1, <1>2, <1>3, <1>4, <1>5, <1>6, <1>7, <1>8, <1>9, <1>10, <1>11, <1>12, <1>13
     DEF ThreadStep, CreateStep

-----------------------------------------------------------------------------
(* The file. *)

(* A step that leaves row, file and threads alone. *)
LEMMA FileRests ==
  ASSUME FileInv, UNCHANGED <<row, file, thread>>, torn' = torn
  PROVE  FileInv'
<1>1. Agrees(file)' <=> Agrees(file)
  BY DEF Agrees
<1>2. ASSUME NEW u \in Threads
      PROVE  (Under(u)' <=> Under(u)) /\ (FileOf(u)' <=> FileOf(u))
  BY DEF FileOf, Under, Creates, Updates, At, Agrees, Changes, NewContent, NewConfig, Request
<1> QED
  BY <1>1, <1>2 DEF FileInv

(* A thread that is not under way says nothing about the file. *)
LEMMA NotUnder ==
  ASSUME NEW u \in Threads, thread'[u].step \in {"idle", "staged"}
  PROVE  ~ Under(u)' /\ FileOf(u)'
  BY DEF FileOf, Under, Creates, Updates, At

(* A step by the only thread that may be under way. *)
LEMMA OneUnder ==
  ASSUME NEW t \in Threads, Alone(t),
         \A u \in Threads : Under(u) => u = t,
         FileOf(t)',
         ~ Under(t)' => Agrees(file)'
  PROVE  FileInv'
<1>1. ASSUME NEW u \in Threads, u # t PROVE ~ Under(u)' /\ FileOf(u)'
  BY <1>1 DEF Alone, Under, FileOf, Creates, Updates, At, Request
<1> QED
  BY <1>1 DEF FileInv

(* Nobody is under way when a transaction begins that can rely on the file. *)
LEMMA NobodyUnder ==
  ASSUME CoreInv, LockInv, FileInv, writer = None, "file" \notin torn,
         \A u \in Threads : ~ At(u, "restore") /\ ~ At(u, "cleanup")
  PROVE  (\A u \in Threads : ~ Under(u)) /\ Agrees(file)
<1>1. ASSUME NEW u \in Threads PROVE ~ Under(u)
  BY UnderWay, ConstantsAssumption
<1> QED
  BY <1>1 DEF FileInv

LEMMA UpsertedAgrees ==
  ASSUME TypeOK, NEW c \in Configs, file = c, row' = Upserted(c), file' = file
  PROVE  Agrees(file)'
<1>1. c # None /\ row' # None
  BY UpsertedTyped, ConstantsAssumption
<1>2. CASE row = None
  <2>1. row' = [hash |-> c, enabled |-> c.enabled, archived |-> FALSE, revision |-> FirstRevision]
    BY <1>2 DEF Upserted
  <2>2. c.enabled \in BOOLEAN
    BY DEF Configs
  <2> QED
    BY <1>1, <2>1, <2>2 DEF Agrees
<1>3. CASE row # None
  <2>1. row \in Rows
    BY <1>3 DEF TypeOK
  <2> DEFINE e == EnabledBy(c)
             new == [row EXCEPT !.hash = c, !.enabled = e]
             n == new.revision + IF new # row THEN 1 ELSE 0
  <2>2. new.hash = c /\ new.enabled = e /\ new.archived = row.archived /\ new \in Rows
    BY <2>1 DEF Rows, EnabledBy, Configs
  <2>3. row' = [new EXCEPT !.revision = n]
    BY <1>3 DEF Upserted
  <2>4. e = (c.enabled /\ ~ row.archived)
    BY DEF EnabledBy
  <2> HIDE DEF e, new, n
  <2>5. row'.hash = c /\ row'.enabled = e /\ row'.archived = row.archived
    BY <2>2, <2>3 DEF Rows
  <2> QED
    BY <1>1, <2>4, <2>5 DEF Agrees
<1> QED
  BY <1>2, <1>3

(* What a command commits agrees with what it has written. *)
LEMMA CommittedAgrees ==
  ASSUME CoreInv, ArchivedIsIdle, NEW t \in Threads, Commit(t), FileOf(t), LockInv
  PROVE  Agrees(file)'
<1> DEFINE r == Request(t)
<1> TypeOK
  BY DEF CoreInv
<1>1. /\ At(t, "commit") /\ r \in Requests /\ Entitled(t) /\ Writing(t) /\ file' = file
      /\ Holds(t)
  BY DEF Commit, At, Writing, Request, TypeOK, CoreInv, LockInv
<1>2. CASE Kind[r] = "create"
  <2>1. file = FirstConfig(r) /\ FirstConfig(r) \in Configs
    <3>1. Creates(t) /\ thread[t].placed = 3
      BY <1>1, <1>2 DEF Creates, Holds, At
    <3>2. FirstConfig(r) \in Configs
      BY <1>1, ConstantsAssumption DEF FirstConfig, Configs
    <3> QED
      BY <3>1, <3>2 DEF FileOf
  <2>2. row' = [hash |-> FirstConfig(r), enabled |-> FALSE, archived |-> FALSE, revision |-> FirstRevision]
    BY <1>2 DEF Commit
  <2>3. row' \in Rows
    BY <2>1, <2>2 DEF Rows, FirstRevision
  <2>4. row' # None /\ file' # None
    BY <1>1, <2>1, <2>3, ConstantsAssumption
  <2> QED
    BY <1>1, <2>1, <2>2, <2>4 DEF Agrees, FirstConfig
<1>3. CASE Kind[r] # "create"
  <2>1. /\ row \in Rows /\ row' = NewRow(r) /\ row' \in Rows
        /\ NewConfig(r) \in Configs /\ (Kind[r] = "update" => Changes(r))
    BY <1>1, <1>3, NewRowTyped DEF Commit, Entitled, TypeOK
  <2>2. row' # None
    BY <2>1, ConstantsAssumption
  <2>3. Updates(t) /\ Agrees(thread[t].backup)
    BY <1>1, <1>3 DEF Updates, FileOf, At
  <2>4. CASE Changes(r)
    <3>1. file = NewConfig(r)
      BY <1>1, <2>3, <2>4 DEF FileOf
    <3> DEFINE c == NewConfig(r)
               e == NewConfig(r).enabled
               a == (row.archived \/ Kind[r] = "archive")
               new == NewContent(r)
               n == new.revision + IF Kind[r] = "update" \/ Changes(r) THEN 1 ELSE 0
    <3>2. new = [row EXCEPT !.hash = c, !.enabled = e, !.archived = a]
      BY DEF NewContent
    <3>3. new.hash = c /\ new.enabled = e /\ new.archived = a /\ new \in Rows
      BY <2>1, <3>2 DEF Rows, Configs
    <3>4. row' = [new EXCEPT !.revision = n]
      BY <2>1 DEF NewRow
    <3>5. row'.hash = c /\ row'.enabled = e /\ row'.archived = a
      <4> HIDE DEF c, e, a, new, n
      <4> QED
        BY <3>3, <3>4 DEF Rows
    <3>6. a => ~ e
      <4>1. CASE Kind[r] = "archive"
        BY <4>1 DEF NewConfig
      <4>2. CASE Kind[r] # "archive" /\ row.archived
        <5>1. Kind[r] = "rescan" /\ ~ row.enabled
          BY <1>1, <1>3, <4>2 DEF Entitled, ArchivedIsIdle
        <5> QED
          BY <5>1 DEF NewConfig
      <4> QED
        BY <4>1, <4>2
    <3>7. c # None
      BY <2>1, ConstantsAssumption
    <3>8. c.enabled \in BOOLEAN /\ e = c.enabled
      BY <2>1 DEF Configs
    <3> QED
      <4> HIDE DEF c, e, a
      <4>1. file' = c
        BY <1>1, <3>1 DEF c
      <4> QED
        BY <2>2, <4>1, <3>5, <3>6, <3>7, <3>8 DEF Agrees
  <2>5. CASE ~ Changes(r)
    <3>1. Kind[r] # "update" /\ file = thread[t].backup
      BY <1>1, <2>1, <2>3, <2>5 DEF FileOf
    <3>2. NewRow(r) = [row EXCEPT !.revision = row.revision + 0]
      BY <2>5, <3>1 DEF NewRow, Changes
    <3>3. row' = row
      BY <2>1, <3>2 DEF Rows
    <3> QED
      BY <1>1, <2>3, <3>1, <3>3 DEF Agrees
  <2> QED
    BY <2>4, <2>5
<1> QED
  BY <1>2, <1>3

(* Whoever is under way is the only one, as long as the file is in step.    *)
LEMMA OnlyUnder ==
  ASSUME FileInv, "file" \notin torn, NEW t \in Threads, Under(t)
  PROVE  FileOf(t) /\ \A u \in Threads : Under(u) => u = t
  BY DEF FileInv

LEMMA FileStep == CoreInv /\ ArchivedIsIdle /\ LockInv /\ FileInv /\ [Next]_vars => FileInv'
<1> SUFFICES ASSUME CoreInv, ArchivedIsIdle, LockInv, FileInv, [Next]_vars, "file" \notin torn'
             PROVE  FileInv'
  BY DEF FileInv
<1> TypeOK
  BY DEF CoreInv
<1>1. ASSUME NEW r \in Requests, NEW t \in Threads, Stage(t, r) PROVE FileInv'
  <2>1. Alone(t) /\ thread'[t].step = "staged" /\ UNCHANGED <<row, file, torn>>
    BY <1>1, StageMoves DEF Stage
  <2>2. thread[t].step = "idle"
    BY <1>1 DEF Stage, Takes, Idle
  <2>3. ASSUME NEW u \in Threads PROVE (Under(u)' <=> Under(u)) /\ (FileOf(u)' <=> FileOf(u))
    <3>1. CASE u = t
      BY <2>1, <2>2, <3>1 DEF FileOf, Under, Creates, Updates, At
    <3>2. CASE u # t
      <4>1. thread'[u] = thread[u]
        BY <2>1, <3>2 DEF Alone
      <4> QED
        BY <2>1, <4>1 DEF FileOf, Under, Creates, Updates, At, Agrees, Changes, NewContent, NewConfig, Request
    <3> QED
      BY <3>1, <3>2
  <2>4. Agrees(file)' <=> Agrees(file)
    BY <2>1 DEF Agrees
  <2> QED
    BY <2>1, <2>3, <2>4 DEF FileInv
<1>2. ASSUME NEW r \in Requests, NEW t \in Threads, Open(t, r) PROVE FileInv'
  <2>1. /\ "file" \notin torn /\ writer = None /\ UNCHANGED <<row, file>>
        /\ \A u \in Threads : ~ At(u, "restore")
    BY <1>2 DEF Open, Some
  <2>2. /\ Alone(t) /\ thread'[t].step = "write" /\ thread'[t].backup = file /\ row # None
    BY <1>2, OpenMoves
  <2>3. ASSUME NEW u \in Threads PROVE ~ At(u, "cleanup")
    <3>1. At(u, "cleanup") => Creates(u) /\ FileOf(u)
      BY <2>1, OnlyUnder DEF LockInv, Holds, Creates, At, Under
    <3> QED
      BY <2>2, <3>1 DEF FileOf
  <2>4. (\A u \in Threads : ~ Under(u)) /\ Agrees(file)
    BY <2>1, <2>3, NobodyUnder
  <2>5. FileOf(t)' /\ Under(t)'
    <3>1. thread'[t].request = r /\ Kind[r] # "create"
      BY <1>2, OpenMoves DEF Open
    <3>2. Agrees(thread[t].backup)' /\ file' = thread'[t].backup
      BY <2>1, <2>2, <2>4 DEF Agrees
    <3> QED
      BY <2>2, <3>1, <3>2 DEF FileOf, Under, Creates, Updates, At, Request
  <2> QED
    BY <2>2, <2>4, <2>5, OneUnder
<1>3. ASSUME NEW t \in Threads, OpenCreate(t) PROVE FileInv'
  <2>1. /\ "file" \notin torn /\ writer = None /\ UNCHANGED <<row, file>> /\ row = None
        /\ At(t, "staged")
    BY <1>3 DEF OpenCreate
  <2>2. ASSUME NEW u \in Threads PROVE ~ At(u, "restore") /\ ~ At(u, "cleanup")
    <3>1. At(u, "restore") => Updates(u) /\ row # None
      BY DEF LockInv, Holds, Updates, At
    <3>2. At(u, "cleanup") => Creates(u) /\ u # t
      BY <2>1 DEF LockInv, Holds, Creates, At
    <3> QED
      BY <2>1, <3>1, <3>2, NotHolding
  <2>3. (\A u \in Threads : ~ Under(u)) /\ Agrees(file)
    BY <2>1, <2>2, NobodyUnder
  <2>4. FileOf(t)' /\ Under(t)'
    <3>1. /\ thread'[t].step = "place" /\ Kind[thread'[t].request] = "create"
          /\ thread'[t].placed = Found
      BY <1>3, <2>1, OpenCreateMoves DEF CoreInv, Entitled
    <3>2. file' = None /\ row' = None /\ Found # 3
      BY <2>1, <2>3, FoundTyped DEF Agrees
    <3> QED
      BY <3>1, <3>2 DEF FileOf, Under, Creates, Updates, At, Request
  <2> QED
    BY <1>3, <2>3, <2>4, OpenCreateMoves, OneUnder
<1>4. ASSUME NEW t \in Threads, DeclineCreate(t) PROVE FileInv'
  <2>1. /\ thread'[t].step = "idle" /\ At(t, "staged") /\ UNCHANGED <<row, file, torn>>
        /\ \A u \in Threads \ {t} : thread'[u] = thread[u]
    BY <1>4, RestIdles DEF DeclineCreate
  <2>2. ASSUME NEW u \in Threads PROVE (Under(u)' <=> Under(u)) /\ (FileOf(u)' <=> FileOf(u))
    <3>1. CASE u = t
      BY <2>1, <3>1 DEF FileOf, Under, Creates, Updates, At
    <3>2. CASE u # t
      <4>1. thread'[u] = thread[u]
        BY <2>1, <3>2
      <4> QED
        BY <2>1, <4>1 DEF FileOf, Under, Creates, Updates, At, Agrees, Changes, NewContent, NewConfig, Request
    <3> QED
      BY <3>1, <3>2
  <2>3. Agrees(file)' <=> Agrees(file)
    BY <2>1 DEF Agrees
  <2> QED
    BY <2>1, <2>2, <2>3 DEF FileInv
<1>5. ASSUME NEW t \in Threads, Place(t) PROVE FileInv'
  <2>1. /\ "file" \notin torn /\ UNCHANGED row /\ At(t, "place")
        /\ file' = IF thread[t].placed + 1 = 3 THEN FirstConfig(Request(t)) ELSE file
    BY <1>5 DEF Place
  <2>2. Creates(t) /\ Under(t)
    BY <1>5, <2>1, PlaceMoves DEF Creates, At, Under
  <2>3. row = None /\ file = None
    BY <1>5, <2>1, <2>2, OnlyUnder, PlaceMoves DEF FileOf
  <2>4. FileOf(t)' /\ Under(t)'
    <3>1. file' = IF thread'[t].placed = 3 THEN FirstConfig(Request(t)) ELSE None
      BY <1>5, <2>1, <2>3, PlaceMoves
    <3> QED
      BY <1>5, <2>1, <2>3, <3>1, PlaceMoves
         DEF FileOf, Under, Creates, Updates, At, Request, FirstConfig
  <2> QED
    BY <1>5, <2>1, <2>2, <2>4, PlaceMoves, OnlyUnder, OneUnder
<1>6. ASSUME NEW t \in Threads, Cleanup(t) PROVE FileInv'
  <2>1. /\ "file" \notin torn /\ UNCHANGED row /\ At(t, "cleanup")
        /\ file' = IF thread[t].placed = 3 THEN None ELSE file
    BY <1>6, CleanupUndoes DEF Cleanup
  <2>2. Creates(t) /\ Under(t)
    BY <2>1 DEF LockInv, Holds, Creates, At, Under
  <2>3. row = None /\ file' = None
    BY <2>1, <2>2, OnlyUnder DEF FileOf
  <2>4. FileOf(t)' /\ Agrees(file)'
    <3>1. Agrees(file)'
      BY <2>1, <2>3 DEF Agrees
    <3>2. CASE thread[t].placed > Found + 1
      <4>1. thread'[t].placed # 3
        BY <1>6, <3>2, CleanupMoves, ThreadTyped, FoundTyped DEF Working
      <4>2. thread'[t].step = "cleanup"
        BY <1>6, <3>2, CleanupMoves
      <4> QED
        BY <2>1, <2>3, <3>1, <4>1, <4>2 DEF FileOf, Creates, Updates, At
    <3>3. CASE ~ (thread[t].placed > Found + 1)
      BY <1>6, <3>1, <3>3, CleanupMoves, NotUnder
    <3> QED
      BY <3>2, <3>3
  <2> QED
    BY <1>6, <2>1, <2>2, <2>4, CleanupMoves, OnlyUnder, OneUnder
<1>7. ASSUME NEW t \in Threads, Write(t) PROVE FileInv'
  <2> DEFINE c == IF Kind[Request(t)] = "update" \/ Changes(Request(t)) THEN NewConfig(Request(t)) ELSE file
  <2>1. /\ "file" \notin torn /\ UNCHANGED row /\ At(t, "write")
        /\ thread' = Goto(t, "commit") /\ Kind[Request(t)] # "create" /\ file' = c
    BY <1>7 DEF Write, CoreInv, Entitled
  <2>2. Updates(t) /\ Under(t)
    BY <2>1 DEF Updates, At, Under
  <2>3. Agrees(thread[t].backup) /\ file = thread[t].backup
    BY <2>1, <2>2, OnlyUnder DEF FileOf
  <2>4. FileOf(t)' /\ Under(t)'
    <3>1. /\ thread'[t].step = "commit" /\ thread'[t].request = thread[t].request
          /\ thread'[t].backup = thread[t].backup
      BY <2>1, GotoGoes
    <3>2. Agrees(thread[t].backup)'
      BY <2>1, <2>3, <3>1 DEF Agrees
    <3>3. (NewConfig(Request(t)))' = NewConfig(Request(t))
      BY <2>1, <3>1 DEF NewConfig, Request
    <3>4. (Changes(Request(t)))' <=> Changes(Request(t))
      <4>1. (NewContent(Request(t)))' = NewContent(Request(t))
        BY <2>1, <3>1 DEF NewContent, NewConfig, Request
      <4> QED
        BY <2>1, <4>1 DEF Changes
    <3>5. ~ Creates(t)' /\ ~ At(t, "write")' /\ Updates(t)'
      BY <2>1, <3>1 DEF Creates, Updates, At, Request
    <3>6. file' = IF Kind[Request(t)'] = "update" \/ (Changes(Request(t)))'
                    THEN (NewConfig(Request(t)))' ELSE thread'[t].backup
      BY <2>1, <2>3, <3>1, <3>3, <3>4 DEF Request
    <3> QED
      BY <3>2, <3>5, <3>6 DEF FileOf, Under
  <2> QED
    BY <2>1, <2>2, <2>4, GotoGoes, OnlyUnder, OneUnder DEF Alone
<1>8. ASSUME NEW t \in Threads, Commit(t) PROVE FileInv'
  <2>1. "file" \notin torn /\ thread' = Rest(t) /\ At(t, "commit")
    BY <1>8 DEF Commit
  <2>2. Under(t) /\ FileOf(t)
    BY <2>1, OnlyUnder DEF Under, Creates, Updates, At
  <2>3. FileOf(t)' /\ Alone(t)
    BY <2>1, RestIdles, NotUnder DEF Alone
  <2> QED
    BY <1>8, <2>1, <2>2, <2>3, CommittedAgrees, OnlyUnder, OneUnder
<1>9. ASSUME NEW t \in Threads, Abort(t) PROVE FileInv'
  <2> DEFINE s == IF Kind[Request(t)] = "create" THEN "cleanup" ELSE "restore"
  <2>1. "file" \notin torn /\ UNCHANGED <<row, file>> /\ thread' = Goto(t, s) /\ Writing(t)
    BY <1>9 DEF Abort, Writing, At
  <2>2. /\ Under(t)
        /\ Kind[Request(t)] = "create" => Creates(t)
        /\ Kind[Request(t)] # "create" => Updates(t)
    BY <2>1 DEF CoreInv, Writing, Entitled, At, Creates, Updates, Under
  <2>3. FileOf(t) /\ \A u \in Threads : Under(u) => u = t
    BY <2>1, <2>2, OnlyUnder
  <2>4. FileOf(t)' /\ Under(t)'
    <3>1. /\ thread'[t].step = s /\ thread'[t].request = thread[t].request
          /\ thread'[t].backup = thread[t].backup /\ thread'[t].placed = thread[t].placed
      BY <2>1, GotoGoes
    <3>2. CASE Kind[Request(t)] = "create"
      BY <2>1, <2>2, <2>3, <3>1, <3>2 DEF FileOf, Creates, Updates, Under, At, Request, FirstConfig
    <3>3. CASE Kind[Request(t)] # "create"
      <4>1. Agrees(thread[t].backup)'
        BY <2>1, <2>2, <2>3, <3>1, <3>3 DEF FileOf, Agrees
      <4> QED
        BY <3>1, <3>3, <4>1 DEF FileOf, Creates, Updates, Under, At, Request
    <3> QED
      BY <3>2, <3>3
  <2> QED
    BY <2>1, <2>3, <2>4, GotoGoes, OneUnder DEF Alone
<1>10. ASSUME NEW t \in Threads, Restore(t) PROVE FileInv'
  <2>1. /\ "file" \notin torn /\ UNCHANGED row /\ thread' = Rest(t) /\ At(t, "restore")
        /\ file' = thread[t].backup
    BY <1>10 DEF Restore, BackupOf
  <2>2. Under(t) /\ Updates(t)
    BY <2>1 DEF LockInv, Holds, Under, Updates, At
  <2>3. Agrees(thread[t].backup)
    BY <2>1, <2>2, OnlyUnder DEF FileOf
  <2>4. Agrees(file)'
    BY <2>1, <2>3 DEF Agrees
  <2>5. FileOf(t)' /\ Alone(t)
    BY <2>1, RestIdles, NotUnder DEF Alone
  <2> QED
    BY <2>1, <2>2, <2>4, <2>5, OnlyUnder, OneUnder
<1>11. ASSUME NEW s \in Syncs, Apply(s) PROVE FileInv'
  <2> DEFINE c == sync[s].seen
  <2>1. /\ c = file /\ \A u \in Threads : ~ At(u, "restore") /\ ~ At(u, "cleanup")
        /\ writer = None /\ UNCHANGED <<file, thread>>
        /\ row' = IF c = None THEN Withdrawn ELSE Upserted(c)
        /\ c = None /\ row # None => torn' = torn
    BY <1>11 DEF Apply, Some, control
  <2>2. ASSUME NEW u \in Threads PROVE ~ Under(u)
    BY <2>1, UnderWay, ConstantsAssumption
  <2>3. Agrees(file)'
    <3>1. CASE c # None
      BY <2>1, <3>1, UpsertedAgrees DEF TypeOK
    <3>2. CASE c = None /\ row = None
      BY <2>1, <3>2 DEF Withdrawn, Agrees
    <3>3. CASE c = None /\ row # None
      <4>1. Agrees(file)
        BY <2>1, <3>3, NobodyUnder
      <4> QED
        BY <2>1, <3>3, <4>1 DEF Agrees
    <3> QED
      BY <3>1, <3>2, <3>3
  <2>4. ASSUME NEW u \in Threads PROVE ~ Under(u)' /\ FileOf(u)'
    BY <2>1, <2>2 DEF Under, FileOf, Creates, Updates, At, Request
  <2> QED
    BY <2>3, <2>4 DEF FileInv
<1>12. CASE Die
  <2>1. /\ "file" \notin torn /\ UNCHANGED <<row, file>>
        /\ \A u \in Threads : At(u, "idle") /\ thread'[u].step = "idle"
    BY <1>12 DEF Die, Idle
  <2>2. \A u \in Threads : ~ Under(u)
    BY <2>1 DEF Under, Creates, Updates, At
  <2>3. Agrees(file)'
    BY <2>1, <2>2 DEF FileInv, Agrees
  <2>4. ASSUME NEW u \in Threads PROVE ~ Under(u)' /\ FileOf(u)'
    BY <2>1, NotUnder
  <2> QED
    BY <2>3, <2>4 DEF FileInv
<1>13. CASE UNCHANGED <<row, file, thread, torn>>
  BY <1>13, FileRests
<1>14. \/ \E r \in Requests, t \in Threads : Stage(t, r) \/ Open(t, r)
       \/ \E t \in Threads : ThreadStep(t)
       \/ \E s \in Syncs : Apply(s)
       \/ Die
       \/ UNCHANGED <<row, file, thread, torn>>
  BY DEF Next, TakeUp, Look, ReadFiles, StartWork, FinishWork, Validate, Enqueue, vars, control
<1> QED
  BY <1>1, <1>2, <1>3, <1>4, <1>5, <1>6, <1>7, <1>8, <1>9, <1>10, <1>11, <1>12, <1>13, <1>14
     DEF ThreadStep, CreateStep

-----------------------------------------------------------------------------
(* Repository and data directory. *)

(* A step that leaves row and stores alone, and starts and ends no create.  *)
LEMMA TreeRests ==
  ASSUME TreeInv, UNCHANGED <<row, file, tree>>, torn' = torn \/ "tree" \in torn',
         \A u \in Threads : Creates(u)' <=> Creates(u),
         \A u \in Threads : Creates(u) => thread'[u].placed = thread[u].placed
  PROVE  TreeInv'
  BY DEF TreeInv, Placed, tree

(* A project that is there when the step ends has no create under way.      *)
LEMMA TreeStays ==
  ASSUME TreeInv, "tree" \notin torn, UNCHANGED tree, row # None, row' # None,
         \A u \in Threads : Creates(u)' => Creates(u)
  PROVE  TreeInv'
  BY DEF TreeInv, tree

(* A step by the only thread that may create. *)
LEMMA OneCreates ==
  ASSUME NEW t \in Threads, Alone(t), UNCHANGED row, row = None,
         \A u \in Threads : Creates(u) => u = t,
         Creates(t)' => Placed(thread[t].placed)',
         ~ Creates(t)' => Placed(0)'
  PROVE  TreeInv'
<1>1. ASSUME NEW u \in Threads, u # t PROVE ~ Creates(u)'
  BY <1>1 DEF Alone, Creates, Request
<1>2. Creates(t)' => \E u \in Threads : Creates(u)'
  OBVIOUS
<1> QED
  BY <1>1, <1>2 DEF TreeInv

LEMMA TreeStep == CoreInv /\ LockInv /\ TreeInv /\ [Next]_vars => TreeInv'
<1> SUFFICES ASSUME CoreInv, LockInv, TreeInv, [Next]_vars, "tree" \notin torn'
             PROVE  TreeInv'
  BY DEF TreeInv
<1> TypeOK
  BY DEF CoreInv
<1>1. ASSUME NEW r \in Requests, NEW t \in Threads, Stage(t, r) PROVE TreeInv'
  <2>1. /\ Alone(t) /\ thread'[t].step = "staged" /\ thread[t].step = "idle"
        /\ UNCHANGED <<row, file, tree, torn>>
    <3>1. thread[t].step = "idle"
      BY <1>1 DEF Stage, Takes, Idle
    <3>2. UNCHANGED <<row, file, tree, torn>>
      BY <1>1 DEF Stage
    <3> QED
      BY <1>1, <3>1, <3>2, StageMoves
  <2>2. ASSUME NEW u \in Threads PROVE
          (Creates(u)' <=> Creates(u)) /\ (Creates(u) => thread'[u].placed = thread[u].placed)
    <3>1. CASE u = t
      BY <2>1, <3>1 DEF Creates
    <3>2. CASE u # t
      BY <2>1, <3>2 DEF Creates, Alone, Request
    <3> QED
      BY <3>1, <3>2
  <2> QED
    BY <2>1, <2>2, TreeRests
<1>2. ASSUME NEW r \in Requests, NEW t \in Threads, Open(t, r) PROVE TreeInv'
  <2>1. /\ Alone(t) /\ thread'[t].step = "write" /\ row # None
        /\ UNCHANGED <<row, tree>> /\ "tree" \notin torn
    BY <1>2, OpenMoves DEF Open
  <2>2. ASSUME NEW u \in Threads PROVE Creates(u)' => Creates(u)
    BY <2>1 DEF Creates, Alone, Request
  <2> QED
    BY <2>1, <2>2, TreeStays
<1>3. ASSUME NEW t \in Threads, OpenCreate(t) PROVE TreeInv'
  <2>1. /\ "tree" \notin torn /\ UNCHANGED <<row, file, tree>> /\ row = None
        /\ At(t, "staged")
    BY <1>3 DEF OpenCreate
  <2>2. ~ Creates(t)
    BY <2>1 DEF Creates, At
  <2>3. \A u \in Threads : ~ Creates(u)
    BY <2>1, <2>2, NotHolding
  <2>4. Placed(0)
    BY <2>1, <2>3 DEF TreeInv
  <2>5. Placed(Found)'
    BY <2>1, <2>4, ConstantsAssumption DEF Placed, Found, tree
  <2>6. Creates(t)' /\ Alone(t) /\ Placed(thread[t].placed)'
    <3>1. /\ thread'[t].step = "place" /\ Kind[thread'[t].request] = "create"
          /\ thread'[t].placed = Found /\ Alone(t)
      BY <1>3, <2>1, OpenCreateMoves DEF CoreInv, Entitled
    <3> QED
      BY <2>5, <3>1 DEF Creates, Request, Placed, Found
  <2> QED
    BY <2>1, <2>3, <2>6, OneCreates
<1>4. ASSUME NEW t \in Threads, DeclineCreate(t) PROVE TreeInv'
  <2>1. /\ thread'[t].step = "idle" /\ thread[t].step = "staged" /\ UNCHANGED <<row, file, tree, torn>>
        /\ \A u \in Threads \ {t} : thread'[u] = thread[u]
    BY <1>4, RestIdles DEF DeclineCreate, At
  <2>2. ASSUME NEW u \in Threads PROVE
          (Creates(u)' <=> Creates(u)) /\ (Creates(u) => thread'[u].placed = thread[u].placed)
    <3>1. CASE u = t
      BY <2>1, <3>1 DEF Creates
    <3>2. CASE u # t
      BY <2>1, <3>2 DEF Creates, Request
    <3> QED
      BY <3>1, <3>2
  <2> QED
    BY <2>1, <2>2, TreeRests
<1>5. ASSUME NEW t \in Threads, Place(t) PROVE TreeInv'
  <2>0. PICK n \in 0 .. 2 : n = thread[t].placed
    BY <1>5, PlaceMoves
  <2>1. /\ "tree" \notin torn /\ UNCHANGED row /\ At(t, "place")
        /\ repo' = (repo \/ n + 1 = 1) /\ data' = (data \/ n + 1 = 2)
        /\ file' = IF n + 1 = 3 THEN FirstConfig(Request(t)) ELSE file
    BY <1>5, <2>0 DEF Place
  <2>2. Creates(t)
    BY <1>5, <2>1, PlaceMoves DEF Creates, At
  <2>3. row = None /\ Placed(n) /\ \A u \in Threads : Creates(u) => u = t
    BY <2>0, <2>1, <2>2, NotHolding DEF TreeInv
  <2>4. FirstConfig(Request(t)) # None
    <3>1. FirstConfig(Request(t)) \in Configs
      BY <1>5, PlaceMoves, ConstantsAssumption DEF FirstConfig, Configs
    <3> QED
      BY <3>1, ConstantsAssumption
  <2>5. Placed(n + 1)'
    <3>1. (file' = None) <=> n + 1 < 3
      BY <2>1, <2>3, <2>4 DEF Placed
    <3>2. data' <=> n + 1 >= 2
      <4>1. n + 1 >= 2 <=> n >= 2 \/ n + 1 = 2
        OBVIOUS
      <4>2. data <=> n >= 2
        BY <2>3 DEF Placed
      <4> QED
        BY <2>1, <4>1, <4>2, Zenon
    <3>3. repo' <=> Existing \/ n + 1 >= 1
      <4>1. n + 1 >= 1 <=> n >= 1 \/ n + 1 = 1
        OBVIOUS
      <4>2. repo <=> Existing \/ n >= 1
        BY <2>3 DEF Placed
      <4> QED
        BY <2>1, <4>1, <4>2, Zenon
    <3> QED
      BY <3>1, <3>2, <3>3 DEF Placed
  <2>6. Creates(t)' /\ Alone(t) /\ thread'[t].placed = n + 1
    BY <1>5, <2>0, PlaceMoves DEF Creates, Request
  <2>7. Placed(thread[t].placed)'
    BY <2>5, <2>6 DEF Placed
  <2> QED
    BY <2>1, <2>3, <2>6, <2>7, OneCreates
<1>6. ASSUME NEW t \in Threads, Cleanup(t) PROVE TreeInv'
  <2>0. PICK n \in 0 .. 3 : n = thread[t].placed
    BY ThreadTyped DEF Working
  <2>1. /\ "tree" \notin torn /\ UNCHANGED row /\ At(t, "cleanup")
        /\ file' = IF n = 3 THEN None ELSE file
        /\ data' = (data /\ n # 2)
        /\ repo' = (repo /\ ~ (n = 1 /\ Found = 0))
    BY <1>6, <2>0, CleanupUndoes DEF Cleanup
  <2>2. Creates(t)
    BY <2>1 DEF LockInv, Holds, Creates, At
  <2>3. row = None /\ Placed(n) /\ \A u \in Threads : Creates(u) => u = t
    BY <2>0, <2>1, <2>2, NotHolding DEF TreeInv
  <2>4. file' = None
    BY <2>1, <2>2, <2>3 DEF Placed
  <2>5. /\ Existing => Found = 1
        /\ ~ Existing => Found = 0
    BY DEF Found
  <2>6. CASE n > Found + 1
    <3>1. Placed(n - 1)'
      <4>1. n \in {2, 3} /\ (n - 1 < 3)
        BY <2>5, <2>6, FoundTyped
      <4>2. data' <=> n - 1 >= 2
        <5>1. n - 1 >= 2 <=> n >= 2 /\ n # 2
          OBVIOUS
        <5>2. data <=> n >= 2
          BY <2>3 DEF Placed
        <5> QED
          BY <2>1, <5>1, <5>2, Zenon
      <4>3. repo' <=> Existing \/ n - 1 >= 1
        <5>1. n # 1 /\ n >= 1 /\ n - 1 >= 1
          BY <4>1
        <5>2. repo <=> Existing \/ n >= 1
          BY <2>3 DEF Placed
        <5> QED
          BY <2>1, <5>1, <5>2, Zenon
      <4> QED
        BY <2>4, <4>1, <4>2, <4>3 DEF Placed
    <3>2. Alone(t) /\ Creates(t)' /\ thread'[t].placed = n - 1
      BY <1>6, <2>0, <2>2, <2>6, CleanupMoves DEF Creates, Request
    <3>3. Placed(thread[t].placed)'
      BY <3>1, <3>2 DEF Placed
    <3> QED
      BY <2>1, <2>3, <3>2, <3>3, OneCreates
  <2>7. CASE ~ (n > Found + 1)
    <3>1. Placed(0)'
      <4>1. n \in 0 .. 2 /\ (~ Existing => n \in 0 .. 1)
        BY <2>5, <2>7, FoundTyped
      <4>2. ~ data'
        <5>1. ~ (n >= 2 /\ n # 2)
          BY <4>1
        <5>2. data <=> n >= 2
          BY <2>3 DEF Placed
        <5> QED
          BY <2>1, <5>1, <5>2, Zenon
      <4>3. repo' <=> Existing
        BY <2>1, <2>3, <2>5, <4>1, ConstantsAssumption DEF Placed
      <4>4. ~ (0 >= 1) /\ ~ (0 >= 2) /\ 0 < 3
        OBVIOUS
      <4> QED
        BY <2>4, <4>2, <4>3, <4>4, ConstantsAssumption DEF Placed
    <3>2. Alone(t) /\ thread'[t].step = "idle"
      BY <1>6, <2>0, <2>7, CleanupMoves
    <3>3. ~ Creates(t)'
      BY <3>2 DEF Creates
    <3> QED
      BY <2>1, <2>3, <3>1, <3>2, <3>3, OneCreates
  <2> QED
    BY <2>6, <2>7
<1>7. ASSUME NEW t \in Threads, Write(t) PROVE TreeInv'
  <2>1. /\ "tree" \notin torn /\ UNCHANGED <<row, tree>> /\ row # None
        /\ thread' = Goto(t, "commit") /\ Kind[Request(t)] # "create"
    BY <1>7 DEF Write, CoreInv, Entitled, Writing, At
  <2>2. ASSUME NEW u \in Threads PROVE Creates(u)' => Creates(u)
    BY <2>1, GotoGoes DEF Creates, Request
  <2> QED
    BY <2>1, <2>2, TreeStays
<1>8. ASSUME NEW t \in Threads, Commit(t) PROVE TreeInv'
  <2>1. /\ "tree" \notin torn /\ UNCHANGED tree /\ thread' = Rest(t) /\ At(t, "commit")
    BY <1>8 DEF Commit
  <2>2. ASSUME NEW u \in Threads PROVE Creates(u)' => Creates(u) /\ u # t
    BY <2>1, RestIdles DEF Creates, Request
  <2>3. CASE Kind[Request(t)] = "create"
    <3>1. Creates(t) /\ thread[t].placed = 3
      BY <2>1, <2>3 DEF Creates, At, LockInv, Holds
    <3>2. Placed(3) /\ \A u \in Threads : ~ Creates(u)'
      BY <2>1, <2>2, <3>1, NotHolding DEF TreeInv
    <3>3. data' /\ repo'
      <4>1. data /\ repo
        BY <3>2 DEF Placed
      <4> QED
        BY <2>1, <4>1 DEF tree
    <3>4. row' # None
      <4>1. row' = [hash |-> FirstConfig(Request(t)), enabled |-> FALSE, archived |-> FALSE, revision |-> FirstRevision]
        BY <1>8, <2>3 DEF Commit
      <4>2. Request(t) \in Requests
        BY <2>1 DEF TypeOK, At, Request
      <4>3. row' \in Rows
        BY <4>1, <4>2, ConstantsAssumption DEF Rows, FirstRevision, FirstConfig, Configs
      <4> QED
        BY <4>3, ConstantsAssumption
    <3> QED
      BY <3>2, <3>3, <3>4 DEF TreeInv
  <2>4. CASE Kind[Request(t)] # "create"
    <3>1. row # None /\ row' # None
      BY <2>1, <2>4, RowStep DEF CoreInv, Entitled, Writing, At, Advances
    <3> QED
      BY <2>1, <2>2, <3>1, TreeStays
  <2> QED
    BY <2>3, <2>4
<1>9. ASSUME NEW t \in Threads, Abort(t) PROVE TreeInv'
  <2> DEFINE s == IF Kind[Request(t)] = "create" THEN "cleanup" ELSE "restore"
  <2>1. /\ UNCHANGED <<row, file, tree, torn>> /\ thread' = Goto(t, s)
        /\ thread[t].step \in {"place", "write", "commit"} /\ (At(t, "write") => Kind[Request(t)] # "create")
    BY <1>9 DEF Abort, CoreInv, Entitled, At
  <2>2. ASSUME NEW u \in Threads PROVE
          (Creates(u)' <=> Creates(u)) /\ (Creates(u) => thread'[u].placed = thread[u].placed)
    <3>1. CASE u = t
      BY <2>1, <3>1, GotoGoes DEF Creates, Request, At
    <3>2. CASE u # t
      BY <2>1, <3>2, GotoGoes DEF Creates, Request
    <3> QED
      BY <3>1, <3>2
  <2> QED
    BY <2>1, <2>2, TreeRests
<1>10. ASSUME NEW t \in Threads, Restore(t) PROVE TreeInv'
  <2>1. /\ "tree" \notin torn /\ UNCHANGED <<row, tree>> /\ thread' = Rest(t) /\ At(t, "restore")
    BY <1>10 DEF Restore
  <2>2. row # None
    BY <2>1 DEF LockInv, Holds, Updates, At
  <2>3. ASSUME NEW u \in Threads PROVE Creates(u)' => Creates(u)
    BY <2>1, RestIdles DEF Creates, Request
  <2> QED
    BY <2>1, <2>2, <2>3, TreeStays
<1>11. ASSUME NEW s \in Syncs, Apply(s) PROVE TreeInv'
  <2> DEFINE c == sync[s].seen
             current == c = file /\ ~ Some("restore") /\ ~ Some("cleanup")
  <2>1. /\ writer = None /\ UNCHANGED <<file, tree, thread>>
        /\ row' = IF c = None THEN Withdrawn ELSE Upserted(c)
        /\ torn' = IF ~ current
                     THEN torn \cup {"file"} \cup IF row = None /\ c # None THEN {"tree"} ELSE {}
                     ELSE torn \ IF c # None \/ row = None THEN {"file"} ELSE {}
    BY <1>11 DEF Apply, control
  <2>2. "tree" \notin torn /\ (row = None /\ c # None => current)
    BY <2>1
  <2>3. ASSUME NEW u \in Threads
        PROVE  (Creates(u)' <=> Creates(u)) /\ thread'[u].placed = thread[u].placed
    BY <2>1 DEF Creates, Request
  <2>4. CASE row # None
    <3>1. row' # None
      BY <2>4, RowStep DEF Advances
    <3> QED
      BY <2>1, <2>2, <2>3, <2>4, <3>1, TreeStays
  <2>5. CASE row = None /\ c = None
    <3>1. row' = row
      BY <2>1, <2>5 DEF Withdrawn
    <3>2. /\ \A u \in Threads : Creates(u) => row = None /\ Placed(thread[u].placed)
          /\ row = None /\ (\A u \in Threads : ~ Creates(u)) => Placed(0)
      BY <2>2 DEF TreeInv
    <3> QED
      BY <2>1, <2>3, <2>5, <3>1, <3>2 DEF TreeInv, Placed, tree
  <2>6. CASE row = None /\ c # None
    <3>1. c = file /\ \A u \in Threads : ~ At(u, "restore") /\ ~ At(u, "cleanup")
      BY <2>2, <2>6 DEF Some
    <3>2. \A u \in Threads : ~ Creates(u)
      BY <2>1, <3>1, UnderWay, ConstantsAssumption DEF Under
    <3>3. Placed(0)
      BY <2>2, <2>6, <3>2 DEF TreeInv
    <3> QED
      BY <2>6, <3>1, <3>3 DEF Placed
  <2> QED
    BY <2>4, <2>5, <2>6
<1>12. CASE Die
  <2>1. /\ UNCHANGED <<row, file, tree>> /\ torn' = torn
        /\ \A u \in Threads : At(u, "idle") /\ thread'[u].step = "idle"
    <3>1. \A u \in Threads : At(u, "idle")
      BY <1>12 DEF Die
    <3>2. torn' = torn
      BY <1>12, <3>1 DEF Die
    <3> QED
      BY <1>12, <3>1, <3>2 DEF Die, Idle
  <2>2. ASSUME NEW u \in Threads PROVE ~ Creates(u) /\ ~ Creates(u)'
    BY <2>1 DEF Creates, At
  <2> QED
    BY <2>1, <2>2, TreeRests
<1>13. CASE UNCHANGED <<row, file, tree, thread, torn>>
  <2>1. ASSUME NEW u \in Threads PROVE Creates(u)' <=> Creates(u)
    BY <1>13 DEF Creates, Request
  <2> QED
    BY <1>13, <2>1, TreeRests
<1>14. \/ \E r \in Requests, t \in Threads : Stage(t, r) \/ Open(t, r)
       \/ \E t \in Threads : ThreadStep(t)
       \/ \E s \in Syncs : Apply(s)
       \/ Die
       \/ UNCHANGED <<row, file, tree, thread, torn>>
  BY DEF Next, TakeUp, Look, ReadFiles, StartWork, FinishWork, Validate, Enqueue, vars, control, tree
<1> QED
  BY <1>1, <1>2, <1>3, <1>4, <1>5, <1>6, <1>7, <1>8, <1>9, <1>10, <1>11, <1>12, <1>13, <1>14
     DEF ThreadStep, CreateStep

LEMMA StoresInit == Init => StoresInv
<1> SUFFICES ASSUME Init PROVE StoresInv
  OBVIOUS
<1>1. ASSUME NEW t \in Threads
      PROVE  Holds(t) /\ FileOf(t) /\ ~ Under(t) /\ ~ Creates(t)
  <2>1. thread[t].step = "idle"
    BY DEF Init, Idle
  <2> QED
    BY <2>1 DEF Holds, FileOf, Under, Creates, Updates, At
<1>2. Agrees(file)
  BY DEF Init, Agrees
<1>3. Placed(0)
  BY ConstantsAssumption DEF Init, Placed
<1>4. row = None
  BY DEF Init
<1> QED
  BY <1>1, <1>2, <1>3, <1>4 DEF StoresInv, LockInv, FileInv, TreeInv

LEMMA StoresFollow == TypeOK /\ StoresInv => StoresFollowRow
<1> SUFFICES ASSUME TypeOK, StoresInv, Quiet
             PROVE  /\ "file" \notin torn => FileAgrees
                    /\ "tree" \notin torn =>
                         IF row = None THEN ~ data /\ repo = Existing ELSE data /\ repo
  BY DEF StoresFollowRow
<1>1. \A t \in Threads : ~ Under(t) /\ ~ Creates(t)
  BY DEF Quiet, At, Under, Creates, Updates
<1>2. "file" \notin torn => FileAgrees
  BY <1>1 DEF StoresInv, FileInv, Agrees, FileAgrees
<1>3. "tree" \notin torn => IF row = None THEN Placed(0) ELSE data /\ repo
  BY <1>1 DEF StoresInv, TreeInv
<1>4. Placed(0) => ~ data /\ (repo <=> Existing)
  BY DEF Placed
<1>5. repo \in BOOLEAN /\ Existing \in BOOLEAN
  BY ConstantsAssumption DEF TypeOK
<1>6. (repo <=> Existing) => repo = Existing
  BY <1>5
<1> QED
  BY <1>2, <1>3, <1>4, <1>6

(* Row and files are two stores with no common transaction.  The file       *)
(* follows the row all the same: a request has the write lock from its      *)
(* backup to its commit, and puts the backup back, or cleans up, before     *)
(* anything that relies on the file, or else torn says so.                  *)
THEOREM StoresInStep == Spec => []StoresFollowRow
<1>1. Init => StoresInv /\ ArchivedIsIdle
  BY StoresInit DEF Init, ArchivedIsIdle
<1>2. CoreInv /\ ArchivedIsIdle /\ StoresInv /\ [Next]_vars => StoresInv'
  BY LockStep, FileStep, TreeStep DEF StoresInv
<1>3. CoreInv /\ StoresInv => StoresFollowRow
  BY StoresFollow DEF CoreInv
<1> QED
  BY <1>1, <1>2, <1>3, ArchiveIsFinal, CoreCorrect, PTL DEF Spec
=============================================================================
