--------------------------- MODULE ProjectRegistry ---------------------------
(***************************************************************************)
(* One registered project: its row in "projects", its compatibility file   *)
(* under config/projects.d, its repository and its data directory.  The    *)
(* Controller changes them by requests that carry an Idempotency-Key and   *)
(* the revision their sender has read; hermesops-registry sync copies the  *)
(* file into the row; runs and objectives make the project busy.  Row and  *)
(* files are two stores: a request writes the file inside its transaction  *)
(* and takes it back after the rollback.                                   *)
(***************************************************************************)
EXTENDS Integers, FiniteSets

CONSTANTS
  Requests,   \* requests to the Controller, one per Idempotency-Key
  Kind,       \* the command of each
  Names,      \* display names
  NameOf,     \* the name a create or an update carries
  Threads,    \* threads of the HTTP server
  Syncs,      \* runs of hermesops-registry sync (a bound on their number)
  Works,      \* kinds of work that may keep the project busy
  Existing,   \* repository mode: TRUE for "existing", FALSE for clone and initialize
  DiskFails,  \* TRUE: a write, a commit or their undoing may fail outside the program
  MaxDeaths,  \* bound on deaths of the server
  None        \* no row, no file, no thread, no request

Commands == {"create", "update", "enable", "disable", "rescan", "archive"}
(* What a file says, and what config_hash stands for.                       *)
Configs == [name : Names, enabled : BOOLEAN]
Rows == [hash : Configs, enabled : BOOLEAN, archived : BOOLEAN, revision : Nat \ {0}]

ASSUME ConstantsAssumption ==
  /\ Kind \in [Requests -> Commands]
  /\ NameOf \in [Requests -> Names]
  /\ Existing \in BOOLEAN /\ DiskFails \in BOOLEAN
  /\ MaxDeaths \in Nat
  /\ Works \subseteq {"run", "objective", "submitted"}
  /\ None \notin Configs \cup Threads \cup Requests
  /\ None \notin Rows

VARIABLES
  row,        \* the row of "projects"
  file,       \* the file under config/projects.d
  repo,       \* does the repository exist?
  data,       \* does the data directory exist?
  busy,       \* an active run, an objective of the Controller, one of hermesops-objectives
  submitting, \* has a hermesops-objectives submit seen the project enabled?
  writer,     \* the thread whose transaction holds SQLite's write lock
  creating,   \* the thread that holds project-create.lock
  thread,     \* where each thread is
  view,       \* the row that the sender of a request has read
  done,       \* completed idempotency rows of a key, with operation, audit and event
  sync,       \* where each run of the synchronisation is
  deaths,     \* deaths so far
  torn        \* history: what may be out of step, and why it may be is below

tree    == <<repo, data>>
control == <<writer, creating, thread>>
work    == <<busy, submitting>>
vars == <<row, file, repo, data, busy, submitting, writer, creating, thread, view, done, sync, deaths, torn>>

(* A thread: its request, the backup of the file it will put back, and how  *)
(* many of repository, data directory and file it has put in place.         *)
Idle == [step |-> "idle", request |-> None, backup |-> None, placed |-> 0]
Working == [step : {"idle", "staged", "place", "write", "commit", "restore", "cleanup"},
            request : Requests \cup {None}, backup : Configs \cup {None}, placed : 0 .. 3]

TypeOK ==
  /\ row \in Rows \cup {None}
  /\ file \in Configs \cup {None}
  /\ repo \in BOOLEAN /\ data \in BOOLEAN
  /\ busy \subseteq {"run", "objective", "submitted"} /\ submitting \in BOOLEAN
  /\ writer \in Threads \cup {None} /\ creating \in Threads \cup {None}
  /\ thread \in [Threads -> Working]
  /\ \A t \in Threads : thread[t].step # "idle" => thread[t].request \in Requests
  /\ view \in [Requests -> Rows \cup {None}]
  /\ done \in [Requests -> Nat]
  /\ sync \in [Syncs -> [step : {"ready", "read", "ended"}, seen : Configs \cup {None}]]
  /\ deaths \in 0 .. MaxDeaths
  /\ torn \subseteq {"file", "tree"}

Init ==
  /\ row = None /\ file = None
  /\ repo = Existing /\ data = FALSE /\ busy = {} /\ submitting = FALSE
  /\ writer = None /\ creating = None
  /\ thread = [t \in Threads |-> Idle]
  /\ view = [r \in Requests |-> None]
  /\ done = [r \in Requests |-> 0]
  /\ sync = [s \in Syncs |-> [step |-> "ready", seen |-> None]]
  /\ deaths = 0 /\ torn = {}

At(t, step)   == thread[t].step = step
Request(t)    == thread[t].request
Goto(t, step) == [thread EXCEPT ![t].step = step]
Rest(t)       == [thread EXCEPT ![t] = Idle]
Some(step)    == \E t \in Threads : At(t, step)

-----------------------------------------------------------------------------
(* The sender of a request, and its deliveries.  A request may arrive at    *)
(* any time, as often as it likes, and in several threads at once.  One     *)
(* that is answered from its key's row, or refused by a check or a busy     *)
(* database before anything was written, changes nothing and is no step.    *)

(* GET /projects/{id}: the ETag becomes the request's If-Match.             *)
Look(r) ==
  /\ Kind[r] # "create" /\ row # None /\ view[r] = None
  /\ view' = [view EXCEPT ![r] = row]
  /\ UNCHANGED <<row, file, tree, work, control, done, sync, deaths, torn>>

\* Variant: the key is looked up, but a request under way is not waited for.
NeverReplayed(r) == FALSE
(* _replay_or_reserve finds a completed row *)
Replayed(r) == done[r] > 0

(* Thread t takes up request r. *)
Takes(t, r) == thread[t] = Idle /\ ~ Replayed(r)

-----------------------------------------------------------------------------
(* create_project.                                                         *)

(* What was there before a create, of the three things it puts in place.    *)
Found == IF Existing THEN 1 ELSE 0

PathConflict == file # None \/ data \/ repo # Existing

(* Under the create lock: lookup, path checks, staged repository and data.  *)
Stage(t, r) ==
  /\ Kind[r] = "create" /\ Takes(t, r)
  /\ creating = None /\ ~ PathConflict
  /\ creating' = t
  /\ thread' = [thread EXCEPT ![t].step = "staged", ![t].request = r]
  /\ UNCHANGED <<row, file, tree, work, writer, view, done, sync, deaths, torn>>

(* The transaction of a create.                                             *)
OpenCreate(t) ==
  /\ At(t, "staged") /\ writer = None
  /\ ~ Replayed(Request(t)) /\ row = None
  /\ writer' = t
  /\ thread' = [thread EXCEPT ![t].step = "place", ![t].placed = Found]
  /\ UNCHANGED <<row, file, tree, work, creating, view, done, sync, deaths, torn>>

(* A repository that git cannot prepare, a row that is already there, or a  *)
(* lock that SQLite does not get in time.                                  *)
DeclineCreate(t) ==
  /\ At(t, "staged")
  /\ creating' = None
  /\ thread' = Rest(t)
  /\ UNCHANGED <<row, file, tree, work, writer, view, done, sync, deaths, torn>>

FirstRevision == 1
FirstConfig(r) == [name |-> NameOf[r], enabled |-> FALSE]

(* os.replace of the repository, then of the data directory, then the file. *)
Place(t) ==
  /\ At(t, "place")
  /\ LET n == thread[t].placed + 1 IN
     /\ repo' = (repo \/ n = 1)
     /\ data' = (data \/ n = 2)
     /\ file' = IF n = 3 THEN FirstConfig(Request(t)) ELSE file
     /\ thread' = [thread EXCEPT ![t].placed = n,
                                 ![t].step = IF n = 3 THEN "commit" ELSE "place"]
  /\ UNCHANGED <<row, work, writer, creating, view, done, sync, deaths, torn>>

(* After the rollback: the file, the data directory and the repository, if  *)
(* this request has put them in place.  One that cannot be removed stays:   *)
(* errors are ignored, and a file whose replacement raised late is not even *)
(* taken for created.                                                      *)
Cleanup(t) ==
  /\ At(t, "cleanup")
  /\ \E stays \in {FALSE, DiskFails /\ thread[t].placed > Found} :
       LET n == thread[t].placed
           gone(k) == n = k /\ ~ stays
       IN  /\ file' = IF gone(3) THEN None ELSE file
           /\ data' = (data /\ ~ gone(2))
           /\ repo' = (repo /\ ~ (gone(1) /\ Found = 0))
           /\ torn' = torn \cup (IF stays THEN {"tree"} ELSE {})
                           \cup (IF stays /\ n = 3 THEN {"file"} ELSE {})
  /\ LET n == thread[t].placed IN
       IF n > Found + 1
         THEN thread' = [thread EXCEPT ![t].placed = n - 1] /\ UNCHANGED creating
         ELSE thread' = Rest(t) /\ creating' = None
  /\ UNCHANGED <<row, work, writer, view, done, sync, deaths>>

-----------------------------------------------------------------------------
(* update_project and command_project.                                     *)

\* Variant: a revision that is older than the row's is accepted.
Unconditional(r) == row # None
(* If-Match *)
Matches(r) == row # None /\ row.revision = view[r].revision

(* _active_work *)
Blocked(r) == Kind[r] \in {"disable", "archive"} /\ busy # {}

Allowed(r) ==
  /\ Matches(r)
  /\ row.archived => Kind[r] = "rescan"
  /\ ~ Blocked(r)
  /\ Kind[r] # "update" => repo
  /\ file # None

NewConfig(r) ==
  [name    |-> IF Kind[r] = "update" THEN NameOf[r] ELSE row.hash.name,
   enabled |-> CASE Kind[r] = "enable" -> TRUE
                 [] Kind[r] \in {"disable", "archive"} -> FALSE
                 [] OTHER -> row.enabled]
NewContent(r) ==
  [row EXCEPT !.hash = NewConfig(r),
              !.enabled = NewConfig(r).enabled,
              !.archived = row.archived \/ Kind[r] = "archive"]
Changes(r) == NewContent(r) # row
(* An update always counts up, a command only when it changes something.    *)
NewRow(r) ==
  [NewContent(r) EXCEPT !.revision = @ + IF Kind[r] = "update" \/ Changes(r) THEN 1 ELSE 0]

(* The transaction begins, the checks pass, the file is read as a backup.   *)
(* Its content cannot be trusted while another request puts back its own.   *)
Open(t, r) ==
  /\ Kind[r] # "create" /\ Takes(t, r)
  /\ writer = None /\ view[r] # None /\ Allowed(r)
  /\ writer' = t
  /\ thread' = [thread EXCEPT ![t] = [@ EXCEPT !.step = "write", !.request = r, !.backup = file]]
  /\ torn' = torn \cup IF Some("restore") THEN {"file"} ELSE {}
  /\ UNCHANGED <<row, file, tree, work, creating, view, done, sync, deaths>>

(* _atomic_replace, before the row is updated *)
Write(t) ==
  /\ At(t, "write")
  /\ file' = IF Kind[Request(t)] = "update" \/ Changes(Request(t)) THEN NewConfig(Request(t)) ELSE file
  /\ thread' = Goto(t, "commit")
  /\ UNCHANGED <<row, tree, work, writer, creating, view, done, sync, deaths, torn>>

(* The commit: row, operation, audit, event and key together.  The trigger  *)
(* project_resource_revision_stable_guard refuses a revision without change. *)
Commit(t) ==
  /\ At(t, "commit")
  /\ LET r == Request(t) IN
     /\ Kind[r] = "update" => Changes(r)
     /\ row' = IF Kind[r] = "create"
                 THEN [hash |-> FirstConfig(r), enabled |-> FALSE, archived |-> FALSE, revision |-> FirstRevision]
                 ELSE NewRow(r)
     /\ done' = [done EXCEPT ![r] = @ + 1]
  /\ writer' = None
  /\ creating' = IF creating = t THEN None ELSE creating
  /\ thread' = Rest(t)
  /\ UNCHANGED <<file, tree, work, view, sync, deaths, torn>>

(* An exception inside the transaction: the rollback gives the lock away,   *)
(* what was done to the files is undone after it.                           *)
Abort(t) ==
  /\ At(t, "place") \/ At(t, "write") \/ At(t, "commit")
  /\ DiskFails \/ (At(t, "commit") /\ Kind[Request(t)] = "update" /\ ~ Changes(Request(t)))
  /\ writer' = None
  /\ thread' = Goto(t, IF Kind[Request(t)] = "create" THEN "cleanup" ELSE "restore")
  /\ UNCHANGED <<row, file, tree, work, creating, view, done, sync, deaths, torn>>

\* Variant: the backup is forgotten.
KeptFile(t) == file
BackupOf(t) == thread[t].backup

(* After the rollback: the backup replaces the file, or an exception that   *)
(* is ignored keeps it from doing so.                                      *)
Restore(t) ==
  /\ At(t, "restore")
  /\ \/ file' = BackupOf(t) /\ UNCHANGED torn
     \/ /\ DiskFails /\ file # BackupOf(t)
        /\ torn' = torn \cup {"file"} /\ UNCHANGED file
  /\ thread' = Rest(t)
  /\ UNCHANGED <<row, tree, work, writer, creating, view, done, sync, deaths>>

-----------------------------------------------------------------------------
(* hermesops-registry sync: the files are read before the transaction.     *)

ReadFiles(s) ==
  /\ sync[s].step = "ready"
  /\ sync' = [sync EXCEPT ![s] = [step |-> "read", seen |-> file]]
  /\ UNCHANGED <<row, file, tree, work, control, view, done, deaths, torn>>

\* Variant: the file decides, archived or not.
EnabledAsRead(c) == c.enabled
(* An archived project stays disabled. *)
EnabledBy(c) == c.enabled /\ ~ row.archived

(* INSERT ... ON CONFLICT DO UPDATE; the revision counts up when the row    *)
(* changes.                                                                *)
Upserted(c) ==
  IF row = None
    THEN [hash |-> c, enabled |-> c.enabled, archived |-> FALSE, revision |-> FirstRevision]
    ELSE LET next == [row EXCEPT !.hash = c, !.enabled = EnabledBy(c)]
         IN  [next EXCEPT !.revision = @ + IF next # row THEN 1 ELSE 0]
(* A project whose file has not been seen is disabled. *)
Withdrawn ==
  IF row # None /\ row.enabled
    THEN [row EXCEPT !.enabled = FALSE, !.revision = @ + 1]
    ELSE row

(* What was read is not to be relied on if the file has changed since, or   *)
(* if a request is about to take it back; otherwise the row now agrees.     *)
Apply(s) ==
  /\ sync[s].step = "read" /\ writer = None
  /\ LET c == sync[s].seen
         current == c = file /\ ~ Some("restore") /\ ~ Some("cleanup") IN
     /\ row' = IF c = None THEN Withdrawn ELSE Upserted(c)
     /\ torn' = IF ~ current
                  THEN torn \cup {"file"} \cup IF row = None /\ c # None THEN {"tree"} ELSE {}
                  ELSE torn \ IF c # None \/ row = None THEN {"file"} ELSE {}
  /\ sync' = [sync EXCEPT ![s] = [step |-> "ended", seen |-> None]]
  /\ UNCHANGED <<file, tree, work, control, view, done, deaths>>

-----------------------------------------------------------------------------
(* Runs and objectives, and the death of the server.                       *)

(* hermesops-transaction begin; an objective of the Controller.            *)
StartWork(w) ==
  /\ w \in Works \ (busy \cup {"submitted"})
  /\ w = "run" => file # None
  /\ writer = None /\ row # None /\ row.enabled
  /\ busy' = busy \cup {w}
  /\ UNCHANGED <<row, file, tree, submitting, control, view, done, sync, deaths, torn>>

(* hermesops-objectives submit and submit-plan look at the project first    *)
(* and insert the objective in a transaction of its own.                    *)
Validate ==
  /\ "submitted" \in Works \ busy /\ ~ submitting
  /\ row # None /\ row.enabled
  /\ submitting' = TRUE
  /\ UNCHANGED <<row, file, tree, busy, control, view, done, sync, deaths, torn>>
Enqueue ==
  /\ submitting /\ writer = None
  /\ busy' = busy \cup {"submitted"}
  /\ submitting' = FALSE
  /\ UNCHANGED <<row, file, tree, control, view, done, sync, deaths, torn>>

FinishWork(w) ==
  /\ w \in busy
  /\ busy' = busy \ {w}
  /\ UNCHANGED <<row, file, tree, submitting, control, view, done, sync, deaths, torn>>

(* SQLite rolls back, the locks are released, nothing puts the files back.  *)
Die ==
  /\ deaths < MaxDeaths
  /\ deaths' = deaths + 1
  /\ torn' = torn \cup IF \E t \in Threads : ~ At(t, "idle")
                        THEN {"file", "tree"} ELSE {}
  /\ writer' = None /\ creating' = None
  /\ thread' = [t \in Threads |-> Idle]
  /\ UNCHANGED <<row, file, tree, work, view, done, sync>>

(* A thread takes a request up, or goes on with the one it has.             *)
TakeUp(t, r)  == Stage(t, r) \/ Open(t, r)
CreateStep(t) == OpenCreate(t) \/ DeclineCreate(t) \/ Place(t) \/ Cleanup(t)
ThreadStep(t) == CreateStep(t) \/ Write(t) \/ Restore(t) \/ Commit(t) \/ Abort(t)

Next ==
  \/ \E r \in Requests : Look(r) \/ \E t \in Threads : TakeUp(t, r)
  \/ \E t \in Threads : ThreadStep(t)
  \/ \E s \in Syncs : ReadFiles(s) \/ Apply(s)
  \/ \E w \in Works : StartWork(w) \/ FinishWork(w)
  \/ Validate \/ Enqueue \/ Die

Spec == Init /\ [][Next]_vars

-----------------------------------------------------------------------------
(* Properties. *)

(* A command takes effect at most once per Idempotency-Key, however often   *)
(* its request is delivered, in parallel or after a death.                  *)
OnceOnly == \A r \in Requests : done[r] <= 1

(* What a command changes is the row its sender has read: no change made in *)
(* between, by a request or by a synchronisation, is overwritten unseen.    *)
NoLostUpdate ==
  [][\A r \in Requests : done'[r] > done[r] /\ Kind[r] # "create" => view[r] = row]_vars

(* An archived project is disabled, has no run and no objective, and never  *)
(* gets any: neither a synchronisation nor a file brings it back.  Only     *)
(* hermesops-objectives, whose check is not part of its transaction, may    *)
(* come too late.                                                          *)
ArchivedIsIdle ==
  row # None /\ row.archived => ~ row.enabled /\ busy \subseteq {"submitted"}

(* docs/milestones/2S_PROJECT_LIFECYCLE.md: active locks, runs or objectives *)
(* block archive.                                                          *)
ArchivedHasNoWork == row # None /\ row.archived => busy = {}

Quiet == \A t \in Threads : At(t, "idle")

(* The file says what the row says.                                        *)
FileAgrees ==
  /\ row = None <=> file = None
  /\ row # None => /\ file = row.hash
                   /\ row.enabled = (file.enabled /\ ~ row.archived)
(* Between requests the compatibility file agrees with the row, failed      *)
(* requests included.  The exceptions are the four that torn records: the   *)
(* server died on the way, a failed request could not undo what it had      *)
(* written, a request began while another one was putting its backup back, *)
(* or a synchronisation applied what it should not trust.  The next         *)
(* synchronisation that nothing disturbs makes row and file agree again,    *)
(* on what the file says: a change that was refused then takes effect.      *)
(* And a failed create leaves no file, no data and no repository behind,    *)
(* while a registered project has them, unless the server died, something  *)
(* could not be removed, or a synchronisation registered the project while *)
(* its create was being undone.                                            *)
StoresFollowRow ==
  /\ Quiet /\ "file" \notin torn => FileAgrees
  /\ Quiet /\ "tree" \notin torn =>
       IF row = None THEN ~ data /\ repo = Existing ELSE data /\ repo

(* docs/console/PROJECT_LIFECYCLE.md: state and compatibility TOML are      *)
(* committed as one intent, with rollback on failure.                       *)
RegistryAgrees == Quiet => FileAgrees
=============================================================================
