------------------------ MODULE MCControllerCommands ------------------------
(* Instances of ControllerCommands: one planned objective with a pipeline,  *)
(* and two reviews; two sessions, which use a key more than once.           *)
EXTENDS ControllerCommands, TLC

CONSTANTS o1, o2, t1, p1, v1, v2, s1, s2, k1, k2, k3, h1, h2

OneTask    == [t \in Tasks |-> o1]
OneProject == [t \in Pipelines |-> p1]
NoParents  == [t \in Tasks |-> {}]
NoOrder    == {}
Debt       == [v \in Reviews |-> "PASS_WITH_DEBT"]

Request(s, k, c, t) == [session |-> s, key |-> k, command |-> c, target |-> t]

(* One session creates, pauses and resumes the objective; another cancels   *)
(* it.                                                                     *)
Create == Request(s1, k1, "create", o1)
PauseIt == Request(s1, k2, "pause", o1)
ResumeIt == Request(s1, k3, "resume", o1)
CancelIt == Request(s2, k2, "cancel", o1)
OnObjective == {Create, PauseIt, ResumeIt, CancelIt}

(* Two sessions decide on a review; the key of one of them is used again for *)
(* another review, and the key of a token for the other decision.          *)
Token == Request(s2, k1, "csrf", o1)
OnReview == {Request(s1, k1, "acknowledge-debt", v1),
             Request(s1, k1, "request-human-review", v2),
             Request(s2, k1, "request-human-review", v1)}

InTurn == [q \in Requests |-> CASE q = PauseIt -> {Create} [] q = ResumeIt -> {PauseIt}
                                [] OTHER -> {}]
AtOnce == [q \in Requests |-> {}]
AllRequests == OnObjective \cup OnReview \cup {Token}

(* Two scenes: the objective beside the queue's other actors, over a network *)
(* that loses nothing and with one thread; and the reviews, over one that   *)
(* does, with two threads.                                                 *)
VARIABLE scene
SceneVars == <<allVars, scene>>
Cast(q) == q \in scene
SceneInit == CommandInit /\ scene \in {OnObjective, OnReview \cup {Token}}
SceneNext ==
  /\ CommandNext /\ UNCHANGED scene
  /\ \A q \in Requests : Cast(q) \/ copies'[q] = 0
  /\ IF scene = OnObjective THEN losses' = 0 /\ handler'[h2] = Idle
                             ELSE UNCHANGED vars
(* The clients of the second scene keep trying, and the server schedules    *)
(* its threads: one thread for each connection.                            *)
Fairly(A) == scene # OnObjective /\ A /\ UNCHANGED scene
SceneSpec ==
  /\ SceneInit /\ [][SceneNext]_SceneVars
  /\ \A q \in OnReview \cup {Token} :
       /\ WF_SceneVars(Fairly(Send(q)))
       /\ WF_SceneVars(Fairly(\E h \in Handlers : Accept(h, q)))
  /\ \A h \in Handlers : WF_SceneVars(Fairly(ServerStep(h)))

(* Every client of that scene that goes on asking is answered in the end,   *)
(* through conflicts, lost answers and the server's death.                 *)
OnReviewIsAnswered == \A q \in OnReview \cup {Token} : RequestIsAnswered(q)

(* The operator logs in again before the retry. *)
InTwoSessions == {Create, Request(s2, k1, "create", o1)}
=============================================================================
