---------------------------- MODULE ControlPlane ----------------------------
(***************************************************************************)
(* What a control plane promises its two kinds of callers, whatever it     *)
(* stores its rows in: the owner surface ReplayControlPlane                *)
(* (src/causalops/api.py) and the worker surface WorkerControlPlane        *)
(* (src/causalops/api_runtime.py).  There are no rows, tokens, leases,     *)
(* clocks or processes here, only jobs that move between stages, owner     *)
(* decisions that are taken once, reports that are kept, and one lab.      *)
(* ReplayQueue (SQLite) and FirestoreControlPlane implement it.            *)
(***************************************************************************)
CONSTANTS
    Job,
    Decision,
    Report,
    None

VARIABLES
    stage,     \* where each job stands
    scenario,  \* a scenario of the lab was reserved for it
    decision,  \* what its owner decided, None before
    report     \* its published report, None before

abstractVars == <<stage, scenario, decision, report>>

Stage == {"absent", "queued", "running", "paused", "completed", "failed"}

AbstractInit ==
    /\ stage = [j \in Job |-> "absent"]
    /\ scenario = [j \in Job |-> FALSE]
    /\ decision = [j \in Job |-> None]
    /\ report = [j \in Job |-> None]

\* A job that reserved the lab keeps it until it pauses or ends.
KeepsLab(st, j) ==
    st[j] \in {"queued", "running"} /\ scenario[j] /\ decision[j] = None

\* j may be handed to a worker: nobody runs, and nobody else keeps the lab
\* unless j only resumes from its owner's decision.
MayStart(st, j) ==
    /\ st[j] = "queued"
    /\ \A k \in Job : st[k] # "running"
    /\ decision[j] = None => \A k \in Job \ {j} : ~KeepsLab(st, k)

Create(j) ==
    /\ stage[j] = "absent"
    /\ stage' = [stage EXCEPT ![j] = "queued"]
    /\ UNCHANGED <<scenario, decision, report>>

Start(j) ==
    /\ MayStart(stage, j)
    /\ stage' = [stage EXCEPT ![j] = "running"]
    /\ UNCHANGED <<scenario, decision, report>>

\* A worker loses or gives back its job: it is tried again, or given up.
Lapse(j, to) ==
    /\ stage[j] = "running"
    /\ stage' = [stage EXCEPT ![j] = to]
    /\ UNCHANGED <<scenario, decision, report>>

\* One poll may take a job from a worker and hand out another one.
LapseAndStart(i, to, j) ==
    LET lapsed == [stage EXCEPT ![i] = to]
    IN  /\ stage[i] = "running"
        /\ MayStart(lapsed, j)
        /\ stage' = [lapsed EXCEPT ![j] = "running"]
        /\ UNCHANGED <<scenario, decision, report>>

Reserve(j) ==
    /\ stage[j] = "running"
    /\ scenario' = [scenario EXCEPT ![j] = TRUE]
    /\ UNCHANGED <<stage, decision, report>>

Pause(j) ==
    /\ stage[j] = "running"
    /\ decision[j] = None
    /\ stage' = [stage EXCEPT ![j] = "paused"]
    /\ UNCHANGED <<scenario, decision, report>>

Decide(j, d) ==
    /\ stage[j] = "paused"
    /\ stage' = [stage EXCEPT ![j] = "queued"]
    /\ decision' = [decision EXCEPT ![j] = d]
    /\ UNCHANGED <<scenario, report>>

\* The owner decided at the checkpoint before the worker reported the pause.
PauseDecided(j, d) ==
    /\ stage[j] = "running"
    /\ decision[j] = None
    /\ stage' = [stage EXCEPT ![j] = "queued"]
    /\ decision' = [decision EXCEPT ![j] = d]
    /\ UNCHANGED <<scenario, report>>

Complete(j, r) ==
    /\ stage[j] = "running"
    /\ stage' = [stage EXCEPT ![j] = "completed"]
    /\ report' = [report EXCEPT ![j] = r]
    /\ UNCHANGED <<scenario, decision>>

AbstractNext ==
    \/ \E j \in Job :
          \/ Create(j) \/ Start(j) \/ Reserve(j) \/ Pause(j)
          \/ \E to \in {"queued", "failed"} : Lapse(j, to)
          \/ \E i \in Job, to \in {"queued", "failed"} : LapseAndStart(i, to, j)
          \/ \E d \in Decision : Decide(j, d) \/ PauseDecided(j, d)
          \/ \E r \in Report : Complete(j, r)

AbstractSpec == AbstractInit /\ [][AbstractNext]_abstractVars
=============================================================================
