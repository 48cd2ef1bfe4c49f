------------------------------ MODULE Commands ------------------------------
(***************************************************************************)
(* The processes that work on one run, on top of its lock (RunLock.tla):    *)
(* advance with the agent it starts and waits for, advance --detach and the *)
(* process it leaves behind, the other commands that change the run, and    *)
(* follow, which takes no lock.  src/commands/advance.command.ts,           *)
(* follow.command.ts, src/runs/file-state.store.ts.  Of the run only the    *)
(* number of finished steps and the status of the step in turn are kept;    *)
(* WorkflowRun.tla has the rest.                                            *)
(***************************************************************************)
EXTENDS RunLock

CONSTANTS
    Advancers,  \* processes that may run advance
    Detachers,  \* processes that may run advance --detach
    Child,      \* the detached process, which exists only once it was spawned
    Steps       \* the number of steps of the workflow

ASSUME CommandsAssumption ==
    /\ Child \in Advancers
    /\ Advancers \cup Detachers \subseteq Proc
    /\ "old" \notin Proc
    /\ Steps \in Nat

VARIABLES
    job,        \* where the command of each process stands
    fresh,      \* the state a process read is still the one on disk
    done,       \* state.json: how many steps are complete
    status,     \* state.json: the status of the step in turn
    agent,      \* the agent process each process started
    staging,    \* who wrote staging/<step>/artifact.md: None, an agent, or "old"
    spawned,    \* the child was started and has not asked for the lock yet
    announced,  \* the log has the advance.detached event of the child
    follow,     \* where follow stands
    sawActive   \* the state follow read has a step in progress

work == <<job, fresh, done, status, agent, staging, spawned, announced>>
following == <<follow, sawActive>>
all == <<vars, work, following>>

Job == {"none", "next", "start", "stage", "agent", "close", "fail", "record",
        "read", "save", "spawn", "announce", "done"}

(* Every variable of the commands keeps its type. *)
CommandsTypeOK ==
    /\ job \in [Proc -> Job]
    /\ fresh \in [Proc -> BOOLEAN]
    /\ done \in 0 .. Steps
    /\ status \in {"pending", "in_progress", "failed"}
    /\ agent \in [Proc -> {"none", "running", "told", "closed"}]
    /\ staging \in Proc \cup {None, "old"}
    /\ spawned \in BOOLEAN
    /\ announced \in BOOLEAN
    /\ follow \in {"none", "state", "events"}
    /\ sawActive \in BOOLEAN

CommandsInit ==
    /\ Init
    /\ job = [p \in Proc |-> "none"]
    /\ fresh = [p \in Proc |-> FALSE]
    /\ done = 0
    /\ status = "pending"
    /\ agent = [p \in Proc |-> "none"]
    /\ staging = None
    /\ spawned = FALSE
    /\ announced = FALSE
    /\ follow = "none"
    /\ sawActive = FALSE

-----------------------------------------------------------------------------
(* The lock, as the commands use it *)

(* The child asks for the lock once, as an advance; the others at any time. *)
AsksForLock(p) ==
    /\ Acquire(p)
    /\ p = Child => spawned /\ reentrant'[p]
    /\ spawned' = (spawned /\ p # Child)
    /\ UNCHANGED <<job, fresh, done, status, agent, staging, announced, following>>

UnlockCommand(p) == p # Child /\ Unlock(p) /\ UNCHANGED <<work, following>>

LockCall(p) == Call(p) /\ UNCHANGED <<work, following>>

(* next and complete acquire the lock of the advance above them again. *)
NestedCall(p) ==
    /\ depth[p] = 1
    /\ job[p] \in {"next", "record"}
    /\ AcquireNested(p)
    /\ UNCHANGED <<work, following>>

(* The finally blocks: a service that is through, then the command. *)
Leaves(p) ==
    /\ job[p] \in {"stage", "done"}
    /\ depth[p] = 1 => job[p] = "done"
    /\ Release(p)
    /\ job' = [job EXCEPT ![p] = IF depth[p] = 1 THEN "none" ELSE @]
    /\ UNCHANGED <<fresh, done, status, agent, staging, spawned, announced, following>>

(* A command is through, or failed before it held the lock. *)
Exits(p) ==
    /\ Exit(p)
    /\ spawned' = (spawned /\ p # Child)
    /\ UNCHANGED <<job, fresh, done, status, agent, staging, announced, following>>

(* The agent of a killed process lives on. *)
Killed(p) ==
    /\ Die(p)
    /\ job' = [job EXCEPT ![p] = "none"]
    /\ fresh' = [fresh EXCEPT ![p] = FALSE]
    /\ spawned' = (spawned /\ p # Child)
    /\ UNCHANGED <<done, status, agent, staging, announced, following>>

-----------------------------------------------------------------------------
(* Steps of a command that holds the lock *)

At(p, j) == pc[p] = "held" /\ job[p] = j
Goes(p, j) == job' = [job EXCEPT ![p] = j]

Starts(p) ==
    /\ At(p, "none")
    /\ \/ p \in Advancers /\ reentrant[p] /\ Goes(p, "next")
       \/ p \in Detachers /\ reentrant[p] /\ Goes(p, "spawn")
       \/ p # Child /\ Goes(p, "read")
    /\ UNCHANGED <<vars, fresh, done, status, agent, staging, spawned, announced, following>>

(* findState and the save that follows it are separate calls. *)
Reads(p) == fresh' = [fresh EXCEPT ![p] = TRUE]
Saves(p, n, s) ==
    /\ done' = n
    /\ status' = s
    /\ fresh' = [q \in Proc |-> FALSE]

(* next: a gate, a halt or the end stops advance, a failed step throws. *)
ReadsNext(p) ==
    /\ At(p, "next")
    /\ depth[p] > 1
    /\ Reads(p)
    /\ Goes(p, "done") \/ (done < Steps /\ status # "failed" /\ Goes(p, "start"))
    /\ UNCHANGED <<vars, done, status, agent, staging, spawned, announced, following>>

StartsStep(p) ==
    /\ At(p, "start")
    /\ Saves(p, done, "in_progress")
    /\ Goes(p, "stage")
    /\ UNCHANGED <<vars, agent, staging, spawned, announced, following>>

SpawnsAgent_KeepsStaging(p) ==
    /\ At(p, "stage")
    /\ depth[p] = 1
    /\ staging' = IF staging = None THEN None ELSE "old"
    /\ agent' = [agent EXCEPT ![p] = "running"]
    /\ Goes(p, "agent")
    /\ UNCHANGED <<vars, fresh, done, status, spawned, announced, following>>

(* The staging file of the step is removed before its agent starts. *)
SpawnsAgent(p) ==
    /\ At(p, "stage")
    /\ depth[p] = 1
    /\ staging' = None
    /\ agent' = [agent EXCEPT ![p] = "running"]
    /\ Goes(p, "agent")
    /\ UNCHANGED <<vars, fresh, done, status, spawned, announced, following>>

Timeout_Never(p) == FALSE /\ UNCHANGED all

Timeout_Resolves(p) ==
    /\ At(p, "agent")
    /\ agent[p] = "running"
    /\ agent' = [agent EXCEPT ![p] = "told"]
    /\ Goes(p, "fail")
    /\ UNCHANGED <<vars, fresh, done, status, staging, spawned, announced, following>>

(* One SIGTERM, from the timer or for too much output; advance goes on       *)
(* waiting for the close of the child.                                       *)
Timeout(p) ==
    /\ At(p, "agent")
    /\ agent[p] = "running"
    /\ agent' = [agent EXCEPT ![p] = "told"]
    /\ UNCHANGED <<vars, job, fresh, done, status, staging, spawned, announced, following>>

(* The result of a closed child: usable, or an error of the provider. *)
TakesResult(p) ==
    /\ At(p, "agent")
    /\ agent[p] = "closed"
    /\ agent' = [agent EXCEPT ![p] = "none"]
    /\ Goes(p, "close") \/ Goes(p, "fail")
    /\ UNCHANGED <<vars, fresh, done, status, staging, spawned, announced, following>>

(* What is published: the staged file when there is one, else stdout. *)
Answer(p) == IF staging = None THEN p ELSE staging

Publishes(p) ==
    /\ At(p, "close")
    /\ Reads(p)
    /\ Goes(p, "record")
    /\ UNCHANGED <<vars, done, status, agent, staging, spawned, announced, following>>

(* The completion; an explicit step ends the session unless --until-gate. *)
Completes(p) ==
    /\ At(p, "record")
    /\ depth[p] > 1
    /\ Saves(p, done + 1, "pending")
    /\ Goes(p, "next") \/ Goes(p, "done")
    /\ UNCHANGED <<vars, agent, staging, spawned, announced, following>>

(* The catch block of advance, once a step is its own. *)
Throws(p) ==
    /\ pc[p] = "held"
    /\ job[p] \in {"stage", "close", "record"}
    /\ Goes(p, "fail")
    /\ UNCHANGED <<vars, fresh, done, status, agent, staging, spawned, announced, following>>

(* markFailed reads the state again before it saves. *)
Fails(p) ==
    /\ At(p, "fail")
    /\ Saves(p, done, IF status = "in_progress" THEN "failed" ELSE status)
    /\ Goes(p, "done")
    /\ UNCHANGED <<vars, agent, staging, spawned, announced, following>>

(* Any other command: it reads, decides on what it read, and saves. *)
ReadsState(p) ==
    /\ At(p, "read")
    /\ Reads(p)
    /\ Goes(p, "save") \/ Goes(p, "done")
    /\ UNCHANGED <<vars, done, status, agent, staging, spawned, announced, following>>

SavesState_CompletesAny(p) ==
    /\ At(p, "save")
    /\ Saves(p, done + 1, "pending") \/ Saves(p, done, status)
    /\ Goes(p, "done")
    /\ UNCHANGED <<vars, agent, staging, spawned, announced, following>>

(* complete, retry, request-changes, and the ones that leave the step alone. *)
SavesState(p) ==
    /\ At(p, "save")
    /\ \/ status = "in_progress" /\ Saves(p, done + 1, "pending")
       \/ \E n \in 0 .. done : Saves(p, n, "pending")
       \/ Saves(p, done, status)
    /\ Goes(p, "done")
    /\ UNCHANGED <<vars, agent, staging, spawned, announced, following>>

(* advance --detach starts its child while it holds the lock itself. *)
SpawnsChild(p) ==
    /\ At(p, "spawn")
    /\ \/ pc[Child] = "idle" /\ ~spawned /\ spawned' = TRUE /\ Goes(p, "announce")
       \/ spawned' = spawned /\ Goes(p, "done")
    /\ UNCHANGED <<vars, fresh, done, status, agent, staging, announced, following>>

Announces(p) ==
    /\ At(p, "announce")
    /\ announced' = TRUE
    /\ Goes(p, "done")
    /\ UNCHANGED <<vars, fresh, done, status, agent, staging, spawned, following>>

-----------------------------------------------------------------------------
(* The agents *)

Alive(p) == agent[p] \in {"running", "told"}

AgentStages(p) ==
    /\ Alive(p)
    /\ staging' = p
    /\ UNCHANGED <<vars, job, fresh, done, status, agent, spawned, announced, following>>

AgentCloses(p) ==
    /\ Alive(p)
    /\ agent' = [agent EXCEPT ![p] = IF job[p] = "agent" THEN "closed" ELSE "none"]
    /\ UNCHANGED <<vars, job, fresh, done, status, staging, spawned, announced, following>>

-----------------------------------------------------------------------------
(* follow *)

FollowStarts ==
    /\ follow = "none"
    /\ follow' = "state"
    /\ UNCHANGED <<vars, work, sawActive>>

FollowReadsState ==
    /\ follow = "state"
    /\ sawActive' = (status = "in_progress")
    /\ follow' = "events"
    /\ UNCHANGED <<vars, work>>

ProcessAlive == spawned \/ pc[Child] \notin {"idle", "dead"}

(* Nothing was appended for as long as the idle timeout. *)
Silent == \A p \in Proc : job[p] = "none"

FollowReadsEvents_NoIdleTimeout ==
    /\ follow = "events"
    /\ follow' = IF (announced /\ ~ProcessAlive) \/ ~sawActive
                 THEN "none" ELSE "state"
    /\ sawActive' = FALSE
    /\ UNCHANGED <<vars, work>>

FollowReadsEvents ==
    /\ follow = "events"
    /\ follow' = IF (announced /\ ~ProcessAlive) \/ ~sawActive \/ Silent
                 THEN "none" ELSE "state"
    /\ sawActive' = FALSE
    /\ UNCHANGED <<vars, work>>

-----------------------------------------------------------------------------
(* What a process does next by itself inside a command. *)
Works(p) ==
    \/ Starts(p) \/ ReadsNext(p) \/ StartsStep(p) \/ SpawnsAgent(p) \/ TakesResult(p)
    \/ Publishes(p) \/ Completes(p) \/ Throws(p) \/ Fails(p) \/ ReadsState(p) \/ SavesState(p)
    \/ SpawnsChild(p) \/ Announces(p)

Follows == FollowReadsState \/ FollowReadsEvents

CommandsNext ==
    \/ \E p \in Proc :
         \/ AsksForLock(p) \/ UnlockCommand(p) \/ LockCall(p) \/ NestedCall(p)
         \/ Leaves(p) \/ Exits(p) \/ Killed(p) \/ Works(p) \/ Timeout(p)
         \/ AgentStages(p) \/ AgentCloses(p)
    \/ FollowStarts \/ Follows

(* Processes run on and the timer of an agent fires; an agent that was told  *)
(* to stop does.  Nobody is obliged to start a command.                      *)
CommandsFairness ==
    /\ \A p \in Proc :
         /\ WF_all(LockCall(p)) /\ WF_all(NestedCall(p)) /\ WF_all(Works(p)) /\ WF_all(Leaves(p)) /\ WF_all(Timeout(p))
         /\ WF_all(agent[p] = "told" /\ AgentCloses(p))
    /\ WF_all(Follows)

CommandsSpec == CommandsInit /\ [][CommandsNext]_all /\ CommandsFairness
-----------------------------------------------------------------------------
(* No command overwrites what another one saved after it read the run:       *)
(* every save is of the state on disk, across recoveries of a dead owner's   *)
(* lock (run-lock.service.ts, file-state.store.ts requiredState and save).   *)
NoLostUpdate ==
    [][\A p \in Proc :
         job[p] \in {"start", "record", "save"} /\ job'[p] \notin {job[p], "fail", "none"}
         => fresh[p]]_all

(* At most one agent works on the run, but for those whose advance was       *)
(* killed: a new one starts only when the last one is closed, also after a   *)
(* timeout (advance.command.ts, executeAgentProcess).                        *)
OneAgentAtATime ==
    \A p, q \in Proc : Alive(p) /\ Alive(q) /\ pc[p] # "dead" /\ pc[q] # "dead" => p = q

(* What advance publishes was written by the agent it has just run, or by    *)
(* one whose own advance was killed and which still writes: never by an      *)
(* earlier attempt (advance.command.ts, the staging file).                   *)
PublishedIsOwn ==
    [][\A p \in Proc : job[p] = "close" /\ job'[p] = "record"
                       => Answer(p) = p \/ (Answer(p) \in Proc /\ pc[Answer(p)] = "dead")]_all

(* follow comes to an end once the processes leave the run alone, also when  *)
(* an advance was killed with a step in progress (follow.command.ts).        *)
FollowEnds ==
    <>[]Silent => (follow = "state" ~> follow = "none")
=============================================================================
