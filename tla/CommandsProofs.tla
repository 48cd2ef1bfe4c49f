--------------------------- MODULE CommandsProofs ---------------------------
(***************************************************************************)
(* What the commands on a run guarantee, for any processes and any number   *)
(* of steps, by the exclusion of the lock below them: the behaviours of     *)
(* Commands are behaviours of RunLock, so its theorems carry over, and for  *)
(* as long as no lock was removed on an overtaken reading or by force no    *)
(* update is lost, one agent works at a time, and what is published is the  *)
(* answer of that agent.                                                    *)
(***************************************************************************)
EXTENDS Commands, RunLockProofs

(* A process that is inside the lock service moves on inside it; only Exit   *)
(* and Die make it dead.                                                     *)
LEMMA CallMoves ==
    ASSUME TypeInv, NEW p \in Proc, Call(p)
    PROVE  /\ pc[p] \notin {"idle", "held", "dead"}
           /\ \E l \in PC \ {"dead"} : pc' = [pc EXCEPT ![p] = l]
<1> USE DEF PC, Goto, RemoveFor
<1>1. CASE Mkdir(p) \/ Remake(p) \/ Read(p) \/ UnlockReads(p)
  BY <1>1 DEF Mkdir, Remake, Read, UnlockReads
<1>2. CASE Judge(p) \/ UnlockChecks(p) \/ CheckToken(p) \/ UnlockForces(p)
  BY <1>2 DEF Judge, UnlockChecks, CheckToken, UnlockForces
<1>3. CASE Write(p) \/ Log(p)
  BY <1>3 DEF Write, Log, Enters
<1>4. CASE Unlink(p) \/ Rmdir(p)
  BY <1>4 DEF Unlink, Rmdir
<1>5. QED
  BY <1>1, <1>2, <1>3, <1>4 DEF Call

-----------------------------------------------------------------------------
(* Whatever a command does, the lock sees one of its own steps or none. *)
LEMMA StepOfLock == [CommandsNext]_all => [Next]_vars
<1> SUFFICES ASSUME [CommandsNext]_all PROVE [Next]_vars
  OBVIOUS
<1>1. ASSUME NEW p \in Proc, AsksForLock(p) \/ UnlockCommand(p) \/ LockCall(p)
                             \/ NestedCall(p) \/ Leaves(p) \/ Exits(p) \/ Killed(p)
      PROVE  Next
  BY <1>1 DEF AsksForLock, UnlockCommand, LockCall, NestedCall, Leaves, Exits, Killed, Next
<1>2. ASSUME NEW p \in Proc, Works(p) PROVE UNCHANGED vars
  BY <1>2 DEF Works, Starts, ReadsNext, StartsStep, SpawnsAgent, TakesResult, Publishes,
              Completes, Throws, Fails, ReadsState, SavesState, SpawnsChild, Announces
<1>3. ASSUME NEW p \in Proc, Timeout(p) \/ AgentStages(p) \/ AgentCloses(p)
      PROVE  UNCHANGED vars
  BY <1>3 DEF Timeout, AgentStages, AgentCloses
<1>4. ASSUME FollowStarts \/ Follows PROVE UNCHANGED vars
  BY <1>4 DEF FollowStarts, Follows, FollowReadsState, FollowReadsEvents
<1>5. ASSUME UNCHANGED all PROVE UNCHANGED vars
  BY <1>5 DEF all
<1>6. QED
  BY <1>1, <1>2, <1>3, <1>4, <1>5 DEF CommandsNext

(* The commands use the lock only as RunLock allows: all that is proved of   *)
(* the lock holds while advance, its child and the other commands use it.    *)
THEOREM CommandsUseTheLock == CommandsSpec => Spec
<1>1. CommandsInit => Init
  BY DEF CommandsInit
<1>2. QED
  BY <1>1, StepOfLock, PTL DEF CommandsSpec, Spec

-----------------------------------------------------------------------------
(* A process is in a command only while it holds the lock, what it read is   *)
(* what it will overwrite, a step in turn is left to complete, a live agent  *)
(* is one its advance waits for, and what is staged for the step is the work *)
(* of that agent or of one whose advance is dead.                            *)
InCommand == \A p \in Proc : job[p] # "none" => pc[p] = "held"
FreshWhenSaving == \A p \in Proc : job[p] \in {"start", "record", "save"} => fresh[p] = TRUE
StepLeft ==
    /\ \A p \in Proc : job[p] \in {"start", "stage", "agent", "close", "record"} => done < Steps
    /\ status = "in_progress" => done < Steps
WaitedFor == \A p \in Proc : Alive(p) /\ pc[p] # "dead" => job[p] = "agent"
OwnStaging ==
    \A p \in Proc : job[p] \in {"agent", "close"}
        => staging \in {None, p} \/ (staging \in Proc /\ pc[staging] = "dead")

WorkInv == InCommand /\ FreshWhenSaving /\ StepLeft /\ WaitedFor /\ OwnStaging

CommandsInv == CommandsTypeOK /\ WorkInv

(* Nobody has begun a command at first. *)
LEMMA CommandsInvInit == CommandsInit => CommandsInv
<1> SUFFICES ASSUME CommandsInit PROVE CommandsInv
  OBVIOUS
<1> USE CommandsAssumption DEF CommandsInit
<1>1. job \in [Proc -> Job] /\ agent \in [Proc -> {"none", "running", "told", "closed"}]
  BY DEF Job
<1>2. fresh \in [Proc -> BOOLEAN]
  OBVIOUS
<1>3. CommandsTypeOK
  <2>1. done \in 0 .. Steps /\ staging \in Proc \cup {None, "old"}
    OBVIOUS
  <2>2. spawned \in BOOLEAN /\ announced \in BOOLEAN /\ sawActive \in BOOLEAN
    OBVIOUS
  <2>3. status \in {"pending", "in_progress", "failed"} /\ follow \in {"none", "state", "events"}
    OBVIOUS
  <2>4. QED
    BY <1>1, <1>2, <2>1, <2>2, <2>3 DEF CommandsTypeOK
<1>4. WorkInv
  BY DEF WorkInv, InCommand, FreshWhenSaving, StepLeft, WaitedFor, OwnStaging, Alive
<1>5. QED
  BY <1>3, <1>4 DEF CommandsInv

(* A step that leaves the work of the commands alone and takes nobody out of *)
(* the lock, or out of the dead, keeps the invariant.                        *)
LEMMA LockStepKeeps ==
    ASSUME CommandsInv, NEW p \in Proc, pc \in [Proc -> PC],
           UNCHANGED <<job, fresh, done, status, agent, staging, announced, following>>,
           spawned' \in BOOLEAN,
           \/ pc' = pc
           \/ /\ pc[p] \notin {"held", "dead"}
              /\ \E l \in PC \ {"dead"} : pc' = [pc EXCEPT ![p] = l]
    PROVE  CommandsInv'
<1>1. CommandsTypeOK'
  BY DEF CommandsInv, CommandsTypeOK, following
<1>2. \A q \in Proc : (pc[q] = "held" => pc'[q] = "held") /\ (pc'[q] = "dead" <=> pc[q] = "dead")
  OBVIOUS
<1>3. WorkInv'
  BY <1>2 DEF CommandsInv, WorkInv, InCommand, FreshWhenSaving, StepLeft, WaitedFor, OwnStaging,
              Alive
<1>4. QED
  BY <1>1, <1>3 DEF CommandsInv

(* The steps at the lock itself are of that kind. *)
LEMMA AtTheLock ==
    ASSUME TypeInv, CommandsInv, NEW p \in Proc,
           AsksForLock(p) \/ UnlockCommand(p) \/ LockCall(p) \/ NestedCall(p)
    PROVE  CommandsInv'
<1>0. pc \in [Proc -> PC]
  BY DEF TypeInv, TypeOK
<1>1. CASE AsksForLock(p)
  <2>1. pc[p] = "idle" /\ pc' = [pc EXCEPT ![p] = "mkdir"]
    BY <1>1 DEF AsksForLock, Acquire, Goto
  <2>2. spawned' \in BOOLEAN
    BY <1>1 DEF AsksForLock
  <2>3. UNCHANGED <<job, fresh, done, status, agent, staging, announced, following>>
    BY <1>1 DEF AsksForLock
  <2>4. QED
    BY <1>0, <2>1, <2>2, <2>3, LockStepKeeps DEF PC
<1>2. CASE UnlockCommand(p) \/ LockCall(p) \/ NestedCall(p)
  <2>1. UNCHANGED <<job, fresh, done, status, agent, staging, announced, following>>
        /\ spawned' = spawned
    BY <1>2 DEF UnlockCommand, LockCall, NestedCall, work
  <2>2. spawned' \in BOOLEAN
    BY <2>1 DEF CommandsInv, CommandsTypeOK
  <2>3. \/ pc' = pc
        \/ /\ pc[p] \notin {"held", "dead"}
           /\ \E l \in PC \ {"dead"} : pc' = [pc EXCEPT ![p] = l]
    <3>1. CASE UnlockCommand(p)
      BY <3>1 DEF UnlockCommand, Unlock, Goto, PC
    <3>2. CASE LockCall(p)
      BY <3>2, CallMoves DEF LockCall
    <3>3. CASE NestedCall(p)
      BY <3>3 DEF NestedCall, AcquireNested
    <3>4. QED
      BY <1>2, <3>1, <3>2, <3>3
  <2>4. QED
    BY <1>0, <2>1, <2>2, <2>3, LockStepKeeps
<1>3. QED
  BY <1>1, <1>2

(* Leaving the lock ends the command, and so does death; a process that      *)
(* exits is in none.                                                         *)
LEMMA OutOfTheLock ==
    ASSUME TypeInv, CommandsInv, NEW p \in Proc, Leaves(p) \/ Exits(p) \/ Killed(p)
    PROVE  CommandsInv'
<1>0. pc \in [Proc -> PC] /\ depth \in [Proc -> 0 .. MaxDepth] /\ Counted
  BY DEF TypeInv, TypeOK
<1>1. CommandsTypeOK
  BY DEF CommandsInv
<1>2. CASE Leaves(p)
  <2>1. /\ job' = job /\ pc' = pc
        \/ /\ job[p] = "done" /\ job' = [job EXCEPT ![p] = "none"]
           /\ pc[p] = "held" /\ pc' = [pc EXCEPT ![p] = "release"]
    <3>1. pc[p] = "held" /\ depth[p] > 0
      BY <1>0, <1>2 DEF Leaves, Release, Counted
    <3>2. CASE depth[p] = 1
      BY <1>2, <3>1, <3>2 DEF Leaves, Release, Goto
    <3>3. CASE depth[p] > 1
      BY <1>0, <1>1, <1>2, <3>1, <3>3 DEF Leaves, Release, Goto, CommandsTypeOK
    <3>4. QED
      BY <1>0, <3>1, <3>2, <3>3, ProcAssumption
  <2>2. UNCHANGED <<fresh, done, status, agent, staging, spawned, announced, following>>
    BY <1>2 DEF Leaves
  <2>3. CommandsTypeOK'
    BY <1>1, <2>1, <2>2 DEF CommandsTypeOK, Job, following
  <2>4. WorkInv'
    BY <1>0, <1>1, <2>1, <2>2
    DEF CommandsInv, CommandsTypeOK, WorkInv, InCommand, FreshWhenSaving, StepLeft, WaitedFor,
        OwnStaging, Alive
  <2>5. QED
    BY <2>3, <2>4 DEF CommandsInv
<1>3. CASE Killed(p)
  <2>1. /\ job' = [job EXCEPT ![p] = "none"]
        /\ pc' = [pc EXCEPT ![p] = "dead"]
        /\ fresh' = [fresh EXCEPT ![p] = FALSE]
        /\ UNCHANGED <<done, status, agent, staging, announced, following>>
        /\ spawned' \in BOOLEAN
    BY <1>3 DEF Killed, Die, Ends, Goto
  <2>2. fresh' \in [Proc -> BOOLEAN]
    BY <1>1, <2>1, Zenon DEF CommandsTypeOK
  <2>3. CommandsTypeOK'
    BY <1>1, <2>1, <2>2 DEF CommandsTypeOK, Job, following
  <2>4. \A q \in Proc : q # p => fresh'[q] = fresh[q]
    BY <1>1, <2>1 DEF CommandsTypeOK
  <2>5. WorkInv'
    BY <1>0, <1>1, <2>1, <2>4
    DEF CommandsInv, CommandsTypeOK, WorkInv, InCommand, FreshWhenSaving, StepLeft, WaitedFor,
        OwnStaging, Alive
  <2>6. QED
    BY <2>3, <2>5 DEF CommandsInv
<1>4. CASE Exits(p)
  <2>1. /\ pc[p] \in {"idle", "failed"}
        /\ pc' = [pc EXCEPT ![p] = "dead"]
        /\ UNCHANGED <<job, fresh, done, status, agent, staging, announced, following>>
        /\ spawned' \in BOOLEAN
    BY <1>4 DEF Exits, Exit, Ends, Goto
  <2>2. CommandsTypeOK'
    BY <1>1, <2>1 DEF CommandsTypeOK, following
  <2>3. WorkInv'
    BY <1>0, <1>1, <2>1
    DEF CommandsInv, CommandsTypeOK, WorkInv, InCommand, FreshWhenSaving, StepLeft, WaitedFor,
        OwnStaging, Alive
  <2>4. QED
    BY <2>2, <2>3 DEF CommandsInv
<1>5. QED
  BY <1>2, <1>3, <1>4

-----------------------------------------------------------------------------
(* While one process holds the lock no other is in a command. *)
LEMMA Alone ==
    ASSUME MutualExclusion, InCommand, NEW p \in Proc, pc[p] = "held"
    PROVE  \A q \in Proc : q # p => job[q] = "none"
  BY DEF MutualExclusion, InCommand

(* Every command works under the lock and changes its own place only. *)
LEMMA WorksInside ==
    ASSUME CommandsInv, NEW p \in Proc, Works(p)
    PROVE  /\ pc[p] = "held" /\ UNCHANGED <<vars, following>>
           /\ \E j \in Job : job' = [job EXCEPT ![p] = j]
<1> USE DEF At, Goes, Job
<1>1. CASE Starts(p) \/ ReadsNext(p) \/ StartsStep(p)
  BY <1>1 DEF Starts, ReadsNext, StartsStep
<1>2. CASE SpawnsAgent(p) \/ TakesResult(p) \/ Publishes(p) \/ Completes(p)
  BY <1>2 DEF SpawnsAgent, TakesResult, Publishes, Completes
<1>3. CASE Throws(p) \/ Fails(p) \/ ReadsState(p) \/ SavesState(p)
  BY <1>3 DEF Throws, Fails, ReadsState, SavesState
<1>4. CASE SpawnsChild(p) \/ Announces(p)
  BY <1>4 DEF SpawnsChild, Announces
<1>5. QED
  BY <1>1, <1>2, <1>3, <1>4 DEF Works

(* What was read stays a truth value. *)
LEMMA FreshIsBoolean ==
    ASSUME CommandsInv, NEW p \in Proc, Works(p)
    PROVE  fresh' \in [Proc -> BOOLEAN]
<1>0. fresh \in [Proc -> BOOLEAN]
  BY DEF CommandsInv, CommandsTypeOK
<1>1. CASE fresh' = fresh
  BY <1>0, <1>1
<1>2. CASE fresh' = [fresh EXCEPT ![p] = TRUE]
  BY <1>0, <1>2, Zenon
<1>3. CASE fresh' = [q \in Proc |-> FALSE]
  BY <1>3, Zenon
<1>4. fresh' = fresh \/ fresh' = [fresh EXCEPT ![p] = TRUE] \/ fresh' = [q \in Proc |-> FALSE]
  BY DEF Works, Reads, Saves, Starts, ReadsNext, StartsStep, SpawnsAgent, TakesResult, Publishes,
         Completes, Throws, Fails, ReadsState, SavesState, SpawnsChild, Announces
<1>5. QED
  BY <1>1, <1>2, <1>3, <1>4

(* Every step of a command keeps the invariant. *)
LEMMA WorkKeeps ==
    ASSUME CommandsInv, MutualExclusion, NEW p \in Proc, Works(p)
    PROVE  CommandsInv'
<1>1. /\ pc[p] = "held" /\ pc' = pc /\ UNCHANGED following
      /\ \E j \in Job : job' = [job EXCEPT ![p] = j]
  BY WorksInside DEF vars
<1>2. \A q \in Proc : q # p => job[q] = "none"
  BY <1>1, Alone DEF CommandsInv, WorkInv
<1>3. CommandsTypeOK /\ job \in [Proc -> Job] /\ agent \in [Proc -> {"none", "running", "told", "closed"}]
  BY DEF CommandsInv, CommandsTypeOK
<1>4. \A q \in Proc : q # p => job'[q] = "none"
  BY <1>1, <1>2, <1>3
<1>5. done \in 0 .. Steps /\ Steps \in Nat
  BY <1>3, CommandsAssumption DEF CommandsTypeOK
<1> DEFINE Counts == /\ done' \in 0 .. Steps
                     /\ status' \in {"pending", "in_progress", "failed"}
                     /\ StepLeft'
           Others == /\ agent' \in [Proc -> {"none", "running", "told", "closed"}]
                     /\ staging' \in Proc \cup {None, "old"}
                     /\ WaitedFor' /\ OwnStaging'
           Flags  == spawned' \in BOOLEAN /\ announced' \in BOOLEAN
           Kept   == UNCHANGED <<done, status>>
           Aside  == UNCHANGED <<agent, staging>>
<1>6. InCommand'
  BY <1>1, <1>4 DEF InCommand
<1>7. FreshWhenSaving'
  <2>1. CASE Starts(p) \/ SpawnsAgent(p) \/ TakesResult(p) \/ Throws(p) \/ SpawnsChild(p) \/ Announces(p)
    BY <1>3, <1>4, <2>1
    DEF FreshWhenSaving, Starts, SpawnsAgent, TakesResult, Throws, SpawnsChild, Announces, Goes
  <2>2. CASE StartsStep(p) \/ Completes(p) \/ Fails(p) \/ SavesState(p)
    BY <1>3, <1>4, <2>2 DEF FreshWhenSaving, StartsStep, Completes, Fails, SavesState, Goes
  <2>3. CASE ReadsNext(p) \/ Publishes(p) \/ ReadsState(p)
    <3>1. fresh' = [fresh EXCEPT ![p] = TRUE] /\ fresh \in [Proc -> BOOLEAN]
      BY <1>3, <2>3 DEF ReadsNext, Publishes, ReadsState, Reads, CommandsTypeOK
    <3>2. fresh'[p] = TRUE
      BY <3>1, Zenon
    <3>3. QED
      BY <1>4, <3>2 DEF FreshWhenSaving
  <2>4. QED
    BY <2>1, <2>2, <2>3 DEF Works
<1>8. Counts
  <2> USE <1>1, <1>3, <1>4, <1>5 DEF StepLeft, At, Goes, Saves
  <2>0. StepLeft
    BY DEF CommandsInv, WorkInv
  <2>1. CASE Starts(p) \/ TakesResult(p) \/ Throws(p) \/ SpawnsChild(p) \/ Announces(p)
             \/ SpawnsAgent(p) \/ Publishes(p) \/ ReadsState(p)
    BY <2>0, <2>1
    DEF Starts, TakesResult, Throws, SpawnsChild, Announces, SpawnsAgent, Publishes, ReadsState,
        CommandsTypeOK
  <2>2. CASE ReadsNext(p)
    BY <2>0, <2>2 DEF ReadsNext, CommandsTypeOK
  <2>3. CASE StartsStep(p)
    BY <2>0, <2>3 DEF StartsStep
  <2>4. CASE Completes(p)
    BY <2>0, <2>4 DEF Completes
  <2>5. CASE Fails(p)
    BY <2>0, <2>5 DEF Fails, CommandsTypeOK
  <2>6. CASE SavesState(p)
    BY <2>0, <2>6 DEF SavesState, CommandsTypeOK
  <2>7. QED
    BY <2>1, <2>2, <2>3, <2>4, <2>5, <2>6 DEF Works
<1>9. Others
  <2> USE <1>1, <1>3, <1>4 DEF WaitedFor, OwnStaging, Alive, At, Goes
  <2>0. WaitedFor /\ OwnStaging
    BY DEF CommandsInv, WorkInv
  <2>1. CASE SpawnsAgent(p)
    BY <2>0, <2>1 DEF SpawnsAgent
  <2>2. CASE TakesResult(p)
    BY <2>0, <2>2 DEF TakesResult, CommandsTypeOK
  <2>3. CASE Publishes(p) \/ Starts(p) \/ SpawnsChild(p) \/ Announces(p)
    BY <2>0, <2>3 DEF Publishes, Starts, SpawnsChild, Announces, CommandsTypeOK
  <2>4. CASE ReadsNext(p) \/ StartsStep(p) \/ Completes(p) \/ Throws(p)
    BY <2>0, <2>4 DEF ReadsNext, StartsStep, Completes, Throws, CommandsTypeOK
  <2>5. CASE Fails(p) \/ ReadsState(p) \/ SavesState(p)
    BY <2>0, <2>5 DEF Fails, ReadsState, SavesState, CommandsTypeOK
  <2>6. QED
    BY <2>1, <2>2, <2>3, <2>4, <2>5 DEF Works
<1>10. Flags
  <2>0. spawned \in BOOLEAN /\ announced \in BOOLEAN
    BY <1>3 DEF CommandsTypeOK
  <2>1. CASE UNCHANGED <<spawned, announced>>
    BY <2>0, <2>1
  <2>2. CASE SpawnsChild(p) \/ Announces(p)
    BY <2>0, <2>2 DEF SpawnsChild, Announces
  <2>3. QED
    BY <2>1, <2>2
    DEF Works, Starts, ReadsNext, StartsStep, SpawnsAgent, TakesResult, Publishes, Completes,
        Throws, Fails, ReadsState, SavesState
<1>11. CommandsTypeOK'
  BY <1>1, <1>3, <1>8, <1>9, <1>10, FreshIsBoolean DEF CommandsTypeOK, following
<1>12. QED
  BY <1>6, <1>7, <1>8, <1>9, <1>11 DEF CommandsInv, WorkInv

(* So does every step of an agent, of its timer, and of follow. *)
LEMMA AgentKeeps ==
    ASSUME CommandsInv, MutualExclusion, NEW p \in Proc,
           Timeout(p) \/ AgentStages(p) \/ AgentCloses(p)
    PROVE  CommandsInv'
<1>0. CommandsTypeOK /\ WorkInv
  BY DEF CommandsInv
<1>1. CASE Timeout(p)
  <2>1. CommandsTypeOK'
    BY <1>0, <1>1 DEF Timeout, CommandsTypeOK, following
  <2>2. WorkInv'
    BY <1>0, <1>1
    DEF Timeout, At, CommandsTypeOK, WorkInv, InCommand, FreshWhenSaving, StepLeft, WaitedFor,
        OwnStaging, Alive, vars
  <2>3. QED
    BY <2>1, <2>2 DEF CommandsInv
<1>2. CASE AgentStages(p)
  <2>1. CommandsTypeOK'
    BY <1>0, <1>2 DEF AgentStages, CommandsTypeOK, following
  <2>2. ASSUME NEW q \in Proc, job[q] \in {"agent", "close"}, pc[p] # "dead"
        PROVE  q = p
    <3>1. job[p] = "agent"
      BY <1>0, <1>2, <2>2 DEF AgentStages, WorkInv, WaitedFor
    <3>2. pc[p] = "held" /\ pc[q] = "held"
      BY <1>0, <2>2, <3>1 DEF WorkInv, InCommand
    <3>3. QED
      BY <3>2 DEF MutualExclusion
  <2>3. OwnStaging'
    BY <1>2, <2>2 DEF AgentStages, OwnStaging, vars
  <2>4. WorkInv'
    BY <1>0, <1>2, <2>3
    DEF AgentStages, WorkInv, InCommand, FreshWhenSaving, StepLeft, WaitedFor, Alive, vars
  <2>5. QED
    BY <2>1, <2>4 DEF CommandsInv
<1>3. CASE AgentCloses(p)
  <2>1. CommandsTypeOK'
    BY <1>0, <1>3 DEF AgentCloses, CommandsTypeOK, following
  <2>2. WorkInv'
    BY <1>0, <1>3
    DEF AgentCloses, CommandsTypeOK, WorkInv, InCommand, FreshWhenSaving, StepLeft, WaitedFor,
        OwnStaging, Alive, vars
  <2>3. QED
    BY <2>1, <2>2 DEF CommandsInv
<1>4. QED
  BY <1>1, <1>2, <1>3

(* follow reads only. *)
LEMMA FollowKeeps ==
    ASSUME CommandsInv, FollowStarts \/ Follows
    PROVE  CommandsInv'
<1>1. UNCHANGED <<vars, work>>
  BY DEF FollowStarts, Follows, FollowReadsState, FollowReadsEvents
<1>2. follow' \in {"none", "state", "events"}
  BY DEF FollowStarts, Follows, FollowReadsState, FollowReadsEvents
<1>3. sawActive' \in BOOLEAN
  BY DEF FollowStarts, Follows, FollowReadsState, FollowReadsEvents, CommandsInv, CommandsTypeOK
<1>4. CommandsTypeOK'
  BY <1>1, <1>2, <1>3 DEF CommandsInv, CommandsTypeOK, work
<1>5. WorkInv'
  BY <1>1 DEF CommandsInv, WorkInv, InCommand, FreshWhenSaving, StepLeft, WaitedFor, OwnStaging,
              Alive, work, vars
<1>6. QED
  BY <1>4, <1>5 DEF CommandsInv

(* The invariant is inductive where the lock excludes. *)
LEMMA CommandsInvStep ==
    ASSUME TypeInv, MutualExclusion, CommandsInv, [CommandsNext]_all
    PROVE  CommandsInv'
<1>1. CASE UNCHANGED all
  <2>1. CommandsTypeOK'
    BY <1>1 DEF CommandsInv, CommandsTypeOK, all, work, following
  <2>2. WorkInv'
    BY <1>1 DEF CommandsInv, WorkInv, InCommand, FreshWhenSaving, StepLeft, WaitedFor, OwnStaging,
                Alive, all, work, following, vars
  <2>3. QED
    BY <2>1, <2>2 DEF CommandsInv
<1>2. QED
  BY <1>1, AtTheLock, OutOfTheLock, WorkKeeps, AgentKeeps, FollowKeeps DEF CommandsNext

(* It holds of every behaviour until something is seized. *)
LEMMA CommandsInvariant == CommandsSpec => [](~seized => CommandsInv /\ MutualExclusion)
<1>1. CommandsInit => CommandsInv
  BY CommandsInvInit
<1>2. TypeInv /\ (~seized => MutualExclusion) /\ (~seized => CommandsInv)
      /\ [Next]_vars /\ [CommandsNext]_all => (~seized => CommandsInv)'
  BY CommandsInvStep, SeizedForGood
<1>3. CommandsSpec => []TypeInv
  BY CommandsUseTheLock, TypeInvariant, PTL
<1>4. CommandsSpec => [](~seized => MutualExclusion)
  BY CommandsUseTheLock, AtMostOneHolder, PTL
<1>5. CommandsSpec => [][Next]_vars
  BY CommandsUseTheLock, PTL DEF Spec
<1>6. CommandsSpec => [](~seized => CommandsInv)
  BY <1>1, <1>2, <1>3, <1>4, <1>5, StepOfLock, PTL DEF CommandsSpec
<1>7. QED
  BY <1>4, <1>6, PTL

-----------------------------------------------------------------------------
(* Until something is seized the step in turn and the number of finished     *)
(* steps stay within the workflow, and every other variable keeps its type,  *)
(* whatever commands follow each other on the run.                           *)
THEOREM CommandsTypeCorrect == CommandsSpec => [](~seized => CommandsTypeOK)
<1>1. (~seized => CommandsInv /\ MutualExclusion) => (~seized => CommandsTypeOK)
  BY DEF CommandsInv
<1>2. QED
  BY <1>1, CommandsInvariant, PTL

(* In a behaviour in which nothing is seized no command overwrites what      *)
(* another one saved after it read the run: the state it saves over is the   *)
(* state it read (file-state.store.ts, save).                                *)
THEOREM NoUpdateIsLost == CommandsSpec /\ [](~seized) => NoLostUpdate
<1>1. CommandsInv
      => \A p \in Proc :
           job[p] \in {"start", "record", "save"} /\ job'[p] \notin {job[p], "fail", "none"}
           => fresh[p]
  BY DEF CommandsInv, WorkInv, FreshWhenSaving
<1>2. QED
  BY <1>1, CommandsInvariant, PTL DEF NoLostUpdate

(* Until something is seized at most one of the agents whose advance lives   *)
(* is alive, however timeouts, failures and recoveries follow each other     *)
(* (advance.command.ts, executeAgentProcess).                                *)
THEOREM AgentsTakeTurns == CommandsSpec => [](~seized => OneAgentAtATime)
<1>1. CommandsInv /\ MutualExclusion => OneAgentAtATime
  <2> SUFFICES ASSUME CommandsInv, MutualExclusion, NEW p \in Proc, NEW q \in Proc,
                      Alive(p), Alive(q), pc[p] # "dead", pc[q] # "dead"
               PROVE  p = q
    BY DEF OneAgentAtATime
  <2>1. job[p] = "agent" /\ job[q] = "agent"
    BY DEF CommandsInv, WorkInv, WaitedFor
  <2>2. pc[p] = "held" /\ pc[q] = "held"
    BY <2>1 DEF CommandsInv, WorkInv, InCommand
  <2>3. QED
    BY <2>2 DEF MutualExclusion
<1>2. QED
  BY <1>1, CommandsInvariant, PTL

(* In a behaviour in which nothing is seized, what advance publishes for a   *)
(* step was written by the agent it has just run, or by one whose own        *)
(* advance died (advance.command.ts, staging file).                          *)
THEOREM AnswersAreOwn == CommandsSpec /\ [](~seized) => PublishedIsOwn
<1>1. CommandsInv
      => \A p \in Proc : job[p] = "close" /\ job'[p] = "record"
           => Answer(p) = p \/ (Answer(p) \in Proc /\ pc[Answer(p)] = "dead")
  BY CommandsAssumption DEF CommandsInv, WorkInv, OwnStaging, Answer
<1>2. QED
  BY <1>1, CommandsInvariant, PTL DEF PublishedIsOwn

(* Also while advance, its child and the other commands use it, the lock     *)
(* excludes, stays on disk for its holder, and implements RunMutex, until    *)
(* something is seized.                                                      *)
THEOREM CommandsExclude ==
    /\ CommandsSpec => []ExclusiveUnlessSeized
    /\ CommandsSpec /\ [](~seized) => MutexSpec
  BY CommandsUseTheLock, ExclusiveUntilSeized, LockImplementsMutex, PTL
=============================================================================
