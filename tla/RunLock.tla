------------------------------ MODULE RunLock ------------------------------
(***************************************************************************)
(* The exclusive, run-local filesystem lock of src/runs/run-lock.service.ts *)
(* as the operating-system processes that use it see it: a directory .lock  *)
(* created by mkdir, holding a metadata.json that names its owner.  Every    *)
(* file-system call is an atomic step, so the calls of two processes        *)
(* interleave freely.  One run identifier is modelled: the locks of two     *)
(* runs share nothing.  A process identifier and a lock token are both the  *)
(* process itself: a process holds at most one lock of the run at a time.   *)
(* A process that has ended does not come back, nor does its number.         *)
(***************************************************************************)
EXTENDS Naturals

CONSTANTS
    Proc,       \* OS processes that may run a command on the run
    HostOf,     \* the machine each of them runs on (os.hostname())
    Mortal,     \* processes that may die without running their finally block
    Forcers,    \* processes whose operator may pass --force to unlock
    MaxDepth,   \* bound on the acquisitions nested inside one process
    None        \* no metadata.json, or one that does not parse

ASSUME ProcAssumption ==
    /\ None \notin Proc
    /\ MaxDepth \in Nat \ {0}

VARIABLES
    dir,        \* the directory .lock exists
    meta,       \* the owner written in .lock/metadata.json, or None
    pc,         \* where each process stands in acquire, release or unlock
    seen,       \* the owner a process read before it asks whether that one lives
    why,        \* what a process removes the directory for
    depth,      \* locallyHeld.get(runId).depth, 0 when the map has no entry
    reentrant   \* the reentrant flag of that entry

(* History, which no step reads: the processes whose reading of the owner is *)
(* older than the last removal of .lock by another process, and whether      *)
(* anything was ever removed on such a reading, or by force.                 *)
VARIABLES overtaken, seized

held == <<depth, reentrant>>
history == <<overtaken, seized>>
vars == <<dir, meta, pc, seen, why, held, history>>

PC == {"idle", "mkdir", "read", "judge", "remake", "write", "log", "failed", "held", "release",
       "unlock", "check", "force", "unlink", "rmdir", "dead"}

Reason == {"own", "stale", "unlock", "force"}

(* Every variable keeps the type the code gives it. *)
TypeOK ==
    /\ dir \in BOOLEAN
    /\ meta \in Proc \cup {None}
    /\ pc \in [Proc -> PC]
    /\ seen \in [Proc -> Proc \cup {None}]
    /\ why \in [Proc -> Reason]
    /\ depth \in [Proc -> 0 .. MaxDepth]
    /\ reentrant \in [Proc -> BOOLEAN]
    /\ overtaken \subseteq Proc
    /\ seized \in BOOLEAN

Init ==
    /\ dir = FALSE
    /\ meta = None
    /\ pc = [p \in Proc |-> "idle"]
    /\ seen = [p \in Proc |-> None]
    /\ why = [p \in Proc |-> "own"]
    /\ depth = [p \in Proc |-> 0]
    /\ reentrant = [p \in Proc |-> FALSE]
    /\ overtaken = {}
    /\ seized = FALSE

-----------------------------------------------------------------------------
(* A process counts as active until it ends, also once its command failed. *)
IsPidActive(q) == pc[q] # "dead"

IsStaleLocalLock_IgnoresPid(p, q) == HostOf[p] = HostOf[q]

IsStaleLocalLock(p, q) == HostOf[p] = HostOf[q] /\ p # q /\ ~IsPidActive(q)

Goto(p, l) == pc' = [pc EXCEPT ![p] = l]

(* read(): the owner on disk, which other calls may replace at once. *)
Sees(p) == seen' = [seen EXCEPT ![p] = meta] /\ overtaken' = overtaken \ {p}

(* p is through with what it read. *)
Forgets(p) == seen' = [seen EXCEPT ![p] = None] /\ overtaken' = overtaken \ {p}

Keeps == UNCHANGED <<seen, overtaken>>

(* remove(): rmSync(.lock, recursive, force) unlinks the metadata and then   *)
(* the directory, for one of the reasons.                                    *)
RemoveFor(p, r) == Goto(p, "unlink") /\ why' = [why EXCEPT ![p] = r]

Seizes(p) == seized' = (seized \/ why[p] = "force" \/ p \in overtaken)

Unlink(p) ==
    /\ pc[p] = "unlink"
    /\ meta' = None
    /\ Goto(p, "rmdir")
    /\ Seizes(p)
    /\ UNCHANGED <<dir, seen, why, held, overtaken>>

(* Those that have read the owner of a directory another process removes. *)
Overtaken(p) == {q \in Proc \ {p} : seen[q] # None}

(* A directory somebody has filled meanwhile is emptied again.  An unlock    *)
(* ends here but for its event; a recovery makes the lock its own.           *)
Rmdir(p) ==
    /\ pc[p] = "rmdir"
    /\ IF meta = None
       THEN /\ dir' = FALSE
            /\ Goto(p, IF why[p] = "stale" THEN "remake" ELSE "idle")
            /\ why' = [why EXCEPT ![p] = IF @ = "stale" THEN @ ELSE "own"]
            /\ seen' = [seen EXCEPT ![p] = None]
            /\ overtaken' = (overtaken \cup Overtaken(p)) \ {p}
       ELSE Goto(p, "unlink") /\ UNCHANGED <<dir, why, seen, overtaken>>
    /\ Seizes(p)
    /\ UNCHANGED <<meta, held>>

-----------------------------------------------------------------------------
(* acquire and acquireReentrant with no entry in locallyHeld *)
Acquire(p) ==
    /\ pc[p] = "idle"
    /\ Goto(p, "mkdir")
    /\ \E r \in BOOLEAN : reentrant' = [reentrant EXCEPT ![p] = r]
    /\ UNCHANGED <<dir, meta, seen, why, depth, history>>

Mkdir_Recursive(p) ==
    /\ pc[p] = "mkdir"
    /\ dir' = TRUE
    /\ Goto(p, "write")
    /\ UNCHANGED <<meta, seen, why, held, history>>

(* The first mkdir of tryCreate.  When .lock exists the caller reads it. *)
Mkdir(p) ==
    /\ pc[p] = "mkdir"
    /\ dir' = TRUE
    /\ Goto(p, IF dir THEN "read" ELSE "write")
    /\ UNCHANGED <<meta, seen, why, held, history>>

Read_TakesUnreadable(p) ==
    /\ pc[p] = "read"
    /\ IF meta = None THEN RemoveFor(p, "stale") ELSE Goto(p, "judge") /\ UNCHANGED why
    /\ Sees(p)
    /\ UNCHANGED <<dir, meta, held, seized>>

(* The owner is read; unreadable metadata is a RunBusyError. *)
Read(p) ==
    /\ pc[p] = "read"
    /\ Goto(p, IF meta = None THEN "idle" ELSE "judge")
    /\ Sees(p)
    /\ UNCHANGED <<dir, meta, why, held, seized>>

(* process.kill(pid, 0) of the owner that was read: a live one, like one of  *)
(* another machine, is a RunBusyError.                                       *)
Judge(p) ==
    /\ pc[p] = "judge"
    /\ IF IsStaleLocalLock(p, seen[p])
       THEN RemoveFor(p, "stale") /\ Keeps
       ELSE Goto(p, "idle") /\ Forgets(p) /\ UNCHANGED why
    /\ UNCHANGED <<dir, meta, held, seized>>

(* The second tryCreate, after the removal of a stale lock. *)
Remake(p) ==
    /\ pc[p] = "remake"
    /\ dir' = TRUE
    /\ IF dir THEN Goto(p, "idle") /\ why' = [why EXCEPT ![p] = "own"]
              ELSE Goto(p, "write") /\ UNCHANGED why
    /\ UNCHANGED <<meta, seen, held, history>>

(* locallyHeld.set *)
Enters(p) == Goto(p, "held") /\ depth' = [depth EXCEPT ![p] = 1]

(* The write of metadata.json.  It needs the directory, and may fail for     *)
(* other reasons: the catch block removes whatever directory is there.       *)
Write(p) ==
    /\ pc[p] = "write"
    /\ \/ /\ dir
          /\ meta' = p
          /\ \/ why[p] = "stale" /\ Goto(p, "log") /\ UNCHANGED depth
             \/ why[p] # "stale" /\ Enters(p)
          /\ UNCHANGED why
       \/ RemoveFor(p, "own") /\ UNCHANGED <<meta, depth>>
    /\ UNCHANGED <<dir, seen, reentrant, history>>

(* The event of a recovery.  When it cannot be appended the command fails    *)
(* with its lock on disk and no entry in locallyHeld.                        *)
Log(p) ==
    /\ pc[p] = "log"
    /\ Enters(p) \/ (Goto(p, "failed") /\ UNCHANGED depth)
    /\ why' = [why EXCEPT ![p] = "own"]
    /\ UNCHANGED <<dir, meta, seen, reentrant, history>>

(* A service called inside a reentrant command; any other nested acquisition *)
(* throws RunBusyError and changes nothing.                                  *)
AcquireNested(p) ==
    /\ pc[p] = "held"
    /\ reentrant[p]
    /\ depth[p] < MaxDepth
    /\ depth' = [depth EXCEPT ![p] = @ + 1]
    /\ UNCHANGED <<dir, meta, pc, seen, why, reentrant, history>>

Release_KeepsEntry(p) ==
    /\ pc[p] = "held"
    /\ depth' = [depth EXCEPT ![p] = @ - 1]
    /\ UNCHANGED <<dir, meta, pc, seen, why, reentrant, history>>

Release_IgnoresDepth(p) ==
    /\ pc[p] = "held"
    /\ depth' = [depth EXCEPT ![p] = @ - 1]
    /\ Goto(p, "release")
    /\ UNCHANGED <<dir, meta, seen, why, reentrant, history>>

(* The closure returned by acquire: only the outermost one gives up the lock. *)
Release(p) ==
    /\ pc[p] = "held"
    /\ depth' = [depth EXCEPT ![p] = @ - 1]
    /\ Goto(p, IF depth[p] > 1 THEN "held" ELSE "release")
    /\ UNCHANGED <<dir, meta, seen, why, reentrant, history>>

CheckToken_Skipped(p) ==
    /\ pc[p] = "release"
    /\ Goto(p, "idle")
    /\ UNCHANGED <<dir, meta, seen, why, held, history>>

(* The lock is removed only while its metadata still names this holder. *)
CheckToken(p) ==
    /\ pc[p] = "release"
    /\ IF meta = p
       THEN RemoveFor(p, "own")
       ELSE Goto(p, "idle") /\ UNCHANGED why
    /\ UNCHANGED <<dir, meta, seen, held, history>>

-----------------------------------------------------------------------------
(* The unlock command, without and with --force. *)
Unlock(p) ==
    /\ pc[p] = "idle"
    /\ \/ Goto(p, "unlock")
       \/ p \in Forcers /\ Goto(p, "force")
    /\ UNCHANGED <<dir, meta, seen, why, held, history>>

(* Without --force missing metadata is refused, *)
UnlockReads(p) ==
    /\ pc[p] = "unlock"
    /\ Goto(p, IF meta = None THEN "idle" ELSE "check")
    /\ Sees(p)
    /\ UNCHANGED <<dir, meta, why, held, seized>>

(* and so are a remote owner and a live one. *)
UnlockChecks(p) ==
    /\ pc[p] = "check"
    /\ IF HostOf[seen[p]] = HostOf[p] /\ ~IsPidActive(seen[p])
       THEN RemoveFor(p, "unlock") /\ Keeps
       ELSE Goto(p, "idle") /\ Forgets(p) /\ UNCHANGED why
    /\ UNCHANGED <<dir, meta, held, seized>>

UnlockForces(p) ==
    /\ pc[p] = "force"
    /\ IF dir
       THEN RemoveFor(p, "force")
       ELSE Goto(p, "idle") /\ UNCHANGED why
    /\ UNCHANGED <<dir, meta, seen, held, history>>

Ends(p) ==
    /\ Goto(p, "dead")
    /\ depth' = [depth EXCEPT ![p] = 0]
    /\ why' = [why EXCEPT ![p] = "own"]
    /\ Forgets(p)
    /\ UNCHANGED <<dir, meta, reentrant, seized>>

(* The process is through with its commands, or its command has failed. *)
Exit(p) == pc[p] \in {"idle", "failed"} /\ Ends(p)

(* The process is killed: its finally block and closures never run. *)
Die(p) == p \in Mortal /\ pc[p] # "dead" /\ Ends(p)

(* The calls a process makes once it has entered acquire or unlock. *)
Call(p) ==
    \/ Mkdir(p) \/ Read(p) \/ Judge(p) \/ Remake(p) \/ Write(p) \/ Log(p) \/ CheckToken(p)
    \/ UnlockReads(p) \/ UnlockChecks(p) \/ UnlockForces(p) \/ Unlink(p) \/ Rmdir(p)

Next == \E p \in Proc :
    \/ Acquire(p) \/ AcquireNested(p) \/ Release(p) \/ Unlock(p) \/ Exit(p) \/ Die(p)
    \/ Call(p)

(* A process that is inside the service runs on, and the command above it    *)
(* returns: it leaves each of its nested scopes, however often it enters     *)
(* them.  Nothing obliges anyone to start a command.                         *)
Fairness == \A p \in Proc : WF_vars(Call(p)) /\ SF_vars(depth[p] = 1 /\ Release(p))
                            /\ WF_vars(Release(p))

Spec == Init /\ [][Next]_vars
FairSpec == Spec /\ Fairness
-----------------------------------------------------------------------------
(* At most one process is inside a command that acquired the lock, whatever *)
(* the calls of acquire, release and unlock interleave                       *)
(* (run-lock.service.ts, acquireInternal).                                   *)
MutualExclusion ==
    \A p, q \in Proc : pc[p] = "held" /\ pc[q] = "held" => p = q

(* As long as a process counts an acquisition in locallyHeld, nested ones    *)
(* included, the lock on disk exists and names that process: nobody else     *)
(* removed it, and no inner closure did.                                     *)
HeldLockIsOnDisk ==
    \A p \in Proc : depth[p] > 0 => dir /\ meta = p

(* The lock excludes, and stays on disk for whoever counts an acquisition,   *)
(* until somebody removes .lock on a reading of its owner that another       *)
(* removal has overtaken, or by force.  No release, no failed write, no      *)
(* death and no recovery of an owner that is still the one on disk takes it  *)
(* from a process (run-lock.service.ts, acquireInternal and unlock).         *)
ExclusiveUnlessSeized == ~seized => MutualExclusion /\ HeldLockIsOnDisk

(* A lock on disk that names a live process belongs to a command that is     *)
(* still inside it, or that is failing because it could not log the recovery *)
(* of that lock, also when operators force locks away and recoveries race:   *)
(* once that process ends the lock is a stale one.  Nobody is refused for    *)
(* ever by a lock whose owner went on (run-lock.service.ts, release and the  *)
(* catch block of tryCreate).                                                *)
NoStrayLock ==
    \A p \in Proc : meta = p => pc[p] \in {"log", "failed", "held", "release", "unlink", "dead"}

(* The lock implements RunMutex: ownership is the time between the write of  *)
(* the metadata and the outermost release or the death of the holder.        *)
Owner == IF \E p \in Proc : pc[p] = "held"
         THEN CHOOSE p \in Proc : pc[p] = "held"
         ELSE None

Mutex == INSTANCE RunMutex WITH owner <- Owner
MutexSpec == Mutex!Spec

(* A command that acquired the lock and is not killed gives it back: its     *)
(* name leaves the disk, so later commands are not refused for ever.         *)
HolderGivesBack ==
    \A p \in Proc : pc[p] = "held" ~> (pc[p] = "dead" \/ meta # p)
=============================================================================
