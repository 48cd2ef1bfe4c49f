--------------------------- MODULE RunLockProofs ---------------------------
(***************************************************************************)
(* What the run lock guarantees for any processes on any machines, however  *)
(* they die, force locks away and recover them at once.  Type correctness   *)
(* and NoStrayLock hold outright.  Exclusion, and with it the refinement of *)
(* RunMutex, holds until somebody removes .lock on a reading of its owner   *)
(* that another removal has overtaken, or by force: the one way in which    *)
(* the protocol loses it, which does happen (lock_outdated_removal).        *)
(***************************************************************************)
EXTENDS RunLock, TLAPS

-----------------------------------------------------------------------------
(* locallyHeld counts an acquisition exactly while its process is inside the *)
(* command that made it.                                                     *)
Counted == \A p \in Proc : depth[p] > 0 <=> pc[p] = "held"

TypeInv == TypeOK /\ Counted

(* The Boolean parts of the lock keep their type. *)
LEMMA BooleansStay ==
    ASSUME TypeOK, [Next]_vars
    PROVE  dir' \in BOOLEAN /\ reentrant' \in [Proc -> BOOLEAN] /\ seized' \in BOOLEAN
<1>1. dir \in BOOLEAN /\ reentrant \in [Proc -> BOOLEAN] /\ seized \in BOOLEAN
  BY DEF TypeOK
<1>2. CASE UNCHANGED vars
  BY <1>1, <1>2 DEF vars, held, history
<1>3. ASSUME NEW p \in Proc, NEW r \in BOOLEAN, reentrant' = [reentrant EXCEPT ![p] = r]
      PROVE  reentrant' \in [Proc -> BOOLEAN]
  BY <1>1, <1>3, Zenon
<1>4. ASSUME NEW p \in Proc, Acquire(p)
      PROVE  dir' \in BOOLEAN /\ reentrant' \in [Proc -> BOOLEAN] /\ seized' \in BOOLEAN
  <2>1. PICK r \in BOOLEAN : reentrant' = [reentrant EXCEPT ![p] = r]
    BY <1>4 DEF Acquire
  <2>2. reentrant' \in [Proc -> BOOLEAN]
    BY <1>3, <2>1
  <2>3. QED
    BY <1>1, <1>4, <2>2 DEF Acquire, history
<1>5. ASSUME NEW p \in Proc, Mkdir(p) \/ Remake(p)
      PROVE  dir' \in BOOLEAN /\ reentrant' \in [Proc -> BOOLEAN] /\ seized' \in BOOLEAN
  <2>1. dir' \in BOOLEAN
    BY <1>1, <1>5 DEF Mkdir, Remake
  <2>2. reentrant' = reentrant /\ seized' = seized
    BY <1>5 DEF Mkdir, Remake, held, history
  <2>3. QED
    BY <1>1, <2>1, <2>2
<1>6. ASSUME NEW p \in Proc, Unlink(p) \/ Rmdir(p)
      PROVE  dir' \in BOOLEAN /\ reentrant' \in [Proc -> BOOLEAN] /\ seized' \in BOOLEAN
  <2>1. dir' \in BOOLEAN
    BY <1>1, <1>6 DEF Unlink, Rmdir
  <2>2. reentrant' = reentrant
    BY <1>6 DEF Unlink, Rmdir, held
  <2>3. seized' \in BOOLEAN
    BY <1>1, <1>6 DEF Unlink, Rmdir, Seizes
  <2>4. QED
    BY <1>1, <2>1, <2>2, <2>3
<1>7. ASSUME NEW p \in Proc,
             \/ AcquireNested(p) \/ Release(p) \/ Unlock(p) \/ Exit(p) \/ Die(p)
             \/ Read(p) \/ Judge(p) \/ Write(p) \/ Log(p)
             \/ CheckToken(p) \/ UnlockReads(p) \/ UnlockChecks(p) \/ UnlockForces(p)
      PROVE  dir' \in BOOLEAN /\ reentrant' \in [Proc -> BOOLEAN] /\ seized' \in BOOLEAN
  <2>1. UNCHANGED <<dir, reentrant, seized>>
    BY <1>7 DEF AcquireNested, Release, Unlock, Exit, Die, Ends, Read, Judge, Write, Log, CheckToken,
                UnlockReads, UnlockChecks, UnlockForces, held, history
  <2>2. QED
    BY <1>1, <2>1
<1>8. QED
  BY <1>2, <1>4, <1>5, <1>6, <1>7 DEF Next, Call

(* So does the list of those that were overtaken. *)
LEMMA OvertakenStay == ASSUME TypeOK, [Next]_vars PROVE overtaken' \subseteq Proc
<1>1. overtaken \subseteq Proc
  BY DEF TypeOK
<1>2. CASE UNCHANGED vars
  BY <1>1, <1>2 DEF vars, history
<1>3. ASSUME NEW p \in Proc,
             \/ Acquire(p) \/ AcquireNested(p) \/ Release(p) \/ Unlock(p) \/ Mkdir(p) \/ Remake(p)
             \/ Write(p) \/ Log(p) \/ CheckToken(p) \/ UnlockForces(p) \/ Unlink(p)
      PROVE  overtaken' \subseteq Proc
  BY <1>1, <1>3 DEF Acquire, AcquireNested, Release, Unlock, Mkdir, Remake, Write, Log, CheckToken,
                    UnlockForces, Unlink, history
<1>4. ASSUME NEW p \in Proc,
             \/ Exit(p) \/ Die(p) \/ Read(p) \/ Judge(p) \/ UnlockReads(p) \/ UnlockChecks(p)
      PROVE  overtaken' \subseteq Proc
  BY <1>1, <1>4 DEF Exit, Die, Ends, Read, Judge, UnlockReads, UnlockChecks, Sees, Forgets, Keeps
<1>5. ASSUME NEW p \in Proc, Rmdir(p) PROVE overtaken' \subseteq Proc
  BY <1>1, <1>5 DEF Rmdir, Overtaken
<1>6. QED
  BY <1>2, <1>3, <1>4, <1>5 DEF Next, Call

(* Every step keeps the types and the count of acquisitions                  *)
(* (run-lock.service.ts, the whole service).                                 *)
THEOREM TypeInvariant == Spec => []TypeInv
<1>1. Init => TypeInv
  <2> SUFFICES ASSUME Init PROVE TypeInv
    OBVIOUS
  <2> USE ProcAssumption DEF Init
  <2>1. dir \in BOOLEAN /\ meta \in Proc \cup {None}
    OBVIOUS
  <2>2. /\ pc \in [Proc -> PC]
        /\ seen \in [Proc -> Proc \cup {None}]
        /\ why \in [Proc -> Reason]
    BY DEF PC, Reason
  <2>3. depth \in [Proc -> 0 .. MaxDepth] /\ Counted
    BY DEF Counted
  <2>4. reentrant \in [Proc -> BOOLEAN] /\ overtaken \subseteq Proc /\ seized \in BOOLEAN
    OBVIOUS
  <2>5. QED
    BY <2>1, <2>2, <2>3, <2>4 DEF TypeInv, TypeOK
<1>2. TypeInv /\ [Next]_vars => TypeInv'
  <2> SUFFICES ASSUME TypeInv, [Next]_vars PROVE TypeInv'
    OBVIOUS
  <2> DEFINE Rest == /\ meta \in Proc \cup {None}
                     /\ pc \in [Proc -> PC]
                     /\ seen \in [Proc -> Proc \cup {None}]
                     /\ why \in [Proc -> Reason]
                     /\ depth \in [Proc -> 0 .. MaxDepth]
                     /\ Counted
  <2>0. Rest
    BY DEF TypeInv, TypeOK
  <2> USE ProcAssumption, <2>0 DEF PC, Reason, Counted, held
  <2>1. ASSUME NEW p \in Proc, Acquire(p) \/ AcquireNested(p) \/ Unlock(p) PROVE Rest'
    BY <2>1 DEF Acquire, AcquireNested, Unlock, Goto
  <2>2. ASSUME NEW p \in Proc, Release(p) PROVE Rest'
    BY <2>2 DEF Release, Goto
  <2>3. ASSUME NEW p \in Proc, Exit(p) \/ Die(p) PROVE Rest'
    BY <2>3 DEF Exit, Die, Ends, Goto, Forgets
  <2>4. ASSUME NEW p \in Proc, Mkdir(p) \/ Remake(p) PROVE Rest'
    BY <2>4 DEF Mkdir, Remake, Goto
  <2>5. ASSUME NEW p \in Proc, Read(p) \/ UnlockReads(p) PROVE Rest'
    BY <2>5 DEF Read, UnlockReads, Sees, Goto
  <2>6. ASSUME NEW p \in Proc, Judge(p) PROVE Rest'
    BY <2>6 DEF Judge, RemoveFor, Goto, Forgets, Keeps
  <2>7. ASSUME NEW p \in Proc, UnlockChecks(p) PROVE Rest'
    BY <2>7 DEF UnlockChecks, RemoveFor, Goto, Forgets, Keeps
  <2>8. ASSUME NEW p \in Proc, Write(p) PROVE Rest'
    BY <2>8 DEF Write, RemoveFor, Goto, Enters
  <2>9. ASSUME NEW p \in Proc, Log(p) PROVE Rest'
    BY <2>9 DEF Log, Goto, Enters
  <2>10. ASSUME NEW p \in Proc, CheckToken(p) \/ UnlockForces(p) PROVE Rest'
    BY <2>10 DEF CheckToken, UnlockForces, RemoveFor, Goto
  <2>11. ASSUME NEW p \in Proc, Unlink(p) PROVE Rest'
    BY <2>11 DEF Unlink, Goto
  <2>12. ASSUME NEW p \in Proc, Rmdir(p) PROVE Rest'
    BY <2>12 DEF Rmdir, Goto
  <2>13. ASSUME UNCHANGED vars PROVE Rest'
    BY <2>13 DEF vars
  <2>14. Rest'
    <3> HIDE DEF Rest
    <3> QED
      BY <2>1, <2>2, <2>3, <2>4, <2>5, <2>6, <2>7, <2>8, <2>9, <2>10, <2>11, <2>12, <2>13
      DEF Next, Call
  <2>15. TypeOK
    BY DEF TypeInv
  <2>16. QED
    BY <2>14, <2>15, BooleansStay, OvertakenStay DEF TypeInv, TypeOK
<1>3. QED
  BY <1>1, <1>2, PTL DEF Spec

(* Every variable of the lock keeps its type: what the disk holds, where each *)
(* process stands and how many acquisitions it counts                        *)
(* (run-lock.service.ts).                                                    *)
THEOREM LockTypeCorrect == Spec => []TypeOK
<1>1. TypeInv => TypeOK
  BY DEF TypeInv
<1>2. QED
  BY <1>1, TypeInvariant, PTL

-----------------------------------------------------------------------------
(* The lock of a live process is left behind by none but one that is ending, *)
(* however operators force locks away and however many processes recover one *)
(* at once (run-lock.service.ts).                                            *)
THEOREM NoLockLeftBehind == Spec => []NoStrayLock
<1>1. Init => NoStrayLock
  BY ProcAssumption DEF Init, NoStrayLock
<1>2. TypeInv /\ NoStrayLock /\ [Next]_vars => NoStrayLock'
  <2> SUFFICES ASSUME TypeInv, NoStrayLock, [Next]_vars PROVE NoStrayLock'
    OBVIOUS
  <2>0. pc \in [Proc -> PC]
    BY DEF TypeInv, TypeOK
  <2> USE ProcAssumption, <2>0 DEF NoStrayLock
  <2>1. ASSUME NEW p \in Proc, Acquire(p) \/ AcquireNested(p) \/ Unlock(p) \/ Exit(p) \/ Die(p)
        PROVE  NoStrayLock'
    BY <2>1 DEF Acquire, AcquireNested, Unlock, Exit, Die, Ends, Goto
  <2>2. ASSUME NEW p \in Proc, Release(p) \/ CheckToken(p) PROVE NoStrayLock'
    BY <2>2 DEF Release, CheckToken, RemoveFor, Goto
  <2>3. ASSUME NEW p \in Proc, Mkdir(p) \/ Read(p) \/ Judge(p) \/ Remake(p)
        PROVE  NoStrayLock'
    BY <2>3 DEF Mkdir, Read, Judge, Remake, RemoveFor, Goto
  <2>4. ASSUME NEW p \in Proc, Write(p) \/ Log(p) PROVE NoStrayLock'
    BY <2>4 DEF Write, Log, Enters, RemoveFor, Goto
  <2>5. ASSUME NEW p \in Proc, UnlockReads(p) \/ UnlockChecks(p) \/ UnlockForces(p)
        PROVE  NoStrayLock'
    BY <2>5 DEF UnlockReads, UnlockChecks, UnlockForces, RemoveFor, Goto
  <2>6. ASSUME NEW p \in Proc, Unlink(p) \/ Rmdir(p) PROVE NoStrayLock'
    BY <2>6 DEF Unlink, Rmdir, Goto
  <2>7. CASE UNCHANGED vars
    BY <2>7 DEF vars
  <2>8. QED
    BY <2>1, <2>2, <2>3, <2>4, <2>5, <2>6, <2>7 DEF Next, Call
<1>3. QED
  BY <1>1, <1>2, TypeInvariant, PTL DEF Spec

-----------------------------------------------------------------------------
(* The directory belongs to the process that has made it, until that process *)
(* has removed it again; what the metadata says is determined by where the   *)
(* process stands.                                                           *)
Owns(p) ==
    \/ pc[p] \in {"write", "log", "held", "release"}
    \/ pc[p] \in {"unlink", "rmdir"} /\ why[p] = "own"

Standing(p) ==
    /\ pc[p] \in {"write", "rmdir"} => meta = None
    /\ pc[p] \in {"log", "held", "release"} => meta = p
    /\ pc[p] = "unlink" => meta \in {None, p}

(* A process acts on what it read when it asks whether that owner lives, and *)
(* removes when it did not.                                                  *)
Removes(p) == pc[p] \in {"unlink", "rmdir"} /\ why[p] \in {"stale", "unlock"}
Acts(p) == pc[p] \in {"judge", "check"} \/ Removes(p)

(* While its reading is not overtaken the directory is the one it read about,*)
(* so that the owner it read is the only one there can be.                   *)
LockInv ==
    /\ \A p, q \in Proc : Owns(p) /\ Owns(q) => p = q
    /\ \A p \in Proc : Owns(p) => dir /\ Standing(p)
    /\ ~dir => meta = None
    /\ \A p \in Proc : Acts(p) => seen[p] \in Proc
    /\ \A p \in Proc : Acts(p) /\ p \notin overtaken
                       => dir /\ \A r \in Proc : Owns(r) => r = seen[p]
    /\ \A p \in Proc : Removes(p) /\ p \notin overtaken => pc[seen[p]] = "dead"

(* Nobody stands at the lock at first. *)
LEMMA LockInvInit == Init => LockInv
  BY DEF Init, LockInv, Owns, Acts, Removes

(* What was seized stays seized. *)
LEMMA SeizedForGood == ASSUME [Next]_vars, ~seized' PROVE ~seized
  BY DEF Next, Call, Acquire, AcquireNested, Release, Unlock, Exit, Die, Ends, Mkdir, Read, Judge,
         Remake, Write, Log, CheckToken, UnlockReads, UnlockChecks, UnlockForces, Unlink, Rmdir,
         Seizes, vars, history

(* LockInv holds on as long as nothing is seized. *)
LEMMA LockInvStep ==
    ASSUME TypeInv, ~seized => LockInv, [Next]_vars, ~seized'
    PROVE  LockInv'
<1>0. /\ pc \in [Proc -> PC] /\ why \in [Proc -> Reason] /\ meta \in Proc \cup {None}
      /\ seen \in [Proc -> Proc \cup {None}] /\ overtaken \subseteq Proc
  BY DEF TypeInv, TypeOK
<1>a. ~seized
  BY SeizedForGood
<1>b. LockInv
  BY <1>a
<1> USE ProcAssumption, <1>0, <1>b DEF LockInv, Owns, Standing, Acts, Removes, PC, Reason, held, history
<1>1. ASSUME NEW p \in Proc, Acquire(p) \/ Unlock(p) PROVE LockInv'
  BY <1>1 DEF Acquire, Unlock, Goto
<1>2. ASSUME NEW p \in Proc, AcquireNested(p) PROVE LockInv'
  BY <1>2 DEF AcquireNested
<1>3. ASSUME NEW p \in Proc, Release(p) PROVE LockInv'
  BY <1>3 DEF Release, Goto
<1>4. ASSUME NEW p \in Proc, Exit(p) \/ Die(p) PROVE LockInv'
  BY <1>4 DEF Exit, Die, Ends, Goto, Forgets
<1>5. ASSUME NEW p \in Proc, Mkdir(p) PROVE LockInv'
  BY <1>5 DEF Mkdir, Goto
<1>6. ASSUME NEW p \in Proc, Remake(p) PROVE LockInv'
  BY <1>6 DEF Remake, Goto
<1>7. ASSUME NEW p \in Proc, Write(p) PROVE LockInv'
  BY <1>7 DEF Write, RemoveFor, Goto, Enters
<1>8. ASSUME NEW p \in Proc, Log(p) PROVE LockInv'
  BY <1>8 DEF Log, Goto, Enters
<1>9. ASSUME NEW p \in Proc, CheckToken(p) PROVE LockInv'
  BY <1>9 DEF CheckToken, RemoveFor, Goto
<1>10. ASSUME NEW p \in Proc, Read(p) \/ UnlockReads(p) PROVE LockInv'
  BY <1>10 DEF Read, UnlockReads, Sees, Goto
<1>11. ASSUME NEW p \in Proc, Judge(p) \/ UnlockChecks(p) PROVE LockInv'
  BY <1>11 DEF Judge, UnlockChecks, IsStaleLocalLock, IsPidActive, RemoveFor, Goto, Forgets, Keeps
<1>12. ASSUME NEW p \in Proc, UnlockForces(p) PROVE LockInv'
  BY <1>12 DEF UnlockForces, RemoveFor, Goto
<1>13. ASSUME NEW p \in Proc, pc[p] \in {"unlink", "rmdir"}, Seizes(p)
      PROVE  /\ \A r \in Proc \ {p} : ~Owns(r)
             /\ why[p] # "own" => Removes(p) /\ p \notin overtaken
  <2>1. p \notin overtaken /\ why[p] # "force"
    BY <1>13 DEF Seizes
  <2>2. CASE why[p] = "own"
    BY <1>13, <2>2
  <2>3. CASE why[p] # "own"
    <3>1. Removes(p) /\ pc[seen[p]] = "dead"
      BY <1>13, <2>1, <2>3
    <3>2. \A r \in Proc : Owns(r) => r = seen[p]
      BY <2>1, <3>1
    <3>3. QED
      BY <2>1, <3>1, <3>2
  <2>4. QED
    BY <2>2, <2>3
<1>14. ASSUME NEW p \in Proc, Unlink(p) PROVE LockInv'
  <2>1. /\ pc[p] = "unlink" /\ meta' = None /\ pc' = [pc EXCEPT ![p] = "rmdir"]
        /\ UNCHANGED <<dir, seen, why, overtaken>>
    BY <1>14 DEF Unlink, Goto
  <2>2. /\ \A r \in Proc \ {p} : ~Owns(r)
        /\ why[p] # "own" => Removes(p) /\ p \notin overtaken
    BY <1>13, <1>14 DEF Unlink
  <2>3. \A r \in Proc \ {p} : ~Owns(r)'
    BY <2>1, <2>2
  <2>4. \A r \in Proc : (Acts(r)' <=> Acts(r)) /\ (Removes(r)' <=> Removes(r))
    BY <2>1
  <2>5. \A r \in Proc : (pc'[r] = "dead" <=> pc[r] = "dead") /\ (Owns(r)' <=> Owns(r))
    BY <2>1
  <2>6. Owns(p)' => dir' /\ Standing(p)'
    BY <2>1, <2>5
  <2>7. \A r \in Proc : Removes(r)' /\ r \notin overtaken' => pc'[seen'[r]] = "dead"
    BY <2>1, <2>4, <2>5
  <2>8. (~dir => meta = None)'
    BY <2>1
  <2> HIDE DEF Owns, Standing, Acts, Removes
  <2>9. \A r \in Proc : Acts(r)' => seen'[r] \in Proc
    BY <2>1, <2>4
  <2>10. \A r \in Proc : Acts(r)' /\ r \notin overtaken'
                           => dir' /\ \A q \in Proc : Owns(q)' => q = seen'[r]
    BY <2>1, <2>4, <2>5
  <2>11. QED
    BY <2>3, <2>6, <2>7, <2>8, <2>9, <2>10
<1>15. ASSUME NEW p \in Proc, Rmdir(p) PROVE LockInv'
  <2>1. pc[p] = "rmdir" /\ meta' = meta
    BY <1>15 DEF Rmdir
  <2>2. /\ \A r \in Proc \ {p} : ~Owns(r)
        /\ why[p] # "own" => Removes(p) /\ p \notin overtaken
    BY <1>13, <1>15 DEF Rmdir
  <2>3. CASE meta # None
    <3>1. pc' = [pc EXCEPT ![p] = "unlink"] /\ UNCHANGED <<dir, why, seen, overtaken>>
      BY <1>15, <2>3 DEF Rmdir, Goto
    <3>2. why[p] # "own"
      BY <2>1, <2>3
    <3>3. \A r \in Proc : ~Owns(r)'
      BY <2>1, <2>2, <3>1, <3>2
    <3>4. \A r \in Proc : (Acts(r)' <=> Acts(r)) /\ (Removes(r)' <=> Removes(r))
      BY <2>1, <3>1
    <3>5. \A r \in Proc : (pc'[r] = "dead" <=> pc[r] = "dead")
      BY <2>1, <3>1
    <3>6. \A r \in Proc : Removes(r)' /\ r \notin overtaken' => pc'[seen'[r]] = "dead"
      BY <3>1, <3>4, <3>5
    <3> HIDE DEF Owns, Standing, Acts, Removes
    <3>7. \A r \in Proc : Acts(r)' => seen'[r] \in Proc
      BY <3>1, <3>4
    <3>8. \A r \in Proc : Acts(r)' /\ r \notin overtaken' => dir'
      BY <3>1, <3>4
    <3>9. QED
      BY <2>1, <3>1, <3>3, <3>6, <3>7, <3>8
  <2>4. CASE meta = None
    <3>1. PICK l \in {"remake", "idle"}, w \in {"stale", "own"} :
            /\ pc' = [pc EXCEPT ![p] = l]
            /\ why' = [why EXCEPT ![p] = w]
      BY <1>15, <2>4 DEF Rmdir, Goto
    <3>2. /\ dir' = FALSE
          /\ seen' = [seen EXCEPT ![p] = None]
          /\ overtaken' = (overtaken \cup Overtaken(p)) \ {p}
      BY <1>15, <2>4 DEF Rmdir
    <3>3. \A r \in Proc : ~Owns(r)'
      BY <2>1, <2>2, <3>1
    <3>4. \A r \in Proc : Acts(r)' => r # p /\ Acts(r) /\ seen'[r] = seen[r]
      BY <3>1, <3>2
    <3>5. \A r \in Proc : Removes(r)' => Acts(r)'
      OBVIOUS
    <3> HIDE DEF Owns, Standing, Acts, Removes
    <3>6. \A r \in Proc : Acts(r)' => r \in overtaken' /\ seen'[r] \in Proc
      BY <3>2, <3>4 DEF Overtaken
    <3>7. QED
      BY <2>1, <2>4, <3>2, <3>3, <3>5, <3>6
  <2>5. QED
    BY <2>3, <2>4
<1>16. CASE UNCHANGED vars
  BY <1>16 DEF vars
<1>17. QED
  <2> HIDE DEF LockInv
  <2> QED
    BY <1>1, <1>2, <1>3, <1>4, <1>5, <1>6, <1>7, <1>8, <1>9, <1>10, <1>11, <1>12,
       <1>14, <1>15, <1>16 DEF Next, Call

(* It holds of every behaviour until something is seized. *)
LEMMA LockInvariant == Spec => [](~seized => LockInv)
<1>1. Init => (~seized => LockInv)
  BY LockInvInit
<1>2. TypeInv /\ (~seized => LockInv) /\ [Next]_vars => (~seized => LockInv)'
  BY LockInvStep
<1>3. QED
  BY <1>1, <1>2, TypeInvariant, PTL DEF Spec

-----------------------------------------------------------------------------
(* Until .lock is removed on an overtaken reading or by force, at most one   *)
(* process is inside a command that acquired the lock                        *)
(* (run-lock.service.ts acquireInternal).                                    *)
THEOREM AtMostOneHolder == Spec => [](~seized => MutualExclusion)
<1>1. (~seized => LockInv) => (~seized => MutualExclusion)
  BY DEF LockInv, MutualExclusion, Owns
<1>2. QED
  BY <1>1, LockInvariant, PTL

(* With the lock of a process that counts an acquisition on disk and in its  *)
(* name until the outermost release: what lock_forced checks of three        *)
(* processes holds of any number (run-lock.service.ts, release and unlock).  *)
THEOREM ExclusiveUntilSeized == Spec => []ExclusiveUnlessSeized
<1>1. TypeInv /\ (~seized => LockInv) /\ (~seized => MutualExclusion) => ExclusiveUnlessSeized
  BY DEF TypeInv, TypeOK, Counted, LockInv, Owns, Standing, HeldLockIsOnDisk, ExclusiveUnlessSeized
<1>2. QED
  BY <1>1, TypeInvariant, LockInvariant, AtMostOneHolder, PTL

-----------------------------------------------------------------------------
(* The owner of the refinement mapping is the holder, if there is one. *)
LEMMA OwnerOfHeld ==
    ASSUME MutualExclusion, NEW p \in Proc, pc[p] = "held"
    PROVE  Owner = p
  BY DEF Owner, MutualExclusion

(* The lock of the abstract mutex is free when nobody holds it. *)
LEMMA OwnerOfNone ==
    ASSUME \A p \in Proc : pc[p] # "held"
    PROVE  Owner = None
  BY DEF Owner

(* A step that moves nobody into or out of the lock leaves the owner alone. *)
LEMMA OwnerUnmoved ==
    ASSUME MutualExclusion, MutualExclusion',
           \A q \in Proc : pc'[q] = "held" <=> pc[q] = "held"
    PROVE  Owner' = Owner
<1>1. CASE \E q \in Proc : pc[q] = "held"
  <2>1. PICK q \in Proc : pc[q] = "held"
    BY <1>1
  <2>2. Owner = q
    BY <2>1, OwnerOfHeld
  <2>3. Owner' = q
    BY <2>1 DEF Owner, MutualExclusion
  <2>4. QED
    BY <2>2, <2>3
<1>2. CASE \A q \in Proc : pc[q] # "held"
  BY <1>2 DEF Owner
<1>3. QED
  BY <1>1, <1>2

(* Every step is a grant, a leave or a stutter of RunMutex. *)
LEMMA StepRefines ==
    ASSUME TypeInv, MutualExclusion, MutualExclusion', [Next]_vars
    PROVE  [Mutex!Next]_Owner
<1>0. pc \in [Proc -> PC]
  BY DEF TypeInv, TypeOK
<1> USE ProcAssumption, <1>0
<1>1. ASSUME NEW p \in Proc, pc[p] # "held", pc' = [pc EXCEPT ![p] = "held"]
      PROVE  [Mutex!Next]_Owner
  <2>1. CASE \E q \in Proc : pc[q] = "held"
    <3>1. PICK q \in Proc : pc[q] = "held"
      BY <2>1
    <3>2. pc'[q] = "held" /\ pc'[p] = "held" /\ p # q
      BY <1>1, <3>1
    <3>3. QED
      BY <3>2 DEF MutualExclusion
  <2>2. CASE \A q \in Proc : pc[q] # "held"
    <3>1. Owner = None
      BY <2>2, OwnerOfNone
    <3>2. Owner' = p
      BY <1>1 DEF Owner, MutualExclusion
    <3>3. QED
      BY <3>1, <3>2 DEF Mutex!Next, Mutex!Grant
  <2>3. QED
    BY <2>1, <2>2
<1>2. ASSUME NEW p \in Proc, NEW l \in PC \ {"held"}, pc[p] = "held", pc' = [pc EXCEPT ![p] = l]
      PROVE  [Mutex!Next]_Owner
  <2>1. Owner = p
    BY <1>2, OwnerOfHeld
  <2>2. \A q \in Proc : pc'[q] # "held"
    BY <1>2 DEF MutualExclusion
  <2>3. Owner' = None
    BY <2>2 DEF Owner
  <2>4. QED
    BY <2>1, <2>3 DEF Mutex!Next, Mutex!Leave
<1>3. ASSUME \A q \in Proc : pc'[q] = "held" <=> pc[q] = "held"
      PROVE  [Mutex!Next]_Owner
  BY <1>3, OwnerUnmoved
<1>4. ASSUME NEW p \in Proc, Write(p) \/ Log(p) PROVE [Mutex!Next]_Owner
  <2>1. pc[p] \in {"write", "log"}
    BY <1>4 DEF Write, Log
  <2>2. CASE pc' = [pc EXCEPT ![p] = "held"]
    BY <1>1, <2>1, <2>2
  <2>3. ASSUME NEW l \in {"log", "failed", "unlink"}, pc' = [pc EXCEPT ![p] = l]
        PROVE  [Mutex!Next]_Owner
    BY <1>3, <2>1, <2>3
  <2>4. QED
    BY <1>4, <2>2, <2>3 DEF Write, Log, Enters, RemoveFor, Goto
<1>5. ASSUME NEW p \in Proc, Release(p) PROVE [Mutex!Next]_Owner
  <2>1. CASE depth[p] > 1
    BY <1>3, <1>5, <2>1 DEF Release, Goto
  <2>2. CASE ~(depth[p] > 1)
    BY <1>2, <1>5, <2>2 DEF Release, Goto, PC
  <2>3. QED
    BY <2>1, <2>2
<1>6. ASSUME NEW p \in Proc, Exit(p) \/ Die(p) PROVE [Mutex!Next]_Owner
  <2>1. CASE pc[p] = "held"
    BY <1>2, <1>6, <2>1 DEF Exit, Die, Ends, Goto, PC
  <2>2. CASE pc[p] # "held"
    BY <1>3, <1>6, <2>2 DEF Exit, Die, Ends, Goto
  <2>3. QED
    BY <2>1, <2>2
<1>7. ASSUME NEW p \in Proc, Acquire(p) \/ AcquireNested(p) \/ Unlock(p)
      PROVE  [Mutex!Next]_Owner
  BY <1>3, <1>7 DEF Acquire, AcquireNested, Unlock, Goto
<1>8. ASSUME NEW p \in Proc, Mkdir(p) \/ Read(p) \/ Judge(p) \/ Remake(p) \/ CheckToken(p)
      PROVE  [Mutex!Next]_Owner
  BY <1>3, <1>8 DEF Mkdir, Read, Judge, Remake, CheckToken, RemoveFor, Goto
<1>9. ASSUME NEW p \in Proc, UnlockReads(p) \/ UnlockChecks(p) \/ UnlockForces(p)
      PROVE  [Mutex!Next]_Owner
  BY <1>3, <1>9 DEF UnlockReads, UnlockChecks, UnlockForces, RemoveFor, Goto
<1>10. ASSUME NEW p \in Proc, Unlink(p) \/ Rmdir(p) PROVE [Mutex!Next]_Owner
  BY <1>3, <1>10 DEF Unlink, Rmdir, Goto
<1>11. CASE UNCHANGED vars
  BY <1>3, <1>11 DEF vars
<1>12. QED
  BY <1>4, <1>5, <1>6, <1>7, <1>8, <1>9, <1>10, <1>11 DEF Next, Call

(* The file-system protocol implements the abstract lock of RunMutex, one    *)
(* owner at a time, handed over only through a moment without an owner, in   *)
(* every behaviour in which nothing is seized.                               *)
THEOREM LockImplementsMutex == Spec /\ [](~seized) => MutexSpec
<1>1. Init => Mutex!Init
  BY OwnerOfNone DEF Init, Mutex!Init
<1>2. TypeInv /\ MutualExclusion /\ MutualExclusion' /\ [Next]_vars => [Mutex!Next]_Owner
  BY StepRefines
<1>3. QED
  BY <1>1, <1>2, TypeInvariant, AtMostOneHolder, PTL DEF Spec, MutexSpec, Mutex!Spec
=============================================================================
