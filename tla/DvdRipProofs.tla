---------------------------- MODULE DvdRipProofs ----------------------------
(***************************************************************************)
(* Proofs about DvdRip for all discs, drives, bounds, faults and switches: *)
(* its types, and that a recorded backup is never lost (BackupKept).       *)
(***************************************************************************)
EXTENDS DvdRip, TLAPS

(* A task past the check of the tray works on a disc.  Without this the    *)
(* types are not inductive: GetStatus and BackUp look the disc up.         *)
TaskHasDisc ==
    \A v \in Drives : task[v].pc \notin {"idle", "unplugged", "down"} => task[v].disc \in Discs

Typed == TypeOK /\ TaskHasDisc

-----------------------------------------------------------------------------
(* Replacing one disc's object, one task, one work dir or one Job by       *)
(* another of the same type keeps the types.                               *)
LEMMA DiscPut ==
    ASSUME Typed, NEW d \in Discs, NEW o \in DiscObject, disc' = [disc EXCEPT ![d] = o]
    PROVE  disc' \in [Discs -> DiscObject]
BY DEF Typed, TypeOK

\* A task.
LEMMA TaskPut ==
    ASSUME Typed, NEW v \in Drives, NEW t \in TaskRecord, task' = [task EXCEPT ![v] = t],
           t.pc \notin {"idle", "unplugged", "down"} => t.disc \in Discs
    PROVE  task' \in [Drives -> TaskRecord] /\ TaskHasDisc'
BY DEF Typed, TypeOK, TaskHasDisc

\* A work dir.
LEMMA WorkPut ==
    ASSUME Typed, NEW d \in Discs, NEW w \in WorkDir, work' = [work EXCEPT ![d] = w]
    PROVE  work' \in [Discs -> WorkDir]
BY DEF Typed, TypeOK

\* A library.
LEMMA LibPut ==
    ASSUME Typed, NEW d \in Discs, NEW l \in Library, lib' = [lib EXCEPT ![d] = l]
    PROVE  lib' \in [Discs -> Library]
BY DEF Typed, TypeOK

\* A Job.
LEMMA JobPut ==
    ASSUME Typed, NEW d \in Discs, NEW id, NEW j \in JobRecord, SetJob(d, id, j)
    PROVE  job' \in [Discs -> [JobIds -> JobRecord]]
<1>1. job \in [Discs -> [JobIds -> JobRecord]]
  BY DEF Typed, TypeOK
<1>2. [job[d] EXCEPT ![id] = j] \in [JobIds -> JobRecord]
  BY <1>1
<1>. QED
  BY <1>1, <1>2 DEF SetJob

\* The constants of tasks and Jobs have their types.
LEMMA IdleType == IdleTask \in TaskRecord /\ IdleTask.pc = "idle" /\ NoJob \in JobRecord
BY BoundsAssumption
   DEF IdleTask, TaskRecord, TaskPc, Attempts, Versions, NoJob, JobRecord, JobPc, Edits

(* The steps the actions share. *)
LEMMA GotoTyped ==
    ASSUME Typed, NEW v \in Drives, NEW pc \in TaskPc, task[v].disc \in Discs, Goto(v, pc)
    PROVE  task' \in [Drives -> TaskRecord] /\ TaskHasDisc'
<1>1. task[v] \in TaskRecord
  BY DEF Typed, TypeOK
<1>2. /\ [task[v] EXCEPT !.pc = pc] \in TaskRecord
      /\ [task[v] EXCEPT !.pc = pc].disc = task[v].disc
  BY <1>1 DEF TaskRecord
<1>. QED
  BY <1>2, TaskPut DEF Goto

\* A task that ends.
LEMMA EndTask ==
    ASSUME Typed, NEW v \in Drives, task[v].disc \in Discs, Ejecting(v) \/ Handled(v)
    PROVE  task' \in [Drives -> TaskRecord] /\ TaskHasDisc'
<1>1. ASSUME NEW pc \in {"eject", "handled"}
      PROVE  /\ [IdleTask EXCEPT !.pc = pc, !.disc = task[v].disc] \in TaskRecord
             /\ [IdleTask EXCEPT !.pc = pc, !.disc = task[v].disc].disc = task[v].disc
  BY IdleType DEF TaskRecord, TaskPc
<1>. QED
  BY <1>1, TaskPut DEF Ejecting, Handled

\* A task whose agent or drive is gone.
LEMMA ResetTask ==
    ASSUME Typed, NEW v \in Drives, NEW pc \in {"idle", "unplugged", "down"},
           task' = [task EXCEPT ![v] = [IdleTask EXCEPT !.pc = pc]]
    PROVE  task' \in [Drives -> TaskRecord] /\ TaskHasDisc'
<1>1. /\ [IdleTask EXCEPT !.pc = pc] \in TaskRecord
      /\ [IdleTask EXCEPT !.pc = pc].pc = pc
  BY IdleType DEF TaskRecord, TaskPc
<1>. QED
  BY <1>1, TaskPut

\* A task that waits for the next disc.
LEMMA IdleTyped ==
    ASSUME Typed, NEW v \in Drives, task' = [task EXCEPT ![v] = IdleTask]
    PROVE  task' \in [Drives -> TaskRecord] /\ TaskHasDisc'
BY IdleType, TaskPut

\* A fault only uses up the budget.
LEMMA FaultTyped ==
    ASSUME Typed, NEW kind, Fault(kind)
    PROVE  left' \in Budget
BY BoundsAssumption DEF Typed, TypeOK, Fault, Budget

\* A pod that goes on.
LEMMA JobGotoTyped ==
    ASSUME Typed, NEW d \in Discs, NEW id \in JobIds, NEW pc \in JobPc, JobGoto(d, id, pc)
    PROVE  job' \in [Discs -> [JobIds -> JobRecord]]
<1>1. job[d][id] \in JobRecord
  BY DEF Typed, TypeOK
<1>2. [job[d][id] EXCEPT !.pc = pc] \in JobRecord
  BY <1>1 DEF JobRecord
<1>. QED
  BY <1>2, JobPut DEF JobGoto

\* A pod that ends.
LEMMA EndTyped ==
    ASSUME Typed, NEW d \in Discs, NEW id, NEW pc \in JobPc, End(d, id, pc)
    PROVE  job' \in [Discs -> [JobIds -> JobRecord]]
<1>1. [NoJob EXCEPT !.pc = pc] \in JobRecord
  BY IdleType DEF JobRecord
<1>. QED
  BY <1>1, JobPut DEF End

-----------------------------------------------------------------------------
(* JobState() is one of the four states decide() tells apart, and decide() *)
(* only ever asks for a change to a phase.                                 *)
LEMMA DecideType ==
    ASSUME NEW o \in DiscObject, NEW j, Decide(o, JobState(j)).do = "SetPhase"
    PROVE  Decide(o, JobState(j)).to \in Phase
<1>1. o.phase \in Phase
  BY DEF DiscObject
<1>2. JobState(j) \in {"Missing", "Succeeded", "Failed", "Running"}
  BY DEF JobState
<1>. QED
  BY <1>1, <1>2 DEF Decide, AfterJob, WhenDone, SetPhase, Wait, Fail, Phase

\* The cached Disc is a Disc.
LEMMA CachedType ==
    ASSUME Typed, NEW d \in Discs
    PROVE  Cached(d) \in DiscObject
BY DEF Typed, TypeOK, Cached

\* So is an older one.
LEMMA AgedType ==
    ASSUME NEW o \in DiscObject
    PROVE  Aged(o) \in DiscObject
BY DEF Aged, DiscObject, Stamp

\* The first state has the types.
LEMMA InitTyped == Init => Typed
BY BoundsAssumption, NoneAssumption
   DEF Init, Typed, TypeOK, TaskHasDisc, NoObject, DiscObject, Phase, Stamp, Versions, Edits,
       Attempts, Reconcile, IdleReconcile, JobPc, JobRecord, NoJob, TaskPc, TaskRecord, IdleTask,
       WorkDir, Library, Budget

-----------------------------------------------------------------------------
(* Every step of a drive keeps the types: one step per action of the agent, *)
(* and the people at the drive.                                            *)
LEMMA DriveTyped ==
    ASSUME Typed, NEW v \in Drives, DriveNext(v)
    PROVE  Typed'
<1>. DEFINE d == task[v].disc
<1>a. task[v] \in TaskRecord
  BY DEF Typed, TypeOK
<1>b. task[v].pc \notin {"idle", "unplugged", "down"} => d \in Discs
  BY DEF Typed, TaskHasDisc
<1>c. d \in Discs => disc[d] \in DiscObject /\ work[d] \in WorkDir /\ made[d] \in Versions
  BY DEF Typed, TypeOK
<1>1. CASE Detect(v)
  <2>1. PICK pc \in {"create", "get", "eject"} :
          task' = [task EXCEPT ![v] = [IdleTask EXCEPT !.disc = tray[v], !.pc = pc]]
    BY <1>1 DEF Detect
  <2>2. tray[v] \in Discs
    BY <1>1 DEF Detect, Typed, TypeOK
  <2>3. /\ [IdleTask EXCEPT !.disc = tray[v], !.pc = pc] \in TaskRecord
        /\ [IdleTask EXCEPT !.disc = tray[v], !.pc = pc].disc \in Discs
    BY <2>2, IdleType DEF TaskRecord, TaskPc
  <2>4. task' \in [Drives -> TaskRecord] /\ TaskHasDisc'
    BY <2>1, <2>3, TaskPut
  <2>. QED
    BY <1>1, <2>4 DEF Detect, Typed, TypeOK
<1>2. CASE Create(v)
  <2>1. d \in Discs
    BY <1>2, <1>b DEF Create
  <2>2. task' \in [Drives -> TaskRecord] /\ TaskHasDisc'
    BY <1>2, <2>1, EndTask, GotoTyped DEF Create, TaskPc
  <2>3. [disc[d] EXCEPT !.exists = TRUE] \in DiscObject
    BY <1>c, <2>1 DEF DiscObject
  <2>4. disc' \in [Discs -> DiscObject]
    BY <1>2, <2>1, <2>3, DiscPut DEF Create, Typed, TypeOK
  <2>. QED
    BY <1>2, <2>2, <2>4 DEF Create, Typed, TypeOK
<1>3. CASE GetStatus(v)
  <2>1. d \in Discs
    BY <1>3, <1>b DEF GetStatus
  <2>2. /\ [task[v] EXCEPT !.pc = "claim", !.n = disc[d].attempts] \in TaskRecord
        /\ [task[v] EXCEPT !.pc = "claim", !.n = disc[d].attempts].disc = d
    BY <1>a, <1>c, <2>1 DEF TaskRecord, TaskPc, DiscObject
  <2>3. task' \in [Drives -> TaskRecord] /\ TaskHasDisc'
    BY <1>3, <2>1, <2>2, TaskPut DEF GetStatus
  <2>. QED
    BY <1>3, <2>3 DEF GetStatus, Typed, TypeOK
<1>4. CASE Claim(v)
  <2>. DEFINE o == [disc[d] EXCEPT !.st = TRUE, !.phase = "BackingUp", !.drive = v,
                                   !.attempts = task[v].n + 1, !.since = "fresh"]
  <2>1. d \in Discs
    BY <1>4, <1>b DEF Claim
  <2>2. task' \in [Drives -> TaskRecord] /\ TaskHasDisc'
    BY <1>4, <2>1, GotoTyped DEF Claim, TaskPc
  <2>3. task[v].n + 1 \in Attempts
    BY <1>4, <1>a, BoundsAssumption DEF Claim, TaskRecord, Attempts
  <2>4. o \in DiscObject
    BY <1>c, <2>1, <2>3 DEF DiscObject, Phase, Stamp
  <2>5. disc' = [disc EXCEPT ![d] = o]
    BY <1>4 DEF Claim
  <2>. HIDE DEF o
  <2>6. disc' \in [Discs -> DiscObject]
    BY <2>1, <2>4, <2>5, DiscPut
  <2>. QED
    BY <1>4, <2>2, <2>6 DEF Claim, Typed, TypeOK
<1>5. CASE BackUp(v)
  <2>1. d \in Discs
    BY <1>5, <1>b DEF BackUp
  <2>2. made[d] + 1 \in Versions
    BY <1>5, <1>c, <2>1, BoundsAssumption DEF BackUp, Versions
  <2>3. made' \in [Discs -> Versions]
    BY <1>5, <2>1, <2>2 DEF BackUp, Typed, TypeOK
  <2>4. PICK pending \in {FALSE, Damaged} :
          task' = [task EXCEPT ![v] = [@ EXCEPT !.pc = "upload", !.ver = made[d] + 1,
                                                !.pending = pending]]
    BY <1>5 DEF BackUp
  <2>5. pending \in BOOLEAN
    BY SwitchAssumption
  <2>6. /\ [task[v] EXCEPT !.pc = "upload", !.ver = made[d] + 1, !.pending = pending] \in TaskRecord
        /\ [task[v] EXCEPT !.pc = "upload", !.ver = made[d] + 1, !.pending = pending].disc = d
    BY <1>a, <2>2, <2>5 DEF TaskRecord, TaskPc
  <2>7. task' \in [Drives -> TaskRecord] /\ TaskHasDisc'
    BY <2>1, <2>4, <2>6, TaskPut
  <2>. QED
    BY <1>5, <2>3, <2>7 DEF BackUp, Typed, TypeOK
<1>6. CASE Upload(v)
  <2>1. d \in Discs
    BY <1>6, <1>b DEF Upload
  <2>2. [work[d] EXCEPT !.master = task[v].ver] \in WorkDir
    BY <1>a, <1>c, <2>1 DEF WorkDir, TaskRecord
  <2>3. work' \in [Discs -> WorkDir]
    BY <1>6, <2>1, <2>2, WorkPut DEF Upload
  <2>4. task' \in [Drives -> TaskRecord] /\ TaskHasDisc'
    BY <1>6, <2>1, GotoTyped DEF Upload, TaskPc
  <2>. QED
    BY <1>6, <2>3, <2>4 DEF Upload, Typed, TypeOK
<1>7. CASE Clean(v)
  <2>1. d \in Discs
    BY <1>7, <1>b DEF Clean
  <2>2. [work[d] EXCEPT !.enc = 0, !.raw = task[v].pending] \in WorkDir
    <3>1. 0 \in Versions
      BY BoundsAssumption DEF Versions
    <3>. QED
      BY <1>a, <1>c, <2>1, <3>1 DEF WorkDir, TaskRecord
  <2>3. work' \in [Discs -> WorkDir]
    BY <1>7, <2>1, <2>2, WorkPut DEF Clean
  <2>4. task' \in [Drives -> TaskRecord] /\ TaskHasDisc'
    BY <1>7, <2>1, GotoTyped DEF Clean, TaskPc
  <2>. QED
    BY <1>7, <2>3, <2>4 DEF Clean, Typed, TypeOK
<1>8. CASE BackUpFails(v)
  <2>1. d \in Discs
    BY <1>8, <1>b DEF BackUpFails
  <2>2. task' \in [Drives -> TaskRecord] /\ TaskHasDisc'
    BY <1>8, <2>1, GotoTyped DEF BackUpFails, TaskPc
  <2>3. \A raw \in {work[d].raw, task[v].pending} : [work[d] EXCEPT !.enc = 0, !.raw = raw] \in WorkDir
    <3>1. 0 \in Versions
      BY BoundsAssumption DEF Versions
    <3>. QED
      BY <1>a, <1>c, <2>1, <3>1 DEF WorkDir, TaskRecord
  <2>4. work' \in [Discs -> WorkDir]
    BY <1>8, <2>1, <2>3, WorkPut DEF BackUpFails, Typed, TypeOK
  <2>. QED
    BY <1>8, <2>2, <2>4 DEF BackUpFails, Typed, TypeOK
<1>9. CASE Record(v)
  <2>. DEFINE o == [disc[d] EXCEPT !.phase = "BackedUp", !.backup = task[v].ver,
                                   !.rescue = task[v].pending, !.drive = v, !.since = "fresh"]
  <2>1. d \in Discs
    BY <1>9, <1>b DEF Record
  <2>2. o \in DiscObject
    BY <1>a, <1>c, <2>1 DEF DiscObject, TaskRecord, Phase, Stamp
  <2>3. disc' = [disc EXCEPT ![d] = o]
    BY <1>9 DEF Record
  <2>. HIDE DEF o
  <2>4. disc' \in [Discs -> DiscObject]
    BY <2>1, <2>2, <2>3, DiscPut
  <2>5. task' \in [Drives -> TaskRecord] /\ TaskHasDisc'
    BY <1>9, <2>1, EndTask DEF Record
  <2>. QED
    BY <1>9, <2>4, <2>5 DEF Record, Typed, TypeOK
<1>10. CASE RecordFailure(v)
  <2>1. d \in Discs
    BY <1>10, <1>b DEF RecordFailure
  <2>2. [disc[d] EXCEPT !.phase = "Failed", !.since = "fresh"] \in DiscObject
    BY <1>c, <2>1 DEF DiscObject, Phase, Stamp
  <2>3. disc' \in [Discs -> DiscObject]
    BY <1>10, <2>1, <2>2, DiscPut DEF RecordFailure, Typed, TypeOK
  <2>4. left' \in Budget
    BY <1>10, FaultTyped DEF RecordFailure, Typed, TypeOK
  <2>5. task' \in [Drives -> TaskRecord] /\ TaskHasDisc'
    BY <1>10, <2>1, EndTask DEF RecordFailure
  <2>. QED
    BY <1>10, <2>3, <2>4, <2>5 DEF RecordFailure, Typed, TypeOK
<1>11. CASE HandleError(v) \/ EjectFails(v)
  <2>1. d \in Discs
    BY <1>11, <1>b DEF HandleError, EjectFails
  <2>2. task' \in [Drives -> TaskRecord] /\ TaskHasDisc'
    BY <1>11, <2>1, EndTask DEF HandleError, EjectFails
  <2>3. left' \in Budget
    BY <1>11, FaultTyped DEF HandleError, EjectFails
  <2>. QED
    BY <1>11, <2>2, <2>3 DEF HandleError, EjectFails, Typed, TypeOK
<1>12. CASE Eject(v) \/ Remove(v)
  <2>1. task' \in [Drives -> TaskRecord] /\ TaskHasDisc'
    BY <1>12, IdleTyped DEF Eject, Remove
  <2>. QED
    BY <1>12, <2>1 DEF Eject, Remove, Typed, TypeOK
<1>13. CASE Crash(v)
  <2>1. task' \in [Drives -> TaskRecord] /\ TaskHasDisc'
    BY <1>13, ResetTask DEF Crash
  <2>2. left' \in Budget
    BY <1>13, FaultTyped DEF Crash
  <2>. QED
    BY <1>13, <2>1, <2>2 DEF Crash, Typed, TypeOK
<1>14. CASE Restart(v) \/ Plug(v)
  <2>1. task' \in [Drives -> TaskRecord] /\ TaskHasDisc'
    BY <1>14, IdleTyped DEF Restart, Plug
  <2>. QED
    BY <1>14, <2>1 DEF Restart, Plug, Typed, TypeOK
<1>15. CASE Unplug(v)
  <2>1. task' \in [Drives -> TaskRecord] /\ TaskHasDisc'
    BY <1>15, ResetTask DEF Unplug
  <2>2. left' \in Budget
    BY <1>15, FaultTyped DEF Unplug
  <2>3. leak' \in [Drives -> SUBSET Discs]
    BY <1>15 DEF Unplug, Typed, TypeOK
  <2>4. ASSUME task[v].pc = "upload"
        PROVE  d \in Discs /\ [work[d] EXCEPT !.master = task[v].ver] \in WorkDir
    BY <1>a, <1>b, <1>c, <2>4 DEF WorkDir, TaskRecord
  <2>5. work' \in [Discs -> WorkDir]
    BY <1>15, <2>4, WorkPut DEF Unplug, Typed, TypeOK
  <2>. QED
    BY <1>15, <2>1, <2>2, <2>3, <2>5 DEF Unplug, Typed, TypeOK
<1>16. CASE \E e \in Discs : Insert(v, e)
  <2>1. left' \in Budget
    BY <1>16, BoundsAssumption DEF Insert, Typed, TypeOK, Budget
  <2>2. tray' \in [Drives -> Discs \cup {None}]
    BY <1>16 DEF Insert, Typed, TypeOK
  <2>3. UNCHANGED <<disc, seen, ctl, job, task, leak, work, lib, made>>
    BY <1>16 DEF Insert
  <2>. QED
    BY <2>1, <2>2, <2>3 DEF Typed, TypeOK, TaskHasDisc
<1>. QED
  BY <1>1, <1>2, <1>3, <1>4, <1>5, <1>6, <1>7, <1>8, <1>9, <1>10, <1>11, <1>12, <1>13, <1>14,
     <1>15, <1>16 DEF DriveNext, AgentStep

-----------------------------------------------------------------------------
(* Every step of the controller keeps the types. *)
LEMMA ControllerTyped ==
    ASSUME Typed, NEW d \in Discs,
           Watch(d) \/ ReconcileStep(d) \/ GpuStarved(d) \/ ReconcileError(d)
    PROVE  Typed'
<1>a. disc[d] \in DiscObject /\ ctl[d] \in Reconcile /\ Cached(d) \in DiscObject
  BY CachedType DEF Typed, TypeOK
<1>b. IdleReconcile \in Reconcile
  BY BoundsAssumption DEF IdleReconcile, Reconcile, Attempts
<1>c. UNCHANGED task => (TaskHasDisc' <=> TaskHasDisc)
  BY DEF TaskHasDisc
<1>d. ASSUME NEW stage \in {"e", "p"}, NEW cpu \in BOOLEAN, Starting(d, stage, cpu)
      PROVE  ctl' \in [Discs -> Reconcile]
  <2>1. Cached(d).attempts + 1 \in Attempts
    BY <1>a, <1>d, BoundsAssumption DEF Starting, DiscObject, Attempts
  <2>2. [pc |-> "create", stage |-> stage, n |-> Cached(d).attempts + 1, cpu |-> cpu] \in Reconcile
    BY <2>1 DEF Reconcile
  <2>. QED
    BY <1>d, <2>2 DEF Starting, Typed, TypeOK
<1>1. CASE Watch(d)
  BY <1>1, <1>a, <1>c DEF Watch, Typed, TypeOK
<1>2. CASE Retry(d)
  <2>1. RetryPhase(Cached(d)) \in Phase
    BY <1>a DEF RetryPhase, DiscObject, Phase
  <2>2. [disc[d] EXCEPT !.observed = Cached(d).retry, !.phase = RetryPhase(Cached(d)),
                        !.since = "fresh"] \in DiscObject
    BY <1>a, <2>1 DEF DiscObject, Stamp
  <2>3. disc' \in [Discs -> DiscObject]
    BY <1>2, <2>2, DiscPut DEF Retry
  <2>. QED
    BY <1>2, <1>c, <2>3 DEF Retry, Typed, TypeOK
<1>3. CASE MovePhase(d)
  <2>. DEFINE p == Decision(d).to
              o == [disc[d] EXCEPT !.phase = p, !.since = "fresh",
                           !.encKey = IF p = "Encoded" THEN Cached(d).ekey ELSE disc[d].encKey,
                           !.pubKey = IF p = "Done" THEN Cached(d).lkey ELSE disc[d].pubKey]
  <2>1. p \in Phase
    BY <1>3, <1>a, DecideType DEF MovePhase, Decision
  <2>2. disc' = [disc EXCEPT ![d] = o]
    BY <1>3 DEF MovePhase
  <2>. HIDE DEF p
  <2>3. o \in DiscObject
    BY <1>a, <2>1 DEF DiscObject, Stamp
  <2>. HIDE DEF o
  <2>4. disc' \in [Discs -> DiscObject]
    BY <2>2, <2>3, DiscPut
  <2>. QED
    BY <1>3, <1>c, <2>4 DEF MovePhase, Typed, TypeOK
<1>4. CASE FailDisc(d)
  <2>1. [disc[d] EXCEPT !.phase = "Failed", !.since = "fresh"] \in DiscObject
    BY <1>a DEF DiscObject, Phase, Stamp
  <2>2. disc' \in [Discs -> DiscObject]
    BY <1>4, <2>1, DiscPut DEF FailDisc
  <2>. QED
    BY <1>4, <1>c, <2>2 DEF FailDisc, Typed, TypeOK
<1>5. CASE StartEncode(d) \/ StartPublish(d)
  <2>1. ctl' \in [Discs -> Reconcile]
    BY <1>5, <1>d DEF StartEncode, StartPublish
  <2>. QED
    BY <1>5, <1>c, <2>1 DEF StartEncode, StartPublish, Typed, TypeOK
<1>6. CASE GpuStarved(d)
  <2>1. ctl' \in [Discs -> Reconcile]
    BY <1>6, <1>d DEF GpuStarved
  <2>2. job' \in [Discs -> [JobIds -> JobRecord]]
    BY <1>6, IdleType, JobPut DEF GpuStarved, Typed, TypeOK
  <2>3. left' \in Budget
    BY <1>6, FaultTyped DEF GpuStarved, Typed, TypeOK
  <2>. QED
    BY <1>6, <1>c, <2>1, <2>2, <2>3 DEF GpuStarved, Typed, TypeOK
<1>7. CASE CreateJob(d)
  <2>1. [NoJob EXCEPT !.pc = "pending", !.cpu = ctl[d].cpu] \in JobRecord
    BY <1>a, IdleType DEF JobRecord, JobPc, Reconcile
  <2>2. job' \in [Discs -> [JobIds -> JobRecord]]
    BY <1>7, <2>1, JobPut DEF CreateJob, Typed, TypeOK
  <2>3. [ctl[d] EXCEPT !.pc = "patch"] \in Reconcile
    BY <1>a DEF Reconcile
  <2>4. ctl' \in [Discs -> Reconcile]
    BY <1>7, <2>3 DEF CreateJob, Typed, TypeOK
  <2>. QED
    BY <1>7, <1>c, <2>2, <2>4 DEF CreateJob, Typed, TypeOK
<1>8. CASE PatchStarted(d)
  <2>. DEFINE ph == IF ctl[d].cpu THEN disc[d].phase
                    ELSE IF ctl[d].stage = "e" THEN "Encoding" ELSE "Publishing"
              si == IF ctl[d].cpu THEN disc[d].since ELSE "fresh"
              o == [disc[d] EXCEPT !.attempts = ctl[d].n, !.phase = ph, !.since = si]
  <2>2. disc' = [disc EXCEPT ![d] = o]
    BY <1>8 DEF PatchStarted
  <2>5. ph \in Phase /\ si \in Stamp /\ ctl[d].n \in Attempts
    BY <1>a DEF DiscObject, Reconcile, Phase, Stamp
  <2>. HIDE DEF ph, si
  <2>1. o \in DiscObject
    BY <1>a, <2>5 DEF DiscObject
  <2>. HIDE DEF o
  <2>3. disc' \in [Discs -> DiscObject]
    BY <2>1, <2>2, DiscPut
  <2>4. ctl' \in [Discs -> Reconcile]
    BY <1>8, <1>b DEF PatchStarted, Typed, TypeOK
  <2>. QED
    BY <1>8, <1>c, <2>3, <2>4 DEF PatchStarted, Typed, TypeOK
<1>9. CASE ReconcileError(d)
  <2>1. ctl' \in [Discs -> Reconcile]
    BY <1>9, <1>b DEF ReconcileError, Typed, TypeOK
  <2>2. left' \in Budget
    BY <1>9, FaultTyped DEF ReconcileError
  <2>. QED
    BY <1>9, <1>c, <2>1, <2>2 DEF ReconcileError, Typed, TypeOK
<1>. QED
  BY <1>1, <1>2, <1>3, <1>4, <1>5, <1>6, <1>7, <1>8, <1>9 DEF ReconcileStep

(* Every step of a Job's pod keeps the types. *)
LEMMA JobTyped ==
    ASSUME Typed, NEW d \in Discs, NEW n \in 1 .. MaxAttempts, JobStep(d, n)
    PROVE  Typed'
<1>. DEFINE e == <<"e", n>>
            p == <<"p", n>>
<1>a. e \in JobIds /\ p \in JobIds
  BY DEF JobIds
<1>b. /\ disc[d] \in DiscObject /\ work[d] \in WorkDir /\ lib[d] \in Library
      /\ job[d][e] \in JobRecord /\ job[d][p] \in JobRecord
  BY <1>a DEF Typed, TypeOK
<1>c. UNCHANGED task => (TaskHasDisc' <=> TaskHasDisc)
  BY DEF TaskHasDisc
<1>d. 0 \in Versions
  BY BoundsAssumption DEF Versions
<1>e. {"encode", "titles", "iso", "place", "movies", "record", "finish", "succeeded", "failed"}
        \subseteq JobPc
  BY DEF JobPc
<1>1. CASE StartEncoding(d, n)
  <2>. DEFINE src == IF work[d].master # 0 THEN work[d].master
                     ELSE IF disc[d].published THEN lib[d].iso ELSE 0
  <2>1. src \in Versions
    BY <1>b, <1>d DEF WorkDir, Library
  <2>2. [job[d][e] EXCEPT !.pc = "encode", !.ekey = disc[d].ekey, !.src = src] \in JobRecord
    <3>. HIDE DEF src
    <3>. QED
      BY <1>b, <1>e, <2>1 DEF JobRecord, DiscObject
  <2>3. \/ End(d, e, "failed") /\ UNCHANGED work
        \/ /\ SetJob(d, e, [job[d][e] EXCEPT !.pc = "encode", !.ekey = disc[d].ekey, !.src = src])
           /\ work' = work \/ work' = [work EXCEPT ![d] = [@ EXCEPT !.enc = 0]]
    BY <1>1 DEF StartEncoding
  <2>. HIDE DEF src
  <2>4. job' \in [Discs -> [JobIds -> JobRecord]]
    BY <1>a, <1>e, <2>2, <2>3, JobPut, EndTyped
  <2>5. [work[d] EXCEPT !.enc = 0] \in WorkDir
    BY <1>b, <1>d DEF WorkDir
  <2>6. work' \in [Discs -> WorkDir]
    BY <2>3, <2>5, WorkPut DEF Typed, TypeOK
  <2>. QED
    BY <1>1, <1>c, <2>4, <2>6 DEF StartEncoding, Typed, TypeOK
<1>2. CASE Encode(d, n) \/ EncodeFails(d, n)
  <2>1. job' \in [Discs -> [JobIds -> JobRecord]]
    BY <1>2, <1>a, <1>e, JobGotoTyped, EndTyped DEF Encode, EncodeFails
  <2>2. [work[d] EXCEPT !.enc = job[d][e].src, !.ekey = job[d][e].ekey] \in WorkDir
    BY <1>b DEF WorkDir, JobRecord
  <2>2a. [work[d] EXCEPT !.enc = 0] \in WorkDir
    BY <1>b, <1>d DEF WorkDir
  <2>3. \/ work' = work
        \/ work' = [work EXCEPT ![d] = [@ EXCEPT !.enc = job[d][e].src, !.ekey = job[d][e].ekey]]
        \/ work' = [work EXCEPT ![d] = [@ EXCEPT !.enc = 0]]
    BY <1>2 DEF Encode, EncodeFails, Encoded, Redone
  <2>4. work' \in [Discs -> WorkDir]
    BY <2>2, <2>2a, <2>3, WorkPut DEF Typed, TypeOK
  <2>. QED
    BY <1>2, <1>c, <2>1, <2>4 DEF Encode, EncodeFails, Typed, TypeOK
<1>3. CASE RecordTitles(d, n)
  <2>1. job' \in [Discs -> [JobIds -> JobRecord]]
    BY <1>3, <1>e, EndTyped DEF RecordTitles
  <2>2. left' \in Budget
    BY <1>3, FaultTyped DEF RecordTitles, Typed, TypeOK
  <2>. QED
    BY <1>3, <1>c, <2>1, <2>2 DEF RecordTitles, Typed, TypeOK
<1>4. CASE StartPublishing(d, n)
  <2>1. [job[d][p] EXCEPT !.pc = "iso", !.lkey = disc[d].lkey, !.backup = disc[d].backup,
                          !.published = disc[d].published] \in JobRecord
    BY <1>b, <1>e DEF JobRecord, DiscObject
  <2>2. job' \in [Discs -> [JobIds -> JobRecord]]
    BY <1>4, <2>1, JobPut DEF StartPublishing
  <2>. QED
    BY <1>4, <1>c, <2>2 DEF StartPublishing, Typed, TypeOK
<1>5. CASE CopyIso(d, n)
  <2>1. [job[d][p] EXCEPT !.pc = "place", !.src = work[d].master] \in JobRecord
    BY <1>b, <1>e DEF JobRecord, WorkDir
  <2>2. job' \in [Discs -> [JobIds -> JobRecord]]
    BY <1>5, <1>a, <1>e, <2>1, JobPut, JobGotoTyped, EndTyped DEF CopyIso
  <2>. QED
    BY <1>5, <1>c, <2>2 DEF CopyIso, Typed, TypeOK
<1>6. CASE PlaceIso(d, n)
  <2>1. [lib[d] EXCEPT !.iso = job[d][p].src] \in Library
    BY <1>b DEF JobRecord, Library
  <2>2. lib' \in [Discs -> Library]
    BY <1>6, <2>1, LibPut DEF PlaceIso
  <2>3. job' \in [Discs -> [JobIds -> JobRecord]]
    BY <1>6, <1>a, <1>e, JobGotoTyped DEF PlaceIso
  <2>. QED
    BY <1>6, <1>c, <2>2, <2>3 DEF PlaceIso, Typed, TypeOK
<1>7. CASE PlaceMovies(d, n)
  <2>1. /\ [lib[d] EXCEPT !.mkv = work[d].enc, !.ekey = work[d].ekey,
                          !.lkey = job[d][p].lkey] \in Library
        /\ [lib[d] EXCEPT !.lkey = job[d][p].lkey] \in Library
    BY <1>b DEF JobRecord, Library, WorkDir
  <2>2. lib' \in [Discs -> Library]
    BY <1>7, <2>1, LibPut DEF PlaceMovies, Typed, TypeOK
  <2>3. job' \in [Discs -> [JobIds -> JobRecord]]
    BY <1>7, <1>a, <1>e, JobGotoTyped, EndTyped DEF PlaceMovies
  <2>. QED
    BY <1>7, <1>c, <2>2, <2>3 DEF PlaceMovies, Typed, TypeOK
<1>8. CASE RecordPublished(d, n)
  <2>1. [disc[d] EXCEPT !.published = TRUE] \in DiscObject
    BY <1>b DEF DiscObject
  <2>2. disc' \in [Discs -> DiscObject]
    BY <1>8, <2>1, DiscPut DEF RecordPublished, Typed, TypeOK
  <2>3. job' \in [Discs -> [JobIds -> JobRecord]]
    BY <1>8, <1>a, <1>e, JobGotoTyped, EndTyped DEF RecordPublished
  <2>4. left' \in Budget
    BY <1>8, FaultTyped DEF RecordPublished, Typed, TypeOK
  <2>. QED
    BY <1>8, <1>c, <2>2, <2>3, <2>4 DEF RecordPublished, Typed, TypeOK
<1>9. CASE Finish(d, n)
  <2>1. [work[d] EXCEPT !.master = 0, !.enc = 0] \in WorkDir
    BY <1>b, <1>d DEF WorkDir
  <2>2. work' \in [Discs -> WorkDir]
    BY <1>9, <2>1, WorkPut DEF Finish
  <2>3. job' \in [Discs -> [JobIds -> JobRecord]]
    BY <1>9, <1>e, EndTyped DEF Finish
  <2>. QED
    BY <1>9, <1>c, <2>2, <2>3 DEF Finish, Typed, TypeOK
<1>. QED
  BY <1>1, <1>2, <1>3, <1>4, <1>5, <1>6, <1>7, <1>8, <1>9 DEF JobStep

(* Jobs that die or expire, stamps that are renewed or age, and the people *)
(* who edit a Disc keep the types.                                         *)
LEMMA OthersTyped ==
    ASSUME Typed, NEW d \in Discs,
           \/ Renew(d) \/ Elapse(d)
           \/ \E id \in JobIds : KillJob(d, id) \/ ExpireJob(d, id)
           \/ EditEncode(d) \/ EditLayout(d) \/ Hold(d) \/ Release(d) \/ BumpRetry(d)
    PROVE  Typed'
<1>a. disc[d] \in DiscObject /\ seen[d] \in DiscObject
  BY DEF Typed, TypeOK
<1>c. UNCHANGED task => (TaskHasDisc' <=> TaskHasDisc)
  BY DEF TaskHasDisc
<1>1. CASE Renew(d)
  <2>1. [disc[d] EXCEPT !.heartbeat = "fresh"] \in DiscObject
    BY <1>a DEF DiscObject, Stamp
  <2>2. disc' \in [Discs -> DiscObject]
    BY <1>1, <2>1, DiscPut DEF Renew
  <2>. QED
    BY <1>1, <1>c, <2>2 DEF Renew, Typed, TypeOK
<1>2. CASE Elapse(d)
  <2>1. Aged(disc[d]) \in DiscObject /\ Aged(seen[d]) \in DiscObject
    BY <1>a, AgedType
  <2>. QED
    BY <1>2, <1>c, <2>1 DEF Elapse, Typed, TypeOK
<1>3. CASE \E id \in JobIds : KillJob(d, id) \/ ExpireJob(d, id)
  <2>1. PICK id \in JobIds : KillJob(d, id) \/ ExpireJob(d, id)
    BY <1>3
  <2>2. job' \in [Discs -> [JobIds -> JobRecord]]
    BY <2>1, IdleType, JobPut, EndTyped DEF KillJob, ExpireJob, JobPc
  <2>3. left' \in Budget
    BY <2>1, FaultTyped DEF KillJob, ExpireJob
  <2>. QED
    BY <1>c, <2>1, <2>2, <2>3 DEF KillJob, ExpireJob, Typed, TypeOK
<1>4. CASE EditEncode(d)
  <2>1. [disc[d] EXCEPT !.ekey = disc[d].ekey + 1] \in DiscObject
    BY <1>4, <1>a, BoundsAssumption DEF EditEncode, DiscObject, Edits
  <2>2. disc' \in [Discs -> DiscObject]
    BY <1>4, <2>1, DiscPut DEF EditEncode
  <2>. QED
    BY <1>4, <1>c, <2>2 DEF EditEncode, Typed, TypeOK
<1>5. CASE EditLayout(d)
  <2>1. [disc[d] EXCEPT !.lkey = disc[d].lkey + 1] \in DiscObject
    BY <1>5, <1>a, BoundsAssumption DEF EditLayout, DiscObject, Edits
  <2>2. disc' \in [Discs -> DiscObject]
    BY <1>5, <2>1, DiscPut DEF EditLayout
  <2>. QED
    BY <1>5, <1>c, <2>2 DEF EditLayout, Typed, TypeOK
<1>6. CASE Hold(d) \/ Release(d)
  <2>1. ASSUME NEW h \in BOOLEAN
        PROVE  [disc[d] EXCEPT !.hold = h] \in DiscObject
    BY <1>a DEF DiscObject
  <2>2. disc' \in [Discs -> DiscObject]
    BY <1>6, <2>1, DiscPut DEF Hold, Release
  <2>. QED
    BY <1>6, <1>c, <2>2 DEF Hold, Release, Typed, TypeOK
<1>7. CASE BumpRetry(d)
  <2>1. [disc[d] EXCEPT !.retry = disc[d].retry + 1] \in DiscObject
    BY <1>7, <1>a, BoundsAssumption DEF BumpRetry, DiscObject
  <2>2. disc' \in [Discs -> DiscObject]
    BY <1>7, <2>1, DiscPut DEF BumpRetry
  <2>. QED
    BY <1>7, <1>c, <2>2 DEF BumpRetry, Typed, TypeOK
<1>. QED
  BY <1>1, <1>2, <1>3, <1>4, <1>5, <1>6, <1>7

\* Every step keeps the types.
LEMMA NextTyped == Typed /\ [Next]_vars => Typed'
<1>. SUFFICES ASSUME Typed, [Next]_vars PROVE Typed'
  OBVIOUS
<1>1. CASE UNCHANGED vars
  BY <1>1 DEF vars, Typed, TypeOK, TaskHasDisc
<1>2. CASE \E v \in Drives : DriveNext(v)
  BY <1>2, DriveTyped
<1>3. CASE \E d \in Discs : DiscNext(d)
  <2>1. PICK d \in Discs : DiscNext(d)
    BY <1>3
  <2>. QED
    BY <2>1, ControllerTyped, JobTyped, OthersTyped DEF DiscNext
<1>. QED
  BY <1>1, <1>2, <1>3 DEF Next

(* Every variable keeps its shape, and every task past the tray's check    *)
(* has a disc, whatever fails and whoever acts when.                       *)
THEOREM AlwaysTyped == Spec => []Typed
BY InitTyped, NextTyped, PTL DEF Spec

(* The type invariant of the whole system (all actors, all faults). *)
THEOREM TypeCorrect == Spec => []TypeOK
<1>1. Typed => TypeOK
  BY DEF Typed
<1>. QED
  BY AlwaysTyped, <1>1, PTL

-----------------------------------------------------------------------------
(* The inductive invariant of BackupKept.  A drive that uploaded a master  *)
(* knows there is an image; a publish Job past the ISO knows it is in the  *)
(* library, where nothing removes it; so finish() may take the master.     *)
Image(d) == work[d].master # 0 \/ lib[d].iso # 0

TasksSafe ==
    \A v \in Drives :
        /\ task[v].pc \in {"upload", "clean", "record"} => task[v].ver # 0
        /\ task[v].pc \in {"clean", "record"} => Image(task[v].disc)

JobsSafe ==
    \A d \in Discs : \A id \in JobIds :
        /\ job[d][id].pc = "place" => job[d][id].src # 0
        /\ job[d][id].pc \in {"movies", "record", "finish"} => lib[d].iso # 0

BackupInv == BackupKept /\ TasksSafe /\ JobsSafe

(* What a step leaves of images and records. *)
ImagesStay == \A d \in Discs : Image(d) => Image(d)'
BackupsSame == \A d \in Discs : disc'[d].backup = disc[d].backup

\* Images that stay keep what is recorded of them.
LEMMA KeptFrame ==
    ASSUME BackupKept, ImagesStay, BackupsSame
    PROVE  BackupKept'
BY DEF BackupKept, ImagesStay, BackupsSame, Image

\* They keep what the tasks know.
LEMMA TaskFrame ==
    ASSUME Typed, TasksSafe, ImagesStay, UNCHANGED task
    PROVE  TasksSafe'
<1>. SUFFICES ASSUME NEW v \in Drives
              PROVE  /\ task[v].pc \in {"upload", "clean", "record"} => task[v].ver # 0
                     /\ task[v].pc \in {"clean", "record"} => Image(task[v].disc)'
  BY DEF TasksSafe
<1>1. task[v].pc \in {"clean", "record"} => task[v].disc \in Discs
  BY DEF Typed, TaskHasDisc
<1>. QED
  BY <1>1 DEF TasksSafe, ImagesStay

\* A step that leaves Jobs and libraries alone keeps what the Jobs know.
LEMMA JobFrame ==
    ASSUME JobsSafe, UNCHANGED <<job, lib>>
    PROVE  JobsSafe'
BY DEF JobsSafe

(* A task that moves on alone: the others keep what they know. *)
LEMMA TaskMoves ==
    ASSUME Typed, TasksSafe, ImagesStay, NEW v \in Drives, NEW t \in TaskRecord,
           task' = [task EXCEPT ![v] = t],
           t.pc \in {"upload", "clean", "record"} => t.ver # 0,
           t.pc \in {"clean", "record"} => work'[t.disc].master # 0 \/ lib'[t.disc].iso # 0
    PROVE  TasksSafe'
<1>. SUFFICES ASSUME NEW w \in Drives
              PROVE  /\ task'[w].pc \in {"upload", "clean", "record"} => task'[w].ver # 0
                     /\ task'[w].pc \in {"clean", "record"} => Image(task[w].disc)'
  BY DEF TasksSafe
<1>1. CASE w = v
  <2>1. task'[v] = t
    BY DEF Typed, TypeOK
  <2>. QED
    BY <1>1, <2>1 DEF Image
<1>2. CASE w # v
  <2>1. task'[w] = task[w]
    BY <1>2 DEF Typed, TypeOK
  <2>2. task[w].pc \in {"clean", "record"} => task[w].disc \in Discs
    BY DEF Typed, TaskHasDisc
  <2>3. task[w].pc \in {"clean", "record"} => Image(task[w].disc)
    BY DEF TasksSafe
  <2>4. task[w].pc \in {"upload", "clean", "record"} => task[w].ver # 0
    BY DEF TasksSafe
  <2>5. task[w].pc \in {"clean", "record"}
        => work'[task[w].disc].master # 0 \/ lib'[task[w].disc].iso # 0
    BY <2>2, <2>3 DEF ImagesStay, Image
  <2>. QED
    BY <2>1, <2>4, <2>5 DEF Image
<1>. QED
  BY <1>1, <1>2

(* Every step of a drive keeps the invariant. *)
LEMMA DriveKeeps ==
    ASSUME Typed, BackupInv, NEW v \in Drives, DriveNext(v)
    PROVE  BackupInv'
<1>. DEFINE d == task[v].disc
<1>a. task[v] \in TaskRecord
  BY DEF Typed, TypeOK
<1>b. task[v].pc \notin {"idle", "unplugged", "down"} => d \in Discs
  BY DEF Typed, TaskHasDisc
<1>c. task[v].pc \in {"upload", "clean", "record"} => task[v].ver # 0
  BY DEF BackupInv, TasksSafe
<1>d. BackupKept /\ TasksSafe /\ JobsSafe
  BY DEF BackupInv
<1>e. UNCHANGED <<work, lib>> => ImagesStay
  BY DEF ImagesStay, Image
<1>f. UNCHANGED disc => BackupsSame
  BY DEF BackupsSame
<1>g. ASSUME UNCHANGED <<work, lib, job>>, BackupsSame, NEW t \in TaskRecord,
             task' = [task EXCEPT ![v] = t], t.pc \notin {"upload", "clean", "record"}
      PROVE  BackupInv'
  BY <1>d, <1>e, <1>g, KeptFrame, JobFrame, TaskMoves DEF BackupInv
<1>h. ASSUME NEW pc \in TaskPc, NEW e \in Discs \cup {None}
      PROVE  /\ [IdleTask EXCEPT !.pc = pc, !.disc = e] \in TaskRecord
             /\ [IdleTask EXCEPT !.disc = e, !.pc = pc] \in TaskRecord
             /\ [IdleTask EXCEPT !.pc = pc] \in TaskRecord
             /\ [IdleTask EXCEPT !.pc = pc, !.disc = e].pc = pc
             /\ [IdleTask EXCEPT !.disc = e, !.pc = pc].pc = pc
             /\ [IdleTask EXCEPT !.pc = pc].pc = pc
  BY IdleType DEF TaskRecord
<1>i. ASSUME NEW pc \in TaskPc
      PROVE  /\ [task[v] EXCEPT !.pc = pc] \in TaskRecord
             /\ [task[v] EXCEPT !.pc = pc].pc = pc
             /\ [task[v] EXCEPT !.pc = pc].disc = d
             /\ [task[v] EXCEPT !.pc = pc].ver = task[v].ver
  BY <1>a DEF TaskRecord
<1>j. d \in Discs \cup {None}
  BY <1>a DEF TaskRecord
<1>k. {"create", "get", "claim", "backup", "upload", "clean", "record", "fail", "eject", "handled",
       "unplugged", "down"} \subseteq TaskPc
  BY DEF TaskPc
<1>1. CASE Detect(v)
  <2>1. PICK pc \in {"create", "get", "eject"} :
          task' = [task EXCEPT ![v] = [IdleTask EXCEPT !.disc = tray[v], !.pc = pc]]
    BY <1>1 DEF Detect
  <2>2. tray[v] \in Discs \cup {None}
    BY DEF Typed, TypeOK
  <2>. QED
    BY <1>1, <1>f, <1>g, <1>h, <1>k, <2>1, <2>2 DEF Detect
<1>2. CASE Create(v)
  <2>1. BackupsSame
    BY <1>2, <1>b DEF Create, BackupsSame, Typed, TypeOK, DiscObject
  <2>2. CASE Ejecting(v)
    <3>1. task' = [task EXCEPT ![v] = [IdleTask EXCEPT !.pc = "eject", !.disc = d]]
      BY <2>2 DEF Ejecting
    <3>. QED
      BY <1>2, <1>g, <1>h, <1>j, <1>k, <2>1, <3>1 DEF Create
  <2>3. CASE Goto(v, "get")
    <3>1. task' = [task EXCEPT ![v] = [task[v] EXCEPT !.pc = "get"]]
      BY <2>3 DEF Goto
    <3>. QED
      BY <1>2, <1>g, <1>i, <1>k, <2>1, <3>1 DEF Create
  <2>. QED
    BY <1>2, <2>2, <2>3 DEF Create
<1>3. CASE GetStatus(v)
  <2>1. d \in Discs
    BY <1>3, <1>b DEF GetStatus
  <2>2. disc[d].attempts \in Attempts
    BY <2>1 DEF Typed, TypeOK, DiscObject
  <2>3. /\ [task[v] EXCEPT !.pc = "claim", !.n = disc[d].attempts] \in TaskRecord
        /\ [task[v] EXCEPT !.pc = "claim", !.n = disc[d].attempts].pc = "claim"
    BY <1>a, <2>2 DEF TaskRecord, TaskPc
  <2>. QED
    BY <1>3, <1>f, <1>g, <2>3 DEF GetStatus
<1>4. CASE Claim(v)
  <2>1. d \in Discs
    BY <1>4, <1>b DEF Claim
  <2>2. BackupsSame
    BY <1>4, <2>1 DEF Claim, BackupsSame, Typed, TypeOK, DiscObject
  <2>3. task' = [task EXCEPT ![v] = [task[v] EXCEPT !.pc = "backup"]]
    BY <1>4 DEF Claim, Goto
  <2>. QED
    BY <1>4, <1>g, <1>i, <1>k, <2>2, <2>3 DEF Claim
<1>5. CASE BackUp(v)
  <2>1. d \in Discs
    BY <1>5, <1>b DEF BackUp
  <2>2. made[d] + 1 \in Versions /\ made[d] + 1 # 0
    BY <1>5, <2>1, BoundsAssumption DEF BackUp, Versions, Typed, TypeOK
  <2>3. PICK pending \in {FALSE, Damaged} :
          task' = [task EXCEPT ![v] = [@ EXCEPT !.pc = "upload", !.ver = made[d] + 1,
                                                !.pending = pending]]
    BY <1>5 DEF BackUp
  <2>4. pending \in BOOLEAN
    BY SwitchAssumption
  <2>. DEFINE t == [task[v] EXCEPT !.pc = "upload", !.ver = made[d] + 1, !.pending = pending]
  <2>5. t \in TaskRecord /\ t.pc = "upload" /\ t.ver = made[d] + 1
    BY <1>a, <2>2, <2>4 DEF TaskRecord, TaskPc
  <2>6. task' = [task EXCEPT ![v] = t]
    BY <2>3
  <2>. HIDE DEF t
  <2>7. ImagesStay /\ BackupsSame /\ UNCHANGED <<job, lib>>
    BY <1>5, <1>e, <1>f DEF BackUp
  <2>8. TasksSafe'
    BY <1>d, <2>2, <2>5, <2>6, <2>7, TaskMoves
  <2>. QED
    BY <1>d, <2>7, <2>8, KeptFrame, JobFrame DEF BackupInv
<1>6. CASE Upload(v)
  <2>1. d \in Discs /\ task[v].ver # 0
    BY <1>6, <1>b, <1>c DEF Upload
  <2>2. ImagesStay /\ work'[d].master # 0
    BY <1>6, <2>1 DEF Upload, ImagesStay, Image, Typed, TypeOK, WorkDir
  <2>3. task' = [task EXCEPT ![v] = [task[v] EXCEPT !.pc = "clean"]]
    BY <1>6 DEF Upload, Goto
  <2>4. BackupsSame /\ UNCHANGED <<job, lib>>
    BY <1>6, <1>f DEF Upload
  <2>. DEFINE t == [task[v] EXCEPT !.pc = "clean"]
  <2>5. t \in TaskRecord /\ t.ver # 0 /\ t.disc = d
    BY <1>i, <1>k, <2>1
  <2>. HIDE DEF t
  <2>8. TasksSafe'
    BY <1>d, <2>2, <2>3, <2>5, TaskMoves DEF t
  <2>. QED
    BY <1>d, <2>2, <2>4, <2>8, KeptFrame, JobFrame DEF BackupInv
<1>7. CASE Clean(v)
  <2>1. d \in Discs /\ task[v].ver # 0
    BY <1>7, <1>b, <1>c DEF Clean
  <2>2. Image(d)
    BY <1>7, <1>d DEF Clean, TasksSafe
  <2>3. \A e \in Discs : work'[e].master = work[e].master /\ lib'[e] = lib[e]
    BY <1>7, <2>1 DEF Clean, Typed, TypeOK, WorkDir
  <2>4. ImagesStay /\ (work'[d].master # 0 \/ lib'[d].iso # 0)
    BY <2>1, <2>2, <2>3 DEF ImagesStay, Image
  <2>. DEFINE t == [task[v] EXCEPT !.pc = "record"]
  <2>5. task' = [task EXCEPT ![v] = t]
    BY <1>7 DEF Clean, Goto
  <2>6. t \in TaskRecord /\ t.ver # 0 /\ t.disc = d
    BY <1>i, <1>k, <2>1
  <2>. HIDE DEF t
  <2>7. TasksSafe'
    BY <1>d, <2>4, <2>5, <2>6, TaskMoves
  <2>8. BackupsSame /\ UNCHANGED <<job, lib>>
    BY <1>7, <1>f DEF Clean
  <2>. QED
    BY <1>d, <2>4, <2>7, <2>8, KeptFrame, JobFrame DEF BackupInv
<1>8. CASE BackUpFails(v)
  <2>1. task' = [task EXCEPT ![v] = [task[v] EXCEPT !.pc = "fail"]]
    BY <1>8 DEF BackUpFails, Goto
  <2>2. d \in Discs
    BY <1>8, <1>b DEF BackUpFails
  <2>3. \A e \in Discs : work'[e].master = work[e].master /\ lib'[e] = lib[e]
    <3>1. CASE UNCHANGED work
      BY <1>8, <3>1 DEF BackUpFails
    <3>2. CASE \E raw \in {work[d].raw, task[v].pending} :
                 work' = [work EXCEPT ![d] = [work[d] EXCEPT !.enc = 0, !.raw = raw]]
      <4>1. PICK raw \in {work[d].raw, task[v].pending} :
              work' = [work EXCEPT ![d] = [work[d] EXCEPT !.enc = 0, !.raw = raw]]
        BY <3>2
      <4>2. [work[d] EXCEPT !.enc = 0, !.raw = raw].master = work[d].master
        BY <2>2 DEF Typed, TypeOK, WorkDir
      <4>. QED
        BY <1>8, <2>2, <4>1, <4>2 DEF BackUpFails, Typed, TypeOK
    <3>. QED
      BY <1>8, <3>1, <3>2 DEF BackUpFails
  <2>4. ImagesStay
    BY <2>3 DEF ImagesStay, Image
  <2>. DEFINE t == [task[v] EXCEPT !.pc = "fail"]
  <2>5. t \in TaskRecord /\ t.pc = "fail"
    BY <1>i, <1>k
  <2>. HIDE DEF t
  <2>6. TasksSafe'
    BY <1>d, <2>1, <2>4, <2>5, TaskMoves DEF t
  <2>7. BackupsSame /\ UNCHANGED <<job, lib>>
    BY <1>8, <1>f DEF BackUpFails
  <2>. QED
    BY <1>d, <2>4, <2>6, <2>7, KeptFrame, JobFrame DEF BackupInv
<1>9. CASE Record(v)
  <2>1. d \in Discs
    BY <1>9, <1>b DEF Record
  <2>2. Image(d)
    BY <1>9, <1>d DEF Record, TasksSafe
  <2>3. UNCHANGED <<work, lib, job>>
    BY <1>9 DEF Record
  <2>4. \A e \in Discs : e # d => disc'[e] = disc[e]
    BY <1>9, <2>1 DEF Record, Typed, TypeOK
  <2>5. BackupKept'
    BY <1>d, <2>2, <2>3, <2>4 DEF BackupKept, Image
  <2>6. task' = [task EXCEPT ![v] = [IdleTask EXCEPT !.pc = "eject", !.disc = d]]
    BY <1>9 DEF Record, Ejecting
  <2>7. TasksSafe'
    BY <1>d, <1>e, <1>h, <1>j, <1>k, <2>3, <2>6, TaskMoves
  <2>. QED
    BY <1>d, <2>3, <2>5, <2>7, JobFrame DEF BackupInv
<1>10. CASE RecordFailure(v)
  <2>1. d \in Discs
    BY <1>10, <1>b DEF RecordFailure
  <2>2. BackupsSame
    <3>1. CASE disc' = [disc EXCEPT ![d] = [@ EXCEPT !.phase = "Failed", !.since = "fresh"]]
      BY <2>1, <3>1 DEF BackupsSame, Typed, TypeOK, DiscObject
    <3>. QED
      BY <1>10, <1>f, <3>1 DEF RecordFailure
  <2>3. task' = [task EXCEPT ![v] = [IdleTask EXCEPT !.pc = "eject", !.disc = d]]
    BY <1>10 DEF RecordFailure, Ejecting
  <2>. QED
    BY <1>10, <1>g, <1>h, <1>j, <1>k, <2>2, <2>3 DEF RecordFailure
<1>11. CASE HandleError(v) \/ EjectFails(v)
  <2>1. task' = [task EXCEPT ![v] = [IdleTask EXCEPT !.pc = "handled", !.disc = d]]
    BY <1>11 DEF HandleError, EjectFails, Handled
  <2>. QED
    BY <1>11, <1>f, <1>g, <1>h, <1>j, <1>k, <2>1 DEF HandleError, EjectFails
<1>12. CASE Eject(v) \/ Remove(v) \/ Restart(v) \/ Plug(v)
  <2>1. task' = [task EXCEPT ![v] = IdleTask]
    BY <1>12 DEF Eject, Remove, Restart, Plug
  <2>. QED
    BY <1>12, <1>f, <1>g, <2>1, IdleType DEF Eject, Remove, Restart, Plug
<1>13. CASE Crash(v)
  <2>1. task' = [task EXCEPT ![v] = [IdleTask EXCEPT !.pc = "down"]]
    BY <1>13 DEF Crash
  <2>. QED
    BY <1>13, <1>f, <1>g, <1>h, <1>j, <1>k, <2>1 DEF Crash
<1>14. CASE Unplug(v)
  <2>1. task' = [task EXCEPT ![v] = [IdleTask EXCEPT !.pc = "unplugged"]]
    BY <1>14 DEF Unplug
  <2>2. BackupsSame /\ UNCHANGED <<job, lib>>
    BY <1>14, <1>f DEF Unplug
  <2>3. ASSUME task[v].pc = "upload"
        PROVE  d \in Discs /\ task[v].ver # 0
    BY <1>b, <1>c, <2>3
  <2>4. ImagesStay
    BY <1>14, <2>3 DEF Unplug, ImagesStay, Image, Typed, TypeOK, WorkDir
  <2>5. TasksSafe'
    BY <1>d, <1>h, <1>j, <1>k, <2>1, <2>4, TaskMoves
  <2>. QED
    BY <1>d, <2>2, <2>4, <2>5, KeptFrame, JobFrame DEF BackupInv
<1>15. CASE \E e \in Discs : Insert(v, e)
  <2>1. UNCHANGED <<disc, job, task, work, lib>>
    BY <1>15 DEF Insert
  <2>. QED
    BY <1>d, <1>e, <1>f, <2>1, KeptFrame, JobFrame, TaskFrame DEF BackupInv
<1>. QED
  BY <1>1, <1>2, <1>3, <1>4, <1>5, <1>6, <1>7, <1>8, <1>9, <1>10, <1>11, <1>12, <1>13, <1>14,
     <1>15 DEF DriveNext, AgentStep

(* A step that leaves all this state alone. *)
LEMMA SameKeeps ==
    ASSUME Typed, BackupInv, UNCHANGED <<disc, task, work, lib, job>>
    PROVE  BackupInv'
<1>1. BackupsSame /\ ImagesStay
  BY DEF BackupsSame, ImagesStay, Image
<1>. QED
  BY <1>1, KeptFrame, JobFrame, TaskFrame DEF BackupInv

(* A Job that changes, in a step that keeps images: the others keep what   *)
(* they know.                                                              *)
LEMMA JobMoves ==
    ASSUME Typed, JobsSafe, NEW d \in Discs, NEW id, NEW j \in JobRecord, SetJob(d, id, j),
           \A e \in Discs : lib[e].iso # 0 => lib'[e].iso # 0,
           j.pc = "place" => j.src # 0,
           j.pc \in {"movies", "record", "finish"} => lib'[d].iso # 0
    PROVE  JobsSafe'
<1>. SUFFICES ASSUME NEW e \in Discs, NEW k \in JobIds
              PROVE  /\ job'[e][k].pc = "place" => job'[e][k].src # 0
                     /\ job'[e][k].pc \in {"movies", "record", "finish"} => lib'[e].iso # 0
  BY DEF JobsSafe
<1>1. job \in [Discs -> [JobIds -> JobRecord]]
  BY DEF Typed, TypeOK
<1>2. CASE e = d /\ k = id
  <2>1. job'[e][k] = j
    BY <1>1, <1>2 DEF SetJob
  <2>. QED
    BY <1>2, <2>1
<1>3. CASE ~(e = d /\ k = id)
  <2>1. job'[e][k] = job[e][k]
    BY <1>1, <1>3 DEF SetJob
  <2>. QED
    BY <2>1 DEF JobsSafe
<1>. QED
  BY <1>2, <1>3

(* Every step of the controller keeps the invariant. *)
LEMMA ControllerKeeps ==
    ASSUME Typed, BackupInv, NEW d \in Discs,
           Watch(d) \/ ReconcileStep(d) \/ GpuStarved(d) \/ ReconcileError(d)
    PROVE  BackupInv'
<1>a. disc[d] \in DiscObject /\ ctl[d] \in Reconcile
  BY DEF Typed, TypeOK
<1>c. ASSUME BackupsSame, UNCHANGED <<task, work, lib, job>>
      PROVE  BackupInv'
  <2>1. ImagesStay
    BY <1>c DEF ImagesStay, Image
  <2>. QED
    BY <1>c, <2>1, KeptFrame, JobFrame, TaskFrame DEF BackupInv
<1>d. ASSUME NEW id, NEW j \in JobRecord, SetJob(d, id, j), j.pc \in {"none", "pending"},
             UNCHANGED <<disc, task, work, lib>>
      PROVE  BackupInv'
  <2>1. BackupsSame /\ ImagesStay
    BY <1>d DEF BackupsSame, ImagesStay, Image
  <2>2. JobsSafe'
    BY <1>d, JobMoves DEF BackupInv
  <2>. QED
    BY <1>d, <2>1, <2>2, KeptFrame, TaskFrame DEF BackupInv
<1>1. CASE Watch(d) \/ StartEncode(d) \/ StartPublish(d) \/ ReconcileError(d)
  BY <1>1, SameKeeps DEF Watch, StartEncode, StartPublish, ReconcileError
<1>2. CASE Retry(d)
  <2>1. BackupsSame
    BY <1>2, <1>a DEF Retry, BackupsSame, Typed, TypeOK, DiscObject
  <2>. QED
    BY <1>2, <1>c, <2>1 DEF Retry
<1>3. CASE MovePhase(d)
  <2>1. BackupsSame
    BY <1>3, <1>a DEF MovePhase, BackupsSame, Typed, TypeOK, DiscObject
  <2>. QED
    BY <1>3, <1>c, <2>1 DEF MovePhase
<1>4. CASE FailDisc(d)
  <2>1. BackupsSame
    BY <1>4, <1>a DEF FailDisc, BackupsSame, Typed, TypeOK, DiscObject
  <2>. QED
    BY <1>4, <1>c, <2>1 DEF FailDisc
<1>5. CASE PatchStarted(d)
  <2>1. BackupsSame
    BY <1>5, <1>a DEF PatchStarted, BackupsSame, Typed, TypeOK, DiscObject
  <2>. QED
    BY <1>5, <1>c, <2>1 DEF PatchStarted
<1>6. CASE CreateJob(d)
  <2>1. [NoJob EXCEPT !.pc = "pending", !.cpu = ctl[d].cpu] \in JobRecord
    BY <1>a, IdleType DEF JobRecord, JobPc, Reconcile
  <2>2. [NoJob EXCEPT !.pc = "pending", !.cpu = ctl[d].cpu].pc = "pending"
    BY IdleType DEF JobRecord
  <2>. QED
    BY <1>6, <1>d, <2>1, <2>2, SameKeeps DEF CreateJob
<1>7. CASE GpuStarved(d)
  <2>1. NoJob \in JobRecord /\ NoJob.pc = "none"
    BY IdleType DEF NoJob
  <2>2. UNCHANGED <<disc, task, work, lib>>
    BY <1>7 DEF GpuStarved
  <2>3. UNCHANGED job \/ SetJob(d, <<"e", Cached(d).attempts>>, NoJob)
    BY <1>7 DEF GpuStarved
  <2>. QED
    BY <1>d, <2>1, <2>2, <2>3, SameKeeps
<1>. QED
  BY <1>1, <1>2, <1>3, <1>4, <1>5, <1>6, <1>7 DEF ReconcileStep

(* Every step of a Job's pod keeps the invariant. *)
LEMMA JobKeeps ==
    ASSUME Typed, BackupInv, NEW d \in Discs, NEW n \in 1 .. MaxAttempts, JobStep(d, n)
    PROVE  BackupInv'
<1>. DEFINE e == <<"e", n>>
            p == <<"p", n>>
<1>a. e \in JobIds /\ p \in JobIds
  BY DEF JobIds
<1>b. /\ disc[d] \in DiscObject /\ work[d] \in WorkDir /\ lib[d] \in Library
      /\ job[d][e] \in JobRecord /\ job[d][p] \in JobRecord
  BY <1>a DEF Typed, TypeOK
<1>c. BackupKept /\ TasksSafe /\ JobsSafe
  BY DEF BackupInv
<1>d. UNCHANGED disc => BackupsSame
  BY DEF BackupsSame
<1>e. UNCHANGED lib => \A x \in Discs : lib[x].iso # 0 => lib'[x].iso # 0
  OBVIOUS
<1>f. ASSUME NEW id, NEW pc \in {"failed", "succeeded"}, End(d, id, pc),
             \A x \in Discs : lib[x].iso # 0 => lib'[x].iso # 0
      PROVE  JobsSafe'
  <2>1. [NoJob EXCEPT !.pc = pc] \in JobRecord /\ [NoJob EXCEPT !.pc = pc].pc = pc
    BY IdleType DEF JobRecord, JobPc
  <2>. QED
    BY <1>c, <1>f, <2>1, JobMoves DEF End
<1>g. ASSUME NEW id \in JobIds, NEW pc \in JobPc \ {"place"}, JobGoto(d, id, pc),
             \A x \in Discs : lib[x].iso # 0 => lib'[x].iso # 0,
             pc \in {"movies", "record", "finish"} => lib'[d].iso # 0
      PROVE  JobsSafe'
  <2>1. job[d][id] \in JobRecord
    BY DEF Typed, TypeOK
  <2>2. [job[d][id] EXCEPT !.pc = pc] \in JobRecord /\ [job[d][id] EXCEPT !.pc = pc].pc = pc
    BY <2>1 DEF JobRecord
  <2>. QED
    BY <1>c, <1>g, <2>2, JobMoves DEF JobGoto
<1>h. ASSUME JobsSafe', ImagesStay, BackupsSame, UNCHANGED task
      PROVE  BackupInv'
  BY <1>c, <1>h, KeptFrame, TaskFrame DEF BackupInv
<1>i. {"encode", "titles", "iso", "movies", "record", "finish"} \subseteq JobPc \ {"place"}
  BY DEF JobPc
<1>j. (\A x \in Discs : work'[x].master = work[x].master) /\ UNCHANGED lib => ImagesStay
  BY DEF ImagesStay, Image
<1>1. CASE StartEncoding(d, n)
  <2>. DEFINE src == IF work[d].master # 0 THEN work[d].master
                     ELSE IF disc[d].published THEN lib[d].iso ELSE 0
              j == [job[d][e] EXCEPT !.pc = "encode", !.ekey = disc[d].ekey, !.src = src]
  <2>1. src \in Versions
    BY <1>b, BoundsAssumption DEF WorkDir, Library, Versions
  <2>2. \/ End(d, e, "failed") /\ UNCHANGED work
        \/ /\ SetJob(d, e, j)
           /\ work' = work \/ work' = [work EXCEPT ![d] = [@ EXCEPT !.enc = 0]]
    BY <1>1 DEF StartEncoding
  <2>. HIDE DEF src
  <2>3. j \in JobRecord /\ j.pc = "encode"
    BY <1>b, <2>1 DEF JobRecord, JobPc, DiscObject
  <2>4. UNCHANGED <<disc, task, lib>>
    BY <1>1 DEF StartEncoding
  <2>. HIDE DEF j
  <2>5. JobsSafe'
    BY <1>c, <1>e, <1>f, <2>2, <2>3, <2>4, JobMoves
  <2>6. \A x \in Discs : work'[x].master = work[x].master
    <3>1. CASE work' = [work EXCEPT ![d] = [@ EXCEPT !.enc = 0]]
      BY <3>1 DEF Typed, TypeOK, WorkDir
    <3>. QED
      BY <2>2, <3>1
  <2>. QED
    BY <1>d, <1>h, <1>j, <2>4, <2>5, <2>6
<1>2. CASE Encode(d, n) \/ EncodeFails(d, n)
  <2>1. UNCHANGED <<disc, task, lib>>
    BY <1>2 DEF Encode, EncodeFails
  <2>2. JobsSafe'
    BY <1>2, <1>a, <1>e, <1>f, <1>g, <1>i, <2>1 DEF Encode, EncodeFails
  <2>3. \/ work' = work
        \/ work' = [work EXCEPT ![d] = [@ EXCEPT !.enc = job[d][e].src, !.ekey = job[d][e].ekey]]
        \/ work' = [work EXCEPT ![d] = [@ EXCEPT !.enc = 0]]
    BY <1>2 DEF Encode, EncodeFails, Encoded, Redone
  <2>4. \A x \in Discs : work'[x].master = work[x].master
    <3>1. CASE work' = [work EXCEPT ![d] = [@ EXCEPT !.enc = job[d][e].src,
                                                     !.ekey = job[d][e].ekey]]
      BY <3>1 DEF Typed, TypeOK, WorkDir
    <3>2. CASE work' = [work EXCEPT ![d] = [@ EXCEPT !.enc = 0]]
      BY <3>2 DEF Typed, TypeOK, WorkDir
    <3>. QED
      BY <2>3, <3>1, <3>2
  <2>. QED
    BY <1>d, <1>h, <1>j, <2>1, <2>2, <2>4
<1>3. CASE RecordTitles(d, n)
  <2>1. UNCHANGED <<disc, task, lib, work>>
    BY <1>3 DEF RecordTitles
  <2>2. JobsSafe'
    BY <1>3, <1>e, <1>f, <2>1 DEF RecordTitles
  <2>. QED
    BY <1>d, <1>h, <1>j, <2>1, <2>2
<1>4. CASE StartPublishing(d, n)
  <2>. DEFINE j == [job[d][p] EXCEPT !.pc = "iso", !.lkey = disc[d].lkey,
                      !.backup = disc[d].backup, !.published = disc[d].published]
  <2>1. j \in JobRecord /\ j.pc = "iso"
    BY <1>b DEF JobRecord, JobPc, DiscObject
  <2>2. SetJob(d, p, j) /\ UNCHANGED <<disc, task, lib, work>>
    BY <1>4 DEF StartPublishing
  <2>. HIDE DEF j
  <2>3. JobsSafe'
    BY <1>c, <1>e, <2>1, <2>2, JobMoves
  <2>. QED
    BY <1>d, <1>h, <1>j, <2>2, <2>3
<1>5. CASE CopyIso(d, n)
  <2>. DEFINE j == [job[d][p] EXCEPT !.pc = "place", !.src = work[d].master]
  <2>1. j \in JobRecord /\ j.pc = "place" /\ j.src = work[d].master
    BY <1>b DEF JobRecord, JobPc, WorkDir
  <2>2. UNCHANGED <<disc, task, lib, work>>
    BY <1>5 DEF CopyIso
  <2>3. \/ work[d].master # 0 /\ SetJob(d, p, j)
        \/ lib[d].iso # 0 /\ JobGoto(d, p, "movies")
        \/ End(d, p, "failed")
    BY <1>5 DEF CopyIso
  <2>. HIDE DEF j
  <2>4. JobsSafe'
    <3>1. CASE work[d].master # 0 /\ SetJob(d, p, j)
      BY <1>c, <1>e, <2>1, <2>2, <3>1, JobMoves
    <3>2. CASE lib[d].iso # 0 /\ JobGoto(d, p, "movies")
      BY <1>a, <1>e, <1>g, <1>i, <2>2, <3>2
    <3>3. CASE End(d, p, "failed")
      BY <1>e, <1>f, <2>2, <3>3
    <3>. QED
      BY <2>3, <3>1, <3>2, <3>3
  <2>. QED
    BY <1>d, <1>h, <1>j, <2>2, <2>4
<1>6. CASE PlaceIso(d, n)
  <2>1. job[d][p].src # 0
    BY <1>6, <1>a, <1>c DEF PlaceIso, At, JobsSafe
  <2>2. lib'[d].iso # 0 /\ \A x \in Discs : lib[x].iso # 0 => lib'[x].iso # 0
    BY <1>6, <2>1 DEF PlaceIso, Typed, TypeOK, Library
  <2>3. UNCHANGED <<disc, task, work>> /\ JobGoto(d, p, "movies")
    BY <1>6 DEF PlaceIso
  <2>4. JobsSafe'
    BY <1>a, <1>g, <1>i, <2>2, <2>3
  <2>5. ImagesStay
    BY <2>2, <2>3 DEF ImagesStay, Image
  <2>. QED
    BY <1>d, <1>h, <2>3, <2>4, <2>5
<1>7. CASE PlaceMovies(d, n)
  <2>1. lib[d].iso # 0
    BY <1>7, <1>a, <1>c DEF PlaceMovies, At, JobsSafe
  <2>2. \A x \in Discs : lib'[x].iso = lib[x].iso
    <3>1. CASE lib' = [lib EXCEPT ![d] = [@ EXCEPT !.mkv = work[d].enc, !.ekey = work[d].ekey,
                                                   !.lkey = job[d][p].lkey]]
      BY <3>1 DEF Typed, TypeOK, Library
    <3>2. CASE lib' = [lib EXCEPT ![d] = [@ EXCEPT !.lkey = job[d][p].lkey]]
      BY <3>2 DEF Typed, TypeOK, Library
    <3>. QED
      BY <1>7, <3>1, <3>2 DEF PlaceMovies
  <2>3. UNCHANGED <<disc, task, work>> /\ (JobGoto(d, p, "record") \/ End(d, p, "failed"))
    BY <1>7 DEF PlaceMovies
  <2>4. JobsSafe'
    BY <1>a, <1>f, <1>g, <1>i, <2>1, <2>2, <2>3
  <2>5. ImagesStay
    BY <2>2, <2>3 DEF ImagesStay, Image
  <2>. QED
    BY <1>d, <1>h, <2>3, <2>4, <2>5
<1>8. CASE RecordPublished(d, n)
  <2>1. lib[d].iso # 0
    BY <1>8, <1>a, <1>c DEF RecordPublished, At, JobsSafe
  <2>2. UNCHANGED <<task, work, lib>> /\ (JobGoto(d, p, "finish") \/ End(d, p, "failed"))
    BY <1>8 DEF RecordPublished
  <2>3. JobsSafe'
    BY <1>a, <1>e, <1>f, <1>g, <1>i, <2>1, <2>2
  <2>4. UNCHANGED disc \/ disc' = [disc EXCEPT ![d] = [@ EXCEPT !.published = TRUE]]
    BY <1>8 DEF RecordPublished
  <2>5. BackupsSame
    <3>1. CASE disc' = [disc EXCEPT ![d] = [@ EXCEPT !.published = TRUE]]
      BY <3>1 DEF BackupsSame, Typed, TypeOK, DiscObject
    <3>. QED
      BY <1>d, <2>4, <3>1
  <2>. QED
    BY <1>h, <1>j, <2>2, <2>3, <2>5
<1>9. CASE Finish(d, n)
  <2>1. lib[d].iso # 0
    BY <1>9, <1>a, <1>c DEF Finish, At, JobsSafe
  <2>2. UNCHANGED <<disc, task, lib>> /\ End(d, p, "succeeded")
    BY <1>9 DEF Finish
  <2>3. JobsSafe'
    BY <1>e, <1>f, <2>2
  <2>4. \A x \in Discs : x # d => work'[x] = work[x]
    BY <1>9 DEF Finish, Typed, TypeOK
  <2>5. ImagesStay
    BY <2>1, <2>2, <2>4 DEF ImagesStay, Image
  <2>. QED
    BY <1>d, <1>h, <2>2, <2>3, <2>5
<1>. QED
  BY <1>1, <1>2, <1>3, <1>4, <1>5, <1>6, <1>7, <1>8, <1>9 DEF JobStep

(* Jobs that die or expire, stamps and people keep the invariant. *)
LEMMA OthersKeep ==
    ASSUME Typed, BackupInv, NEW d \in Discs,
           \/ Renew(d) \/ Elapse(d)
           \/ \E id \in JobIds : KillJob(d, id) \/ ExpireJob(d, id)
           \/ EditEncode(d) \/ EditLayout(d) \/ Hold(d) \/ Release(d) \/ BumpRetry(d)
    PROVE  BackupInv'
<1>a. disc[d] \in DiscObject
  BY DEF Typed, TypeOK
<1>b. ASSUME BackupsSame, UNCHANGED <<task, work, lib, job>>
      PROVE  BackupInv'
  <2>1. ImagesStay
    BY <1>b DEF ImagesStay, Image
  <2>. QED
    BY <1>b, <2>1, KeptFrame, JobFrame, TaskFrame DEF BackupInv
<1>1. CASE Renew(d)
  <2>1. BackupsSame
    BY <1>1, <1>a DEF Renew, BackupsSame, Typed, TypeOK, DiscObject
  <2>. QED
    BY <1>1, <1>b, <2>1 DEF Renew
<1>2. CASE Elapse(d)
  <2>1. BackupsSame
    BY <1>2, <1>a DEF Elapse, Aged, BackupsSame, Typed, TypeOK, DiscObject
  <2>. QED
    BY <1>2, <1>b, <2>1 DEF Elapse
<1>3. CASE \E id \in JobIds : KillJob(d, id) \/ ExpireJob(d, id)
  <2>1. PICK id \in JobIds : KillJob(d, id) \/ ExpireJob(d, id)
    BY <1>3
  <2>2. /\ NoJob \in JobRecord /\ NoJob.pc = "none"
        /\ [NoJob EXCEPT !.pc = "failed"] \in JobRecord
        /\ [NoJob EXCEPT !.pc = "failed"].pc = "failed"
    <3>1. NoJob.pc = "none"
      BY DEF NoJob
    <3>. QED
      BY <3>1, IdleType DEF JobRecord, JobPc
  <2>3. \/ SetJob(d, id, NoJob)
        \/ SetJob(d, id, [NoJob EXCEPT !.pc = "failed"])
    BY <2>1 DEF KillJob, ExpireJob, End
  <2>4. UNCHANGED <<disc, task, work, lib>>
    BY <2>1 DEF KillJob, ExpireJob
  <2>5. JobsSafe'
    BY <2>2, <2>3, <2>4, JobMoves DEF BackupInv
  <2>6. BackupsSame /\ ImagesStay
    BY <2>4 DEF BackupsSame, ImagesStay, Image
  <2>. QED
    BY <2>4, <2>5, <2>6, KeptFrame, TaskFrame DEF BackupInv
<1>4. CASE EditEncode(d)
  <2>1. BackupsSame
    BY <1>4, <1>a DEF EditEncode, BackupsSame, Typed, TypeOK, DiscObject
  <2>. QED
    BY <1>4, <1>b, <2>1 DEF EditEncode
<1>5. CASE EditLayout(d)
  <2>1. BackupsSame
    BY <1>5, <1>a DEF EditLayout, BackupsSame, Typed, TypeOK, DiscObject
  <2>. QED
    BY <1>5, <1>b, <2>1 DEF EditLayout
<1>6. CASE BumpRetry(d)
  <2>1. BackupsSame
    BY <1>6, <1>a DEF BumpRetry, BackupsSame, Typed, TypeOK, DiscObject
  <2>. QED
    BY <1>6, <1>b, <2>1 DEF BumpRetry
<1>7. CASE Hold(d)
  <2>1. BackupsSame
    BY <1>7, <1>a DEF Hold, BackupsSame, Typed, TypeOK, DiscObject
  <2>. QED
    BY <1>7, <1>b, <2>1 DEF Hold
<1>8. CASE Release(d)
  <2>1. BackupsSame
    BY <1>8, <1>a DEF Release, BackupsSame, Typed, TypeOK, DiscObject
  <2>. QED
    BY <1>8, <1>b, <2>1 DEF Release
<1>. QED
  BY <1>1, <1>2, <1>3, <1>4, <1>5, <1>6, <1>7, <1>8

\* Nothing is recorded at first.
LEMMA InitKeeps == Init => BackupInv
BY DEF Init, BackupInv, BackupKept, TasksSafe, JobsSafe, NoObject, NoJob, IdleTask

\* Every step keeps the invariant.
LEMMA NextKeeps == Typed /\ BackupInv /\ [Next]_vars => BackupInv'
<1>. SUFFICES ASSUME Typed, BackupInv, [Next]_vars PROVE BackupInv'
  OBVIOUS
<1>1. CASE UNCHANGED vars
  BY <1>1, SameKeeps DEF vars
<1>2. CASE \E v \in Drives : DriveNext(v)
  BY <1>2, DriveKeeps
<1>3. CASE \E d \in Discs : DiscNext(d)
  <2>1. PICK d \in Discs : DiscNext(d)
    BY <1>3
  <2>. QED
    BY <2>1, ControllerKeeps, JobKeeps, OthersKeep DEF DiscNext
<1>. QED
  BY <1>1, <1>2, <1>3 DEF Next

(* A disc the status calls backed up still exists as an image: whatever    *)
(* crashes, races, edits, retries and lost calls happen, finish() takes    *)
(* the master from the work dir only when the library has the ISO.         *)
THEOREM BackupNeverLost == Spec => []BackupKept
<1>1. BackupInv => BackupKept
  BY DEF BackupInv
<1>. QED
  BY AlwaysTyped, InitKeeps, NextKeeps, <1>1, PTL DEF Spec
=============================================================================
