-------------------------- MODULE DvdPipelineProofs --------------------------
(***************************************************************************)
(* Proofs about what dvdrip does in which order and what it ends up with.  *)
(* First, for a disc that is read once (no damaged sectors, no copy in a   *)
(* second drive): the image kept is the recorded one (LatestKept),         *)
(* whatever fails, whoever acts and however far the cache lags.  For a     *)
(* cache that keeps up and deletions that succeed: a disc has one live     *)
(* encode Job (OneEncode), read once or rescued.                           *)
(*                                                                         *)
(* Then, for discs that are rescued too: a Done disc is published from the *)
(* recorded master as its spec says (DoneMatchesBackup, DoneMatchesSpec),  *)
(* the image kept is the recorded one or a later one (LatestKept) and the  *)
(* library's ISO is never replaced by an older one (IsoGrows).  There      *)
(* people wait until a disc is at rest, agents stay up and the cache keeps *)
(* up (Orderly); everything else may fail at any moment, any number of     *)
(* times.                                                                  *)
(***************************************************************************)
EXTENDS DvdRipProofs

Away == {"idle", "unplugged", "down"}

(* A drive's step leaves the other drives alone, and of the discs touches  *)
(* only the one its task is about.                                         *)
DriveFrame(v) ==
    /\ UNCHANGED <<ctl, job, lib, seen>>
    /\ \A w \in Drives \ {v} : task'[w] = task[w] /\ tray'[w] = tray[w]
    /\ \A e \in Discs \ {task[v].disc} :
          disc'[e] = disc[e] /\ work'[e] = work[e] /\ made'[e] = made[e]
    /\ task[v].pc \in Away => UNCHANGED <<disc, work, made>>
    /\ \/ tray'[v] = tray[v]
       \/ tray'[v] = None /\ task'[v].pc = "idle"
       \/ tray[v] = None /\ task[v].pc = "idle" /\ task'[v] = task[v]
    /\ task'[v].pc \notin Away =>
          /\ task[v].pc \notin {"unplugged", "down"}
          /\ tray'[v] = tray[v]
          /\ task'[v].disc = IF task[v].pc = "idle" THEN tray[v] ELSE task[v].disc

\* The fields of a task that starts over.
LEMMA IdleFields ==
    /\ IdleTask.pc = "idle" /\ IdleTask.disc = None /\ IdleTask.ver = 0 /\ ~IdleTask.pending
    /\ \A pc : [IdleTask EXCEPT !.pc = pc].pc = pc /\ ~[IdleTask EXCEPT !.pc = pc].pending
    /\ \A pc, d : /\ [IdleTask EXCEPT !.pc = pc, !.disc = d].pc = pc
                  /\ [IdleTask EXCEPT !.pc = pc, !.disc = d].disc = d
                  /\ ~[IdleTask EXCEPT !.pc = pc, !.disc = d].pending
                  /\ [IdleTask EXCEPT !.disc = d, !.pc = pc].pc = pc
                  /\ [IdleTask EXCEPT !.disc = d, !.pc = pc].disc = d
                  /\ ~[IdleTask EXCEPT !.disc = d, !.pc = pc].pending
BY DEF IdleTask

\* A task that ends: the disc stays in the tray, the other tasks go on.
LEMMA EndTaskFields ==
    ASSUME Typed, NEW v \in Drives, Ejecting(v) \/ Handled(v)
    PROVE  /\ \A w \in Drives \ {v} : task'[w] = task[w]
           /\ task'[v].pc \in {"eject", "handled"} /\ task'[v].disc = task[v].disc
           /\ ~task'[v].pending
<1>1. PICK pc \in {"eject", "handled"} :
        task' = [task EXCEPT ![v] = [IdleTask EXCEPT !.pc = pc, !.disc = task[v].disc]]
  BY DEF Ejecting, Handled
<1>. QED
  BY <1>1, IdleFields DEF Typed, TypeOK

\* A task that moves on keeps all but its place.
LEMMA GotoFields ==
    ASSUME Typed, NEW v \in Drives, NEW pc, Goto(v, pc)
    PROVE  /\ \A w \in Drives \ {v} : task'[w] = task[w]
           /\ task'[v].pc = pc /\ task'[v].disc = task[v].disc
           /\ task'[v].pending = task[v].pending /\ task'[v].ver = task[v].ver
           /\ task'[v].n = task[v].n
BY DEF Goto, Typed, TypeOK, TaskRecord

\* A task whose agent or drive is gone.
LEMMA ResetFields ==
    ASSUME Typed, NEW v \in Drives, NEW pc,
           task' = [task EXCEPT ![v] = [IdleTask EXCEPT !.pc = pc]]
    PROVE  /\ \A w \in Drives \ {v} : task'[w] = task[w]
           /\ task'[v].pc = pc /\ ~task'[v].pending
BY IdleFields DEF Typed, TypeOK

\* A task that waits for the next disc.
LEMMA ToIdleFields ==
    ASSUME Typed, NEW v \in Drives, task' = [task EXCEPT ![v] = IdleTask]
    PROVE  /\ \A w \in Drives \ {v} : task'[w] = task[w]
           /\ task'[v].pc = "idle" /\ ~task'[v].pending
BY IdleFields DEF Typed, TypeOK

\* Every step of a drive is such a step.
LEMMA DriveFrames ==
    ASSUME Typed, NEW v \in Drives, DriveNext(v)
    PROVE  DriveFrame(v)
<1>a. /\ disc \in [Discs -> DiscObject] /\ work \in [Discs -> WorkDir] /\ made \in [Discs -> Versions]
      /\ tray \in [Drives -> Discs \cup {None}] /\ task \in [Drives -> TaskRecord]
  BY DEF Typed, TypeOK
<1>1. CASE Detect(v)
  <2>1. PICK pc \in {"create", "get", "eject"} :
          task' = [task EXCEPT ![v] = [IdleTask EXCEPT !.disc = tray[v], !.pc = pc]]
    BY <1>1 DEF Detect
  <2>2. /\ \A w \in Drives \ {v} : task'[w] = task[w]
        /\ task'[v].pc = pc /\ task'[v].disc = tray[v]
    BY <1>a, <2>1, IdleFields
  <2>. QED
    BY <1>1, <2>2 DEF Detect, DriveFrame, Away
<1>2. CASE Create(v)
  <2>1. task[v].pc = "create" /\ \A e \in Discs \ {task[v].disc} : disc'[e] = disc[e]
    BY <1>2, <1>a DEF Create
  <2>2. /\ \A w \in Drives \ {v} : task'[w] = task[w]
        /\ task'[v].pc \in {"eject", "handled", "get"} /\ task'[v].disc = task[v].disc
    BY <1>2, EndTaskFields, GotoFields DEF Create
  <2>. QED
    BY <1>2, <2>1, <2>2 DEF Create, DriveFrame, Away
<1>3. CASE GetStatus(v)
  <2>1. task'[v].disc = task[v].disc /\ task'[v].pc = "claim"
        /\ \A w \in Drives \ {v} : task'[w] = task[w]
    BY <1>3, <1>a DEF GetStatus, TaskRecord
  <2>. QED
    BY <1>3, <2>1 DEF GetStatus, DriveFrame, Away
<1>4. CASE Claim(v)
  <2>1. \A e \in Discs \ {task[v].disc} : disc'[e] = disc[e]
    BY <1>4, <1>a DEF Claim
  <2>. QED
    BY <1>4, <2>1, GotoFields DEF Claim, DriveFrame, Away
<1>5. CASE BackUp(v)
  <2>1. /\ \A e \in Discs \ {task[v].disc} : made'[e] = made[e]
        /\ task'[v].disc = task[v].disc /\ task'[v].pc = "upload"
        /\ \A w \in Drives \ {v} : task'[w] = task[w]
    BY <1>5, <1>a DEF BackUp, TaskRecord
  <2>. QED
    BY <1>5, <2>1 DEF BackUp, DriveFrame, Away
<1>6. CASE Upload(v)
  <2>1. \A e \in Discs \ {task[v].disc} : work'[e] = work[e]
    BY <1>6, <1>a DEF Upload
  <2>. QED
    BY <1>6, <2>1, GotoFields DEF Upload, DriveFrame, Away
<1>7. CASE Clean(v)
  <2>1. \A e \in Discs \ {task[v].disc} : work'[e] = work[e]
    BY <1>7, <1>a DEF Clean
  <2>. QED
    BY <1>7, <2>1, GotoFields DEF Clean, DriveFrame, Away
<1>8. CASE BackUpFails(v)
  <2>1. \A e \in Discs \ {task[v].disc} : work'[e] = work[e]
    BY <1>8, <1>a DEF BackUpFails
  <2>. QED
    BY <1>8, <2>1, GotoFields DEF BackUpFails, DriveFrame, Away
<1>9. CASE Record(v)
  <2>1. \A e \in Discs \ {task[v].disc} : disc'[e] = disc[e]
    BY <1>9, <1>a DEF Record
  <2>. QED
    BY <1>9, <2>1, EndTaskFields DEF Record, DriveFrame, Away
<1>10. CASE RecordFailure(v)
  <2>1. \A e \in Discs \ {task[v].disc} : disc'[e] = disc[e]
    BY <1>10, <1>a DEF RecordFailure
  <2>. QED
    BY <1>10, <2>1, EndTaskFields DEF RecordFailure, DriveFrame, Away
<1>11. CASE Eject(v) \/ Remove(v)
  <2>1. tray'[v] = None /\ \A w \in Drives \ {v} : tray'[w] = tray[w]
    BY <1>11, <1>a DEF Eject, Remove
  <2>. QED
    BY <1>11, <2>1, ToIdleFields DEF Eject, Remove, DriveFrame, Away
<1>12. CASE HandleError(v) \/ EjectFails(v)
  BY <1>12, EndTaskFields DEF HandleError, EjectFails, DriveFrame, Away
<1>13. CASE Crash(v)
  BY <1>13, ResetFields DEF Crash, DriveFrame, Away
<1>14. CASE Restart(v) \/ Plug(v)
  BY <1>14, ToIdleFields DEF Restart, Plug, DriveFrame, Away
<1>15. CASE Unplug(v)
  <2>1. \A e \in Discs \ {task[v].disc} : work'[e] = work[e]
    BY <1>15, <1>a DEF Unplug
  <2>. QED
    BY <1>15, <2>1, ResetFields DEF Unplug, DriveFrame, Away
<1>16. CASE \E d \in Discs : Insert(v, d)
  <2>1. tray[v] = None /\ task[v].pc = "idle" /\ task' = task
        /\ \A w \in Drives \ {v} : tray'[w] = tray[w]
    BY <1>16, <1>a DEF Insert
  <2>. QED
    BY <1>16, <2>1 DEF Insert, DriveFrame, Away
<1>. QED
  BY <1>1, <1>2, <1>3, <1>4, <1>5, <1>6, <1>7, <1>8, <1>9, <1>10, <1>11, <1>12, <1>13, <1>14,
     <1>15, <1>16 DEF DriveNext, AgentStep

(* A step about a disc leaves the drives and the other discs alone, and    *)
(* never changes what the Disc says of its backup.                         *)
DiscFrame(d) ==
    /\ UNCHANGED <<task, tray, made>>
    /\ \A e \in Discs \ {d} :
          /\ disc'[e] = disc[e] /\ seen'[e] = seen[e] /\ ctl'[e] = ctl[e]
          /\ job'[e] = job[e] /\ work'[e] = work[e] /\ lib'[e] = lib[e]
    /\ disc'[d].backup = disc[d].backup /\ disc'[d].rescue = disc[d].rescue
    /\ disc'[d].exists = disc[d].exists

\* Setting one Job leaves the others.
LEMMA JobSet ==
    ASSUME Typed, NEW d \in Discs, NEW id, NEW j, SetJob(d, id, j)
    PROVE  /\ \A e \in Discs \ {d} : job'[e] = job[e]
           /\ \A k \in JobIds \ {id} : job'[d][k] = job[d][k]
           /\ id \in JobIds => job'[d][id] = j
BY DEF SetJob, Typed, TypeOK

\* Every step about a disc is such a step.
LEMMA DiscFrames ==
    ASSUME Typed, NEW d \in Discs, DiscNext(d)
    PROVE  DiscFrame(d)
<1>a. /\ disc \in [Discs -> DiscObject] /\ work \in [Discs -> WorkDir]
      /\ seen \in [Discs -> DiscObject] /\ ctl \in [Discs -> Reconcile]
      /\ lib \in [Discs -> Library]
  BY DEF Typed, TypeOK
<1>b. ASSUME NEW id, NEW j, SetJob(d, id, j)
      PROVE  \A e \in Discs \ {d} : job'[e] = job[e]
  BY <1>b, JobSet
<1>1. CASE Watch(d) \/ ReconcileError(d) \/ StartEncode(d) \/ StartPublish(d)
  BY <1>1, <1>a DEF Watch, ReconcileError, StartEncode, StartPublish, Starting, DiscFrame
<1>2. CASE Retry(d) \/ FailDisc(d)
  <2>1. /\ \A e \in Discs \ {d} : disc'[e] = disc[e]
        /\ disc'[d].backup = disc[d].backup /\ disc'[d].rescue = disc[d].rescue
        /\ disc'[d].exists = disc[d].exists
    BY <1>2, <1>a DEF Retry, FailDisc, DiscObject
  <2>. QED
    BY <1>2, <2>1 DEF Retry, FailDisc, DiscFrame
<1>3. CASE MovePhase(d)
  <2>1. /\ \A e \in Discs \ {d} : disc'[e] = disc[e]
        /\ disc'[d].backup = disc[d].backup /\ disc'[d].rescue = disc[d].rescue
        /\ disc'[d].exists = disc[d].exists
    BY <1>3, <1>a DEF MovePhase, DiscObject
  <2>. QED
    BY <1>3, <2>1 DEF MovePhase, DiscFrame
<1>4. CASE CreateJob(d)
  <2>1. \A e \in Discs \ {d} : job'[e] = job[e] /\ ctl'[e] = ctl[e]
    BY <1>4, <1>a, <1>b DEF CreateJob
  <2>. QED
    BY <1>4, <2>1 DEF CreateJob, DiscFrame
<1>5. CASE PatchStarted(d)
  <2>1. /\ \A e \in Discs \ {d} : disc'[e] = disc[e] /\ ctl'[e] = ctl[e]
        /\ disc'[d].backup = disc[d].backup /\ disc'[d].rescue = disc[d].rescue
        /\ disc'[d].exists = disc[d].exists
    BY <1>5, <1>a DEF PatchStarted, DiscObject
  <2>. QED
    BY <1>5, <2>1 DEF PatchStarted, DiscFrame
<1>6. CASE GpuStarved(d)
  <2>1. \A e \in Discs \ {d} : job'[e] = job[e] /\ ctl'[e] = ctl[e]
    BY <1>6, <1>a, <1>b DEF GpuStarved, Starting
  <2>. QED
    BY <1>6, <2>1 DEF GpuStarved, DiscFrame
<1>7. CASE \E n \in 1 .. MaxAttempts : JobStep(d, n)
  <2>1. PICK n \in 1 .. MaxAttempts : JobStep(d, n)
    BY <1>7
  <2>2. /\ UNCHANGED <<task, tray, made, seen, ctl>>
        /\ UNCHANGED disc \/ disc' = [disc EXCEPT ![d] = [@ EXCEPT !.published = TRUE]]
    BY <2>1 DEF JobStep, StartEncoding, Encode, EncodeFails, RecordTitles, StartPublishing,
                CopyIso, PlaceIso, PlaceMovies, RecordPublished, Finish
  <2>3. PICK id, j : SetJob(d, id, j)
    BY <2>1 DEF JobStep, StartEncoding, Encode, EncodeFails, RecordTitles, StartPublishing,
                CopyIso, PlaceIso, PlaceMovies, RecordPublished, Finish, End, JobGoto
  <2>4. \A e \in Discs \ {d} : work'[e] = work[e]
    BY <2>1, <1>a DEF JobStep, StartEncoding, Encode, EncodeFails, RecordTitles, StartPublishing,
                CopyIso, PlaceIso, PlaceMovies, RecordPublished, Finish, Encoded, Redone
  <2>5. \A e \in Discs \ {d} : lib'[e] = lib[e]
    BY <2>1, <1>a DEF JobStep, StartEncoding, Encode, EncodeFails, RecordTitles, StartPublishing,
                CopyIso, PlaceIso, PlaceMovies, RecordPublished, Finish
  <2>6. /\ \A e \in Discs \ {d} : disc'[e] = disc[e]
        /\ disc'[d].backup = disc[d].backup /\ disc'[d].rescue = disc[d].rescue
        /\ disc'[d].exists = disc[d].exists
    BY <2>2, <1>a DEF DiscObject
  <2>. QED
    BY <1>b, <2>2, <2>3, <2>4, <2>5, <2>6 DEF DiscFrame
<1>8. CASE \E id \in JobIds : KillJob(d, id) \/ ExpireJob(d, id)
  <2>1. \A e \in Discs \ {d} : job'[e] = job[e]
    BY <1>8, <1>b DEF KillJob, ExpireJob, End
  <2>. QED
    BY <1>8, <2>1 DEF KillJob, ExpireJob, DiscFrame
<1>9. CASE Elapse(d)
  <2>1. /\ \A e \in Discs \ {d} : disc'[e] = disc[e] /\ seen'[e] = seen[e]
        /\ disc'[d] = Aged(disc[d])
    BY <1>9, <1>a DEF Elapse
  <2>2. /\ Aged(disc[d]).backup = disc[d].backup /\ Aged(disc[d]).rescue = disc[d].rescue
        /\ Aged(disc[d]).exists = disc[d].exists
    BY <1>a DEF Aged, DiscObject
  <2>. QED
    BY <1>9, <2>1, <2>2 DEF Elapse, DiscFrame
<1>10. CASE Renew(d) \/ EditEncode(d) \/ EditLayout(d) \/ Hold(d) \/ Release(d) \/ BumpRetry(d)
  <2>1. \A e \in Discs \ {d} : disc'[e] = disc[e]
    BY <1>10, <1>a DEF Renew, EditEncode, EditLayout, Hold, Release, BumpRetry
  <2>2. /\ disc'[d].backup = disc[d].backup /\ disc'[d].rescue = disc[d].rescue
        /\ disc'[d].exists = disc[d].exists
    BY <1>10, <1>a DEF Renew, EditEncode, EditLayout, Hold, Release, BumpRetry, DiscObject
  <2>. QED
    BY <1>10, <2>1, <2>2 DEF Renew, EditEncode, EditLayout, Hold, Release, BumpRetry, DiscFrame
<1>. QED
  BY <1>1, <1>2, <1>3, <1>4, <1>5, <1>6, <1>7, <1>8, <1>9, <1>10 DEF DiscNext, ReconcileStep

-----------------------------------------------------------------------------
(* Without a copy in a second drive: a task is about the disc in its tray, *)
(* and no disc is in two trays, so a disc has one task.                    *)
TaskInTray == \A v \in Drives : task[v].pc \notin Away => tray[v] = task[v].disc
OneTray == \A v, w \in Drives : tray[v] # None /\ tray[v] = tray[w] => v = w
Trays == TaskInTray /\ OneTray

\* At first all trays are empty.
LEMMA InitTrays == Init => Trays
BY DEF Init, Trays, TaskInTray, OneTray, IdleTask, Away

\* One disc, one tray: discs are put in while they are in no other drive.
LEMMA TraysStay ==
    ASSUME ~TwoCopies, Typed, Trays, [Next]_vars
    PROVE  Trays'
<1>1. CASE UNCHANGED <<task, tray>>
  BY <1>1 DEF Trays, TaskInTray, OneTray
<1>2. CASE \E v \in Drives : DriveNext(v)
  <2>1. PICK v \in Drives : DriveNext(v)
    BY <1>2
  <2>2. DriveFrame(v)
    BY <2>1, DriveFrames
  <2>3. tray' \in [Drives -> Discs \cup {None}] /\ tray \in [Drives -> Discs \cup {None}]
    BY <2>1, DriveTyped DEF Typed, TypeOK
  <2>4. TaskInTray'
    BY <2>2 DEF DriveFrame, Trays, TaskInTray, Away
  <2>5. tray'[v] \in {tray[v], None} \/ \A w \in Drives \ {v} : tray[w] # tray'[v]
    <3>1. CASE \E d \in Discs : Insert(v, d)
      BY <3>1, <2>3 DEF Insert, InNoDrive
    <3>2. CASE ~\E d \in Discs : Insert(v, d)
      BY <3>2, <2>1, <2>3 DEF DriveNext, AgentStep, Detect, Create, GetStatus, Claim, BackUp, Upload,
           Clean, BackUpFails, Record, RecordFailure, Eject, HandleError, EjectFails, Crash, Restart,
           Unplug, Plug, Remove
    <3>. QED
      BY <3>1, <3>2
  <2>6. OneTray'
    BY <2>2, <2>5 DEF DriveFrame, Trays, OneTray
  <2>. QED
    BY <2>4, <2>6 DEF Trays
<1>3. CASE \E d \in Discs : DiscNext(d)
  BY <1>1, <1>3, DiscFrames DEF DiscFrame
<1>. QED
  BY <1>1, <1>2, <1>3 DEF Next, vars

-----------------------------------------------------------------------------
(* A disc read once.  The drive that reads it knows that nothing is        *)
(* recorded yet; once something is, no task reads it again, and every      *)
(* image there is of it is the recorded one.  The cached Disc is an        *)
(* earlier one: what it says of a backup is still so.                      *)
Reading == {"get", "claim", "backup", "upload", "clean", "record", "fail"}
Derived == {"BackedUp", "Held", "Encoding", "Encoded", "Publishing", "Done"}

ReadsOnce ==
    \A v \in Drives :
        /\ ~task[v].pending
        /\ task[v].pc \in Reading => disc[task[v].disc].exists
        /\ task[v].pc \in Reading \cup {"create"} => disc[task[v].disc].backup = 0
        /\ task[v].pc \in {"clean", "record"} => work[task[v].disc].master = task[v].ver

RecordedFirst(d) ==
    /\ ~disc[d].rescue
    /\ disc[d].backup # 0 => disc[d].exists
    /\ disc[d].phase \in Derived => disc[d].backup # 0
    /\ seen[d].phase \in Derived => seen[d].backup # 0
    /\ seen[d].backup \in {0, disc[d].backup}
    /\ ctl[d].pc # "idle" => disc[d].backup # 0
    /\ \A id \in JobIds : job[d][id].pc # "none" => disc[d].backup # 0

OneImage(d) ==
    /\ lib[d].iso \in {0, disc[d].backup}
    /\ disc[d].backup # 0 => work[d].master \in {0, disc[d].backup}
    /\ \A id \in JobIds : job[d][id].pc = "place" => job[d][id].src = disc[d].backup

OnceInv == Trays /\ ReadsOnce /\ \A d \in Discs : RecordedFirst(d) /\ OneImage(d)

\* Nothing is recorded at first.
LEMMA InitOnce == Init => OnceInv
<1>1. Init => ReadsOnce
  BY IdleFields DEF Init, ReadsOnce, Reading
<1>2. Init => \A d \in Discs : RecordedFirst(d) /\ OneImage(d)
  BY DEF Init, RecordedFirst, OneImage, NoObject, IdleReconcile, NoJob, Derived
<1>. QED
  BY <1>1, <1>2, InitTrays DEF OnceInv

(* What a drive's step does to a disc leaves the discs of the other tasks  *)
(* alone.                                                                  *)
LEMMA OthersDiscs ==
    ASSUME Typed, Trays, NEW v \in Drives, DriveFrame(v), NEW w \in Drives \ {v},
           task[w].pc \notin Away
    PROVE  /\ task[w].disc \in Discs /\ task'[w] = task[w]
           /\ disc'[task[w].disc] = disc[task[w].disc]
           /\ work'[task[w].disc] = work[task[w].disc]
           /\ made'[task[w].disc] = made[task[w].disc]
<1>1. task[w].disc \in Discs /\ tray[w] = task[w].disc /\ tray[w] # None
  BY NoneAssumption DEF Typed, TaskHasDisc, Trays, TaskInTray, Away
<1>2. task[v].pc \notin Away => task[v].disc # task[w].disc
  BY <1>1 DEF Trays, TaskInTray, OneTray
<1>. QED
  BY <1>1, <1>2 DEF DriveFrame

(* The other tasks keep what they know. *)
LEMMA OnceTasks ==
    ASSUME Typed, OnceInv, NEW v \in Drives, DriveFrame(v),
           ~task'[v].pending,
           task'[v].pc \in Reading => disc'[task'[v].disc].exists,
           task'[v].pc \in Reading \cup {"create"} => disc'[task'[v].disc].backup = 0,
           task'[v].pc \in {"clean", "record"} => work'[task'[v].disc].master = task'[v].ver
    PROVE  ReadsOnce'
<1>. SUFFICES ASSUME NEW w \in Drives, w # v
              PROVE  /\ ~task'[w].pending
                     /\ task'[w].pc \in Reading => disc'[task'[w].disc].exists
                     /\ task'[w].pc \in Reading \cup {"create"} => disc'[task'[w].disc].backup = 0
                     /\ task'[w].pc \in {"clean", "record"} => work'[task'[w].disc].master = task'[w].ver
  BY DEF ReadsOnce
<1>1. task'[w] = task[w] /\ ReadsOnce
  BY DEF DriveFrame, OnceInv
<1>2. CASE task[w].pc \in Away
  BY <1>1, <1>2 DEF Away, Reading, ReadsOnce
<1>3. CASE task[w].pc \notin Away
  <2>1. /\ disc'[task[w].disc] = disc[task[w].disc]
        /\ work'[task[w].disc] = work[task[w].disc]
    BY <1>3, OthersDiscs DEF OnceInv
  <2>. QED
    BY <1>1, <2>1 DEF ReadsOnce
<1>. QED
  BY <1>2, <1>3

(* A step that changes neither Disc nor work dir. *)
LEMMA OnceSame ==
    ASSUME Typed, OnceInv, NEW v \in Drives, DriveFrame(v), UNCHANGED <<disc, work>>
    PROVE  \A d \in Discs : (RecordedFirst(d) /\ OneImage(d))'
<1>. SUFFICES ASSUME NEW d \in Discs PROVE (RecordedFirst(d) /\ OneImage(d))'
  OBVIOUS
<1>1. RecordedFirst(d) /\ OneImage(d)
  BY DEF OnceInv
<1>. QED
  BY <1>1 DEF RecordedFirst, OneImage, DriveFrame

(* A step of the drive that reads a disc of which nothing is recorded: no  *)
(* Job and no reconcile is there to be disturbed.                          *)
LEMMA OnceReads ==
    ASSUME Typed, OnceInv, NEW v \in Drives, DriveFrame(v), task[v].pc \in Reading \cup {"create"},
           LET o == disc'[task[v].disc] IN
             /\ ~o.rescue
             /\ o.exists \/ o.exists = disc[task[v].disc].exists
             /\ o.phase \in Derived => o.backup # 0
             /\ o.backup # 0 => o.exists /\ work'[task[v].disc].master \in {0, o.backup}
    PROVE  \A d \in Discs : (RecordedFirst(d) /\ OneImage(d))'
<1>. SUFFICES ASSUME NEW d \in Discs PROVE (RecordedFirst(d) /\ OneImage(d))'
  OBVIOUS
<1>1. RecordedFirst(d) /\ OneImage(d)
  BY DEF OnceInv
<1>2. CASE d # task[v].disc
  <2>1. disc'[d] = disc[d] /\ work'[d] = work[d] /\ UNCHANGED <<ctl, job, lib, seen>>
    BY <1>2 DEF DriveFrame
  <2>. QED
    BY <1>1, <2>1 DEF RecordedFirst, OneImage
<1>3. CASE d = task[v].disc
  <2>1. disc[d].backup = 0
    BY <1>3 DEF OnceInv, ReadsOnce
  <2>2. /\ ctl[d].pc = "idle" /\ lib[d].iso = 0 /\ seen[d].backup = 0 /\ seen[d].phase \notin Derived
        /\ \A id \in JobIds : job[d][id].pc = "none"
    BY <1>1, <2>1 DEF RecordedFirst, OneImage
  <2>3. UNCHANGED <<ctl, job, lib, seen>>
    BY DEF DriveFrame
  <2>. QED
    BY <1>3, <2>2, <2>3 DEF RecordedFirst, OneImage
<1>. QED
  BY <1>2, <1>3

\* Every step of a drive keeps a disc read once.
LEMMA DriveOnce ==
    ASSUME ~Damaged, Typed, BackupInv, OnceInv, NEW v \in Drives, DriveNext(v)
    PROVE  ReadsOnce' /\ \A d \in Discs : (RecordedFirst(d) /\ OneImage(d))'
<1>. DEFINE d == task[v].disc
<1>a. DriveFrame(v)
  BY DriveFrames
<1>b. /\ disc \in [Discs -> DiscObject] /\ work \in [Discs -> WorkDir]
      /\ tray \in [Drives -> Discs \cup {None}] /\ task \in [Drives -> TaskRecord]
  BY DEF Typed, TypeOK
<1>c. task[v].pc \notin Away => d \in Discs
  BY DEF Typed, TaskHasDisc, Away
<1>d. /\ ~task[v].pending
      /\ task[v].pc \in Reading => disc[d].exists
      /\ task[v].pc \in Reading \cup {"create"} => disc[d].backup = 0
      /\ task[v].pc \in {"clean", "record"} => work[d].master = task[v].ver
  BY DEF OnceInv, ReadsOnce
<1>e. \A e \in Discs : ~disc[e].rescue /\ (disc[e].backup # 0 => disc[e].exists)
  BY DEF OnceInv, RecordedFirst
<1>f. task[v].pc \in Reading \cup {"create"} => disc[d].phase \notin Derived
  BY <1>c, <1>d DEF OnceInv, RecordedFirst, Reading, Away
<1>1. CASE Detect(v)
  <2>1. tray[v] \in Discs
    BY <1>1, <1>b DEF Detect
  <2>2. PICK pc \in {"create", "get", "eject"} :
          /\ task' = [task EXCEPT ![v] = [IdleTask EXCEPT !.disc = tray[v], !.pc = pc]]
          /\ pc = "create" => ~disc[tray[v]].exists
          /\ pc = "get" => disc[tray[v]].exists /\ disc[tray[v]].backup = 0
    BY <1>1, <1>e, <2>1 DEF Detect
  <2>3. task'[v].pc = pc /\ task'[v].disc = tray[v] /\ ~task'[v].pending
    BY <1>b, <2>2, IdleFields
  <2>4. UNCHANGED <<disc, work>>
    BY <1>1 DEF Detect
  <2>5. ReadsOnce'
    BY <1>a, <1>e, <2>1, <2>2, <2>3, <2>4, OnceTasks DEF Reading
  <2>. QED
    BY <1>a, <2>4, <2>5, OnceSame
<1>2. CASE Create(v)
  <2>0. d \in Discs /\ task[v].pc = "create"
    BY <1>2, <1>c DEF Create, Away
  <2>1. /\ disc'[d].backup = 0 /\ disc'[d].phase = disc[d].phase /\ ~disc'[d].rescue
        /\ disc'[d].exists
        /\ UNCHANGED work
    BY <1>2, <1>b, <1>d, <1>e, <2>0 DEF Create, DiscObject
  <2>2. task'[v].pc \in {"get", "eject", "handled"} /\ task'[v].disc = d /\ ~task'[v].pending
    BY <1>2, <1>d, EndTaskFields, GotoFields DEF Create
  <2>3. ReadsOnce'
    BY <1>a, <2>1, <2>2, OnceTasks DEF Reading
  <2>. QED
    BY <1>a, <1>f, <2>0, <2>1, <2>3, OnceReads DEF Reading
<1>3. CASE GetStatus(v)
  <2>1. task[v].pc = "get" /\ UNCHANGED <<disc, work>>
    BY <1>3 DEF GetStatus
  <2>2. task'[v].pc = "claim" /\ task'[v].disc = d /\ ~task'[v].pending
    BY <1>3, <1>b, <1>d DEF GetStatus, TaskRecord
  <2>3. ReadsOnce'
    BY <1>a, <1>d, <2>1, <2>2, OnceTasks DEF Reading
  <2>. QED
    BY <1>a, <2>1, <2>3, OnceSame
<1>4. CASE Claim(v)
  <2>0. d \in Discs /\ task[v].pc = "claim"
    BY <1>4, <1>c DEF Claim, Away
  <2>1. /\ disc'[d].backup = 0 /\ disc'[d].phase = "BackingUp" /\ ~disc'[d].rescue
        /\ disc'[d].exists
        /\ UNCHANGED work
    BY <1>4, <1>b, <1>d, <1>e, <2>0 DEF Claim, DiscObject, Reading
  <2>2. task'[v].pc = "backup" /\ task'[v].disc = d /\ ~task'[v].pending
    BY <1>4, <1>d, GotoFields DEF Claim
  <2>3. ReadsOnce'
    BY <1>a, <2>1, <2>2, OnceTasks DEF Reading
  <2>. QED
    BY <1>a, <2>0, <2>1, <2>3, OnceReads DEF Reading, Derived
<1>5. CASE BackUp(v)
  <2>1. task[v].pc = "backup" /\ UNCHANGED <<disc, work>>
    BY <1>5 DEF BackUp
  <2>2. task'[v].pc = "upload" /\ task'[v].disc = d /\ ~task'[v].pending
    <3>1. PICK pending \in {FALSE, Damaged} :
            task' = [task EXCEPT ![v] = [task[v] EXCEPT !.pc = "upload", !.ver = made[d] + 1,
                                                        !.pending = pending]]
      BY <1>5 DEF BackUp
    <3>2. ~pending
      OBVIOUS
    <3>3. task'[v].pc = "upload" /\ task'[v].disc = d /\ task'[v].pending = pending
      BY <1>b, <3>1 DEF TaskRecord
    <3>. QED
      BY <3>2, <3>3
  <2>3. ReadsOnce'
    BY <1>a, <1>d, <2>1, <2>2, OnceTasks DEF Reading
  <2>. QED
    BY <1>a, <2>1, <2>3, OnceSame
<1>6. CASE Upload(v)
  <2>0. d \in Discs /\ task[v].pc = "upload" /\ UNCHANGED disc
    BY <1>6, <1>c DEF Upload, Away
  <2>1. work'[d].master = task[v].ver
    BY <1>6, <1>b, <2>0 DEF Upload, WorkDir
  <2>2. task'[v].pc = "clean" /\ task'[v].disc = d /\ ~task'[v].pending /\ task'[v].ver = task[v].ver
    BY <1>6, <1>d, GotoFields DEF Upload
  <2>3. ReadsOnce'
    BY <1>a, <1>d, <2>0, <2>1, <2>2, OnceTasks DEF Reading
  <2>. QED
    BY <1>a, <1>d, <1>e, <1>f, <2>0, <2>3, OnceReads DEF Reading
<1>7. CASE Clean(v)
  <2>0. d \in Discs /\ task[v].pc = "clean" /\ UNCHANGED disc
    BY <1>7, <1>c DEF Clean, Away
  <2>1. work'[d].master = work[d].master
    BY <1>7, <1>b, <2>0 DEF Clean, WorkDir
  <2>2. task'[v].pc = "record" /\ task'[v].disc = d /\ ~task'[v].pending /\ task'[v].ver = task[v].ver
    BY <1>7, <1>d, GotoFields DEF Clean
  <2>3. ReadsOnce'
    BY <1>a, <1>d, <2>0, <2>1, <2>2, OnceTasks DEF Reading
  <2>. QED
    BY <1>a, <1>d, <1>e, <1>f, <2>0, <2>3, OnceReads DEF Reading
<1>8. CASE BackUpFails(v)
  <2>0. task[v].pc \in {"backup", "upload", "clean"} /\ UNCHANGED disc
    BY <1>8 DEF BackUpFails
  <2>1. d \in Discs
    BY <1>c, <2>0 DEF Away
  <2>2. task'[v].pc = "fail" /\ task'[v].disc = d /\ ~task'[v].pending
    BY <1>8, <1>d, GotoFields DEF BackUpFails
  <2>3. ReadsOnce'
    BY <1>a, <1>d, <2>0, <2>2, OnceTasks DEF Reading
  <2>. QED
    BY <1>a, <1>d, <1>e, <1>f, <2>0, <2>1, <2>3, OnceReads DEF Reading
<1>9. CASE Record(v)
  <2>0. d \in Discs /\ task[v].pc = "record" /\ UNCHANGED work
    BY <1>9, <1>c DEF Record, Away
  <2>1. /\ disc'[d].backup = task[v].ver /\ ~disc'[d].rescue /\ disc'[d].exists
    BY <1>9, <1>b, <1>d, <2>0 DEF Record, DiscObject, Reading
  <2>2. task'[v].pc \in {"eject", "handled"} /\ ~task'[v].pending
    BY <1>9, EndTaskFields DEF Record
  <2>3. ReadsOnce'
    BY <1>a, <2>2, OnceTasks DEF Reading
  <2>4. task[v].ver # 0
    BY <2>0 DEF BackupInv, TasksSafe
  <2>. QED
    BY <1>a, <1>d, <2>0, <2>1, <2>3, <2>4, OnceReads DEF Reading
<1>10. CASE RecordFailure(v)
  <2>0. d \in Discs /\ task[v].pc = "fail" /\ UNCHANGED work
    BY <1>10, <1>c DEF RecordFailure, Away
  <2>1. /\ disc'[d].backup = 0 /\ ~disc'[d].rescue /\ disc'[d].exists
        /\ disc'[d].phase \in {"Failed", disc[d].phase}
    <3>1. \/ disc' = disc
          \/ disc' = [disc EXCEPT ![d] = [disc[d] EXCEPT !.phase = "Failed", !.since = "fresh"]]
      BY <1>10 DEF RecordFailure
    <3>2. disc[d].backup = 0 /\ ~disc[d].rescue /\ disc[d].exists
      BY <1>d, <1>e, <2>0 DEF Reading
    <3>3. CASE disc' = disc
      BY <3>2, <3>3
    <3>4. CASE disc' = [disc EXCEPT ![d] = [disc[d] EXCEPT !.phase = "Failed", !.since = "fresh"]]
      <4>1. /\ disc'[d].backup = disc[d].backup /\ disc'[d].rescue = disc[d].rescue
            /\ disc'[d].exists = disc[d].exists /\ disc'[d].phase = "Failed"
        BY <1>b, <2>0, <3>4 DEF DiscObject
      <4>. QED
        BY <3>2, <4>1
    <3>. QED
      BY <3>1, <3>3, <3>4
  <2>2. task'[v].pc \in {"eject", "handled"} /\ ~task'[v].pending
    BY <1>10, EndTaskFields DEF RecordFailure
  <2>3. ReadsOnce'
    BY <1>a, <2>2, OnceTasks DEF Reading
  <2>. QED
    BY <1>a, <1>f, <2>0, <2>1, <2>3, OnceReads DEF Reading, Derived
<1>11. CASE \/ HandleError(v) \/ EjectFails(v) \/ Eject(v) \/ Remove(v)
            \/ Crash(v) \/ Restart(v) \/ Plug(v)
  <2>1. task'[v].pc \in {"eject", "handled", "idle", "down"} /\ ~task'[v].pending
        /\ UNCHANGED <<disc, work>>
    BY <1>11, EndTaskFields, ResetFields, ToIdleFields
       DEF HandleError, EjectFails, Eject, Remove, Crash, Restart, Plug
  <2>2. ReadsOnce'
    BY <1>a, <2>1, OnceTasks DEF Reading
  <2>. QED
    BY <1>a, <2>1, <2>2, OnceSame
<1>12. CASE Unplug(v)
  <2>1. task'[v].pc = "unplugged" /\ ~task'[v].pending /\ UNCHANGED disc
    BY <1>12, ResetFields DEF Unplug
  <2>2. ReadsOnce'
    BY <1>a, <2>1, OnceTasks DEF Reading
  <2>3. CASE UNCHANGED work
    BY <1>a, <2>1, <2>2, <2>3, OnceSame
  <2>4. CASE task[v].pc = "upload"
    <3>1. d \in Discs
      BY <1>c, <2>4 DEF Away
    <3>. QED
      BY <1>a, <1>d, <1>e, <1>f, <2>1, <2>2, <2>4, <3>1, OnceReads DEF Reading
  <2>. QED
    BY <1>12, <2>3, <2>4 DEF Unplug
<1>13. CASE \E e \in Discs : Insert(v, e)
  <2>1. UNCHANGED <<disc, work, task>> /\ task[v].pc = "idle"
    BY <1>13 DEF Insert
  <2>2. ReadsOnce'
    BY <1>a, <1>d, <2>1, OnceTasks DEF Reading
  <2>. QED
    BY <1>a, <2>1, <2>2, OnceSame
<1>. QED
  BY <1>1, <1>2, <1>3, <1>4, <1>5, <1>6, <1>7, <1>8, <1>9, <1>10, <1>11, <1>12, <1>13
     DEF DriveNext, AgentStep

(* What a step about a disc does to the fields the invariant speaks of.    *)
LEMMA SeenOrSame ==
    ASSUME Typed, NEW d \in Discs, DiscNext(d)
    PROVE  \/ seen'[d] = disc[d] /\ disc' = disc
           \/ seen'[d].phase = seen[d].phase /\ seen'[d].backup = seen[d].backup
<1>a. seen \in [Discs -> DiscObject]
  BY DEF Typed, TypeOK
<1>1. CASE Watch(d)
  BY <1>1, <1>a DEF Watch
<1>2. CASE Elapse(d)
  <2>1. seen'[d] = Aged(seen[d])
    BY <1>2, <1>a DEF Elapse
  <2>. QED
    BY <1>a, <2>1 DEF Aged, DiscObject
<1>3. CASE ~Watch(d) /\ ~Elapse(d)
  BY <1>3 DEF DiscNext, ReconcileStep, Retry, MovePhase, FailDisc, StartEncode, StartPublish,
       CreateJob, PatchStarted, GpuStarved, ReconcileError, Renew, JobStep, StartEncoding, Encode,
       EncodeFails, RecordTitles, StartPublishing, CopyIso, PlaceIso, PlaceMovies, RecordPublished,
       Finish, KillJob, ExpireJob, EditEncode, EditLayout, Hold, Release, BumpRetry
<1>. QED
  BY <1>1, <1>2, <1>3

(* decide() changes the phase, starts a Job or waits for one only when the *)
(* disc it looks at is past its backup.                                    *)
LEMMA DecidesLate ==
    ASSUME Typed, NEW d \in Discs,
           MovePhase(d) \/ StartEncode(d) \/ StartPublish(d) \/ GpuStarved(d)
    PROVE  Cached(d).phase \in Derived
<1>1. Cached(d).phase \in Phase
  BY CachedType DEF DiscObject
<1>2. CASE GpuStarved(d)
  BY <1>2 DEF GpuStarved, Starved, Derived
<1>3. CASE MovePhase(d) \/ StartEncode(d) \/ StartPublish(d)
  <2>1. Decision(d).do \in {"SetPhase", "StartEncode", "StartPublish"}
    BY <1>3 DEF MovePhase, StartEncode, StartPublish
  <2>. QED
    BY <1>1, <2>1 DEF Decision, Decide, Wait, Fail, Derived, Phase
<1>. QED
  BY <1>2, <1>3

\* A cached phase or backup is one the Disc has, or had.
LEMMA CachedBackup ==
    ASSUME Typed, OnceInv, NEW d \in Discs, Cached(d).phase \in Derived \/ Cached(d).backup # 0
    PROVE  disc[d].backup # 0
BY DEF OnceInv, RecordedFirst, Cached

(* Until a backup is recorded no step about the disc does more than fail   *)
(* it, start it over, edit it or let time pass.                            *)
LEMMA Unrecorded ==
    ASSUME Typed, OnceInv, NEW d \in Discs, DiscNext(d), disc[d].backup = 0
    PROVE  /\ UNCHANGED <<ctl, job, work, lib>>
           /\ disc'[d].phase \notin Derived
<1>a. /\ disc \in [Discs -> DiscObject] /\ disc[d].phase \notin Derived /\ ctl[d].pc = "idle"
      /\ \A id \in JobIds : job[d][id].pc = "none"
  BY DEF Typed, TypeOK, OnceInv, RecordedFirst
<1>b. ~MovePhase(d) /\ ~StartEncode(d) /\ ~StartPublish(d) /\ ~GpuStarved(d)
  BY DecidesLate, CachedBackup
<1>c. ~CreateJob(d) /\ ~PatchStarted(d) /\ ~ReconcileError(d)
  BY <1>a DEF CreateJob, PatchStarted, ReconcileError
<1>d. \A n \in 1 .. MaxAttempts : ~JobStep(d, n)
  BY <1>a DEF JobStep, StartEncoding, Encode, EncodeFails, RecordTitles, StartPublishing, CopyIso,
       PlaceIso, PlaceMovies, RecordPublished, Finish, At, JobIds
<1>e. \A id \in JobIds : ~KillJob(d, id) /\ ~ExpireJob(d, id)
  BY <1>a DEF KillJob, ExpireJob, JobState
<1>1. CASE Watch(d)
  BY <1>1, <1>a DEF Watch
<1>2. CASE Retry(d)
  <2>1. RetryPhase(Cached(d)) \notin Derived
    BY CachedBackup DEF RetryPhase, Derived
  <2>2. disc'[d].phase = RetryPhase(Cached(d))
    BY <1>2, <1>a DEF Retry, DiscObject
  <2>. QED
    BY <1>2, <2>1, <2>2 DEF Retry
<1>3. CASE FailDisc(d)
  <2>1. disc'[d].phase = "Failed"
    BY <1>3, <1>a DEF FailDisc, DiscObject
  <2>. QED
    BY <1>3, <2>1 DEF FailDisc, Derived
<1>4. CASE Elapse(d)
  <2>1. disc'[d] = Aged(disc[d])
    BY <1>4, <1>a DEF Elapse
  <2>2. Aged(disc[d]).phase = disc[d].phase
    BY <1>a DEF Aged, DiscObject
  <2>. QED
    BY <1>4, <1>a, <2>1, <2>2 DEF Elapse
<1>5. CASE Renew(d) \/ EditEncode(d) \/ EditLayout(d) \/ Hold(d) \/ Release(d) \/ BumpRetry(d)
  <2>1. disc'[d].phase = disc[d].phase
    BY <1>5, <1>a DEF Renew, EditEncode, EditLayout, Hold, Release, BumpRetry, DiscObject
  <2>. QED
    BY <1>5, <1>a, <2>1 DEF Renew, EditEncode, EditLayout, Hold, Release, BumpRetry
<1>. QED
  BY <1>b, <1>c, <1>d, <1>e, <1>1, <1>2, <1>3, <1>4, <1>5 DEF DiscNext, ReconcileStep

(* Afterwards the master is only copied to the library and removed.        *)
LEMMA ImagesSame ==
    ASSUME Typed, BackupInv, OnceInv, NEW d \in Discs, DiscNext(d), disc[d].backup # 0
    PROVE  OneImage(d)'
<1>a. OneImage(d) /\ DiscFrame(d)
  BY DiscFrames DEF OnceInv
<1>b. work \in [Discs -> WorkDir] /\ lib \in [Discs -> Library] /\ job[d] \in [JobIds -> JobRecord]
  BY DEF Typed, TypeOK
<1>c. ASSUME NEW id \in JobIds, NEW j, SetJob(d, id, j), j.pc = "place" => j.src = disc[d].backup
      PROVE  \A k \in JobIds : job'[d][k].pc = "place" => job'[d][k].src = disc[d].backup
  BY <1>a, <1>c, JobSet DEF OneImage
<1>d. ASSUME UNCHANGED job
      PROVE  \A k \in JobIds : job'[d][k].pc = "place" => job'[d][k].src = disc[d].backup
  BY <1>a, <1>d DEF OneImage
<1>e. ASSUME \A k \in JobIds : job'[d][k].pc = "place" => job'[d][k].src = disc[d].backup,
             work'[d].master \in {0, work[d].master}, lib'[d].iso \in {lib[d].iso, disc[d].backup}
      PROVE  OneImage(d)'
  BY <1>a, <1>e DEF OneImage, DiscFrame
<1>f. NoJob.pc = "none" /\ \A pc : [NoJob EXCEPT !.pc = pc].pc = pc
  BY DEF NoJob
<1>1. CASE \E n \in 1 .. MaxAttempts : JobStep(d, n)
  <2>1. PICK n \in 1 .. MaxAttempts : JobStep(d, n)
    BY <1>1
  <2>. DEFINE e == <<"e", n>>
              p == <<"p", n>>
  <2>a. e \in JobIds /\ p \in JobIds
    BY DEF JobIds
  <2>b. job[d][e] \in JobRecord /\ job[d][p] \in JobRecord
    BY <1>b, <2>a
  <2>c. work'[d].master \in {0, work[d].master}
    BY <2>1, <1>b DEF JobStep, StartEncoding, Encode, EncodeFails, RecordTitles, StartPublishing,
         CopyIso, PlaceIso, PlaceMovies, RecordPublished, Finish, Encoded, Redone, WorkDir
  <2>2. CASE StartEncoding(d, n)
    <3>1. \/ SetJob(d, e, [NoJob EXCEPT !.pc = "failed"])
          \/ \E src : SetJob(d, e, [job[d][e] EXCEPT !.pc = "encode", !.ekey = disc[d].ekey, !.src = src])
      BY <2>2 DEF StartEncoding, End
    <3>2. \A src : [job[d][e] EXCEPT !.pc = "encode", !.ekey = disc[d].ekey, !.src = src].pc = "encode"
      BY <2>b DEF JobRecord
    <3>3. lib' = lib
      BY <2>2 DEF StartEncoding
    <3>. QED
      BY <1>c, <1>e, <1>f, <2>a, <2>c, <3>1, <3>2, <3>3
  <2>3. CASE Encode(d, n) \/ EncodeFails(d, n) \/ RecordTitles(d, n)
    <3>1. \E pc \in {"titles", "failed", "succeeded"} :
             SetJob(d, e, [job[d][e] EXCEPT !.pc = pc]) \/ SetJob(d, e, [NoJob EXCEPT !.pc = pc])
      BY <2>3 DEF Encode, EncodeFails, RecordTitles, End, JobGoto
    <3>2. \A pc : [job[d][e] EXCEPT !.pc = pc].pc = pc
      BY <2>b DEF JobRecord
    <3>3. lib' = lib
      BY <2>3 DEF Encode, EncodeFails, RecordTitles
    <3>. QED
      BY <1>c, <1>e, <1>f, <2>a, <2>c, <3>1, <3>2, <3>3
  <2>4. CASE StartPublishing(d, n)
    <3>. DEFINE j == [job[d][p] EXCEPT !.pc = "iso", !.lkey = disc[d].lkey, !.backup = disc[d].backup,
                                       !.published = disc[d].published]
    <3>1. j.pc = "iso"
      BY <2>b DEF JobRecord
    <3>2. SetJob(d, p, j) /\ lib' = lib
      BY <2>4 DEF StartPublishing
    <3>. HIDE DEF j
    <3>. QED
      BY <1>c, <1>e, <2>a, <2>c, <3>1, <3>2
  <2>5. CASE CopyIso(d, n)
    <3>1. \/ /\ work[d].master # 0
             /\ SetJob(d, p, [job[d][p] EXCEPT !.pc = "place", !.src = work[d].master])
          \/ SetJob(d, p, [job[d][p] EXCEPT !.pc = "movies"])
          \/ SetJob(d, p, [NoJob EXCEPT !.pc = "failed"])
      BY <2>5 DEF CopyIso, End, JobGoto
    <3>2. /\ [job[d][p] EXCEPT !.pc = "place", !.src = work[d].master].src = work[d].master
          /\ [job[d][p] EXCEPT !.pc = "movies"].pc = "movies"
      BY <2>b DEF JobRecord
    <3>3. work[d].master # 0 => work[d].master = disc[d].backup
      BY <1>a DEF OneImage
    <3>4. lib' = lib
      BY <2>5 DEF CopyIso
    <3>. QED
      BY <1>c, <1>e, <1>f, <2>a, <2>c, <3>1, <3>2, <3>3, <3>4
  <2>6. CASE PlaceIso(d, n)
    <3>1. lib'[d].iso = job[d][p].src /\ job[d][p].pc = "place"
      BY <2>6, <1>b DEF PlaceIso, At, Library
    <3>2. job[d][p].src = disc[d].backup
      BY <1>a, <2>a, <3>1 DEF OneImage
    <3>3. SetJob(d, p, [job[d][p] EXCEPT !.pc = "movies"])
      BY <2>6 DEF PlaceIso, JobGoto
    <3>4. [job[d][p] EXCEPT !.pc = "movies"].pc = "movies"
      BY <2>b DEF JobRecord
    <3>. QED
      BY <1>c, <1>e, <2>a, <2>c, <3>1, <3>2, <3>3, <3>4
  <2>7. CASE PlaceMovies(d, n) \/ RecordPublished(d, n) \/ Finish(d, n)
    <3>1. \E pc \in {"record", "finish", "failed", "succeeded"} :
             SetJob(d, p, [job[d][p] EXCEPT !.pc = pc]) \/ SetJob(d, p, [NoJob EXCEPT !.pc = pc])
      BY <2>7 DEF PlaceMovies, RecordPublished, Finish, End, JobGoto
    <3>2. \A pc : [job[d][p] EXCEPT !.pc = pc].pc = pc
      BY <2>b DEF JobRecord
    <3>3. lib'[d].iso = lib[d].iso
      BY <2>7, <1>b DEF PlaceMovies, RecordPublished, Finish, Library
    <3>. QED
      BY <1>c, <1>e, <1>f, <2>a, <2>c, <3>1, <3>2, <3>3
  <2>. QED
    BY <2>1, <2>2, <2>3, <2>4, <2>5, <2>6, <2>7 DEF JobStep
<1>2. CASE \E id \in JobIds : KillJob(d, id) \/ ExpireJob(d, id)
  <2>1. PICK id \in JobIds : KillJob(d, id) \/ ExpireJob(d, id)
    BY <1>2
  <2>2. SetJob(d, id, NoJob) \/ SetJob(d, id, [NoJob EXCEPT !.pc = "failed"])
    BY <2>1 DEF KillJob, ExpireJob, End
  <2>3. UNCHANGED <<work, lib>>
    BY <2>1 DEF KillJob, ExpireJob
  <2>. QED
    BY <1>c, <1>e, <1>f, <2>2, <2>3
<1>3. CASE CreateJob(d) \/ GpuStarved(d)
  <2>1. UNCHANGED <<work, lib>>
    BY <1>3 DEF CreateJob, GpuStarved
  <2>2. \/ UNCHANGED job
        \/ \E id, j : SetJob(d, id, j) /\ j.pc \in {"none", "pending"}
    <3>1. [NoJob EXCEPT !.pc = "pending", !.cpu = ctl[d].cpu].pc = "pending"
      BY DEF NoJob
    <3>. QED
      BY <1>3, <1>f, <3>1 DEF CreateJob, GpuStarved
  <2>3. ASSUME NEW id, NEW j, SetJob(d, id, j), j.pc \in {"none", "pending"}
        PROVE  \A k \in JobIds : job'[d][k].pc = "place" => job'[d][k].src = disc[d].backup
    BY <1>a, <2>3, JobSet DEF OneImage
  <2>. QED
    BY <1>d, <1>e, <2>1, <2>2, <2>3
<1>4. CASE UNCHANGED <<job, work, lib>>
  BY <1>4, <1>d, <1>e
<1>. QED
  BY <1>1, <1>2, <1>3, <1>4 DEF DiscNext, ReconcileStep, Watch, Retry, MovePhase, FailDisc,
     StartEncode, StartPublish, PatchStarted, ReconcileError, Renew, Elapse, EditEncode, EditLayout,
     Hold, Release, BumpRetry

\* Every step about a disc keeps it read once.
LEMMA DiscOnce ==
    ASSUME Typed, BackupInv, OnceInv, NEW d \in Discs, DiscNext(d)
    PROVE  ReadsOnce' /\ \A e \in Discs : (RecordedFirst(e) /\ OneImage(e))'
<1>a. DiscFrame(d)
  BY DiscFrames
<1>b. RecordedFirst(d) /\ OneImage(d) /\ ReadsOnce
  BY DEF OnceInv
<1>1. ReadsOnce'
  <2>. SUFFICES ASSUME NEW v \in Drives
                PROVE  /\ ~task'[v].pending
                       /\ task'[v].pc \in Reading => disc'[task'[v].disc].exists
                       /\ task'[v].pc \in Reading \cup {"create"} => disc'[task'[v].disc].backup = 0
                       /\ task'[v].pc \in {"clean", "record"} => work'[task'[v].disc].master = task'[v].ver
    BY DEF ReadsOnce
  <2>1. task' = task /\ (task[v].pc \notin Away => task[v].disc \in Discs)
    BY <1>a DEF DiscFrame, Typed, TaskHasDisc, Away
  <2>2. CASE task[v].pc \in Reading \cup {"create"} /\ task[v].disc = d
    <3>1. disc[d].backup = 0
      BY <1>b, <2>2 DEF ReadsOnce
    <3>2. UNCHANGED work
      BY <3>1, Unrecorded
    <3>. QED
      BY <1>a, <1>b, <2>1, <2>2, <3>2 DEF ReadsOnce, DiscFrame
  <2>3. CASE task[v].pc \in Reading \cup {"create"} /\ task[v].disc # d
    <3>1. task[v].disc \in Discs \ {d}
      BY <2>1, <2>3 DEF Reading, Away
    <3>. QED
      BY <1>a, <1>b, <2>1, <3>1 DEF ReadsOnce, DiscFrame
  <2>4. CASE task[v].pc \notin Reading \cup {"create"}
    BY <1>b, <2>1, <2>4 DEF ReadsOnce, Reading
  <2>. QED
    BY <2>2, <2>3, <2>4
<1>2. RecordedFirst(d)'
  <2>1. CASE disc[d].backup = 0
    <3>1. UNCHANGED <<ctl, job, work, lib>> /\ disc'[d].phase \notin Derived
      BY <2>1, Unrecorded
    <3>. QED
      BY <1>a, <1>b, <3>1, SeenOrSame DEF RecordedFirst, DiscFrame
  <2>2. CASE disc[d].backup # 0
    BY <1>a, <1>b, <2>2, SeenOrSame DEF RecordedFirst, DiscFrame
  <2>. QED
    BY <2>1, <2>2
<1>3. OneImage(d)'
  <2>1. CASE disc[d].backup = 0
    <3>1. UNCHANGED <<ctl, job, work, lib>>
      BY <2>1, Unrecorded
    <3>. QED
      BY <1>a, <1>b, <3>1 DEF OneImage, DiscFrame
  <2>. QED
    BY <2>1, ImagesSame
<1>4. ASSUME NEW e \in Discs, e # d
      PROVE  (RecordedFirst(e) /\ OneImage(e))'
  <2>1. RecordedFirst(e) /\ OneImage(e)
    BY DEF OnceInv
  <2>2. /\ disc'[e] = disc[e] /\ seen'[e] = seen[e] /\ ctl'[e] = ctl[e]
        /\ job'[e] = job[e] /\ work'[e] = work[e] /\ lib'[e] = lib[e]
    BY <1>a, <1>4 DEF DiscFrame
  <2>. QED
    BY <2>1, <2>2 DEF RecordedFirst, OneImage
<1>. QED
  BY <1>1, <1>2, <1>3, <1>4

\* A disc read once stays one.
LEMMA NextOnce ==
    ASSUME ~TwoCopies, ~Damaged, Typed, BackupInv, OnceInv, [Next]_vars
    PROVE  OnceInv'
<1>1. Trays'
  BY TraysStay DEF OnceInv
<1>2. CASE UNCHANGED vars
  BY <1>1, <1>2 DEF vars, OnceInv, ReadsOnce, RecordedFirst, OneImage
<1>3. CASE \E v \in Drives : DriveNext(v)
  BY <1>1, <1>3, DriveOnce DEF OnceInv
<1>4. CASE \E d \in Discs : DiscNext(d)
  BY <1>1, <1>4, DiscOnce DEF OnceInv
<1>. QED
  BY <1>2, <1>3, <1>4 DEF Next

\* The inductive invariant of BackupKept, for the proofs below.
LEMMA AlwaysBackupInv == Spec => [](Typed /\ BackupInv)
BY AlwaysTyped, InitKeeps, NextKeeps, PTL DEF Spec

\* An undamaged disc without a copy is read once.
LEMMA AlwaysOnce == ~TwoCopies /\ ~Damaged => (Spec => []OnceInv)
<1>1. ASSUME ~TwoCopies, ~Damaged PROVE Spec => []OnceInv
  <2>1. Typed /\ BackupInv /\ OnceInv /\ [Next]_vars => OnceInv'
    BY <1>1, NextOnce
  <2>. QED
    BY InitOnce, <2>1, AlwaysBackupInv, PTL DEF Spec
<1>. QED
  BY <1>1

(* The image a backed up disc is kept in is the recorded one, or a later   *)
(* one: the clean-up after a publish (finish) and the copy of the ISO cost *)
(* nothing, however far the cache lags behind (controller.rs:208) and      *)
(* whatever is lost, crashes or is retried, as long as the disc reads      *)
(* without errors and has no copy in a second drive.                       *)
THEOREM LatestStays == ~TwoCopies /\ ~Damaged => (Spec => []LatestKept)
<1>1. ASSUME Typed, BackupInv, OnceInv PROVE LatestKept
  <2>. SUFFICES ASSUME NEW d \in Discs, disc[d].backup # 0
                PROVE  work[d].master >= disc[d].backup \/ lib[d].iso >= disc[d].backup
    BY DEF LatestKept
  <2>1. work[d].master # 0 \/ lib[d].iso # 0
    BY <1>1 DEF BackupInv, BackupKept
  <2>2. work[d].master = disc[d].backup \/ lib[d].iso = disc[d].backup
    BY <1>1, <2>1 DEF OnceInv, OneImage
  <2>3. disc[d].backup \in Nat
    BY <1>1, BoundsAssumption DEF Typed, TypeOK, DiscObject, Versions
  <2>. QED
    BY <2>2, <2>3
<1>2. ASSUME ~TwoCopies, ~Damaged PROVE Spec => []LatestKept
  BY <1>1, <1>2, AlwaysOnce, AlwaysBackupInv, PTL
<1>. QED
  BY <1>2

-----------------------------------------------------------------------------
(* Encode Jobs.  The number of a live encode Job is that of the Disc, or   *)
(* the next one: created and not yet recorded.  The next one is only       *)
(* created when the Disc's own is gone, which is what a phase says that    *)
(* moved on, or a deletion that succeeded.                                 *)
Live(d, n) == JobState(job[d][<<"e", n>>]) = "Running"
OwnGone(d) == \A n \in 1 .. MaxAttempts : n = disc[d].attempts => job[d][<<"e", n>>].pc = "none"

Numbered(d) ==
    \A n \in 1 .. MaxAttempts :
        Live(d, n) =>
          \/ n = disc[d].attempts /\ disc[d].phase = "Encoding"
          \/ /\ n = disc[d].attempts + 1
             /\ \/ disc[d].phase \in {"BackedUp", "Held"}
                \/ disc[d].phase = "Encoding" /\ OwnGone(d)

StartingNext(d) ==
    ctl[d].pc # "idle" =>
        /\ ctl[d].n = disc[d].attempts + 1
        /\ \/ ctl[d].stage = "e" /\ ~ctl[d].cpu /\ disc[d].phase = "BackedUp"
           \/ ctl[d].stage = "e" /\ ctl[d].cpu /\ disc[d].phase = "Encoding" /\ OwnGone(d)
           \/ ctl[d].stage = "p" /\ ~ctl[d].cpu /\ disc[d].phase = "Encoded"

EncodeInv == \A d \in Discs : Numbered(d) /\ StartingNext(d)

(* A drive writes a Disc's phase and attempts only while the controller    *)
(* and the Jobs have nothing to do with the disc.                          *)
Busy(d) == ctl[d].pc # "idle" \/ \E id \in JobIds : JobState(job[d][id]) = "Running"
DrivesAlone ==
    \A v \in Drives : task[v].pc \in {"claim", "record", "fail"} => ~Busy(task[v].disc)

(* Where people wait until a disc is at rest and agents neither restart    *)
(* nor lose a drive, a disc that lies in a tray and was not handled yet    *)
(* stays at rest: decide() has nothing to do for it.                       *)
AtRest(d) ==
    /\ ~Busy(d)
    /\ disc[d].retry = disc[d].observed
    /\ \/ disc[d].phase \in {"Detected", "BackingUp", "Failed"}
       \/ disc[d].phase = "Held" /\ disc[d].hold
       \/ disc[d].phase = "Done" /\ disc[d].encKey = disc[d].ekey /\ disc[d].pubKey = disc[d].lkey
Undisturbed ==
    \A v \in Drives, d \in Discs :
        tray[v] = d /\ task[v].pc \in Reading \cup {"idle", "create"} => AtRest(d)

\* What the API server shows of a Job says whether its pod runs.
LEMMA StateOf ==
    /\ \A j : JobState(j) = "Running" <=> j.pc \notin {"none", "succeeded", "failed"}
    /\ NoJob.pc = "none" /\ \A pc : [NoJob EXCEPT !.pc = pc].pc = pc
BY DEF JobState, NoJob

(* Pods and their ends never bring a Job to life, and none comes back.     *)
LEMMA JobsOnlyEnd ==
    ASSUME Typed, NEW d \in Discs,
           \/ \E n \in 1 .. MaxAttempts : JobStep(d, n)
           \/ \E id \in JobIds : KillJob(d, id) \/ ExpireJob(d, id)
    PROVE  /\ UNCHANGED <<ctl, task, tray, seen>>
           /\ disc'[d].phase = disc[d].phase /\ disc'[d].attempts = disc[d].attempts
           /\ \A k \in JobIds :
                /\ JobState(job'[d][k]) = "Running" => JobState(job[d][k]) = "Running"
                /\ job[d][k].pc = "none" => job'[d][k].pc = "none"
<1>a. disc \in [Discs -> DiscObject] /\ job[d] \in [JobIds -> JobRecord]
  BY DEF Typed, TypeOK
<1>b. ASSUME NEW id \in JobIds, NEW j, SetJob(d, id, j),
             JobState(j) = "Running" => JobState(job[d][id]) = "Running",
             job[d][id].pc = "none" => j.pc = "none"
      PROVE  \A k \in JobIds :
                /\ JobState(job'[d][k]) = "Running" => JobState(job[d][k]) = "Running"
                /\ job[d][k].pc = "none" => job'[d][k].pc = "none"
  BY <1>b, JobSet
<1>1. CASE \E n \in 1 .. MaxAttempts : JobStep(d, n)
  <2>1. PICK n \in 1 .. MaxAttempts : JobStep(d, n)
    BY <1>1
  <2>2. PICK st \in {"e", "p"} :
          /\ JobState(job[d][<<st, n>>]) = "Running"
          /\ \E j : SetJob(d, <<st, n>>, j)
    BY <2>1, StateOf DEF JobStep, StartEncoding, Encode, EncodeFails, RecordTitles, StartPublishing,
         CopyIso, PlaceIso, PlaceMovies, RecordPublished, Finish, At, End, JobGoto
  <2>3. <<st, n>> \in JobIds
    BY DEF JobIds
  <2>4. /\ UNCHANGED <<ctl, task, tray, seen>>
        /\ UNCHANGED disc \/ disc' = [disc EXCEPT ![d] = [@ EXCEPT !.published = TRUE]]
    BY <2>1 DEF JobStep, StartEncoding, Encode, EncodeFails, RecordTitles, StartPublishing,
                CopyIso, PlaceIso, PlaceMovies, RecordPublished, Finish
  <2>5. disc'[d].phase = disc[d].phase /\ disc'[d].attempts = disc[d].attempts
    BY <1>a, <2>4 DEF DiscObject
  <2>6. job[d][<<st, n>>].pc # "none"
    BY <2>2, StateOf
  <2>. QED
    BY <1>b, <2>2, <2>3, <2>4, <2>5, <2>6
<1>2. CASE \E id \in JobIds : KillJob(d, id) \/ ExpireJob(d, id)
  <2>1. PICK id \in JobIds : KillJob(d, id) \/ ExpireJob(d, id)
    BY <1>2
  <2>2. CASE KillJob(d, id)
    <3>1. SetJob(d, id, [NoJob EXCEPT !.pc = "failed"]) /\ job[d][id].pc # "none"
      BY <2>2, StateOf DEF KillJob, End
    <3>2. JobState([NoJob EXCEPT !.pc = "failed"]) # "Running"
      BY StateOf
    <3>. QED
      BY <1>b, <2>2, <3>1, <3>2 DEF KillJob
  <2>3. CASE ExpireJob(d, id)
    <3>1. JobState(NoJob) # "Running" /\ NoJob.pc = "none"
      BY StateOf
    <3>. QED
      BY <1>b, <2>3, <3>1 DEF ExpireJob
  <2>. QED
    BY <2>1, <2>2, <2>3
<1>. QED
  BY <1>1, <1>2

(* Only a claim, the record of a backup and that of its failure write the  *)
(* phase or the attempts.                                                  *)
LEMMA DriveWrites ==
    ASSUME Typed, NEW v \in Drives, DriveNext(v), task[v].pc \notin {"claim", "record", "fail"}
    PROVE  \A e \in Discs : disc'[e].phase = disc[e].phase /\ disc'[e].attempts = disc[e].attempts
<1>a. disc \in [Discs -> DiscObject]
  BY DEF Typed, TypeOK
<1>1. CASE Create(v)
  BY <1>1, <1>a DEF Create, DiscObject
<1>2. CASE UNCHANGED disc
  BY <1>2
<1>. QED
  BY <1>1, <1>2 DEF DriveNext, AgentStep, Detect, GetStatus, Claim, BackUp, Upload, Clean,
     BackUpFails, Record, RecordFailure, Eject, HandleError, EjectFails, Crash, Restart, Unplug,
     Plug, Remove, Insert

(* For a Job's number, nothing else of a disc matters.                     *)
LEMMA EncodeFrame ==
    ASSUME NEW d \in Discs, Numbered(d), StartingNext(d), ctl'[d] = ctl[d],
           disc'[d].phase = disc[d].phase, disc'[d].attempts = disc[d].attempts,
           \A k \in JobIds : /\ JobState(job'[d][k]) = "Running" => JobState(job[d][k]) = "Running"
                             /\ job[d][k].pc = "none" => job'[d][k].pc = "none"
    PROVE  Numbered(d)' /\ StartingNext(d)'
<1>1. \A n \in 1 .. MaxAttempts : <<"e", n>> \in JobIds
  BY DEF JobIds
<1>2. OwnGone(d) => OwnGone(d)'
  BY <1>1 DEF OwnGone
<1>3. \A n \in 1 .. MaxAttempts : Live(d, n)' => Live(d, n)
  BY <1>1 DEF Live
<1>4. Numbered(d)'
  BY <1>2, <1>3 DEF Numbered
<1>5. StartingNext(d)'
  BY <1>2 DEF StartingNext
<1>. QED
  BY <1>4, <1>5

\* A drive that writes alone renumbers no live Job.
LEMMA DriveEncodes ==
    ASSUME Typed, DrivesAlone, EncodeInv, NEW v \in Drives, DriveNext(v)
    PROVE  EncodeInv'
<1>. SUFFICES ASSUME NEW d \in Discs PROVE Numbered(d)' /\ StartingNext(d)'
  BY DEF EncodeInv
<1>1. UNCHANGED <<ctl, job>> /\ (d # task[v].disc => disc'[d] = disc[d])
  BY DriveFrames DEF DriveFrame
<1>2. Numbered(d) /\ StartingNext(d)
  BY DEF EncodeInv
<1>3. CASE d = task[v].disc /\ task[v].pc \in {"claim", "record", "fail"}
  <2>1. ~Busy(d)
    BY <1>3 DEF DrivesAlone
  <2>2. ctl[d].pc = "idle" /\ \A n \in 1 .. MaxAttempts : ~Live(d, n)
    BY <2>1 DEF Busy, Live, JobIds
  <2>3. ctl'[d].pc = "idle" /\ \A n \in 1 .. MaxAttempts : ~Live(d, n)'
    BY <1>1, <2>2 DEF Live
  <2>. QED
    BY <2>3 DEF Numbered, StartingNext
<1>4. CASE ~(d = task[v].disc /\ task[v].pc \in {"claim", "record", "fail"})
  <2>1. disc'[d].phase = disc[d].phase /\ disc'[d].attempts = disc[d].attempts
    BY <1>1, <1>4, DriveWrites
  <2>. QED
    BY <1>1, <1>2, <2>1, EncodeFrame
<1>. QED
  BY <1>3, <1>4

(* People, time and the lease touch neither phase nor attempts.            *)
LEMMA PeopleWrite ==
    ASSUME Typed, NEW d \in Discs,
           \/ Renew(d) \/ Elapse(d)
           \/ EditEncode(d) \/ EditLayout(d) \/ Hold(d) \/ Release(d) \/ BumpRetry(d)
    PROVE  /\ disc'[d].phase = disc[d].phase /\ disc'[d].attempts = disc[d].attempts
           /\ UNCHANGED <<ctl, job, work, lib, task, tray, made>>
<1>a. disc \in [Discs -> DiscObject]
  BY DEF Typed, TypeOK
<1>1. CASE Elapse(d)
  <2>1. disc'[d] = Aged(disc[d])
    BY <1>1, <1>a DEF Elapse
  <2>2. Aged(disc[d]).phase = disc[d].phase /\ Aged(disc[d]).attempts = disc[d].attempts
    BY <1>a DEF Aged, DiscObject
  <2>. QED
    BY <1>1, <2>1, <2>2 DEF Elapse
<1>2. CASE Renew(d) \/ EditEncode(d) \/ EditLayout(d) \/ Hold(d) \/ Release(d) \/ BumpRetry(d)
  <2>1. disc'[d].phase = disc[d].phase /\ disc'[d].attempts = disc[d].attempts
    BY <1>2, <1>a DEF Renew, EditEncode, EditLayout, Hold, Release, BumpRetry, DiscObject
  <2>. QED
    BY <1>2, <2>1 DEF Renew, EditEncode, EditLayout, Hold, Release, BumpRetry
<1>. QED
  BY <1>1, <1>2

(* What decide() asks for, by phase and state of the Job.                  *)
LEMMA Moves ==
    ASSUME NEW o \in DiscObject, NEW j,
           Decide(o, JobState(j)).do = "SetPhase", NEW to, to = Decide(o, JobState(j)).to
    PROVE  \/ o.phase = "BackedUp" /\ o.hold /\ to = "Held"
           \/ o.phase = "Held" /\ ~o.hold /\ to = "BackedUp"
           \/ o.phase = "Encoding" /\ j.pc = "succeeded" /\ to = "Encoded"
           \/ o.phase = "Encoding" /\ j.pc = "none" /\ to = "BackedUp"
           \/ o.phase = "Publishing" /\ j.pc = "succeeded" /\ to = "Done"
           \/ o.phase = "Publishing" /\ j.pc = "none" /\ to = "Encoded"
           \/ o.phase = "Done" /\ o.encKey # o.ekey /\ to = "BackedUp"
           \/ o.phase = "Done" /\ o.encKey = o.ekey /\ o.pubKey # o.lkey /\ to = "Encoded"
<1>1. o.phase \in Phase /\ o.hold \in BOOLEAN
  BY DEF DiscObject
<1>2. \/ JobState(j) = "Missing" /\ j.pc = "none"
      \/ JobState(j) = "Succeeded" /\ j.pc = "succeeded"
      \/ JobState(j) = "Failed" \/ JobState(j) = "Running"
  BY DEF JobState
<1>. QED
  BY <1>1, <1>2 DEF Decide, AfterJob, WhenDone, SetPhase, Wait, Fail, Phase

\* decide() fails a disc whose lease is over or whose Job failed.
LEMMA Fails ==
    ASSUME NEW o \in DiscObject, NEW j, Decide(o, JobState(j)).do = "Fail"
    PROVE  \/ o.phase \in {"Detected", "BackingUp"}
           \/ o.phase \in {"Encoding", "Publishing"} /\ j.pc = "failed"
<1>1. o.phase \in Phase /\ o.hold \in BOOLEAN
  BY DEF DiscObject
<1>2. \/ JobState(j) = "Missing"
      \/ JobState(j) = "Succeeded"
      \/ JobState(j) = "Failed" /\ j.pc = "failed"
      \/ JobState(j) = "Running"
  BY DEF JobState
<1>. QED
  BY <1>1, <1>2 DEF Decide, AfterJob, WhenDone, SetPhase, Wait, Fail, Phase

\* decide() starts a Job from two phases only.
LEMMA Starts ==
    ASSUME NEW o \in DiscObject, NEW j
    PROVE  /\ Decide(o, JobState(j)).do = "StartEncode" => o.phase = "BackedUp" /\ ~o.hold
           /\ Decide(o, JobState(j)).do = "StartPublish" => o.phase = "Encoded"
<1>1. o.phase \in Phase /\ o.hold \in BOOLEAN
  BY DEF DiscObject
<1>2. JobState(j) \in {"Missing", "Succeeded", "Failed", "Running"}
  BY DEF JobState
<1>. QED
  BY <1>1, <1>2 DEF Decide, AfterJob, WhenDone, SetPhase, Wait, Fail, Phase

(* The Disc's own encode Job is over, or gone: nothing else lives.         *)
LEMMA OwnOver ==
    ASSUME Typed, NEW d \in Discs, Numbered(d), disc[d].phase = "Encoding",
           NEW j, j = JobOf(d, disc[d])
    PROVE  /\ j.pc \in {"succeeded", "failed"} => \A n \in 1 .. MaxAttempts : ~Live(d, n)
           /\ j.pc = "none" => \A n \in 1 .. MaxAttempts : Live(d, n) => n = disc[d].attempts + 1
           /\ j.pc = "pending" =>
                /\ disc[d].attempts \in 1 .. MaxAttempts
                /\ \A n \in 1 .. MaxAttempts : Live(d, n) => n = disc[d].attempts
<1>. DEFINE A == disc[d].attempts
<1>1. A \in 0 .. MaxAttempts /\ MaxAttempts \in Nat
  BY BoundsAssumption DEF Typed, TypeOK, DiscObject, Attempts
<1>2. j = IF A > 0 THEN job[d][<<"e", A>>] ELSE NoJob
  BY DEF JobOf
<1>3. A = 0 => j.pc = "none"
  BY <1>1, <1>2, StateOf
<1>4. A # 0 => A \in 1 .. MaxAttempts /\ j = job[d][<<"e", A>>]
  BY <1>1, <1>2
<1>5. \A n \in 1 .. MaxAttempts : Live(d, n) => \/ n = A
                                                \/ n = A + 1 /\ OwnGone(d)
  BY DEF Numbered
<1>6. OwnGone(d) => j.pc = "none"
  BY <1>3, <1>4 DEF OwnGone
<1>7. j.pc \in {"none", "succeeded", "failed"} => \A n \in 1 .. MaxAttempts : Live(d, n) => n # A
  BY <1>1, <1>4, StateOf DEF Live
<1>. QED
  BY <1>3, <1>4, <1>5, <1>6, <1>7

\* Every step of the controller keeps the numbers.
LEMMA ControllerEncodes ==
    ASSUME ~LaggingCache, "delete" \notin FaultKinds, Typed, EncodeInv, NEW d \in Discs,
           ReconcileStep(d) \/ GpuStarved(d) \/ ReconcileError(d)
    PROVE  Numbered(d)' /\ StartingNext(d)'
<1>. DEFINE A == disc[d].attempts
            o == disc[d]
<1>a. /\ disc \in [Discs -> DiscObject] /\ ctl \in [Discs -> Reconcile]
      /\ o \in DiscObject /\ Cached(d) = o /\ A \in 0 .. MaxAttempts /\ MaxAttempts \in Nat
  BY BoundsAssumption DEF Typed, TypeOK, DiscObject, Attempts, Cached
<1>b. Numbered(d) /\ StartingNext(d)
  BY DEF EncodeInv
<1>c. \A n \in 1 .. MaxAttempts : <<"e", n>> \in JobIds /\ <<"p", n>> \in JobIds
  BY DEF JobIds
<1>d. ASSUME o.phase \notin {"Encoding", "BackedUp", "Held"}
      PROVE  \A n \in 1 .. MaxAttempts : ~Live(d, n)
  BY <1>b, <1>d DEF Numbered
<1>e. ASSUME \A n \in 1 .. MaxAttempts : ~Live(d, n), UNCHANGED <<ctl, job>>, ctl[d].pc = "idle"
      PROVE  Numbered(d)' /\ StartingNext(d)'
  <2>1. \A n \in 1 .. MaxAttempts : ~Live(d, n)'
    BY <1>e DEF Live
  <2>. QED
    BY <1>e, <2>1 DEF Numbered, StartingNext
<1>1. CASE Retry(d)
  <2>1. /\ disc'[d].phase = RetryPhase(o) /\ disc'[d].attempts = A
        /\ UNCHANGED <<ctl, job>> /\ ctl[d].pc = "idle"
    BY <1>1, <1>a DEF Retry, DiscObject, Reconciling
  <2>2. CASE o.phase = "Failed"
    BY <1>d, <1>e, <2>1, <2>2
  <2>3. CASE o.phase # "Failed"
    <3>1. disc'[d].phase = o.phase
      BY <2>1, <2>3 DEF RetryPhase
    <3>. QED
      BY <1>b, <2>1, <3>1, EncodeFrame
  <2>. QED
    BY <2>2, <2>3
<1>2. CASE MovePhase(d)
  <2>. DEFINE j == JobOf(d, o)
              to == Decide(o, JobState(j)).to
  <2>1. /\ Decide(o, JobState(j)).do = "SetPhase"
        /\ UNCHANGED <<ctl, job>> /\ ctl[d].pc = "idle"
    BY <1>2, <1>a DEF MovePhase, Decision, Reconciling
  <2>2. disc'[d].phase = to /\ disc'[d].attempts = A
    BY <1>2, <1>a DEF MovePhase, Decision, DiscObject
  <2>3. \/ o.phase = "BackedUp" /\ to = "Held"
        \/ o.phase = "Held" /\ to = "BackedUp"
        \/ o.phase = "Encoding" /\ j.pc = "succeeded" /\ to = "Encoded"
        \/ o.phase = "Encoding" /\ j.pc = "none" /\ to = "BackedUp"
        \/ o.phase = "Publishing" \/ o.phase = "Done"
    BY <1>a, <2>1, Moves
  <2>. HIDE DEF to, j
  <2>4. CASE /\ to \in {"BackedUp", "Held"}
             /\ \A n \in 1 .. MaxAttempts : Live(d, n) => n = A + 1
    <3>1. \A n \in 1 .. MaxAttempts : Live(d, n)' => n = A + 1
      BY <2>1, <2>4 DEF Live
    <3>2. ctl'[d].pc = "idle"
      BY <2>1
    <3>. QED
      BY <2>2, <2>4, <3>1, <3>2 DEF Numbered, StartingNext
  <2>5. CASE \A n \in 1 .. MaxAttempts : ~Live(d, n)
    BY <1>e, <2>1, <2>5
  <2>6. o.phase \in {"BackedUp", "Held"} => \A n \in 1 .. MaxAttempts : Live(d, n) => n = A + 1
    BY <1>b DEF Numbered
  <2>7. o.phase = "Encoding" =>
          /\ j.pc \in {"succeeded", "failed"} => \A n \in 1 .. MaxAttempts : ~Live(d, n)
          /\ j.pc = "none" => \A n \in 1 .. MaxAttempts : Live(d, n) => n = A + 1
    BY <1>b, OwnOver DEF j
  <2>. QED
    BY <1>d, <2>3, <2>4, <2>5, <2>6, <2>7
<1>3. CASE FailDisc(d)
  <2>. DEFINE j == JobOf(d, o)
  <2>1. /\ Decide(o, JobState(j)).do = "Fail"
        /\ UNCHANGED <<ctl, job>> /\ ctl[d].pc = "idle"
    BY <1>3, <1>a DEF FailDisc, Decision, Reconciling
  <2>2. \/ o.phase \notin {"Encoding", "BackedUp", "Held"}
        \/ o.phase = "Encoding" /\ j.pc = "failed"
    BY <1>a, <2>1, Fails
  <2>3. \A n \in 1 .. MaxAttempts : ~Live(d, n)
    BY <1>b, <1>d, <2>2, OwnOver
  <2>. QED
    BY <1>e, <2>1, <2>3
<1>4. CASE StartEncode(d) \/ StartPublish(d)
  <2>1. PICK st \in {"e", "p"} :
          /\ ctl' = [ctl EXCEPT ![d] = [pc |-> "create", stage |-> st, n |-> A + 1, cpu |-> FALSE]]
          /\ Decision(d).do = IF st = "e" THEN "StartEncode" ELSE "StartPublish"
    BY <1>4, <1>a DEF StartEncode, StartPublish, Starting
  <2>2. o.phase = IF st = "e" THEN "BackedUp" ELSE "Encoded"
    BY <1>a, <2>1, Starts DEF Decision
  <2>3. /\ ctl'[d].pc = "create" /\ ctl'[d].stage = st /\ ctl'[d].n = A + 1 /\ ~ctl'[d].cpu
        /\ UNCHANGED <<disc, job>>
    BY <1>4, <1>a, <2>1 DEF StartEncode, StartPublish
  <2>4. Numbered(d)'
    BY <1>b, <2>3 DEF Numbered, OwnGone, Live
  <2>5. StartingNext(d)'
    BY <2>2, <2>3 DEF StartingNext
  <2>. QED
    BY <2>4, <2>5
<1>5. CASE GpuStarved(d)
  <2>. DEFINE j == JobOf(d, o)
  <2>1. o.phase = "Encoding" /\ j.pc = "pending" /\ UNCHANGED disc
    BY <1>5, <1>a DEF GpuStarved, Starved
  <2>2. SetJob(d, <<"e", A>>, NoJob)
    BY <1>5, <1>a DEF GpuStarved, Fault
  <2>3. /\ A \in 1 .. MaxAttempts
        /\ \A n \in 1 .. MaxAttempts : Live(d, n) => n = A
    BY <1>b, <2>1, OwnOver
  <2>4. /\ job'[d][<<"e", A>>] = NoJob
        /\ \A n \in 1 .. MaxAttempts : n # A => job'[d][<<"e", n>>] = job[d][<<"e", n>>]
    <3>1. <<"e", A>> \in JobIds /\ \A n \in 1 .. MaxAttempts : n # A => <<"e", n>> # <<"e", A>>
      BY <1>c, <2>3
    <3>2. \A k \in JobIds \ {<<"e", A>>} : job'[d][k] = job[d][k]
      BY <2>2, JobSet
    <3>3. job'[d][<<"e", A>>] = NoJob
      BY <2>2, <3>1, JobSet
    <3>. QED
      BY <1>c, <3>1, <3>2, <3>3
  <2>5. OwnGone(d)' /\ \A n \in 1 .. MaxAttempts : ~Live(d, n)'
    BY <2>1, <2>3, <2>4, StateOf DEF OwnGone, Live
  <2>6. ctl'[d].stage = "e" /\ ctl'[d].n = A + 1 /\ ctl'[d].cpu
    BY <1>5, <1>a DEF GpuStarved, Starting
  <2>. QED
    BY <2>1, <2>5, <2>6 DEF Numbered, StartingNext
<1>6. CASE CreateJob(d)
  <2>. DEFINE id == <<ctl[d].stage, ctl[d].n>>
  <2>1. ctl[d].pc = "create" /\ UNCHANGED disc
    BY <1>6 DEF CreateJob
  <2>2. ctl'[d].n = ctl[d].n /\ ctl'[d].stage = ctl[d].stage /\ ctl'[d].cpu = ctl[d].cpu
    BY <1>6, <1>a DEF CreateJob, Reconcile
  <2>3. /\ ctl[d].n = A + 1
        /\ \/ ctl[d].stage = "e" /\ ~ctl[d].cpu /\ o.phase = "BackedUp"
           \/ ctl[d].stage = "e" /\ ctl[d].cpu /\ o.phase = "Encoding" /\ OwnGone(d)
           \/ ctl[d].stage = "p" /\ ~ctl[d].cpu /\ o.phase = "Encoded"
    BY <1>b, <2>1 DEF StartingNext
  <2>4. \A k \in JobIds \ {id} : job'[d][k] = job[d][k]
    BY <1>6, JobSet DEF CreateJob
  <2>5. \A n \in 1 .. MaxAttempts : n # A + 1 => job'[d][<<"e", n>>] = job[d][<<"e", n>>]
    BY <1>c, <2>3, <2>4
  <2>6. ctl[d].stage = "p" => \A n \in 1 .. MaxAttempts : job'[d][<<"e", n>>] = job[d][<<"e", n>>]
    BY <1>c, <2>4
  <2>7. OwnGone(d)' <=> OwnGone(d)
    BY <1>a, <2>1, <2>5 DEF OwnGone
  <2>8. StartingNext(d)'
    BY <2>1, <2>2, <2>3, <2>7 DEF StartingNext
  <2>9. ASSUME NEW n \in 1 .. MaxAttempts, Live(d, n)'
        PROVE  \/ Live(d, n)
               \/ n = A + 1 /\ ctl[d].stage = "e"
    BY <2>3, <2>5, <2>6, <2>9 DEF Live
  <2>10. Numbered(d)'
    BY <1>b, <2>1, <2>3, <2>7, <2>9 DEF Numbered
  <2>. QED
    BY <2>8, <2>10
<1>7. CASE PatchStarted(d)
  <2>1. ctl[d].pc = "patch" /\ UNCHANGED job
    BY <1>7 DEF PatchStarted
  <2>2. /\ ctl[d].n = A + 1
        /\ \/ ctl[d].stage = "e" /\ ~ctl[d].cpu /\ o.phase = "BackedUp"
           \/ ctl[d].stage = "e" /\ ctl[d].cpu /\ o.phase = "Encoding" /\ OwnGone(d)
           \/ ctl[d].stage = "p" /\ ~ctl[d].cpu /\ o.phase = "Encoded"
    BY <1>b, <2>1 DEF StartingNext
  <2>3. /\ disc'[d].attempts = A + 1
        /\ disc'[d].phase = IF ctl[d].cpu THEN o.phase
                            ELSE IF ctl[d].stage = "e" THEN "Encoding" ELSE "Publishing"
        /\ ctl'[d] = IdleReconcile
    BY <1>7, <1>a, <2>2 DEF PatchStarted, DiscObject
  <2>4. ctl'[d].pc = "idle"
    BY <2>3 DEF IdleReconcile
  <2>5. \A n \in 1 .. MaxAttempts : Live(d, n)' => Live(d, n)
    BY <2>1 DEF Live
  <2>6. OwnGone(d) => ~\E n \in 1 .. MaxAttempts : n = A /\ Live(d, n)
    BY StateOf DEF OwnGone, Live
  <2>7. \A n \in 1 .. MaxAttempts : Live(d, n) => n = A + 1 /\ ctl[d].stage = "e"
    BY <1>a, <1>b, <2>2, <2>6 DEF Numbered
  <2>. QED
    BY <2>2, <2>3, <2>4, <2>5, <2>7 DEF Numbered, StartingNext
<1>8. CASE ReconcileError(d)
  <2>1. ctl'[d].pc = "idle" /\ UNCHANGED <<disc, job>>
    BY <1>8, <1>a DEF ReconcileError, IdleReconcile
  <2>. QED
    BY <1>b, <2>1 DEF Numbered, StartingNext, Live, OwnGone
<1>. QED
  BY <1>1, <1>2, <1>3, <1>4, <1>5, <1>6, <1>7, <1>8 DEF ReconcileStep

\* Every step keeps the numbers.
LEMMA NextEncodes ==
    ASSUME ~LaggingCache, "delete" \notin FaultKinds, Typed, DrivesAlone, EncodeInv, [Next]_vars
    PROVE  EncodeInv'
<1>1. CASE UNCHANGED vars
  BY <1>1 DEF vars, EncodeInv, Numbered, StartingNext, Live, OwnGone
<1>2. CASE \E v \in Drives : DriveNext(v)
  BY <1>2, DriveEncodes
<1>3. CASE \E d \in Discs : DiscNext(d)
  <2>1. PICK d \in Discs : DiscNext(d)
    BY <1>3
  <2>2. Numbered(d) /\ StartingNext(d)
    BY DEF EncodeInv
  <2>3. Numbered(d)' /\ StartingNext(d)'
    <3>1. CASE ReconcileStep(d) \/ GpuStarved(d) \/ ReconcileError(d)
      BY <3>1, ControllerEncodes
    <3>2. CASE \/ \E n \in 1 .. MaxAttempts : JobStep(d, n)
               \/ \E id \in JobIds : KillJob(d, id) \/ ExpireJob(d, id)
      BY <2>2, <3>2, JobsOnlyEnd, EncodeFrame
    <3>3. CASE \/ Renew(d) \/ Elapse(d)
               \/ EditEncode(d) \/ EditLayout(d) \/ Hold(d) \/ Release(d) \/ BumpRetry(d)
      BY <2>2, <3>3, PeopleWrite, EncodeFrame
    <3>. QED
      BY <2>1, <3>1, <3>2, <3>3 DEF DiscNext, Watch
  <2>4. ASSUME NEW e \in Discs \ {d}
        PROVE  Numbered(e)' /\ StartingNext(e)'
    <3>1. Numbered(e) /\ StartingNext(e)
      BY DEF EncodeInv
    <3>2. disc'[e] = disc[e] /\ job'[e] = job[e] /\ ctl'[e] = ctl[e]
      BY <2>1, DiscFrames DEF DiscFrame
    <3>. QED
      BY <3>1, <3>2, EncodeFrame
  <2>. QED
    BY <2>3, <2>4 DEF EncodeInv
<1>. QED
  BY <1>1, <1>2, <1>3 DEF Next

\* There is no Job at first.
LEMMA InitEncodes == Init => EncodeInv
BY StateOf DEF Init, EncodeInv, Numbered, StartingNext, Live, IdleReconcile, JobIds

\* Two live encode Jobs would have two numbers, and only one can be.
LEMMA OneLives == Typed /\ EncodeInv => OneEncode
<1>. SUFFICES ASSUME Typed, EncodeInv, NEW d \in Discs, NEW m \in 1 .. MaxAttempts,
                     NEW n \in 1 .. MaxAttempts, Live(d, m), Live(d, n)
              PROVE  m = n
  BY DEF OneEncode, Live
<1>1. Numbered(d)
  BY DEF EncodeInv
<1>2. OwnGone(d) => disc[d].attempts \notin {m, n}
  BY StateOf DEF OwnGone, Live
<1>. QED
  BY <1>1, <1>2 DEF Numbered

-----------------------------------------------------------------------------
(* People who wait, agents that stay up, a cache that keeps up.            *)
Orderly ==
    /\ ~TwoCopies /\ ~BusyPeople /\ ~LaggingCache
    /\ \A kind \in {"agent", "unplug", "delete"} : kind \notin FaultKinds

AgentsUp == \A v \in Drives : task[v].pc \notin {"down", "unplugged"}

OrderlyInv == Trays /\ AgentsUp /\ Undisturbed

\* At first no disc is in a drive.
LEMMA InitOrderly == Init => OrderlyInv
<1>1. Init => AgentsUp /\ Undisturbed
  BY NoneAssumption DEF Init, AgentsUp, Undisturbed, IdleTask
<1>. QED
  BY <1>1, InitTrays DEF OrderlyInv

(* Nothing is done for a disc at rest that lies in a drive: an expired     *)
(* lease fails it, the rest is the lease and old Jobs that are removed.    *)
LEMMA RestStays ==
    ASSUME Orderly, Typed, NEW d \in Discs, AtRest(d), ~InNoDrive(d), DiscNext(d)
    PROVE  /\ AtRest(d)'
           /\ UNCHANGED <<ctl, work, lib>>
           /\ disc'[d].attempts = disc[d].attempts
           /\ disc'[d].phase \in {disc[d].phase, "Failed"}
<1>a. /\ disc \in [Discs -> DiscObject] /\ disc[d] \in DiscObject /\ Cached(d) = disc[d]
      /\ ctl[d].pc = "idle" /\ \A id \in JobIds : JobState(job[d][id]) # "Running"
      /\ disc[d].retry = disc[d].observed /\ disc[d].retry \in Nat
      /\ disc[d].phase \in {"Detected", "BackingUp", "Failed", "Held", "Done"}
  BY BoundsAssumption DEF Orderly, Typed, TypeOK, Cached, AtRest, Busy, DiscObject
<1>b. ~RetryDue(d)
  BY <1>a DEF RetryDue
<1>c. ~MovePhase(d) /\ ~StartEncode(d) /\ ~StartPublish(d) /\ ~GpuStarved(d)
  <2>1. Decision(d).do \notin {"StartEncode", "StartPublish"}
    BY <1>a, Starts DEF Decision
  <2>2. Decision(d).do # "SetPhase"
    <3>. SUFFICES ASSUME Decision(d).do = "SetPhase" PROVE FALSE
      OBVIOUS
    <3>1. \/ disc[d].phase = "Held" /\ ~disc[d].hold
          \/ disc[d].phase = "Done" /\ disc[d].encKey # disc[d].ekey
          \/ disc[d].phase = "Done" /\ disc[d].pubKey # disc[d].lkey
      BY <1>a, Moves DEF Decision
    <3>. QED
      BY <1>a, <3>1 DEF AtRest
  <2>. QED
    BY <1>a, <2>1, <2>2 DEF MovePhase, StartEncode, StartPublish, GpuStarved, Starved
<1>d. ~CreateJob(d) /\ ~PatchStarted(d) /\ ~ReconcileError(d) /\ ~Watch(d) /\ ~Retry(d)
  BY <1>a, <1>b DEF CreateJob, PatchStarted, ReconcileError, Watch, Retry, Orderly
<1>e. \A n \in 1 .. MaxAttempts : ~JobStep(d, n)
  <2>. SUFFICES ASSUME NEW n \in 1 .. MaxAttempts, JobStep(d, n) PROVE FALSE
    OBVIOUS
  <2>1. <<"e", n>> \in JobIds /\ <<"p", n>> \in JobIds
    BY DEF JobIds
  <2>2. /\ job[d][<<"e", n>>].pc \in {"none", "succeeded", "failed"}
        /\ job[d][<<"p", n>>].pc \in {"none", "succeeded", "failed"}
    BY <1>a, <2>1, StateOf
  <2>. QED
    BY <2>2 DEF JobStep, StartEncoding, Encode, EncodeFails, RecordTitles, StartPublishing,
       CopyIso, PlaceIso, PlaceMovies, RecordPublished, Finish, At
<1>f. ~EditEncode(d) /\ ~EditLayout(d) /\ ~Hold(d) /\ ~Release(d) /\ ~BumpRetry(d)
  BY DEF EditEncode, EditLayout, Hold, Release, BumpRetry, Editable, Orderly
<1>g. ASSUME disc'[d].phase = disc[d].phase, disc'[d].hold = disc[d].hold,
             disc'[d].retry = disc[d].retry, disc'[d].observed = disc[d].observed,
             disc'[d].encKey = disc[d].encKey, disc'[d].pubKey = disc[d].pubKey,
             disc'[d].ekey = disc[d].ekey, disc'[d].lkey = disc[d].lkey,
             ctl' = ctl, \A id \in JobIds : JobState(job'[d][id]) # "Running"
      PROVE  AtRest(d)'
  BY <1>a, <1>g DEF AtRest, Busy
<1>1. CASE FailDisc(d)
  <2>1. /\ disc'[d].phase = "Failed" /\ disc'[d].retry = disc[d].retry
        /\ disc'[d].observed = disc[d].observed /\ disc'[d].attempts = disc[d].attempts
    BY <1>1, <1>a DEF FailDisc, DiscObject
  <2>2. UNCHANGED <<ctl, job, work, lib>>
    BY <1>1 DEF FailDisc
  <2>. QED
    BY <1>a, <2>1, <2>2 DEF AtRest, Busy
<1>2. CASE \E id \in JobIds : KillJob(d, id) \/ ExpireJob(d, id)
  <2>1. \A id \in JobIds : JobState(job'[d][id]) # "Running"
    BY <1>2, <1>a, JobsOnlyEnd
  <2>2. UNCHANGED <<disc, ctl, work, lib>>
    BY <1>2 DEF KillJob, ExpireJob
  <2>. QED
    BY <1>g, <2>1, <2>2
<1>3. CASE Renew(d)
  <2>1. /\ disc'[d].phase = disc[d].phase /\ disc'[d].hold = disc[d].hold
        /\ disc'[d].retry = disc[d].retry /\ disc'[d].observed = disc[d].observed
        /\ disc'[d].encKey = disc[d].encKey /\ disc'[d].pubKey = disc[d].pubKey
        /\ disc'[d].ekey = disc[d].ekey /\ disc'[d].lkey = disc[d].lkey
        /\ disc'[d].attempts = disc[d].attempts
    BY <1>3, <1>a DEF Renew, DiscObject
  <2>2. UNCHANGED <<ctl, job, work, lib>>
    BY <1>3 DEF Renew
  <2>. QED
    BY <1>a, <1>g, <2>1, <2>2
<1>4. CASE Elapse(d)
  <2>0. disc'[d] = Aged(disc[d])
    BY <1>4, <1>a DEF Elapse
  <2>1. /\ Aged(disc[d]).phase = disc[d].phase /\ Aged(disc[d]).hold = disc[d].hold
        /\ Aged(disc[d]).retry = disc[d].retry /\ Aged(disc[d]).observed = disc[d].observed
        /\ Aged(disc[d]).encKey = disc[d].encKey /\ Aged(disc[d]).pubKey = disc[d].pubKey
        /\ Aged(disc[d]).ekey = disc[d].ekey /\ Aged(disc[d]).lkey = disc[d].lkey
        /\ Aged(disc[d]).attempts = disc[d].attempts
    BY <1>a DEF Aged, DiscObject
  <2>2. UNCHANGED <<ctl, job, work, lib>>
    BY <1>4 DEF Elapse
  <2>. QED
    BY <1>a, <1>g, <2>0, <2>1, <2>2
<1>. QED
  BY <1>c, <1>d, <1>e, <1>f, <1>1, <1>2, <1>3, <1>4 DEF DiscNext, ReconcileStep

(* People put in a disc that is at rest. *)
LEMMA SettledRests ==
    ASSUME Typed, NEW d \in Discs, Settled(d)
    PROVE  AtRest(d)
<1>1. disc[d] \in DiscObject /\ disc[d].hold \in BOOLEAN
  BY DEF Typed, TypeOK, DiscObject
<1>2. ~Busy(d) /\ disc[d].retry = disc[d].observed
  BY DEF Settled, Busy
<1>3. disc[d].phase \in {"Detected", "Held", "Done", "Failed"} /\ Decide(disc[d], "Missing") = Wait
  BY DEF Settled
<1>4. disc[d].phase = "Held" => disc[d].hold
  BY <1>1, <1>3 DEF Decide, SetPhase, Wait
<1>5. disc[d].phase = "Done" => disc[d].encKey = disc[d].ekey /\ disc[d].pubKey = disc[d].lkey
  BY <1>3 DEF Decide, WhenDone, SetPhase, Wait
<1>. QED
  BY <1>2, <1>3, <1>4, <1>5 DEF AtRest

\* A disc in a tray that was not handled yet stays at rest.
LEMMA NextOrderly ==
    ASSUME Orderly, Typed, OrderlyInv, [Next]_vars
    PROVE  OrderlyInv'
<1>0. Trays'
  BY TraysStay DEF Orderly, OrderlyInv
<1>1. CASE UNCHANGED vars
  BY <1>0, <1>1 DEF vars, OrderlyInv, AgentsUp, Undisturbed, AtRest, Busy
<1>2. CASE \E v \in Drives : DriveNext(v)
  <2>1. PICK v \in Drives : DriveNext(v)
    BY <1>2
  <2>2. DriveFrame(v)
    BY <2>1, DriveFrames
  <2>a. /\ disc \in [Discs -> DiscObject] /\ tray \in [Drives -> Discs \cup {None}]
        /\ task \in [Drives -> TaskRecord]
    BY DEF Typed, TypeOK
  <2>b. ~Crash(v) /\ ~Unplug(v) /\ ~Restart(v) /\ ~Plug(v)
    BY DEF Orderly, Crash, Unplug, Fault, Restart, Plug, OrderlyInv, AgentsUp
  <2>c. task[v].pc \notin {"down", "unplugged"}
    BY DEF OrderlyInv, AgentsUp
  <2>3. task'[v].pc \notin {"down", "unplugged"}
    <3>1. CASE Detect(v)
      <4>1. PICK pc \in {"create", "get", "eject"} :
              task' = [task EXCEPT ![v] = [IdleTask EXCEPT !.disc = tray[v], !.pc = pc]]
        BY <3>1 DEF Detect
      <4>. QED
        BY <2>a, <4>1, IdleFields
    <3>2. CASE GetStatus(v) \/ BackUp(v)
      BY <2>a, <3>2 DEF GetStatus, BackUp, TaskRecord
    <3>3. CASE ~Detect(v) /\ ~GetStatus(v) /\ ~BackUp(v)
      BY <2>1, <2>b, <2>c, <3>3, GotoFields, EndTaskFields, ToIdleFields DEF DriveNext, AgentStep,
         Create, Claim, Upload, Clean, BackUpFails, Record, RecordFailure, Eject, HandleError,
         EjectFails, Remove, Insert
    <3>. QED
      BY <3>1, <3>2, <3>3
  <2>4. AgentsUp'
    BY <2>2, <2>3 DEF DriveFrame, OrderlyInv, AgentsUp
  <2>5. ASSUME NEW d \in Discs, AtRest(d), disc'[d] = disc[d] PROVE AtRest(d)'
    BY <2>2, <2>5 DEF DriveFrame, AtRest, Busy
  <2>6. Undisturbed'
    <3>. SUFFICES ASSUME NEW w \in Drives, NEW d \in Discs, tray'[w] = d,
                         task'[w].pc \in Reading \cup {"idle", "create"}
                  PROVE  AtRest(d)'
      BY DEF Undisturbed
    <3>0. d # None
      BY NoneAssumption
    <3>1. CASE w # v
      <4>1. tray[w] = d /\ task'[w] = task[w]
        BY <2>2, <3>1 DEF DriveFrame
      <4>2. AtRest(d)
        BY <4>1 DEF OrderlyInv, Undisturbed
      <4>3. disc'[d] = disc[d]
        BY <2>2, <3>0, <3>1, <4>1 DEF DriveFrame, OrderlyInv, Trays, TaskInTray, OneTray
      <4>. QED
        BY <2>5, <4>2, <4>3
    <3>2. CASE w = v /\ \E e \in Discs : Insert(v, e)
      <4>1. Insert(v, d)
        BY <2>a, <3>2 DEF Insert
      <4>2. Settled(d) /\ disc' = disc
        BY <4>1 DEF Insert, Orderly
      <4>. QED
        BY <2>5, <4>2, SettledRests
    <3>3. CASE w = v /\ ~\E e \in Discs : Insert(v, e)
      <4>1. \/ Detect(v) \/ Create(v) \/ GetStatus(v) \/ Claim(v)
            \/ BackUp(v) \/ Upload(v) \/ Clean(v) \/ BackUpFails(v)
        <5>1. ~Record(v) /\ ~RecordFailure(v) /\ ~HandleError(v) /\ ~EjectFails(v)
          BY <3>3, EndTaskFields DEF Record, RecordFailure, HandleError, EjectFails, Reading
        <5>2. ~Eject(v) /\ ~Remove(v)
          BY <2>a, <3>0, <3>3 DEF Eject, Remove
        <5>. QED
          BY <2>1, <2>b, <3>3, <5>1, <5>2 DEF DriveNext, AgentStep
      <4>2. tray[v] = d
        BY <3>3, <4>1 DEF Detect, Create, GetStatus, Claim, BackUp, Upload, Clean, BackUpFails
      <4>3. task[v].pc \in Reading \cup {"idle", "create"}
        BY <4>1 DEF Detect, Create, GetStatus, Claim, BackUp, Upload, Clean, BackUpFails, Reading
      <4>4. AtRest(d)
        BY <4>2, <4>3 DEF OrderlyInv, Undisturbed
      <4>5. CASE UNCHANGED disc
        BY <2>5, <4>4, <4>5
      <4>6. CASE Create(v) \/ Claim(v)
        <5>1. task[v].disc = d
          BY <4>2, <4>6 DEF Create, Claim, OrderlyInv, Trays, TaskInTray, Away
        <5>2. /\ disc'[d].phase \in {disc[d].phase, "BackingUp"} /\ disc'[d].hold = disc[d].hold
              /\ disc'[d].retry = disc[d].retry /\ disc'[d].observed = disc[d].observed
              /\ disc'[d].encKey = disc[d].encKey /\ disc'[d].pubKey = disc[d].pubKey
              /\ disc'[d].ekey = disc[d].ekey /\ disc'[d].lkey = disc[d].lkey
          <6>1. CASE Create(v)
            BY <2>a, <6>1, <5>1 DEF Create, DiscObject
          <6>2. CASE Claim(v)
            BY <2>a, <6>2, <5>1 DEF Claim, DiscObject
          <6>. QED
            BY <4>6, <6>1, <6>2
        <5>3. UNCHANGED <<ctl, job>>
          BY <2>2 DEF DriveFrame
        <5>. QED
          BY <4>4, <5>2, <5>3 DEF AtRest, Busy
      <4>. QED
        BY <4>1, <4>5, <4>6 DEF Detect, GetStatus, BackUp, Upload, Clean, BackUpFails
    <3>. QED
      BY <3>1, <3>2, <3>3
  <2>. QED
    BY <1>0, <2>4, <2>6 DEF OrderlyInv
<1>3. CASE \E d \in Discs : DiscNext(d)
  <2>1. PICK d \in Discs : DiscNext(d)
    BY <1>3
  <2>2. DiscFrame(d)
    BY <2>1, DiscFrames
  <2>3. AgentsUp'
    BY <2>2 DEF DiscFrame, OrderlyInv, AgentsUp
  <2>4. ASSUME NEW v \in Drives, NEW e \in Discs, tray'[v] = e,
               task'[v].pc \in Reading \cup {"idle", "create"}
        PROVE  AtRest(e)'
    <3>1. tray[v] = e /\ task' = task
      BY <2>2, <2>4 DEF DiscFrame
    <3>2. AtRest(e)
      BY <2>4, <3>1 DEF OrderlyInv, Undisturbed
    <3>3. CASE e = d
      BY <2>1, <3>1, <3>2, <3>3, RestStays DEF InNoDrive
    <3>4. CASE e # d
      <4>1. disc'[e] = disc[e] /\ ctl'[e] = ctl[e] /\ job'[e] = job[e]
        BY <2>2, <3>4 DEF DiscFrame
      <4>. QED
        BY <3>2, <4>1 DEF AtRest, Busy
    <3>. QED
      BY <3>3, <3>4
  <2>5. Undisturbed'
    BY <2>4 DEF Undisturbed
  <2>. QED
    BY <1>0, <2>3, <2>5 DEF OrderlyInv
<1>. QED
  BY <1>1, <1>2, <1>3 DEF Next

\* So it always is.
LEMMA AlwaysOrderly == Orderly => (Spec => []OrderlyInv)
<1>1. ASSUME Orderly PROVE Spec => []OrderlyInv
  <2>1. Typed /\ OrderlyInv /\ [Next]_vars => OrderlyInv'
    BY <1>1, NextOrderly
  <2>. QED
    BY InitOrderly, <2>1, AlwaysTyped, PTL DEF Spec
<1>. QED
  BY <1>1

(* Either way the drives write alone. *)
LEMMA AloneWhenOnce == Typed /\ OnceInv => DrivesAlone
<1>. SUFFICES ASSUME Typed, OnceInv, NEW v \in Drives, task[v].pc \in {"claim", "record", "fail"}
              PROVE  ~Busy(task[v].disc)
  BY DEF DrivesAlone
<1>1. task[v].disc \in Discs /\ disc[task[v].disc].backup = 0
  BY DEF Typed, TaskHasDisc, OnceInv, ReadsOnce, Reading
<1>2. RecordedFirst(task[v].disc)
  BY <1>1 DEF OnceInv
<1>. QED
  BY <1>1, <1>2, StateOf DEF RecordedFirst, Busy

\* In the second case because the disc is at rest.
LEMMA AloneWhenOrderly == Typed /\ OrderlyInv => DrivesAlone
<1>. SUFFICES ASSUME Typed, OrderlyInv, NEW v \in Drives, task[v].pc \in {"claim", "record", "fail"}
              PROVE  ~Busy(task[v].disc)
  BY DEF DrivesAlone
<1>1. task[v].disc \in Discs /\ tray[v] = task[v].disc /\ tray[v] # None
  BY NoneAssumption DEF Typed, TaskHasDisc, OrderlyInv, Trays, TaskInTray, Away
<1>. QED
  BY <1>1 DEF OrderlyInv, Undisturbed, AtRest, Reading

(* A disc has one live encode Job at most.  The Jobs are named by the      *)
(* attempt, so a reconcile that starts over after a crash finds the Job it *)
(* created; a Job that waits for a GPU is deleted before the next is       *)
(* created.  It takes a cache that keeps up with the status and deletions  *)
(* that succeed, no copy of the disc in a second drive, and for a disc     *)
(* that is rescued people who wait and agents that stay up.                *)
THEOREM OneEncodeOnly ==
    /\ ~LaggingCache /\ "delete" \notin FaultKinds
    /\ (~TwoCopies /\ ~Damaged) \/ Orderly
    => (Spec => []OneEncode)
<1>1. ASSUME ~LaggingCache, "delete" \notin FaultKinds
      PROVE  Typed /\ DrivesAlone /\ EncodeInv /\ [Next]_vars => EncodeInv'
  BY <1>1, NextEncodes
<1>2. ASSUME ~LaggingCache, "delete" \notin FaultKinds, ~TwoCopies, ~Damaged
      PROVE  Spec => []OneEncode
  <2>1. Typed /\ DrivesAlone /\ EncodeInv /\ [Next]_vars => EncodeInv'
    BY <1>1, <1>2
  <2>2. Spec => []OnceInv
    BY <1>2, AlwaysOnce
  <2>. QED
    BY <2>1, <2>2, AlwaysTyped, AloneWhenOnce, InitEncodes, OneLives, PTL DEF Spec
<1>3. ASSUME ~LaggingCache, "delete" \notin FaultKinds, Orderly
      PROVE  Spec => []OneEncode
  <2>1. Typed /\ DrivesAlone /\ EncodeInv /\ [Next]_vars => EncodeInv'
    BY <1>1, <1>3
  <2>2. Spec => []OrderlyInv
    BY <1>3, AlwaysOrderly
  <2>. QED
    BY <2>1, <2>2, AlwaysTyped, AloneWhenOrderly, InitEncodes, OneLives, PTL DEF Spec
<1>. QED
  BY <1>2, <1>3

-----------------------------------------------------------------------------
(* The numbers of the Jobs there are.  None is beyond the Disc's attempts  *)
(* but the one just created, and a live publish Job means that the disc is *)
(* being published, so that nothing is encoded meanwhile.                  *)
There(d, st, n) == job[d][<<st, n>>].pc # "none"
Publishes(d, n) == JobState(job[d][<<"p", n>>]) = "Running"

JobNumbers(d) ==
    \A n \in 1 .. MaxAttempts :
        /\ There(d, "e", n) =>
             \/ n <= disc[d].attempts
             \/ /\ n = disc[d].attempts + 1
                /\ \/ disc[d].phase \in {"BackedUp", "Held"}
                   \/ disc[d].phase = "Encoding" /\ OwnGone(d)
        /\ There(d, "p", n) => \/ n <= disc[d].attempts
                               \/ n = disc[d].attempts + 1 /\ disc[d].phase = "Encoded"
        /\ Publishes(d, n) => \/ n = disc[d].attempts /\ disc[d].phase = "Publishing"
                              \/ n = disc[d].attempts + 1 /\ disc[d].phase = "Encoded"

(* The Job the Disc is at, or the next one. *)
Current(d, n, phase) == (n = disc[d].attempts /\ disc[d].phase = phase) \/ n = disc[d].attempts + 1

(* What a drive that reads a disc knows of it. *)
Knows(v) ==
    \A d \in Discs :
        task[v].disc = d =>
          /\ task[v].pc = "claim" => task[v].n = disc[d].attempts
          /\ task[v].pc \in {"backup", "upload", "clean", "record", "fail"}
                => disc[d].phase \in {"BackingUp", "Failed"}
          /\ task[v].pc \in {"upload", "clean", "record"} => task[v].ver = made[d]
          /\ task[v].pc \in {"clean", "record"} => work[d].master = task[v].ver
          /\ task[v].pc = "record" => work[d].enc = 0

Cleaning(d) == \E v \in Drives : task[v].disc = d /\ task[v].pc = "clean"

(* The image: what the status records is in the work dir or the library.   *)
Recorded(d) ==
    /\ disc[d].phase \in Derived => disc[d].backup # 0
    /\ disc[d].backup # 0 /\ work[d].master = 0 => lib[d].iso = disc[d].backup
    /\ work[d].master # 0 => work[d].master >= disc[d].backup
    /\ lib[d].iso <= disc[d].backup /\ disc[d].backup <= made[d]

(* The encodes: made of the image at hand, under the present fields.       *)
FromMaster(d, ver) == ver = work[d].master \/ (work[d].master = 0 /\ ver = lib[d].iso)
EncodesFit(d) ==
    work[d].enc # 0 => /\ work[d].ekey = disc[d].ekey
                       /\ FromMaster(d, work[d].enc) \/ Cleaning(d)
EncodeJobsFit(d) ==
    \A n \in 1 .. MaxAttempts :
        /\ job[d][<<"e", n>>].pc = "encode" => /\ job[d][<<"e", n>>].src # 0
                                               /\ job[d][<<"e", n>>].ekey = disc[d].ekey
                                               /\ FromMaster(d, job[d][<<"e", n>>].src)
        /\ job[d][<<"e", n>>].pc \in {"titles", "succeeded"} /\ Current(d, n, "Encoding")
              => work[d].enc # 0

(* The library: what is published, or about to be.                         *)
MoviesFit(d) == lib[d].mkv = disc[d].backup /\ lib[d].ekey = disc[d].ekey
Out(d) == lib[d].iso = disc[d].backup /\ MoviesFit(d) /\ lib[d].lkey = disc[d].lkey
LibraryFits(d) ==
    /\ disc[d].phase \in {"Encoded", "Publishing"} =>
          /\ disc[d].encKey = disc[d].ekey
          /\ work[d].enc # 0 \/ MoviesFit(d)
    /\ disc[d].phase = "Done" =>
          /\ lib[d].iso = disc[d].backup /\ lib[d].mkv = disc[d].backup
          /\ lib[d].ekey = disc[d].encKey /\ lib[d].lkey = disc[d].pubKey
          /\ work[d].enc = 0
PublishFits(d, n, j) ==
    /\ j.pc \in {"iso", "place", "movies", "record", "finish"} =>
         j.backup = disc[d].backup /\ j.lkey = disc[d].lkey
    /\ j.pc = "place" => j.src = disc[d].backup /\ work[d].master = disc[d].backup
    /\ j.pc \in {"movies", "record", "finish"} =>
         lib[d].iso = disc[d].backup /\ work[d].master \in {0, disc[d].backup}
    /\ j.pc \in {"record", "finish"} => Out(d)
    /\ j.pc = "succeeded" /\ Current(d, n, "Publishing") => Out(d) /\ work[d].enc = 0
PublishJobsFit(d) == \A n \in 1 .. MaxAttempts : PublishFits(d, n, job[d][<<"p", n>>])

Fits(d) ==
    /\ JobNumbers(d) /\ Recorded(d)
    /\ EncodesFit(d) /\ EncodeJobsFit(d) /\ LibraryFits(d) /\ PublishJobsFit(d)
PipelineInv == (\A v \in Drives : Knows(v)) /\ \A d \in Discs : Fits(d)

(* All that Fits reads of a Disc, and what becomes of Jobs that go.        *)
SameFields(d) ==
    /\ disc'[d].phase = disc[d].phase /\ disc'[d].attempts = disc[d].attempts
    /\ disc'[d].backup = disc[d].backup
    /\ disc'[d].ekey = disc[d].ekey /\ disc'[d].lkey = disc[d].lkey
    /\ disc'[d].encKey = disc[d].encKey /\ disc'[d].pubKey = disc[d].pubKey
JobsGo(d) ==
    \A k \in JobIds :
        \/ job'[d][k] = job[d][k]
        \/ /\ job'[d][k].pc \in {"failed", "none"}
           /\ job[d][k].pc = "none" => job'[d][k].pc = "none"

(* A step that changes nothing of the disc but lets Jobs go. *)
LEMMA FrameFits ==
    ASSUME NEW d \in Discs, Fits(d), SameFields(d), JobsGo(d), Cleaning(d) => Cleaning(d)',
           work'[d] = work[d], lib'[d] = lib[d], made'[d] = made[d]
    PROVE  Fits(d)'
<1>a. \A n \in 1 .. MaxAttempts : <<"e", n>> \in JobIds /\ <<"p", n>> \in JobIds
  BY DEF JobIds
<1>1. \A k \in JobIds :
        /\ job'[d][k].pc # "none" => job[d][k].pc # "none"
        /\ job'[d][k] = job[d][k] \/ job'[d][k].pc \in {"failed", "none"}
  BY DEF JobsGo
<1>2. \A n \in 1 .. MaxAttempts :
        /\ There(d, "e", n)' => There(d, "e", n)
        /\ There(d, "p", n)' => There(d, "p", n)
        /\ Publishes(d, n)' => Publishes(d, n)
  <2>. SUFFICES ASSUME NEW n \in 1 .. MaxAttempts
                PROVE  /\ There(d, "e", n)' => There(d, "e", n)
                       /\ There(d, "p", n)' => There(d, "p", n)
                       /\ Publishes(d, n)' => Publishes(d, n)
    OBVIOUS
  <2>1. Publishes(d, n)' => Publishes(d, n)
    BY <1>a, <1>1, StateOf DEF Publishes
  <2>. QED
    BY <1>a, <1>1, <2>1 DEF There
<1>3. OwnGone(d) => OwnGone(d)'
  BY <1>a, <1>1 DEF OwnGone, SameFields
<1>4. JobNumbers(d)'
  BY <1>2, <1>3 DEF JobNumbers, SameFields, Fits
<1>5. Recorded(d)'
  BY DEF Recorded, SameFields, Fits
<1>6. EncodesFit(d)'
  BY DEF EncodesFit, SameFields, Fits, FromMaster
<1>7. EncodeJobsFit(d)'
  BY <1>a, <1>1 DEF EncodeJobsFit, SameFields, Fits, FromMaster, Current
<1>8. LibraryFits(d)'
  BY DEF LibraryFits, SameFields, Fits, MoviesFit
<1>9. PublishJobsFit(d)'
  <2>. SUFFICES ASSUME NEW n \in 1 .. MaxAttempts
                PROVE  PublishFits(d, n, job[d][<<"p", n>>])'
    BY DEF PublishJobsFit
  <2>1. PublishFits(d, n, job[d][<<"p", n>>])
    BY DEF Fits, PublishJobsFit
  <2>2. CASE job'[d][<<"p", n>>] = job[d][<<"p", n>>]
    BY <2>1, <2>2 DEF PublishFits, SameFields, Out, MoviesFit, Current
  <2>3. CASE job'[d][<<"p", n>>].pc \in {"failed", "none"}
    BY <2>3 DEF PublishFits
  <2>. QED
    BY <1>a, <1>1, <2>2, <2>3
<1>. QED
  BY <1>4, <1>5, <1>6, <1>7, <1>8, <1>9 DEF Fits

(* A step about a disc for which no Job lives and none is ahead of the     *)
(* attempts: what its finished Jobs did no longer matters.                 *)
LEMMA QuietFits ==
    ASSUME NEW d \in Discs, Fits(d), job'[d] = job[d], lib'[d] = lib[d],
           \A n \in 1 .. MaxAttempts : ~Live(d, n) /\ ~Publishes(d, n),
           disc[d].attempts \in Nat, disc'[d].attempts \in Nat,
           \A n \in 1 .. MaxAttempts :
              There(d, "e", n) \/ There(d, "p", n) => n <= disc'[d].attempts,
           disc'[d].phase \in {"Detected", "BackingUp", "BackedUp", "Failed"},
           Recorded(d)', EncodesFit(d)'
    PROVE  Fits(d)'
<1>1. \A n \in 1 .. MaxAttempts :
        /\ There(d, "e", n)' => There(d, "e", n)
        /\ There(d, "p", n)' => There(d, "p", n)
        /\ ~Publishes(d, n)'
  BY DEF There, Publishes
<1>2. JobNumbers(d)'
  BY <1>1 DEF JobNumbers
<1>3. ASSUME NEW n \in 1 .. MaxAttempts
      PROVE  /\ job'[d][<<"e", n>>].pc \in {"none", "succeeded", "failed"}
             /\ job'[d][<<"p", n>>].pc \in {"none", "succeeded", "failed"}
             /\ ~(job'[d][<<"e", n>>].pc = "succeeded" /\ Current(d, n, "Encoding")')
             /\ ~(job'[d][<<"p", n>>].pc = "succeeded" /\ Current(d, n, "Publishing")')
  <2>1. /\ job'[d][<<"e", n>>].pc \in {"none", "succeeded", "failed"}
        /\ job'[d][<<"p", n>>].pc \in {"none", "succeeded", "failed"}
    BY StateOf DEF Live, Publishes
  <2>2. (There(d, "e", n) \/ There(d, "p", n)) => n # disc'[d].attempts + 1
    OBVIOUS
  <2>. QED
    BY <2>1, <2>2 DEF Current, There
<1>4. EncodeJobsFit(d)'
  BY <1>3 DEF EncodeJobsFit
<1>5. LibraryFits(d)'
  BY DEF LibraryFits
<1>6. PublishJobsFit(d)'
  BY <1>3 DEF PublishJobsFit, PublishFits
<1>. QED
  BY <1>2, <1>4, <1>5, <1>6 DEF Fits

(* What the phase says of the Jobs. *)
LEMMA PhaseJobs ==
    ASSUME Typed, NEW d \in Discs, Numbered(d), JobNumbers(d)
    PROVE  /\ disc[d].attempts \in Nat
           /\ disc[d].phase \in {"Detected", "BackingUp", "Failed", "Done"} =>
                \A n \in 1 .. MaxAttempts :
                    /\ ~Live(d, n) /\ ~Publishes(d, n)
                    /\ There(d, "e", n) \/ There(d, "p", n) => n <= disc[d].attempts
           /\ disc[d].phase \in {"BackedUp", "Held", "Encoding"} =>
                \A n \in 1 .. MaxAttempts :
                    ~Publishes(d, n) /\ (There(d, "p", n) => n <= disc[d].attempts)
           /\ disc[d].phase \in {"Encoded", "Publishing"} =>
                \A n \in 1 .. MaxAttempts :
                    ~Live(d, n) /\ (There(d, "e", n) => n <= disc[d].attempts)
<1>1. disc[d].attempts \in Nat
  BY BoundsAssumption DEF Typed, TypeOK, DiscObject, Attempts
<1>. QED
  BY <1>1 DEF Numbered, JobNumbers

(* Every step of a drive keeps what is known of the discs. *)
LEMMA DriveFits ==
    ASSUME Orderly, Typed, BackupInv, EncodeInv, OrderlyInv, PipelineInv, NEW v \in Drives, DriveNext(v)
    PROVE  \A d \in Discs : Fits(d)'
<1>0. PICK d : d = task[v].disc
  OBVIOUS
<1>a. DriveFrame(v)
  BY DriveFrames
<1>b. /\ disc \in [Discs -> DiscObject] /\ work \in [Discs -> WorkDir]
      /\ made \in [Discs -> Versions] /\ lib \in [Discs -> Library]
      /\ task \in [Drives -> TaskRecord] /\ MaxAttempts \in Nat /\ MaxBackups \in Nat
  BY BoundsAssumption DEF Typed, TypeOK
<1>c. task[v].pc \notin Away => d \in Discs /\ tray[v] = d
  BY <1>0 DEF Typed, TaskHasDisc, Away, OrderlyInv, Trays, TaskInTray
<1>d. UNCHANGED <<job, lib>>
  BY <1>a DEF DriveFrame
<1>e. ASSUME NEW e \in Discs, SameFields(e), work'[e] = work[e], made'[e] = made[e],
             e = d => task[v].pc # "clean"
      PROVE  Fits(e)'
  <2>1. Cleaning(e) => Cleaning(e)'
    BY <1>0, <1>a, <1>e DEF Cleaning, DriveFrame
  <2>2. JobsGo(e)
    BY <1>d DEF JobsGo
  <2>. QED
    BY <1>d, <1>e, <2>1, <2>2, FrameFits DEF PipelineInv
<1>f. ASSUME NEW e \in Discs, e # d
      PROVE  Fits(e)'
  <2>1. disc'[e] = disc[e] /\ work'[e] = work[e] /\ made'[e] = made[e]
    BY <1>0, <1>a, <1>f DEF DriveFrame
  <2>. QED
    BY <1>e, <1>f, <2>1 DEF SameFields
<1>g. ASSUME UNCHANGED <<disc, work, made>>, task[v].pc # "clean"
      PROVE  \A e \in Discs : Fits(e)'
  BY <1>e, <1>g DEF SameFields
<1>h. ASSUME d \in Discs, Fits(d)' PROVE \A e \in Discs : Fits(e)'
  BY <1>f, <1>h
<1>i. ASSUME d \in Discs
      PROVE  /\ Fits(d) /\ Numbered(d) /\ JobNumbers(d) /\ Recorded(d) /\ EncodesFit(d)
             /\ disc[d].backup \in Nat /\ made[d] \in Nat /\ work[d].master \in Nat /\ lib[d].iso \in Nat
             /\ disc[d].attempts \in Nat /\ task[v].ver \in Nat
  <2>1. Fits(d) /\ Numbered(d) /\ JobNumbers(d) /\ Recorded(d) /\ EncodesFit(d)
    BY <1>i DEF PipelineInv, EncodeInv, Fits
  <2>2. /\ disc[d].backup \in Nat /\ made[d] \in Nat /\ work[d].master \in Nat /\ lib[d].iso \in Nat
        /\ disc[d].attempts \in Nat /\ task[v].ver \in Nat
    BY <1>b, <1>i DEF DiscObject, WorkDir, Library, Versions, TaskRecord, Attempts
  <2>. QED
    BY <2>1, <2>2
<1>j. ASSUME d \in Discs, disc[d].phase \in {"BackingUp", "Failed"},
             disc'[d].attempts = disc[d].attempts,
             disc'[d].phase \in {"BackingUp", "BackedUp", "Failed"}, Recorded(d)', EncodesFit(d)'
      PROVE  \A e \in Discs : Fits(e)'
  <2>1. \A n \in 1 .. MaxAttempts :
          /\ ~Live(d, n) /\ ~Publishes(d, n)
          /\ There(d, "e", n) \/ There(d, "p", n) => n <= disc[d].attempts
    BY <1>i, <1>j, PhaseJobs
  <2>2. job'[d] = job[d] /\ lib'[d] = lib[d]
    BY <1>d
  <2>3. Fits(d)'
    BY <1>i, <1>j, <2>1, <2>2, QuietFits
  <2>. QED
    BY <1>h, <1>j, <2>3
<1>k. d \in Discs =>
        /\ task[v].pc = "claim" => task[v].n = disc[d].attempts
        /\ task[v].pc \in {"backup", "upload", "clean", "record", "fail"}
              => disc[d].phase \in {"BackingUp", "Failed"}
        /\ task[v].pc \in {"upload", "clean", "record"} => task[v].ver = made[d] /\ task[v].ver # 0
        /\ task[v].pc \in {"clean", "record"} => work[d].master = task[v].ver
        /\ task[v].pc = "record" => work[d].enc = 0
  BY <1>0 DEF PipelineInv, Knows, BackupInv, TasksSafe
<1>1. CASE \/ Detect(v) \/ GetStatus(v) \/ HandleError(v) \/ Eject(v) \/ EjectFails(v) \/ Remove(v)
           \/ \E e \in Discs : Insert(v, e)
  BY <1>1, <1>g DEF Detect, GetStatus, HandleError, Eject, EjectFails, Remove, Insert
<1>2. CASE Create(v)
  <2>0. d \in Discs /\ task[v].pc = "create" /\ UNCHANGED <<work, made>>
    BY <1>2, <1>c DEF Create, Away
  <2>1. SameFields(d)
    BY <1>0, <1>2, <1>b, <2>0 DEF Create, DiscObject, SameFields
  <2>. QED
    BY <1>e, <1>h, <2>0, <2>1
<1>3. CASE Claim(v)
  <2>0. d \in Discs /\ tray[v] = d /\ task[v].pc = "claim" /\ UNCHANGED <<work, made>>
    BY <1>3, <1>c DEF Claim, Away
  <2>1. /\ disc'[d].phase = "BackingUp" /\ disc'[d].attempts = disc[d].attempts + 1
        /\ disc'[d].backup = disc[d].backup /\ disc'[d].ekey = disc[d].ekey
    BY <1>0, <1>3, <1>b, <1>k, <2>0 DEF Claim, DiscObject
  <2>2. \A n \in 1 .. MaxAttempts : ~Live(d, n) /\ ~Publishes(d, n)
    <3>1. ~Busy(d)
      BY <2>0 DEF OrderlyInv, Undisturbed, AtRest, Reading
    <3>. QED
      BY <3>1 DEF Busy, Live, Publishes, JobIds
  <2>3. \A n \in 1 .. MaxAttempts :
          There(d, "e", n) \/ There(d, "p", n) => n <= disc'[d].attempts
    BY <1>i, <2>0, <2>1 DEF JobNumbers
  <2>4. Recorded(d)'
    BY <1>d, <1>i, <2>0, <2>1 DEF Recorded, Derived
  <2>5. Cleaning(d) => Cleaning(d)'
    BY <1>0, <1>a, <2>0 DEF Cleaning, DriveFrame
  <2>6. EncodesFit(d)'
    BY <1>d, <1>i, <2>0, <2>1, <2>5 DEF EncodesFit, FromMaster
  <2>7. job'[d] = job[d] /\ lib'[d] = lib[d]
    BY <1>d
  <2>8. disc'[d].attempts \in Nat
    BY <1>i, <2>0, <2>1
  <2>9. Fits(d)'
    BY <1>i, <2>0, <2>1, <2>2, <2>3, <2>4, <2>6, <2>7, <2>8, QuietFits
  <2>. QED
    BY <1>h, <2>0, <2>9
<1>4. CASE BackUp(v)
  <2>0. d \in Discs /\ task[v].pc = "backup" /\ UNCHANGED <<disc, work>>
    BY <1>4, <1>c DEF BackUp, Away
  <2>1. made'[d] = made[d] + 1
    BY <1>0, <1>4, <1>b, <2>0 DEF BackUp
  <2>2. Recorded(d)'
    BY <1>d, <1>i, <2>0, <2>1 DEF Recorded
  <2>3. Cleaning(d) => Cleaning(d)'
    BY <1>0, <1>a, <2>0 DEF Cleaning, DriveFrame
  <2>4. EncodesFit(d)'
    BY <1>d, <1>i, <2>0, <2>3 DEF EncodesFit, FromMaster
  <2>. QED
    BY <1>j, <1>k, <2>0, <2>2, <2>4
<1>5. CASE Upload(v)
  <2>0. d \in Discs /\ task[v].pc = "upload" /\ UNCHANGED <<disc, made>>
    BY <1>5, <1>c DEF Upload, Away
  <2>1. /\ work'[d].master = task[v].ver /\ work'[d].enc = work[d].enc
        /\ work'[d].ekey = work[d].ekey
    BY <1>0, <1>5, <1>b, <2>0 DEF Upload, WorkDir
  <2>2. task'[v].pc = "clean" /\ task'[v].disc = d
    BY <1>0, <1>5, GotoFields DEF Upload
  <2>3. Recorded(d)'
    BY <1>d, <1>i, <1>k, <2>0, <2>1 DEF Recorded
  <2>4. Cleaning(d)'
    BY <2>2 DEF Cleaning
  <2>5. EncodesFit(d)'
    BY <1>i, <2>0, <2>1, <2>4 DEF EncodesFit
  <2>. QED
    BY <1>j, <1>k, <2>0, <2>3, <2>5
<1>6. CASE Clean(v) \/ (BackUpFails(v) /\ task[v].pc = "clean")
  <2>0. d \in Discs /\ task[v].pc = "clean" /\ UNCHANGED <<disc, made>>
    BY <1>6, <1>c DEF Clean, BackUpFails, Away
  <2>1. work'[d].master = work[d].master /\ work'[d].enc = 0
    <3>1. PICK raw : work' = [work EXCEPT ![d] = [work[d] EXCEPT !.enc = 0, !.raw = raw]]
      BY <1>0, <1>6 DEF Clean, BackUpFails
    <3>. QED
      BY <1>b, <2>0, <3>1 DEF WorkDir
  <2>2. Recorded(d)'
    BY <1>d, <1>i, <2>0, <2>1 DEF Recorded
  <2>3. EncodesFit(d)'
    BY <2>1 DEF EncodesFit
  <2>. QED
    BY <1>j, <1>k, <2>0, <2>2, <2>3
<1>7. CASE BackUpFails(v) /\ task[v].pc # "clean"
  BY <1>7, <1>g DEF BackUpFails
<1>8. CASE Record(v)
  <2>0. d \in Discs /\ task[v].pc = "record" /\ UNCHANGED <<work, made>>
    BY <1>8, <1>c DEF Record, Away
  <2>1. /\ disc'[d].phase = "BackedUp" /\ disc'[d].attempts = disc[d].attempts
        /\ disc'[d].backup = task[v].ver
    BY <1>0, <1>8, <1>b, <2>0 DEF Record, DiscObject
  <2>2. Recorded(d)'
    BY <1>d, <1>i, <1>k, <2>0, <2>1 DEF Recorded
  <2>3. EncodesFit(d)'
    BY <1>k, <2>0 DEF EncodesFit
  <2>. QED
    BY <1>j, <1>k, <2>0, <2>1, <2>2, <2>3
<1>9. CASE RecordFailure(v)
  <2>0. d \in Discs /\ task[v].pc = "fail" /\ UNCHANGED <<work, made>>
    BY <1>9, <1>c DEF RecordFailure, Away
  <2>1. CASE UNCHANGED disc
    BY <1>g, <2>0, <2>1
  <2>2. CASE disc' = [disc EXCEPT ![d] = [disc[d] EXCEPT !.phase = "Failed", !.since = "fresh"]]
    <3>1. /\ disc'[d].phase = "Failed" /\ disc'[d].attempts = disc[d].attempts
          /\ disc'[d].backup = disc[d].backup /\ disc'[d].ekey = disc[d].ekey
      BY <1>b, <2>0, <2>2 DEF DiscObject
    <3>2. Recorded(d)'
      BY <1>d, <1>i, <2>0, <3>1 DEF Recorded, Derived
    <3>3. Cleaning(d) => Cleaning(d)'
      BY <1>0, <1>a, <2>0 DEF Cleaning, DriveFrame
    <3>4. EncodesFit(d)'
      BY <1>d, <1>i, <2>0, <3>1, <3>3 DEF EncodesFit, FromMaster
    <3>. QED
      BY <1>j, <1>k, <2>0, <3>1, <3>2, <3>4
  <2>. QED
    BY <1>0, <1>9, <2>1, <2>2 DEF RecordFailure
<1>10. ~Crash(v) /\ ~Unplug(v) /\ ~Restart(v) /\ ~Plug(v)
  BY DEF Orderly, Crash, Unplug, Fault, Restart, Plug, OrderlyInv, AgentsUp
<1>. QED
  BY <1>1, <1>2, <1>3, <1>4, <1>5, <1>6, <1>7, <1>8, <1>9, <1>10 DEF DriveNext, AgentStep

(* Every step of a drive keeps what the drives know. *)
LEMMA DriveKnows ==
    ASSUME Orderly, Typed, OrderlyInv, PipelineInv, NEW v \in Drives, DriveNext(v)
    PROVE  \A w \in Drives : Knows(w)'
<1>0. PICK d : d = task[v].disc
  OBVIOUS
<1>a. DriveFrame(v)
  BY DriveFrames
<1>b. /\ disc \in [Discs -> DiscObject] /\ work \in [Discs -> WorkDir]
      /\ made \in [Discs -> Versions] /\ task \in [Drives -> TaskRecord]
  BY DEF Typed, TypeOK
<1>c. task[v].pc \notin Away => d \in Discs
  BY <1>0 DEF Typed, TaskHasDisc, Away
<1>d. ASSUME NEW w \in Drives, w # v PROVE Knows(w)'
  <2>1. task'[w] = task[w]
    BY <1>a, <1>d DEF DriveFrame
  <2>2. CASE task[w].pc \in Away
    BY <2>1, <2>2 DEF Knows, Away
  <2>3. CASE task[w].pc \notin Away
    <3>1. PICK e : e = task[w].disc
      OBVIOUS
    <3>2. e \in Discs /\ disc'[e] = disc[e] /\ work'[e] = work[e] /\ made'[e] = made[e]
      BY <1>a, <1>d, <2>3, <3>1, OthersDiscs DEF OrderlyInv
    <3>3. Knows(w)
      BY DEF PipelineInv
    <3>. QED
      BY <2>1, <3>1, <3>2, <3>3 DEF Knows
  <2>. QED
    BY <2>2, <2>3
<1>e. d \in Discs =>
        /\ task[v].pc = "claim" => task[v].n = disc[d].attempts
        /\ task[v].pc \in {"backup", "upload", "clean", "record", "fail"}
              => disc[d].phase \in {"BackingUp", "Failed"}
        /\ task[v].pc \in {"upload", "clean", "record"} => task[v].ver = made[d]
        /\ task[v].pc \in {"clean", "record"} => work[d].master = task[v].ver
        /\ task[v].pc = "record" => work[d].enc = 0
  BY <1>0 DEF PipelineInv, Knows
<1>1. CASE GetStatus(v)
  <2>1. d \in Discs
    BY <1>1, <1>c DEF GetStatus, Away
  <2>2. task'[v].pc = "claim" /\ task'[v].disc = d /\ task'[v].n = disc[d].attempts /\ UNCHANGED disc
    BY <1>0, <1>1, <1>b DEF GetStatus, TaskRecord
  <2>3. Knows(v)'
    BY <2>2 DEF Knows
  <2>. QED
    BY <1>d, <2>3
<1>2. CASE Claim(v)
  <2>1. d \in Discs
    BY <1>2, <1>c DEF Claim, Away
  <2>2. task'[v].pc = "backup" /\ task'[v].disc = d
    BY <1>0, <1>2, GotoFields DEF Claim
  <2>3. disc'[d].phase = "BackingUp"
    BY <1>0, <1>2, <1>b, <2>1 DEF Claim, DiscObject
  <2>4. Knows(v)'
    BY <2>2, <2>3 DEF Knows
  <2>. QED
    BY <1>d, <2>4
<1>3. CASE BackUp(v)
  <2>1. d \in Discs /\ task[v].pc = "backup" /\ UNCHANGED disc
    BY <1>3, <1>c DEF BackUp, Away
  <2>2. made'[d] = made[d] + 1
    BY <1>0, <1>3, <1>b, <2>1 DEF BackUp
  <2>3. task'[v].pc = "upload" /\ task'[v].disc = d /\ task'[v].ver = made[d] + 1
    BY <1>0, <1>3, <1>b DEF BackUp, TaskRecord
  <2>4. Knows(v)'
    BY <1>e, <2>1, <2>2, <2>3 DEF Knows
  <2>. QED
    BY <1>d, <2>4
<1>4. CASE Upload(v)
  <2>1. d \in Discs /\ task[v].pc = "upload" /\ UNCHANGED <<disc, made>>
    BY <1>4, <1>c DEF Upload, Away
  <2>2. work'[d].master = task[v].ver
    BY <1>0, <1>4, <1>b, <2>1 DEF Upload, WorkDir
  <2>3. task'[v].pc = "clean" /\ task'[v].disc = d /\ task'[v].ver = task[v].ver
    BY <1>0, <1>4, GotoFields DEF Upload
  <2>4. Knows(v)'
    BY <1>e, <2>1, <2>2, <2>3 DEF Knows
  <2>. QED
    BY <1>d, <2>4
<1>5. CASE Clean(v)
  <2>1. d \in Discs /\ task[v].pc = "clean" /\ UNCHANGED <<disc, made>>
    BY <1>5, <1>c DEF Clean, Away
  <2>2. work'[d].master = work[d].master /\ work'[d].enc = 0
    BY <1>0, <1>5, <1>b, <2>1 DEF Clean, WorkDir
  <2>3. task'[v].pc = "record" /\ task'[v].disc = d /\ task'[v].ver = task[v].ver
    BY <1>0, <1>5, GotoFields DEF Clean
  <2>4. Knows(v)'
    BY <1>e, <2>1, <2>2, <2>3 DEF Knows
  <2>. QED
    BY <1>d, <2>4
<1>6. CASE BackUpFails(v)
  <2>1. task[v].pc \in {"backup", "upload", "clean"} /\ UNCHANGED disc
    BY <1>6 DEF BackUpFails
  <2>2. d \in Discs
    BY <1>c, <2>1 DEF Away
  <2>3. task'[v].pc = "fail" /\ task'[v].disc = d
    BY <1>0, <1>6, GotoFields DEF BackUpFails
  <2>4. Knows(v)'
    BY <1>e, <2>1, <2>2, <2>3 DEF Knows
  <2>. QED
    BY <1>d, <2>4
<1>7. CASE task'[v].pc \in {"create", "get", "eject", "handled", "idle"}
  BY <1>7, <1>d DEF Knows
<1>8. CASE Detect(v)
  <2>1. PICK pc \in {"create", "get", "eject"} :
          task' = [task EXCEPT ![v] = [IdleTask EXCEPT !.disc = tray[v], !.pc = pc]]
    BY <1>8 DEF Detect
  <2>. QED
    BY <1>7, <1>b, <2>1, IdleFields
<1>9. CASE \/ Create(v) \/ Record(v) \/ RecordFailure(v) \/ HandleError(v) \/ EjectFails(v)
           \/ Eject(v) \/ Remove(v)
  BY <1>7, <1>9, GotoFields, EndTaskFields, ToIdleFields
     DEF Create, Record, RecordFailure, HandleError, EjectFails, Eject, Remove
<1>10. CASE \E e \in Discs : Insert(v, e)
  BY <1>7, <1>10 DEF Insert
<1>11. ~Crash(v) /\ ~Unplug(v) /\ ~Restart(v) /\ ~Plug(v)
  BY DEF Orderly, Crash, Unplug, Fault, Restart, Plug, OrderlyInv, AgentsUp
<1>. QED
  BY <1>1, <1>2, <1>3, <1>4, <1>5, <1>6, <1>8, <1>9, <1>10, <1>11 DEF DriveNext, AgentStep

(* Nothing that happens to a disc surprises the drive that reads it. *)
LEMMA DiscKnows ==
    ASSUME Orderly, Typed, OrderlyInv, PipelineInv, NEW d \in Discs, DiscNext(d)
    PROVE  \A w \in Drives : Knows(w)'
<1>. SUFFICES ASSUME NEW w \in Drives PROVE Knows(w)'
  OBVIOUS
<1>1. DiscFrame(d) /\ Knows(w)
  BY DiscFrames DEF PipelineInv
<1>2. task' = task /\ made' = made
  BY <1>1 DEF DiscFrame
<1>3. CASE task[w].pc \notin Reading
  BY <1>2, <1>3 DEF Knows, Reading
<1>4. CASE task[w].pc \in Reading
  <2>1. PICK e : e = task[w].disc
    OBVIOUS
  <2>2. e \in Discs /\ tray[w] = e
    BY <1>4, <2>1 DEF Typed, TaskHasDisc, Reading, Away, OrderlyInv, Trays, TaskInTray
  <2>3. CASE e # d
    <3>1. disc'[e] = disc[e] /\ work'[e] = work[e]
      BY <1>1, <2>2, <2>3 DEF DiscFrame
    <3>. QED
      BY <1>1, <1>2, <2>1, <2>2, <3>1 DEF Knows
  <2>4. CASE e = d
    <3>1. AtRest(d) /\ ~InNoDrive(d)
      BY <1>4, <2>2, <2>4 DEF OrderlyInv, Undisturbed, InNoDrive
    <3>2. /\ work' = work /\ disc'[d].attempts = disc[d].attempts
          /\ disc'[d].phase \in {disc[d].phase, "Failed"}
      BY <3>1, RestStays
    <3>. QED
      BY <1>1, <1>2, <2>1, <2>4, <3>2 DEF Knows
  <2>. QED
    BY <2>3, <2>4
<1>. QED
  BY <1>3, <1>4

(* A phase change without a Job: the phase never says more than holds.     *)
LEMMA MovePhaseFits ==
    ASSUME ~LaggingCache, Typed, NEW d \in Discs, Numbered(d), Fits(d), MovePhase(d)
    PROVE  Fits(d)'
<1>. DEFINE o == disc[d]
            A == disc[d].attempts
            j == JobOf(d, o)
            to == Decide(o, JobState(j)).to
<1>a. disc \in [Discs -> DiscObject] /\ o \in DiscObject /\ Cached(d) = o
  BY DEF Typed, TypeOK, Cached
<1>b. /\ Decide(o, JobState(j)).do = "SetPhase" /\ Decision(d).to = to
      /\ UNCHANGED <<job, task, work, lib, made>>
  BY <1>a DEF MovePhase, Decision
<1>c. /\ disc'[d].phase = to /\ disc'[d].attempts = A /\ disc'[d].backup = o.backup
      /\ disc'[d].ekey = o.ekey /\ disc'[d].lkey = o.lkey
      /\ disc'[d].encKey = IF to = "Encoded" THEN o.ekey ELSE o.encKey
      /\ disc'[d].pubKey = IF to = "Done" THEN o.lkey ELSE o.pubKey
  <2>. DEFINE p == Decision(d).to
  <2>1. disc' = [disc EXCEPT ![d] =
                    [disc[d] EXCEPT !.phase = p, !.since = "fresh",
                              !.encKey = IF p = "Encoded" THEN o.ekey ELSE disc[d].encKey,
                              !.pubKey = IF p = "Done" THEN o.lkey ELSE disc[d].pubKey]]
    BY <1>a DEF MovePhase
  <2>2. p = to
    BY <1>b
  <2>. HIDE DEF p, to
  <2>. QED
    BY <1>a, <2>1, <2>2 DEF DiscObject
<1>d. \/ o.phase = "BackedUp" /\ o.hold /\ to = "Held"
      \/ o.phase = "Held" /\ ~o.hold /\ to = "BackedUp"
      \/ o.phase = "Encoding" /\ j.pc = "succeeded" /\ to = "Encoded"
      \/ o.phase = "Encoding" /\ j.pc = "none" /\ to = "BackedUp"
      \/ o.phase = "Publishing" /\ j.pc = "succeeded" /\ to = "Done"
      \/ o.phase = "Publishing" /\ j.pc = "none" /\ to = "Encoded"
      \/ o.phase = "Done" /\ o.encKey # o.ekey /\ to = "BackedUp"
      \/ o.phase = "Done" /\ o.encKey = o.ekey /\ o.pubKey # o.lkey /\ to = "Encoded"
  BY <1>a, <1>b, Moves
<1>e. /\ JobNumbers(d) /\ Recorded(d) /\ EncodesFit(d) /\ EncodeJobsFit(d) /\ LibraryFits(d)
      /\ PublishJobsFit(d) /\ A \in 0 .. MaxAttempts /\ MaxAttempts \in Nat
  BY <1>a, BoundsAssumption DEF Fits, DiscObject, Attempts
<1>f. /\ o.phase = "Encoding" /\ j.pc # "none" => A \in 1 .. MaxAttempts /\ j = job[d][<<"e", A>>]
      /\ o.phase = "Publishing" /\ j.pc # "none" => A \in 1 .. MaxAttempts /\ j = job[d][<<"p", A>>]
      /\ o.phase = "Publishing" /\ j.pc = "none" /\ A \in 1 .. MaxAttempts => j = job[d][<<"p", A>>]
  BY <1>e, StateOf DEF JobOf
<1>. HIDE DEF j, to
<1>1. \A n \in 1 .. MaxAttempts :
        /\ There(d, "e", n)' <=> There(d, "e", n)
        /\ There(d, "p", n)' <=> There(d, "p", n)
        /\ Publishes(d, n)' <=> Publishes(d, n)
        /\ Current(d, n, "Encoding")' => Current(d, n, "Encoding")
        /\ Current(d, n, "Publishing")' => Current(d, n, "Publishing")
  BY <1>b, <1>c, <1>d DEF There, Publishes, Current
<1>2. Recorded(d)'
  BY <1>b, <1>c, <1>d, <1>e DEF Recorded, Derived
<1>3. Cleaning(d)' <=> Cleaning(d)
  BY <1>b DEF Cleaning
<1>4. EncodesFit(d)'
  BY <1>b, <1>c, <1>e, <1>3 DEF EncodesFit, FromMaster
<1>5. EncodeJobsFit(d)'
  BY <1>b, <1>c, <1>e, <1>1 DEF EncodeJobsFit, FromMaster
<1>6. PublishJobsFit(d)'
  BY <1>b, <1>c, <1>e, <1>1 DEF PublishJobsFit, PublishFits, Out, MoviesFit
<1>7. LibraryFits(d)'
  <2>1. CASE to \in {"Held", "BackedUp"}
    BY <1>c, <2>1 DEF LibraryFits
  <2>2. CASE o.phase = "Encoding" /\ j.pc = "succeeded" /\ to = "Encoded"
    <3>1. work[d].enc # 0
      BY <1>e, <1>f, <2>2 DEF EncodeJobsFit, Current
    <3>. QED
      BY <1>b, <1>c, <2>2, <3>1 DEF LibraryFits
  <2>3. CASE o.phase = "Publishing" /\ j.pc = "succeeded" /\ to = "Done"
    <3>1. Out(d) /\ work[d].enc = 0
      BY <1>e, <1>f, <2>3 DEF PublishJobsFit, PublishFits, Current
    <3>2. o.encKey = o.ekey
      BY <1>e, <2>3 DEF LibraryFits
    <3>. QED
      BY <1>b, <1>c, <2>3, <3>1, <3>2 DEF LibraryFits, Out, MoviesFit
  <2>4. CASE o.phase = "Publishing" /\ j.pc = "none" /\ to = "Encoded"
    BY <1>b, <1>c, <1>e, <2>4 DEF LibraryFits, MoviesFit
  <2>5. CASE o.phase = "Done" /\ o.encKey = o.ekey /\ to = "Encoded"
    BY <1>b, <1>c, <1>e, <2>5 DEF LibraryFits, MoviesFit
  <2>. QED
    BY <1>d, <2>1, <2>2, <2>3, <2>4, <2>5
<1>8. JobNumbers(d)'
  <2>1. CASE to \in {"Held", "BackedUp"}
    <3>1. o.phase \in {"BackedUp", "Held", "Encoding", "Done"}
      BY <1>d, <2>1
    <3>. QED
      BY <1>c, <1>e, <1>1, <2>1, <3>1 DEF JobNumbers
  <2>2. CASE o.phase = "Encoding" /\ j.pc = "succeeded" /\ to = "Encoded"
    <3>1. ~OwnGone(d)
      BY <1>f, <2>2 DEF OwnGone
    <3>. QED
      BY <1>c, <1>e, <1>1, <2>2, <3>1 DEF JobNumbers
  <2>3. CASE o.phase = "Publishing"
    <3>1. \A n \in 1 .. MaxAttempts : ~Publishes(d, n)
      BY <1>d, <1>e, <1>f, <2>3, StateOf DEF JobNumbers, Publishes
    <3>. QED
      BY <1>c, <1>e, <1>1, <2>3, <3>1 DEF JobNumbers
  <2>4. CASE o.phase = "Done"
    BY <1>c, <1>e, <1>1, <2>4 DEF JobNumbers
  <2>. QED
    BY <1>d, <2>1, <2>2, <2>3, <2>4
<1>. QED
  BY <1>2, <1>4, <1>5, <1>6, <1>7, <1>8 DEF Fits

(* Every other step of the controller keeps what is known of the disc.     *)
LEMMA ControllerFits ==
    ASSUME ~LaggingCache, "delete" \notin FaultKinds, Typed, EncodeInv, NEW d \in Discs, Fits(d),
           ReconcileStep(d) \/ GpuStarved(d) \/ ReconcileError(d)
    PROVE  Fits(d)'
<1>. DEFINE o == disc[d]
            A == disc[d].attempts
<1>a. /\ disc \in [Discs -> DiscObject] /\ ctl \in [Discs -> Reconcile]
      /\ o \in DiscObject /\ Cached(d) = o /\ A \in 0 .. MaxAttempts /\ MaxAttempts \in Nat
      /\ job \in [Discs -> [JobIds -> JobRecord]]
  BY BoundsAssumption DEF Typed, TypeOK, DiscObject, Attempts, Cached
<1>b. Numbered(d) /\ StartingNext(d)
  BY DEF EncodeInv
<1>c. \A n \in 1 .. MaxAttempts : <<"e", n>> \in JobIds /\ <<"p", n>> \in JobIds
  BY DEF JobIds
<1>d. /\ JobNumbers(d) /\ Recorded(d) /\ EncodesFit(d) /\ EncodeJobsFit(d) /\ LibraryFits(d)
      /\ PublishJobsFit(d)
  BY DEF Fits
<1>e. UNCHANGED <<task, work, lib, made>>
  BY DEF ReconcileStep, GpuStarved, ReconcileError, Retry, MovePhase, FailDisc, StartEncode,
     StartPublish, CreateJob, PatchStarted
<1>f. Cleaning(d)' <=> Cleaning(d)
  BY <1>e DEF Cleaning
<1>g. ASSUME SameFields(d), JobsGo(d) PROVE Fits(d)'
  BY <1>e, <1>f, <1>g, FrameFits
<1>h. ASSUME job' = job, disc'[d].attempts = A, disc'[d].backup = o.backup, disc'[d].ekey = o.ekey,
             disc'[d].phase \in {"Detected", "BackedUp", "Failed"},
             disc'[d].phase = "BackedUp" => o.backup # 0,
             \A n \in 1 .. MaxAttempts :
                /\ ~Live(d, n) /\ ~Publishes(d, n)
                /\ There(d, "e", n) \/ There(d, "p", n) => n <= A
      PROVE  Fits(d)'
  <2>1. Recorded(d)'
    BY <1>d, <1>e, <1>h DEF Recorded, Derived
  <2>2. EncodesFit(d)'
    BY <1>d, <1>e, <1>f, <1>h DEF EncodesFit, FromMaster
  <2>. QED
    BY <1>a, <1>e, <1>h, <2>1, <2>2, QuietFits
<1>1. CASE Retry(d)
  <2>1. /\ disc'[d].phase = RetryPhase(o) /\ disc'[d].attempts = A /\ UNCHANGED job
        /\ disc'[d].backup = o.backup /\ disc'[d].ekey = o.ekey /\ disc'[d].lkey = o.lkey
        /\ disc'[d].encKey = o.encKey /\ disc'[d].pubKey = o.pubKey
    BY <1>1, <1>a DEF Retry, DiscObject
  <2>2. CASE o.phase = "Failed"
    <3>1. /\ disc'[d].phase \in {"BackedUp", "Detected"}
          /\ disc'[d].phase = "BackedUp" => o.backup # 0
      BY <2>1, <2>2 DEF RetryPhase
    <3>2. \A n \in 1 .. MaxAttempts :
            /\ ~Live(d, n) /\ ~Publishes(d, n)
            /\ There(d, "e", n) \/ There(d, "p", n) => n <= A
      BY <1>b, <1>d, <2>2, PhaseJobs
    <3>. QED
      BY <1>h, <2>1, <3>1, <3>2
  <2>3. CASE o.phase # "Failed"
    <3>1. SameFields(d)
      BY <2>1, <2>3 DEF RetryPhase, SameFields
    <3>. QED
      BY <1>g, <2>1, <3>1 DEF JobsGo
  <2>. QED
    BY <2>2, <2>3
<1>2. CASE MovePhase(d)
  BY <1>2, <1>b, MovePhaseFits
<1>3. CASE FailDisc(d)
  <2>. DEFINE j == JobOf(d, o)
  <2>1. Decide(o, JobState(j)).do = "Fail" /\ UNCHANGED job
    BY <1>3, <1>a DEF FailDisc, Decision
  <2>2. /\ disc'[d].phase = "Failed" /\ disc'[d].attempts = A
        /\ disc'[d].backup = o.backup /\ disc'[d].ekey = o.ekey
    BY <1>3, <1>a DEF FailDisc, DiscObject
  <2>3. \/ o.phase \in {"Detected", "BackingUp"}
        \/ o.phase = "Encoding" /\ j.pc = "failed"
        \/ o.phase = "Publishing" /\ j.pc = "failed"
    BY <1>a, <2>1, Fails
  <2>4. \A n \in 1 .. MaxAttempts :
          /\ ~Live(d, n) /\ ~Publishes(d, n)
          /\ There(d, "e", n) \/ There(d, "p", n) => n <= A
    <3>1. CASE o.phase \in {"Detected", "BackingUp"}
      BY <1>b, <1>d, <3>1, PhaseJobs
    <3>2. CASE o.phase = "Encoding" /\ j.pc = "failed"
      <4>1. A \in 1 .. MaxAttempts /\ j = job[d][<<"e", A>>]
        BY <1>a, <3>2, StateOf DEF JobOf
      <4>2. ~OwnGone(d)
        BY <3>2, <4>1 DEF OwnGone
      <4>3. \A n \in 1 .. MaxAttempts : ~Live(d, n)
        BY <1>b, <3>2, OwnOver
      <4>4. \A n \in 1 .. MaxAttempts : There(d, "e", n) => n <= A
        BY <1>d, <3>2, <4>2 DEF JobNumbers
      <4>5. \A n \in 1 .. MaxAttempts : ~Publishes(d, n) /\ (There(d, "p", n) => n <= A)
        BY <1>b, <1>d, <3>2, PhaseJobs
      <4>. QED
        BY <4>3, <4>4, <4>5
    <3>3. CASE o.phase = "Publishing" /\ j.pc = "failed"
      <4>1. A \in 1 .. MaxAttempts /\ job[d][<<"p", A>>].pc = "failed"
        BY <1>a, <3>3, StateOf DEF JobOf
      <4>2. \A n \in 1 .. MaxAttempts : ~Live(d, n) /\ (There(d, "e", n) => n <= A)
        BY <1>b, <1>d, <3>3, PhaseJobs
      <4>3. \A n \in 1 .. MaxAttempts : There(d, "p", n) => n <= A
        BY <1>d, <3>3 DEF JobNumbers
      <4>4. \A n \in 1 .. MaxAttempts : ~Publishes(d, n)
        BY <1>d, <3>3, <4>1, StateOf DEF JobNumbers, Publishes
      <4>. QED
        BY <4>2, <4>3, <4>4
    <3>. QED
      BY <2>3, <3>1, <3>2, <3>3
  <2>. QED
    BY <1>h, <2>1, <2>2, <2>4
<1>4. CASE StartEncode(d) \/ StartPublish(d) \/ ReconcileError(d)
  <2>1. UNCHANGED <<disc, job>>
    BY <1>4 DEF StartEncode, StartPublish, ReconcileError
  <2>. QED
    BY <1>g, <2>1 DEF SameFields, JobsGo
<1>5. CASE GpuStarved(d)
  <2>1. SetJob(d, <<"e", A>>, NoJob) /\ UNCHANGED disc
    BY <1>5, <1>a DEF GpuStarved, Fault
  <2>2. JobsGo(d)
    BY <2>1, JobSet, StateOf DEF JobsGo
  <2>. QED
    BY <1>g, <2>1, <2>2 DEF SameFields
<1>6. CASE CreateJob(d)
  <2>1. ctl[d].pc = "create" /\ UNCHANGED disc
    BY <1>6 DEF CreateJob
  <2>2. /\ ctl[d].n = A + 1
        /\ \/ ctl[d].stage = "e" /\ ~ctl[d].cpu /\ o.phase = "BackedUp"
           \/ ctl[d].stage = "e" /\ ctl[d].cpu /\ o.phase = "Encoding" /\ OwnGone(d)
           \/ ctl[d].stage = "p" /\ ~ctl[d].cpu /\ o.phase = "Encoded"
    BY <1>b, <2>1 DEF StartingNext
  <2>3. CASE UNCHANGED job
    BY <1>g, <2>1, <2>3 DEF SameFields, JobsGo
  <2>4. CASE \E j : SetJob(d, <<ctl[d].stage, ctl[d].n>>, j) /\ j.pc = "pending"
    <3>1. PICK j : SetJob(d, <<ctl[d].stage, ctl[d].n>>, j) /\ j.pc = "pending"
      BY <2>4
    <3>2. ASSUME NEW st \in {"e", "p"}, NEW n \in 1 .. MaxAttempts
          PROVE  \/ job'[d][<<st, n>>] = job[d][<<st, n>>]
                 \/ st = ctl[d].stage /\ n = A + 1 /\ job'[d][<<st, n>>].pc = "pending"
      <4>1. <<st, n>> \in JobIds
        BY DEF JobIds
      <4>2. CASE <<st, n>> = <<ctl[d].stage, ctl[d].n>>
        <5>1. st = ctl[d].stage /\ n = A + 1
          BY <2>2, <4>2
        <5>2. job'[d][<<st, n>>] = j
          BY <3>1, <4>1, <4>2, JobSet
        <5>. QED
          BY <3>1, <5>1, <5>2
      <4>3. CASE <<st, n>> # <<ctl[d].stage, ctl[d].n>>
        BY <3>1, <4>1, <4>3, JobSet
      <4>. QED
        BY <4>2, <4>3
    <3>3. \A n \in 1 .. MaxAttempts :
            /\ There(d, "e", n)' => There(d, "e", n) \/ (n = A + 1 /\ ctl[d].stage = "e")
            /\ There(d, "p", n)' => There(d, "p", n) \/ (n = A + 1 /\ ctl[d].stage = "p")
            /\ Publishes(d, n)' => Publishes(d, n) \/ (n = A + 1 /\ ctl[d].stage = "p")
      BY <3>2 DEF There, Publishes
    <3>4. OwnGone(d) => OwnGone(d)'
      BY <1>a, <2>1, <3>2 DEF OwnGone
    <3>5. JobNumbers(d)'
      BY <1>d, <2>1, <2>2, <3>3, <3>4 DEF JobNumbers
    <3>6. Recorded(d)' /\ EncodesFit(d)' /\ LibraryFits(d)'
      BY <1>d, <1>e, <1>f, <2>1 DEF Recorded, EncodesFit, LibraryFits, FromMaster, MoviesFit
    <3>7. EncodeJobsFit(d)'
      BY <1>d, <1>e, <2>1, <3>2 DEF EncodeJobsFit, FromMaster, Current
    <3>8. PublishJobsFit(d)'
      <4>. SUFFICES ASSUME NEW n \in 1 .. MaxAttempts
                    PROVE  PublishFits(d, n, job[d][<<"p", n>>])'
        BY DEF PublishJobsFit
      <4>1. CASE job'[d][<<"p", n>>] = job[d][<<"p", n>>]
        BY <1>d, <1>e, <2>1, <4>1 DEF PublishJobsFit, PublishFits, Out, MoviesFit, Current
      <4>2. CASE job'[d][<<"p", n>>].pc = "pending"
        BY <4>2 DEF PublishFits
      <4>. QED
        BY <3>2, <4>1, <4>2
    <3>. QED
      BY <3>5, <3>6, <3>7, <3>8 DEF Fits
  <2>5. [NoJob EXCEPT !.pc = "pending", !.cpu = ctl[d].cpu].pc = "pending"
    BY DEF NoJob
  <2>. QED
    BY <1>6, <2>3, <2>4, <2>5 DEF CreateJob
<1>7. CASE PatchStarted(d)
  <2>1. ctl[d].pc = "patch" /\ UNCHANGED job
    BY <1>7 DEF PatchStarted
  <2>2. /\ ctl[d].n = A + 1
        /\ \/ ctl[d].stage = "e" /\ ~ctl[d].cpu /\ o.phase = "BackedUp"
           \/ ctl[d].stage = "e" /\ ctl[d].cpu /\ o.phase = "Encoding" /\ OwnGone(d)
           \/ ctl[d].stage = "p" /\ ~ctl[d].cpu /\ o.phase = "Encoded"
    BY <1>b, <2>1 DEF StartingNext
  <2>3. /\ disc'[d].attempts = A + 1
        /\ disc'[d].phase = IF ctl[d].cpu THEN o.phase
                            ELSE IF ctl[d].stage = "e" THEN "Encoding" ELSE "Publishing"
        /\ disc'[d].backup = o.backup /\ disc'[d].ekey = o.ekey /\ disc'[d].lkey = o.lkey
        /\ disc'[d].encKey = o.encKey
    BY <1>7, <1>a, <2>2 DEF PatchStarted, DiscObject
  <2>4. \/ o.phase \in {"BackedUp", "Encoding"} /\ disc'[d].phase = "Encoding"
        \/ o.phase = "Encoded" /\ disc'[d].phase = "Publishing"
    BY <2>2, <2>3
  <2>5. \A n \in 1 .. MaxAttempts :
          /\ There(d, "e", n)' <=> There(d, "e", n)
          /\ There(d, "p", n)' <=> There(d, "p", n)
          /\ Publishes(d, n)' <=> Publishes(d, n)
    BY <2>1 DEF There, Publishes
  <2>6. \A n \in 1 .. MaxAttempts :
          (There(d, "e", n) => n <= A + 1) /\ (There(d, "p", n) => n <= A + 1)
    BY <1>a, <1>d DEF JobNumbers
  <2>7. JobNumbers(d)'
    BY <1>a, <1>d, <2>3, <2>4, <2>5, <2>6 DEF JobNumbers
  <2>8. Recorded(d)' /\ EncodesFit(d)' /\ LibraryFits(d)'
    BY <1>d, <1>e, <1>f, <2>3, <2>4 DEF Recorded, EncodesFit, LibraryFits, FromMaster, MoviesFit, Derived
  <2>9. \A n \in 1 .. MaxAttempts :
          /\ There(d, "e", n) /\ Current(d, n, "Encoding")' => Current(d, n, "Encoding")
          /\ There(d, "p", n) /\ Current(d, n, "Publishing")' => Current(d, n, "Publishing")
    BY <1>a, <2>3, <2>6 DEF Current
  <2>10. EncodeJobsFit(d)'
    BY <1>d, <1>e, <2>1, <2>3, <2>9 DEF EncodeJobsFit, FromMaster, There
  <2>11. PublishJobsFit(d)'
    BY <1>d, <1>e, <2>1, <2>3, <2>9 DEF PublishJobsFit, PublishFits, Out, MoviesFit, There
  <2>. QED
    BY <2>7, <2>8, <2>10, <2>11 DEF Fits
<1>. QED
  BY <1>1, <1>2, <1>3, <1>4, <1>5, <1>6, <1>7 DEF ReconcileStep

(* No drive cleans up the work dir of a disc with a live Job. *)
LEMMA NoCleaning ==
    ASSUME Typed, OrderlyInv, NEW d \in Discs, NEW n \in 1 .. MaxAttempts,
           Live(d, n) \/ Publishes(d, n)
    PROVE  ~Cleaning(d)
<1>1. Busy(d)
  BY DEF Live, Publishes, Busy, JobIds
<1>2. ASSUME NEW v \in Drives, task[v].disc = d, task[v].pc = "clean" PROVE FALSE
  <2>1. tray[v] = d
    BY <1>2 DEF OrderlyInv, Trays, TaskInTray, Away
  <2>2. AtRest(d)
    BY <1>2, <2>1 DEF OrderlyInv, Undisturbed, Reading
  <2>. QED
    BY <1>1, <2>2 DEF AtRest
<1>. QED
  BY <1>2 DEF Cleaning

(* A step of the live encode Job: there is no other, none that succeeded   *)
(* for this attempt, and nothing is published meanwhile.                   *)
LEMMA EncodeStepFits ==
    ASSUME Typed, NEW d \in Discs, NEW n \in 1 .. MaxAttempts, Numbered(d), Fits(d), Live(d, n),
           \A k \in JobIds \ {<<"e", n>>} : job'[d][k] = job[d][k],
           UNCHANGED <<disc, lib, made>>, work'[d].master = work[d].master,
           work'[d].enc # 0 => work'[d].ekey = disc[d].ekey /\ FromMaster(d, work'[d].enc),
           job'[d][<<"e", n>>].pc = "encode" =>
              /\ job'[d][<<"e", n>>].src # 0 /\ job'[d][<<"e", n>>].ekey = disc[d].ekey
              /\ FromMaster(d, job'[d][<<"e", n>>].src),
           job'[d][<<"e", n>>].pc \in {"titles", "succeeded"} => work'[d].enc # 0
    PROVE  Fits(d)'
<1>. DEFINE A == disc[d].attempts
<1>a. /\ JobNumbers(d) /\ Recorded(d) /\ EncodesFit(d) /\ EncodeJobsFit(d) /\ LibraryFits(d)
      /\ PublishJobsFit(d) /\ A \in Nat
  BY PhaseJobs DEF Fits
<1>b. \A m \in 1 .. MaxAttempts :
        /\ <<"e", m>> \in JobIds /\ <<"p", m>> \in JobIds \ {<<"e", n>>}
        /\ m # n => <<"e", m>> # <<"e", n>>
  BY DEF JobIds
<1>c. \/ n = A /\ disc[d].phase = "Encoding"
      \/ /\ n = A + 1
         /\ \/ disc[d].phase \in {"BackedUp", "Held"}
            \/ disc[d].phase = "Encoding" /\ OwnGone(d)
  BY DEF Numbered
<1>d. job[d][<<"e", n>>].pc # "none"
  BY StateOf DEF Live
<1>e. \A m \in 1 .. MaxAttempts :
        /\ job'[d][<<"p", m>>] = job[d][<<"p", m>>]
        /\ m # n => job'[d][<<"e", m>>] = job[d][<<"e", m>>]
  BY <1>b
<1>1. OwnGone(d) => OwnGone(d)'
  BY <1>d, <1>e DEF OwnGone
<1>2. \A m \in 1 .. MaxAttempts :
        /\ There(d, "e", m)' => There(d, "e", m)
        /\ There(d, "p", m)' => There(d, "p", m)
        /\ Publishes(d, m)' => Publishes(d, m)
  BY <1>d, <1>e DEF There, Publishes
<1>3. JobNumbers(d)'
  BY <1>a, <1>1, <1>2 DEF JobNumbers
<1>4. Recorded(d)'
  BY <1>a DEF Recorded
<1>5. EncodesFit(d)'
  BY DEF EncodesFit, FromMaster
<1>6. LibraryFits(d)'
  BY <1>c DEF LibraryFits
<1>7. EncodeJobsFit(d)'
  <2>1. ASSUME NEW m \in 1 .. MaxAttempts, m # n, job[d][<<"e", m>>].pc # "none",
               Current(d, m, "Encoding")
        PROVE  FALSE
    <3>1. There(d, "e", m)
      BY <2>1 DEF There
    <3>2. OwnGone(d) => ~(n = A) /\ ~(m = A)
      BY <1>d, <2>1 DEF OwnGone
    <3>. QED
      BY <1>a, <1>c, <2>1, <3>1, <3>2 DEF JobNumbers, Current
  <2>2. ASSUME NEW m \in 1 .. MaxAttempts, m # n
        PROVE  /\ job'[d][<<"e", m>>].pc = "encode" =>
                    /\ job'[d][<<"e", m>>].src # 0 /\ job'[d][<<"e", m>>].ekey = disc[d].ekey
                    /\ FromMaster(d, job'[d][<<"e", m>>].src)
               /\ ~(job'[d][<<"e", m>>].pc \in {"titles", "succeeded"} /\ Current(d, m, "Encoding"))
    BY <1>a, <1>e, <2>1, <2>2 DEF EncodeJobsFit
  <2>. QED
    BY <2>2 DEF EncodeJobsFit, FromMaster, Current
<1>8. PublishJobsFit(d)'
  <2>. SUFFICES ASSUME NEW m \in 1 .. MaxAttempts
                PROVE  PublishFits(d, m, job[d][<<"p", m>>])'
    BY DEF PublishJobsFit
  <2>1. ~Publishes(d, m) /\ (There(d, "p", m) => m <= A) /\ disc[d].phase # "Publishing"
    BY <1>a, <1>c, PhaseJobs
  <2>2. job[d][<<"p", m>>].pc \in {"none", "succeeded", "failed"}
    BY <2>1, StateOf DEF Publishes
  <2>3. ~(job[d][<<"p", m>>].pc = "succeeded" /\ Current(d, m, "Publishing"))
    BY <1>a, <2>1 DEF There, Current
  <2>. QED
    BY <1>e, <2>2, <2>3 DEF PublishFits, Current
<1>. QED
  BY <1>3, <1>4, <1>5, <1>6, <1>7, <1>8 DEF Fits

(* A step of the live publish Job: there is no other, and nothing is       *)
(* encoded meanwhile.                                                      *)
LEMMA PublishStepFits ==
    ASSUME Typed, NEW d \in Discs, NEW n \in 1 .. MaxAttempts, Numbered(d), Fits(d), Publishes(d, n),
           \A k \in JobIds \ {<<"p", n>>} : job'[d][k] = job[d][k],
           SameFields(d),
           Recorded(d)', EncodesFit(d)', LibraryFits(d)',
           PublishFits(d, n, job[d][<<"p", n>>])'
    PROVE  Fits(d)'
<1>. DEFINE A == disc[d].attempts
<1>a. JobNumbers(d) /\ PublishJobsFit(d) /\ A \in Nat
  BY PhaseJobs DEF Fits
<1>b. \A m \in 1 .. MaxAttempts :
        /\ <<"p", m>> \in JobIds /\ <<"e", m>> \in JobIds \ {<<"p", n>>}
        /\ m # n => <<"p", m>> # <<"p", n>>
  BY DEF JobIds
<1>c. \/ n = A /\ disc[d].phase = "Publishing"
      \/ n = A + 1 /\ disc[d].phase = "Encoded"
  BY <1>a DEF JobNumbers
<1>d. job[d][<<"p", n>>].pc # "none"
  BY StateOf DEF Publishes
<1>e. \A m \in 1 .. MaxAttempts :
        /\ job'[d][<<"e", m>>] = job[d][<<"e", m>>]
        /\ m # n => job'[d][<<"p", m>>] = job[d][<<"p", m>>]
  BY <1>b
<1>f. \A m \in 1 .. MaxAttempts :
        /\ Current(d, m, "Encoding")' <=> Current(d, m, "Encoding")
        /\ Current(d, m, "Publishing")' <=> Current(d, m, "Publishing")
  BY DEF Current, SameFields
<1>1. OwnGone(d) => OwnGone(d)'
  BY <1>e DEF OwnGone, SameFields
<1>2. \A m \in 1 .. MaxAttempts :
        /\ There(d, "e", m)' => There(d, "e", m)
        /\ There(d, "p", m)' => There(d, "p", m)
        /\ Publishes(d, m)' => Publishes(d, m)
  BY <1>d, <1>e DEF There, Publishes
<1>3. JobNumbers(d)'
  BY <1>a, <1>1, <1>2 DEF JobNumbers, SameFields
<1>4. EncodeJobsFit(d)'
  <2>. SUFFICES ASSUME NEW m \in 1 .. MaxAttempts
                PROVE  /\ job'[d][<<"e", m>>].pc \notin {"encode", "titles"}
                       /\ ~(job'[d][<<"e", m>>].pc = "succeeded" /\ Current(d, m, "Encoding")')
    BY DEF EncodeJobsFit
  <2>1. ~Live(d, m) /\ (There(d, "e", m) => m <= A) /\ disc[d].phase # "Encoding"
    BY <1>a, <1>c, PhaseJobs
  <2>2. job[d][<<"e", m>>].pc \in {"none", "succeeded", "failed"}
    BY <2>1, StateOf DEF Live
  <2>3. ~(job[d][<<"e", m>>].pc = "succeeded" /\ Current(d, m, "Encoding"))
    BY <1>a, <2>1 DEF There, Current
  <2>. QED
    BY <1>e, <1>f, <2>2, <2>3
<1>5. PublishJobsFit(d)'
  <2>. SUFFICES ASSUME NEW m \in 1 .. MaxAttempts, m # n
                PROVE  PublishFits(d, m, job[d][<<"p", m>>])'
    BY DEF PublishJobsFit
  <2>1. ~Publishes(d, m) /\ ~(There(d, "p", m) /\ Current(d, m, "Publishing"))
    BY <1>a, <1>c DEF JobNumbers, Current
  <2>2. job[d][<<"p", m>>].pc \in {"none", "succeeded", "failed"}
    BY <2>1, StateOf DEF Publishes
  <2>3. ~(job[d][<<"p", m>>].pc = "succeeded" /\ Current(d, m, "Publishing"))
    BY <2>1 DEF There
  <2>. QED
    BY <1>e, <1>f, <2>2, <2>3 DEF PublishFits
<1>. QED
  BY <1>3, <1>4, <1>5 DEF Fits

(* Every step of an encode Job's pod keeps what is known of the disc. *)
LEMMA EncodeFits ==
    ASSUME Typed, OrderlyInv, NEW d \in Discs, Numbered(d), Fits(d), NEW n \in 1 .. MaxAttempts,
           StartEncoding(d, n) \/ Encode(d, n) \/ EncodeFails(d, n) \/ RecordTitles(d, n)
    PROVE  Fits(d)'
<1>. DEFINE e == <<"e", n>>
<1>a. /\ work \in [Discs -> WorkDir] /\ lib \in [Discs -> Library]
      /\ e \in JobIds /\ job[d][e] \in JobRecord
  BY DEF Typed, TypeOK, JobIds
<1>b. UNCHANGED <<disc, task, lib, made>>
  BY DEF StartEncoding, Encode, EncodeFails, RecordTitles
<1>c. Live(d, n)
  <2>1. job[d][e].pc \in {"pending", "encode", "titles"}
    BY DEF StartEncoding, Encode, EncodeFails, RecordTitles, At
  <2>. QED
    BY <2>1, StateOf DEF Live
<1>d. \A pc : /\ [NoJob EXCEPT !.pc = pc].pc = pc
              /\ [job[d][e] EXCEPT !.pc = pc].pc = pc
  BY <1>a, StateOf DEF JobRecord
<1>e. ASSUME NEW j, SetJob(d, e, j)
      PROVE  job'[d][e] = j /\ \A k \in JobIds \ {e} : job'[d][k] = job[d][k]
  BY <1>a, <1>e, JobSet
<1>f. EncodesFit(d) /\ EncodeJobsFit(d)
  BY DEF Fits
<1>g. work[d].enc # 0 => work[d].ekey = disc[d].ekey /\ FromMaster(d, work[d].enc)
  BY <1>c, <1>f, NoCleaning DEF EncodesFit
<1>h. ASSUME SetJob(d, e, [NoJob EXCEPT !.pc = "failed"]), work' = work PROVE Fits(d)'
  <2>1. JobsGo(d)
    <3>1. job[d][e].pc # "none"
      BY <1>c, StateOf DEF Live
    <3>2. job'[d][e].pc = "failed"
      BY <1>d, <1>e, <1>h
    <3>3. \A k \in JobIds \ {e} : job'[d][k] = job[d][k]
      BY <1>e, <1>h
    <3>. QED
      BY <3>1, <3>2, <3>3 DEF JobsGo
  <2>2. Cleaning(d) => Cleaning(d)'
    BY <1>b DEF Cleaning
  <2>3. SameFields(d) /\ work'[d] = work[d] /\ lib'[d] = lib[d] /\ made'[d] = made[d]
    BY <1>b, <1>h DEF SameFields
  <2>. QED
    BY <2>1, <2>2, <2>3, FrameFits
<1>i. ASSUME NEW j, SetJob(d, e, j), work'[d].master = work[d].master,
             work'[d].enc # 0 => work'[d].ekey = disc[d].ekey /\ FromMaster(d, work'[d].enc),
             j.pc = "encode" => j.src # 0 /\ j.ekey = disc[d].ekey /\ FromMaster(d, j.src),
             j.pc \in {"titles", "succeeded"} => work'[d].enc # 0
      PROVE  Fits(d)'
  BY <1>b, <1>c, <1>e, <1>i, EncodeStepFits
<1>1. CASE StartEncoding(d, n)
  <2>. DEFINE src == IF work[d].master # 0 THEN work[d].master
                     ELSE IF disc[d].published THEN lib[d].iso ELSE 0
              j == [job[d][e] EXCEPT !.pc = "encode", !.ekey = disc[d].ekey, !.src = src]
  <2>1. CASE src = 0
    <3>1. SetJob(d, e, [NoJob EXCEPT !.pc = "failed"]) /\ work' = work
      BY <1>1, <2>1 DEF StartEncoding, End
    <3>. QED
      BY <1>h, <3>1
  <2>2. CASE src # 0
    <3>1. SetJob(d, e, j) /\ (work' = work \/ work' = [work EXCEPT ![d] = [work[d] EXCEPT !.enc = 0]])
      BY <1>1, <2>2 DEF StartEncoding
    <3>2. FromMaster(d, src)
      BY <2>2 DEF FromMaster
    <3>. HIDE DEF src
    <3>3. j.pc = "encode" /\ j.ekey = disc[d].ekey /\ j.src = src
      BY <1>a DEF JobRecord
    <3>4. work'[d].master = work[d].master /\ (work'[d].enc = 0 \/ work' = work)
      BY <1>a, <3>1 DEF WorkDir
    <3>. HIDE DEF j
    <3>. QED
      BY <1>g, <1>i, <2>2, <3>1, <3>2, <3>3, <3>4
  <2>. QED
    BY <2>1, <2>2
<1>2. CASE Encode(d, n) \/ EncodeFails(d, n)
  <2>1. /\ job[d][e].src # 0 /\ job[d][e].ekey = disc[d].ekey /\ FromMaster(d, job[d][e].src)
    BY <1>2, <1>f DEF Encode, EncodeFails, At, EncodeJobsFit
  <2>2. \/ work' = work /\ (work[d].enc # 0 \/ EncodeFails(d, n))
        \/ work' = [work EXCEPT ![d] = [work[d] EXCEPT !.enc = job[d][e].src, !.ekey = job[d][e].ekey]]
        \/ work' = [work EXCEPT ![d] = [work[d] EXCEPT !.enc = 0]] /\ EncodeFails(d, n)
    BY <1>2 DEF Encode, EncodeFails, Encoded, Redone
  <2>3. /\ work'[d].master = work[d].master
        /\ work'[d].enc # 0 => work'[d].ekey = disc[d].ekey /\ FromMaster(d, work'[d].enc)
        /\ EncodeFails(d, n) \/ work'[d].enc # 0
    <3>1. CASE work' = work /\ (work[d].enc # 0 \/ EncodeFails(d, n))
      BY <1>g, <3>1
    <3>2. CASE work' = [work EXCEPT ![d] =
                          [work[d] EXCEPT !.enc = job[d][e].src, !.ekey = job[d][e].ekey]]
      <4>1. /\ work'[d].master = work[d].master /\ work'[d].enc = job[d][e].src
            /\ work'[d].ekey = job[d][e].ekey
        BY <1>a, <3>2 DEF WorkDir
      <4>. QED
        BY <2>1, <4>1
    <3>3. CASE work' = [work EXCEPT ![d] = [work[d] EXCEPT !.enc = 0]] /\ EncodeFails(d, n)
      BY <1>a, <3>3 DEF WorkDir
    <3>. QED
      BY <2>2, <3>1, <3>2, <3>3
  <2>4. CASE Encode(d, n) /\ ~EncodeFails(d, n)
    <3>1. SetJob(d, e, [job[d][e] EXCEPT !.pc = "titles"])
      BY <2>4 DEF Encode, JobGoto
    <3>. QED
      BY <1>d, <1>i, <2>3, <2>4, <3>1
  <2>5. CASE EncodeFails(d, n)
    <3>1. SetJob(d, e, [NoJob EXCEPT !.pc = "failed"])
      BY <2>5 DEF EncodeFails, End
    <3>. QED
      BY <1>d, <1>i, <2>3, <3>1
  <2>. QED
    BY <1>2, <2>4, <2>5
<1>3. CASE RecordTitles(d, n)
  <2>1. job[d][e].pc = "titles" /\ work' = work
    BY <1>3 DEF RecordTitles, At
  <2>2. work[d].enc # 0
    BY <1>c, <1>f, <2>1 DEF EncodeJobsFit, Current, Numbered
  <2>3. CASE SetJob(d, e, [NoJob EXCEPT !.pc = "succeeded"])
    BY <1>d, <1>g, <1>i, <2>1, <2>2, <2>3
  <2>4. CASE SetJob(d, e, [NoJob EXCEPT !.pc = "failed"])
    BY <1>h, <2>1, <2>4
  <2>. QED
    BY <1>3, <2>3, <2>4 DEF RecordTitles, End
<1>. QED
  BY <1>1, <1>2, <1>3

(* Every step of a publish Job's pod keeps what is known of the disc. *)
LEMMA PublishingFits ==
    ASSUME Typed, OrderlyInv, NEW d \in Discs, Numbered(d), Fits(d), NEW n \in 1 .. MaxAttempts,
           \/ StartPublishing(d, n) \/ CopyIso(d, n) \/ PlaceIso(d, n) \/ PlaceMovies(d, n)
           \/ RecordPublished(d, n) \/ Finish(d, n)
    PROVE  Fits(d)'
<1>. DEFINE p == <<"p", n>>
            j == job[d][p]
            o == disc[d]
<1>a. /\ work \in [Discs -> WorkDir] /\ lib \in [Discs -> Library] /\ disc \in [Discs -> DiscObject]
      /\ p \in JobIds /\ j \in JobRecord /\ o.backup \in Nat /\ lib[d].iso \in Nat
      /\ work[d].master \in Nat /\ work[d].enc \in Nat
  <2>1. /\ work \in [Discs -> WorkDir] /\ lib \in [Discs -> Library]
        /\ disc \in [Discs -> DiscObject] /\ job \in [Discs -> [JobIds -> JobRecord]]
        /\ p \in JobIds /\ MaxBackups \in Nat
    BY BoundsAssumption DEF Typed, TypeOK, JobIds
  <2>2. o.backup \in Nat /\ lib[d].iso \in Nat /\ work[d].master \in Nat /\ work[d].enc \in Nat
    BY <2>1 DEF DiscObject, Library, WorkDir, Versions
  <2>. QED
    BY <2>1, <2>2
<1>b. UNCHANGED <<task, made>> /\ SameFields(d)
  <2>1. UNCHANGED <<task, made>>
    BY DEF StartPublishing, CopyIso, PlaceIso, PlaceMovies, RecordPublished, Finish
  <2>2. disc' = disc \/ disc' = [disc EXCEPT ![d] = [disc[d] EXCEPT !.published = TRUE]]
    BY DEF StartPublishing, CopyIso, PlaceIso, PlaceMovies, RecordPublished, Finish
  <2>3. SameFields(d)
    BY <1>a, <2>2 DEF DiscObject, SameFields
  <2>. QED
    BY <2>1, <2>3
<1>c. Publishes(d, n) /\ j.pc # "none"
  <2>1. j.pc \in {"pending", "iso", "place", "movies", "record", "finish"}
    BY DEF StartPublishing, CopyIso, PlaceIso, PlaceMovies, RecordPublished, Finish, At
  <2>. QED
    BY <2>1, StateOf DEF Publishes
<1>d. \A pc : /\ [NoJob EXCEPT !.pc = pc].pc = pc
              /\ [j EXCEPT !.pc = pc].pc = pc /\ [j EXCEPT !.pc = pc].backup = j.backup
              /\ [j EXCEPT !.pc = pc].lkey = j.lkey
  BY <1>a, StateOf DEF JobRecord
<1>e. ASSUME NEW i, SetJob(d, p, i)
      PROVE  job'[d][p] = i /\ \A k \in JobIds \ {p} : job'[d][k] = job[d][k]
  BY <1>a, <1>e, JobSet
<1>f. /\ JobNumbers(d) /\ Recorded(d) /\ EncodesFit(d) /\ LibraryFits(d)
      /\ PublishFits(d, n, j) /\ o.phase \in {"Encoded", "Publishing"} /\ o.backup # 0
  BY <1>c DEF Fits, PublishJobsFit, JobNumbers, Recorded, Derived
<1>g. /\ o.encKey = o.ekey /\ (work[d].enc # 0 \/ MoviesFit(d))
      /\ work[d].enc # 0 => work[d].ekey = o.ekey /\ FromMaster(d, work[d].enc)
  BY <1>c, <1>f, NoCleaning DEF LibraryFits, EncodesFit
<1>h. ASSUME SetJob(d, p, [NoJob EXCEPT !.pc = "failed"]), UNCHANGED <<work, lib>> PROVE Fits(d)'
  <2>1. JobsGo(d)
    <3>1. job'[d][p].pc = "failed"
      BY <1>d, <1>e, <1>h
    <3>2. \A k \in JobIds \ {p} : job'[d][k] = job[d][k]
      BY <1>e, <1>h
    <3>. QED
      BY <1>c, <3>1, <3>2 DEF JobsGo
  <2>2. Cleaning(d) => Cleaning(d)'
    BY <1>b DEF Cleaning
  <2>. QED
    BY <1>b, <1>h, <2>1, <2>2, FrameFits
<1>i. ASSUME NEW i, SetJob(d, p, i), Recorded(d)', EncodesFit(d)', LibraryFits(d)',
             job'[d][p] = i => PublishFits(d, n, job[d][p])'
      PROVE  Fits(d)'
  BY <1>b, <1>c, <1>e, <1>i, PublishStepFits
<1>j. ASSUME UNCHANGED <<work, lib>>
      PROVE  Recorded(d)' /\ EncodesFit(d)' /\ LibraryFits(d)'
  <2>1. Cleaning(d) => Cleaning(d)'
    BY <1>b DEF Cleaning
  <2>2. Recorded(d)'
    BY <1>b, <1>f, <1>j DEF Recorded, SameFields
  <2>3. EncodesFit(d)'
    BY <1>b, <1>f, <1>j, <2>1 DEF EncodesFit, SameFields, FromMaster
  <2>4. LibraryFits(d)'
    BY <1>b, <1>f, <1>j DEF LibraryFits, SameFields, MoviesFit
  <2>. QED
    BY <2>2, <2>3, <2>4
<1>1. CASE StartPublishing(d, n)
  <2>. DEFINE i == [j EXCEPT !.pc = "iso", !.lkey = o.lkey, !.backup = o.backup,
                             !.published = o.published]
  <2>1. SetJob(d, p, i) /\ UNCHANGED <<work, lib>>
    BY <1>1 DEF StartPublishing
  <2>2. i.pc = "iso" /\ i.lkey = o.lkey /\ i.backup = o.backup
    BY <1>a DEF JobRecord
  <2>. HIDE DEF i
  <2>3. job'[d][p] = i => PublishFits(d, n, job[d][p])'
    BY <1>b, <2>2 DEF PublishFits, SameFields
  <2>. QED
    BY <1>i, <1>j, <2>1, <2>3
<1>2. CASE CopyIso(d, n)
  <2>1. j.pc = "iso" /\ UNCHANGED <<work, lib>>
    BY <1>2 DEF CopyIso, At
  <2>2. j.backup = o.backup /\ j.lkey = o.lkey
    BY <1>f, <2>1 DEF PublishFits
  <2>3. CASE /\ work[d].master # 0 /\ j.backup \in {0, work[d].master}
             /\ SetJob(d, p, [j EXCEPT !.pc = "place", !.src = work[d].master])
    <3>. DEFINE i == [j EXCEPT !.pc = "place", !.src = work[d].master]
    <3>1. i.pc = "place" /\ i.src = work[d].master /\ i.backup = j.backup /\ i.lkey = j.lkey
      BY <1>a DEF JobRecord
    <3>2. work[d].master = o.backup /\ SetJob(d, p, i)
      BY <1>f, <2>2, <2>3
    <3>. HIDE DEF i
    <3>3. job'[d][p] = i => PublishFits(d, n, job[d][p])'
      BY <1>b, <2>1, <2>2, <3>1, <3>2 DEF PublishFits, SameFields
    <3>. QED
      BY <1>i, <1>j, <2>1, <3>2, <3>3
  <2>4. CASE work[d].master = 0 /\ SetJob(d, p, [j EXCEPT !.pc = "movies"])
    <3>. DEFINE i == [j EXCEPT !.pc = "movies"]
    <3>1. i.pc = "movies" /\ i.backup = j.backup /\ i.lkey = j.lkey
      BY <1>d
    <3>2. lib[d].iso = o.backup /\ SetJob(d, p, i)
      BY <1>f, <2>4 DEF Recorded
    <3>. HIDE DEF i
    <3>3. job'[d][p] = i => PublishFits(d, n, job[d][p])'
      BY <1>b, <2>1, <2>2, <2>4, <3>1, <3>2 DEF PublishFits, SameFields
    <3>. QED
      BY <1>i, <1>j, <2>1, <3>2, <3>3
  <2>5. CASE SetJob(d, p, [NoJob EXCEPT !.pc = "failed"])
    BY <1>h, <2>1, <2>5
  <2>. QED
    BY <1>2, <2>3, <2>4, <2>5 DEF CopyIso, JobGoto, End
<1>3. CASE PlaceIso(d, n)
  <2>. DEFINE i == [j EXCEPT !.pc = "movies"]
  <2>1. j.pc = "place" /\ UNCHANGED <<work, disc>> /\ SetJob(d, p, i)
    BY <1>3 DEF PlaceIso, At, JobGoto
  <2>2. /\ j.backup = o.backup /\ j.lkey = o.lkey /\ j.src = o.backup
        /\ work[d].master = o.backup
    BY <1>f, <2>1 DEF PublishFits
  <2>3. /\ lib'[d].iso = o.backup /\ lib'[d].mkv = lib[d].mkv
        /\ lib'[d].ekey = lib[d].ekey /\ lib'[d].lkey = lib[d].lkey
    BY <1>3, <1>a, <2>2 DEF PlaceIso, Library
  <2>4. i.pc = "movies" /\ i.backup = j.backup /\ i.lkey = j.lkey
    BY <1>d
  <2>. HIDE DEF i
  <2>5. job'[d][p] = i => PublishFits(d, n, job[d][p])'
    BY <2>1, <2>2, <2>3, <2>4 DEF PublishFits
  <2>6. Recorded(d)'
    BY <1>a, <1>b, <1>f, <2>1, <2>2, <2>3 DEF Recorded
  <2>7. EncodesFit(d)'
    BY <1>f, <1>g, <2>1, <2>2 DEF EncodesFit, FromMaster
  <2>8. LibraryFits(d)'
    BY <1>f, <1>g, <2>1, <2>3 DEF LibraryFits, MoviesFit
  <2>. QED
    BY <1>i, <2>1, <2>5, <2>6, <2>7, <2>8
<1>4. CASE PlaceMovies(d, n)
  <2>. DEFINE i == [j EXCEPT !.pc = "record"]
  <2>1. j.pc = "movies" /\ UNCHANGED <<work, disc>>
    BY <1>4 DEF PlaceMovies, At
  <2>2. /\ j.backup = o.backup /\ j.lkey = o.lkey /\ lib[d].iso = o.backup
        /\ work[d].master \in {0, o.backup}
    BY <1>f, <2>1 DEF PublishFits
  <2>3. i.pc = "record" /\ i.backup = j.backup /\ i.lkey = j.lkey
    BY <1>d
  <2>4. ASSUME SetJob(d, p, i), lib'[d].iso = lib[d].iso, lib'[d].mkv = o.backup,
               lib'[d].ekey = o.ekey, lib'[d].lkey = o.lkey
        PROVE  Fits(d)'
    <3>. HIDE DEF i
    <3>1. Out(d)' /\ MoviesFit(d)'
      BY <2>1, <2>2, <2>4 DEF Out, MoviesFit
    <3>2. job'[d][p] = i => PublishFits(d, n, job[d][p])'
      BY <2>1, <2>2, <2>3, <2>4, <3>1 DEF PublishFits
    <3>3. Recorded(d)'
      BY <1>b, <1>f, <2>1, <2>4 DEF Recorded
    <3>4. EncodesFit(d)'
      BY <1>g, <2>1, <2>4 DEF EncodesFit, FromMaster
    <3>5. LibraryFits(d)'
      BY <1>f, <1>g, <2>1, <3>1 DEF LibraryFits
    <3>. QED
      BY <1>i, <2>4, <3>2, <3>3, <3>4, <3>5
  <2>5. CASE /\ work[d].enc # 0
             /\ lib' = [lib EXCEPT ![d] = [lib[d] EXCEPT !.mkv = work[d].enc, !.ekey = work[d].ekey,
                                                         !.lkey = j.lkey]]
             /\ SetJob(d, p, i)
    <3>1. /\ lib'[d].iso = lib[d].iso /\ lib'[d].mkv = work[d].enc
          /\ lib'[d].ekey = work[d].ekey /\ lib'[d].lkey = j.lkey
      BY <1>a, <2>5 DEF Library
    <3>2. work[d].enc = o.backup /\ work[d].ekey = o.ekey
      BY <1>g, <2>2, <2>5 DEF FromMaster
    <3>. QED
      BY <2>2, <2>4, <2>5, <3>1, <3>2
  <2>6. CASE /\ work[d].enc = 0
             /\ lib' = [lib EXCEPT ![d] = [lib[d] EXCEPT !.lkey = j.lkey]]
             /\ SetJob(d, p, i)
    <3>1. /\ lib'[d].iso = lib[d].iso /\ lib'[d].mkv = lib[d].mkv
          /\ lib'[d].ekey = lib[d].ekey /\ lib'[d].lkey = j.lkey
      BY <1>a, <2>6 DEF Library
    <3>2. lib[d].mkv = o.backup /\ lib[d].ekey = o.ekey
      BY <1>g, <2>6 DEF MoviesFit
    <3>. QED
      BY <2>2, <2>4, <2>6, <3>1, <3>2
  <2>7. CASE SetJob(d, p, [NoJob EXCEPT !.pc = "failed"]) /\ UNCHANGED lib
    BY <1>h, <2>1, <2>7
  <2>. QED
    BY <1>4, <2>5, <2>6, <2>7 DEF PlaceMovies, JobGoto, End
<1>5. CASE RecordPublished(d, n)
  <2>. DEFINE i == [j EXCEPT !.pc = "finish"]
  <2>1. j.pc = "record" /\ UNCHANGED <<work, lib>>
    BY <1>5 DEF RecordPublished, At
  <2>2. i.pc = "finish" /\ i.backup = j.backup /\ i.lkey = j.lkey
    BY <1>d
  <2>3. CASE SetJob(d, p, i)
    <3>. HIDE DEF i
    <3>1. job'[d][p] = i => PublishFits(d, n, job[d][p])'
      BY <1>b, <1>f, <2>1, <2>2 DEF PublishFits, SameFields, Out, MoviesFit
    <3>. QED
      BY <1>i, <1>j, <2>1, <2>3, <3>1
  <2>4. CASE SetJob(d, p, [NoJob EXCEPT !.pc = "failed"])
    BY <1>h, <2>1, <2>4
  <2>. QED
    BY <1>5, <2>3, <2>4 DEF RecordPublished, JobGoto, End
<1>6. CASE Finish(d, n)
  <2>. DEFINE i == [NoJob EXCEPT !.pc = "succeeded"]
  <2>1. j.pc = "finish" /\ UNCHANGED <<disc, lib>> /\ SetJob(d, p, i)
    BY <1>6 DEF Finish, At, End
  <2>2. work'[d].master = 0 /\ work'[d].enc = 0
    BY <1>6, <1>a DEF Finish, WorkDir
  <2>3. Out(d) /\ MoviesFit(d)
    BY <1>f, <2>1 DEF PublishFits, Out
  <2>4. Out(d)' /\ MoviesFit(d)'
    BY <2>1, <2>3 DEF Out, MoviesFit
  <2>5. i.pc = "succeeded"
    BY <1>d
  <2>. HIDE DEF i
  <2>6. job'[d][p] = i => PublishFits(d, n, job[d][p])'
    BY <2>2, <2>4, <2>5 DEF PublishFits
  <2>7. Recorded(d)'
    BY <1>b, <1>f, <2>1, <2>2, <2>3 DEF Recorded, Out
  <2>8. EncodesFit(d)' /\ LibraryFits(d)'
    BY <1>f, <1>g, <2>1, <2>2, <2>4 DEF EncodesFit, LibraryFits
  <2>. QED
    BY <1>i, <2>1, <2>6, <2>7, <2>8
<1>. QED
  BY <1>1, <1>2, <1>3, <1>4, <1>5, <1>6

(* Jobs that die or expire, stamps and people keep what is known of the    *)
(* disc; they edit a Done disc only, of which nothing is left to derive.   *)
LEMMA OthersFit ==
    ASSUME ~BusyPeople, Typed, NEW d \in Discs, Numbered(d), Fits(d),
           \/ Renew(d) \/ Elapse(d)
           \/ \E id \in JobIds : KillJob(d, id) \/ ExpireJob(d, id)
           \/ EditEncode(d) \/ EditLayout(d) \/ Hold(d) \/ Release(d) \/ BumpRetry(d)
    PROVE  Fits(d)'
<1>a. disc \in [Discs -> DiscObject] /\ disc[d] \in DiscObject
  BY DEF Typed, TypeOK
<1>b. UNCHANGED <<task, work, lib, made>>
  BY DEF Renew, Elapse, KillJob, ExpireJob, EditEncode, EditLayout, Hold, Release, BumpRetry
<1>c. Cleaning(d) <=> Cleaning(d)'
  BY <1>b DEF Cleaning
<1>d. ASSUME SameFields(d), JobsGo(d) PROVE Fits(d)'
  BY <1>b, <1>c, <1>d, FrameFits
<1>1. CASE \E id \in JobIds : KillJob(d, id) \/ ExpireJob(d, id)
  <2>1. PICK id \in JobIds : KillJob(d, id) \/ ExpireJob(d, id)
    BY <1>1
  <2>2. PICK pc \in {"failed", "none"} : job'[d][id].pc = pc
    <3>1. SetJob(d, id, NoJob) \/ SetJob(d, id, [NoJob EXCEPT !.pc = "failed"])
      BY <2>1 DEF KillJob, ExpireJob, End
    <3>2. CASE SetJob(d, id, NoJob)
      <4>1. job'[d][id] = NoJob
        BY <3>2, JobSet
      <4>. QED
        BY <4>1, StateOf
    <3>3. CASE SetJob(d, id, [NoJob EXCEPT !.pc = "failed"])
      <4>1. job'[d][id] = [NoJob EXCEPT !.pc = "failed"]
        BY <3>3, JobSet
      <4>. QED
        BY <4>1, StateOf
    <3>. QED
      BY <3>1, <3>2, <3>3
  <2>3. \A k \in JobIds \ {id} : job'[d][k] = job[d][k]
    BY <2>1, JobSet DEF KillJob, ExpireJob, End
  <2>4. job[d][id].pc # "none"
    BY <2>1, StateOf DEF KillJob, ExpireJob, JobState
  <2>5. JobsGo(d)
    BY <2>2, <2>3, <2>4 DEF JobsGo
  <2>6. SameFields(d)
    BY <2>1 DEF KillJob, ExpireJob, SameFields
  <2>. QED
    BY <1>d, <2>5, <2>6
<1>2. CASE Renew(d) \/ Elapse(d) \/ Hold(d) \/ Release(d) \/ BumpRetry(d)
  <2>1. JobsGo(d)
    BY <1>2 DEF Renew, Elapse, Hold, Release, BumpRetry, JobsGo
  <2>2. SameFields(d)
    <3>1. CASE Renew(d)
      BY <1>a, <3>1 DEF Renew, SameFields, DiscObject
    <3>2. CASE Elapse(d)
      BY <1>a, <3>2 DEF Elapse, Aged, SameFields, DiscObject
    <3>3. CASE Hold(d) \/ Release(d)
      BY <1>a, <3>3 DEF Hold, Release, SameFields, DiscObject
    <3>4. CASE BumpRetry(d)
      BY <1>a, <3>4 DEF BumpRetry, SameFields, DiscObject
    <3>. QED
      BY <1>2, <3>1, <3>2, <3>3, <3>4
  <2>. QED
    BY <1>d, <2>1, <2>2
<1>3. CASE EditEncode(d) \/ EditLayout(d)
  <2>1. disc[d].phase = "Done" /\ UNCHANGED job
    BY <1>3 DEF EditEncode, EditLayout, Editable
  <2>2. /\ disc'[d].phase = disc[d].phase /\ disc'[d].attempts = disc[d].attempts
        /\ disc'[d].backup = disc[d].backup
        /\ disc'[d].encKey = disc[d].encKey /\ disc'[d].pubKey = disc[d].pubKey
    BY <1>3, <1>a DEF EditEncode, EditLayout, DiscObject
  <2>3. JobNumbers(d) /\ Recorded(d) /\ LibraryFits(d)
    BY DEF Fits
  <2>4. /\ disc[d].attempts \in Nat
        /\ \A n \in 1 .. MaxAttempts :
             /\ ~Live(d, n) /\ ~Publishes(d, n)
             /\ There(d, "e", n) \/ There(d, "p", n) => n <= disc[d].attempts
    BY <2>1, <2>3, PhaseJobs
  <2>5. JobNumbers(d)'
    BY <2>1, <2>2, <2>4 DEF JobNumbers, There, Publishes
  <2>6. Recorded(d)' /\ LibraryFits(d)' /\ EncodesFit(d)'
    BY <1>b, <2>1, <2>2, <2>3 DEF Recorded, LibraryFits, EncodesFit
  <2>7. ASSUME NEW n \in 1 .. MaxAttempts
        PROVE  /\ job'[d][<<"e", n>>].pc \in {"none", "succeeded", "failed"}
               /\ job'[d][<<"p", n>>].pc \in {"none", "succeeded", "failed"}
               /\ ~(job'[d][<<"e", n>>].pc = "succeeded" /\ Current(d, n, "Encoding")')
               /\ ~(job'[d][<<"p", n>>].pc = "succeeded" /\ Current(d, n, "Publishing")')
    <3>1. /\ job'[d][<<"e", n>>].pc \in {"none", "succeeded", "failed"}
          /\ job'[d][<<"p", n>>].pc \in {"none", "succeeded", "failed"}
      BY <2>1, <2>4, StateOf DEF Live, Publishes
    <3>2. (There(d, "e", n) \/ There(d, "p", n)) => n # disc[d].attempts + 1
      BY <2>4
    <3>. QED
      BY <2>1, <2>2, <3>1, <3>2 DEF Current, There
  <2>8. EncodeJobsFit(d)' /\ PublishJobsFit(d)'
    BY <2>7 DEF EncodeJobsFit, PublishJobsFit, PublishFits
  <2>. QED
    BY <2>5, <2>6, <2>8 DEF Fits
<1>. QED
  BY <1>1, <1>2, <1>3

\* Every step keeps the invariant.
LEMMA NextFits ==
    ASSUME Orderly, Typed, BackupInv, EncodeInv, OrderlyInv, PipelineInv, [Next]_vars
    PROVE  PipelineInv'
<1>1. CASE UNCHANGED vars
  <2>1. \A v \in Drives : Knows(v)'
    BY <1>1 DEF vars, PipelineInv, Knows
  <2>2. ASSUME NEW d \in Discs PROVE Fits(d)'
    <3>1. Cleaning(d) => Cleaning(d)'
      BY <1>1 DEF vars, Cleaning
    <3>2. SameFields(d) /\ JobsGo(d) /\ work'[d] = work[d] /\ lib'[d] = lib[d] /\ made'[d] = made[d]
      BY <1>1 DEF vars, SameFields, JobsGo
    <3>. QED
      BY <3>1, <3>2, FrameFits DEF PipelineInv
  <2>. QED
    BY <2>1, <2>2 DEF PipelineInv
<1>2. CASE \E v \in Drives : DriveNext(v)
  BY <1>2, DriveFits, DriveKnows DEF PipelineInv
<1>3. CASE \E d \in Discs : DiscNext(d)
  <2>1. PICK d \in Discs : DiscNext(d)
    BY <1>3
  <2>2. DiscFrame(d) /\ Fits(d) /\ Numbered(d)
    BY <2>1, DiscFrames DEF PipelineInv, EncodeInv
  <2>3. \A v \in Drives : Knows(v)'
    BY <2>1, DiscKnows
  <2>4. ASSUME NEW e \in Discs, e # d PROVE Fits(e)'
    <3>1. Cleaning(e) => Cleaning(e)'
      BY <2>2 DEF DiscFrame, Cleaning
    <3>2. /\ disc'[e] = disc[e] /\ job'[e] = job[e] /\ work'[e] = work[e] /\ lib'[e] = lib[e]
          /\ made'[e] = made[e]
      BY <2>2, <2>4 DEF DiscFrame
    <3>. QED
      BY <3>1, <3>2, FrameFits DEF SameFields, JobsGo, PipelineInv
  <2>5. Fits(d)'
    <3>1. CASE ReconcileStep(d) \/ GpuStarved(d) \/ ReconcileError(d)
      BY <2>2, <3>1, ControllerFits DEF Orderly
    <3>2. CASE \E n \in 1 .. MaxAttempts : JobStep(d, n)
      BY <2>2, <3>2, EncodeFits, PublishingFits DEF JobStep
    <3>3. CASE \/ Renew(d) \/ Elapse(d)
               \/ \E id \in JobIds : KillJob(d, id) \/ ExpireJob(d, id)
               \/ EditEncode(d) \/ EditLayout(d) \/ Hold(d) \/ Release(d) \/ BumpRetry(d)
      BY <2>2, <3>3, OthersFit DEF Orderly
    <3>4. ~Watch(d)
      BY DEF Orderly, Watch
    <3>. QED
      BY <2>1, <3>1, <3>2, <3>3, <3>4 DEF DiscNext
  <2>. QED
    BY <2>3, <2>4, <2>5 DEF PipelineInv
<1>. QED
  BY <1>1, <1>2, <1>3 DEF Next

\* It holds at first: there is nothing.
LEMMA InitFits == Init => PipelineInv
<1>. SUFFICES ASSUME Init PROVE PipelineInv
  OBVIOUS
<1>1. \A v \in Drives : Knows(v)
  BY IdleFields DEF Init, Knows
<1>2. ASSUME NEW d \in Discs PROVE Fits(d)
  <2>1. /\ disc[d].phase = "Detected" /\ disc[d].backup = 0 /\ disc[d].attempts = 0
        /\ work[d].master = 0 /\ work[d].enc = 0 /\ lib[d].iso = 0 /\ made[d] = 0
    BY <1>2 DEF Init, NoObject
  <2>2. \A n \in 1 .. MaxAttempts :
          job[d][<<"e", n>>].pc = "none" /\ job[d][<<"p", n>>].pc = "none"
    BY <1>2 DEF Init, NoJob, JobIds
  <2>3. JobNumbers(d)
    BY <2>2, StateOf DEF JobNumbers, There, Publishes
  <2>4. Recorded(d) /\ EncodesFit(d) /\ LibraryFits(d)
    BY <2>1 DEF Recorded, EncodesFit, LibraryFits, Derived
  <2>5. EncodeJobsFit(d) /\ PublishJobsFit(d)
    BY <2>2 DEF EncodeJobsFit, PublishJobsFit, PublishFits
  <2>. QED
    BY <2>3, <2>4, <2>5 DEF Fits
<1>. QED
  BY <1>1, <1>2 DEF PipelineInv

(* The invariants hold together. *)
LEMMA AlwaysPipeline == Orderly => (Spec => [](Typed /\ PipelineInv))
<1>1. ASSUME Orderly, Typed, BackupInv, OrderlyInv, EncodeInv, [Next]_vars PROVE EncodeInv'
  BY <1>1, AloneWhenOrderly, NextEncodes DEF Orderly
<1>2. ASSUME Orderly PROVE Spec => [](Typed /\ PipelineInv)
  <2>1. Spec => []OrderlyInv
    BY <1>2, AlwaysOrderly
  <2>2. Typed /\ BackupInv /\ OrderlyInv /\ EncodeInv /\ [Next]_vars => EncodeInv'
    BY <1>1, <1>2
  <2>3. Typed /\ BackupInv /\ OrderlyInv /\ EncodeInv /\ PipelineInv /\ [Next]_vars => PipelineInv'
    BY <1>2, NextFits
  <2>. QED
    BY <2>1, <2>2, <2>3, InitFits, InitEncodes, AlwaysBackupInv, PTL DEF Spec
<1>. QED
  BY <1>2

(* A Done disc that nothing is under way for has the recorded master's     *)
(* image and encodes of that image in the library: a rescue that brought a *)
(* better master invalidates what was derived from the old one, before it  *)
(* is recorded (clean-up in backup_and_upload, sha256 check in the         *)
(* publish Job), whatever pods, API calls, ejects, deadlines and expiries  *)
(* intervene.                                                              *)
THEOREM DoneFromBackup == Orderly => (Spec => []DoneMatchesBackup)
<1>1. PipelineInv => DoneMatchesBackup
  BY DEF PipelineInv, Fits, LibraryFits, DoneMatchesBackup, Resting
<1>2. ASSUME Orderly PROVE Spec => []DoneMatchesBackup
  <2>1. Spec => [](Typed /\ PipelineInv)
    BY <1>2, AlwaysPipeline
  <2>. QED
    BY <1>1, <2>1, PTL
<1>. QED
  BY <1>2

(* A Done disc that nothing is due for was encoded and laid out as its     *)
(* spec says now: the keys the controller records when it moves the phase  *)
(* (controller.rs) are those the Job worked with.                          *)
THEOREM DoneAsSpecified == Orderly => (Spec => []DoneMatchesSpec)
<1>1. ASSUME Typed, PipelineInv PROVE DoneMatchesSpec
  <2>. SUFFICES ASSUME NEW d \in Discs, Resting(d)
                PROVE  lib[d].ekey = disc[d].ekey /\ lib[d].lkey = disc[d].lkey
    BY DEF DoneMatchesSpec
  <2>1. disc[d].phase = "Done" /\ AtRest(d)
    BY <1>1, SettledRests DEF Resting
  <2>2. LibraryFits(d)
    BY <1>1 DEF PipelineInv, Fits
  <2>. QED
    BY <2>1, <2>2 DEF LibraryFits, AtRest
<1>2. ASSUME Orderly PROVE Spec => []DoneMatchesSpec
  <2>1. Spec => [](Typed /\ PipelineInv)
    BY <1>2, AlwaysPipeline
  <2>2. Typed /\ PipelineInv => DoneMatchesSpec
    BY <1>1
  <2>. QED
    BY <2>1, <2>2, PTL
<1>. QED
  BY <1>2

(* The image kept is the recorded one or a later one for a disc that is    *)
(* read several times too: finish() removes only a master that is the      *)
(* recorded one and is in the library.                                     *)
THEOREM LatestStaysRescued == Orderly => (Spec => []LatestKept)
<1>1. ASSUME Typed, PipelineInv PROVE LatestKept
  <2>. SUFFICES ASSUME NEW d \in Discs, disc[d].backup # 0
                PROVE  work[d].master >= disc[d].backup \/ lib[d].iso >= disc[d].backup
    BY DEF LatestKept
  <2>1. Recorded(d) /\ disc[d].backup \in Int /\ lib[d].iso \in Int
    BY <1>1, BoundsAssumption DEF PipelineInv, Fits, Typed, TypeOK, DiscObject, Library, Versions
  <2>. QED
    BY <2>1 DEF Recorded
<1>2. ASSUME Orderly PROVE Spec => []LatestKept
  <2>1. Spec => [](Typed /\ PipelineInv)
    BY <1>2, AlwaysPipeline
  <2>2. Typed /\ PipelineInv => LatestKept
    BY <1>1
  <2>. QED
    BY <2>1, <2>2, PTL
<1>. QED
  BY <1>2

(* An ISO is only replaced where a publish Job renames its copy over it.   *)
LEMMA IsoStep ==
    ASSUME Typed, Next,
           \A d \in Discs : \A n \in 1 .. MaxAttempts :
              job[d][<<"p", n>>].pc = "place" => job[d][<<"p", n>>].src >= lib[d].iso
    PROVE  \A d \in Discs : lib'[d].iso >= lib[d].iso
<1>a. lib \in [Discs -> Library] /\ \A d \in Discs : lib[d].iso \in Int
  BY BoundsAssumption DEF Typed, TypeOK, Library, Versions
<1>1. CASE \E v \in Drives : DriveNext(v)
  BY <1>1, <1>a, DriveFrames DEF DriveFrame
<1>2. ASSUME NEW d \in Discs, DiscNext(d) PROVE \A e \in Discs : lib'[e].iso >= lib[e].iso
  <2>1. \A e \in Discs \ {d} : lib'[e] = lib[e]
    BY <1>2, DiscFrames DEF DiscFrame
  <2>2. lib'[d].iso >= lib[d].iso
    <3>1. CASE \E n \in 1 .. MaxAttempts : PlaceIso(d, n)
      <4>1. PICK n \in 1 .. MaxAttempts : PlaceIso(d, n)
        BY <3>1
      <4>2. lib'[d].iso = job[d][<<"p", n>>].src /\ job[d][<<"p", n>>].pc = "place"
        BY <1>a, <4>1 DEF PlaceIso, At, Library
      <4>. QED
        BY <4>2
    <3>2. CASE \E n \in 1 .. MaxAttempts : PlaceMovies(d, n)
      <4>1. lib'[d].iso = lib[d].iso
        BY <1>a, <3>2 DEF PlaceMovies, Library
      <4>. QED
        BY <1>a, <4>1
    <3>3. CASE \A n \in 1 .. MaxAttempts : ~PlaceIso(d, n) /\ ~PlaceMovies(d, n)
      <4>1. lib' = lib
        BY <1>2, <3>3 DEF DiscNext, ReconcileStep, Watch, Retry, MovePhase, FailDisc, StartEncode,
           StartPublish, GpuStarved, CreateJob, PatchStarted, ReconcileError, Renew, Elapse,
           EditEncode, EditLayout, Hold, Release, BumpRetry, KillJob, ExpireJob, JobStep,
           StartEncoding, Encode, EncodeFails, RecordTitles, StartPublishing, CopyIso,
           RecordPublished, Finish
      <4>. QED
        BY <1>a, <4>1
    <3>. QED
      BY <3>1, <3>2, <3>3
  <2>. QED
    BY <1>a, <2>1, <2>2
<1>. QED
  BY <1>1, <1>2 DEF Next

(* An ISO in the library is only ever replaced by a later read of the      *)
(* disc: a publish Job that was started before a rescue never renames its  *)
(* older copy over the better one (job.rs, publish_cmd).  For a disc that  *)
(* is read once this takes no assumption on people, agents and the cache.  *)
THEOREM IsoNeverOlder == (~TwoCopies /\ ~Damaged) \/ Orderly => (Spec => IsoGrows)
<1>. DEFINE PlacesLater == \A d \in Discs : \A n \in 1 .. MaxAttempts :
                 job[d][<<"p", n>>].pc = "place" => job[d][<<"p", n>>].src >= lib[d].iso
            Grows == \A d \in Discs : lib'[d].iso >= lib[d].iso
<1>a. Typed => \A d \in Discs : lib[d].iso \in Int /\ disc[d].backup \in Int
  BY BoundsAssumption DEF Typed, TypeOK, Library, DiscObject, Versions
<1>1. Typed /\ OnceInv => PlacesLater
  <2>. SUFFICES ASSUME Typed, OnceInv, NEW d \in Discs, NEW n \in 1 .. MaxAttempts,
                       job[d][<<"p", n>>].pc = "place"
                PROVE  job[d][<<"p", n>>].src >= lib[d].iso
    OBVIOUS
  <2>1. OneImage(d) /\ <<"p", n>> \in JobIds
    BY DEF OnceInv, JobIds
  <2>2. lib[d].iso \in {0, disc[d].backup} /\ job[d][<<"p", n>>].src = disc[d].backup
    BY <2>1 DEF OneImage
  <2>3. disc[d].backup \in Nat
    BY BoundsAssumption DEF Typed, TypeOK, DiscObject, Versions
  <2>. QED
    BY <2>2, <2>3
<1>2. Typed /\ PipelineInv => PlacesLater
  <2>. SUFFICES ASSUME Typed, PipelineInv, NEW d \in Discs, NEW n \in 1 .. MaxAttempts,
                       job[d][<<"p", n>>].pc = "place"
                PROVE  job[d][<<"p", n>>].src >= lib[d].iso
    OBVIOUS
  <2>1. Recorded(d) /\ PublishFits(d, n, job[d][<<"p", n>>])
    BY DEF PipelineInv, Fits, PublishJobsFit
  <2>2. job[d][<<"p", n>>].src = disc[d].backup /\ lib[d].iso <= disc[d].backup
    BY <2>1 DEF PublishFits, Recorded
  <2>. QED
    BY <1>a, <2>2
<1>3. Typed /\ PlacesLater /\ [Next]_vars => [Grows]_vars
  BY IsoStep
<1>. HIDE DEF PlacesLater
<1>4. ASSUME ~TwoCopies, ~Damaged PROVE Spec => IsoGrows
  <2>1. Spec => []OnceInv
    BY <1>4, AlwaysOnce
  <2>. QED
    BY <1>1, <1>3, <2>1, AlwaysTyped, PTL DEF Spec, IsoGrows
<1>5. ASSUME Orderly PROVE Spec => IsoGrows
  <2>1. Spec => [](Typed /\ PipelineInv)
    BY <1>5, AlwaysPipeline
  <2>. QED
    BY <1>2, <1>3, <2>1, PTL DEF Spec, IsoGrows
<1>. QED
  BY <1>4, <1>5

=============================================================================
