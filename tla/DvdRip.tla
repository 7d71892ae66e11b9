------------------------------- MODULE DvdRip -------------------------------
(***************************************************************************)
(* dvdrip as a whole: agents, controller and Jobs around the Disc objects, *)
(* with the people who insert discs and edit Discs.                        *)
(***************************************************************************)
EXTENDS DvdAgent, DvdController, DvdJobs

(* Nothing is under way for the disc and nothing is due. *)
Settled(d) ==
    /\ disc[d].phase \in {"Detected", "Held", "Done", "Failed"}
    /\ disc[d].retry = disc[d].observed
    /\ Decide(disc[d], "Missing") = Wait
    /\ ctl[d].pc = "idle"
    /\ \A id \in JobIds : JobState(job[d][id]) # "Running"

InNoDrive(d) == \A v \in Drives : tray[v] # d

(* People put a disc into an empty drive. *)
Insert(v, d) ==
    /\ tray[v] = None
    /\ task[v].pc = "idle"
    /\ left.insert > 0
    /\ TwoCopies \/ InNoDrive(d)
    /\ BusyPeople \/ Settled(d)
    /\ tray' = [tray EXCEPT ![v] = d]
    /\ left' = [left EXCEPT !.insert = @ - 1]
    /\ UNCHANGED <<disc, seen, ctl, job, task, leak, work, lib, made>>

(* They take out a disc the drive was done with but did not eject. *)
Remove(v) ==
    /\ task[v].pc = "handled"
    /\ tray' = [tray EXCEPT ![v] = None]
    /\ task' = [task EXCEPT ![v] = IdleTask]
    /\ UNCHANGED <<disc, seen, ctl, job, leak, work, lib, made, left>>

(* They edit the spec of a Disc; those who do not while it is busy wait    *)
(* until it is in the phase the edit is meant for and out of the drive.    *)
Editable(d, phases) ==
    disc[d].exists /\ (BusyPeople \/ (disc[d].phase \in phases /\ InNoDrive(d)))

(* spec.mainTitle or spec.protected *)
EditEncode(d) ==
    /\ Editable(d, {"Done"})
    /\ disc[d].ekey < MaxEdits
    /\ disc' = [disc EXCEPT ![d] = [@ EXCEPT !.ekey = disc[d].ekey + 1]]
    /\ UNCHANGED <<seen, ctl, job, task, leak, tray, work, lib, made, left>>

(* spec.name, spec.disc or spec.titles *)
EditLayout(d) ==
    /\ Editable(d, {"Done"})
    /\ disc[d].lkey < MaxEdits
    /\ disc' = [disc EXCEPT ![d] = [@ EXCEPT !.lkey = disc[d].lkey + 1]]
    /\ UNCHANGED <<seen, ctl, job, task, leak, tray, work, lib, made, left>>

Hold(d) ==
    /\ Editable(d, {"BackedUp"})
    /\ MaxEdits > 0 /\ ~disc[d].hold
    /\ disc' = [disc EXCEPT ![d] = [@ EXCEPT !.hold = TRUE]]
    /\ UNCHANGED <<seen, ctl, job, task, leak, tray, work, lib, made, left>>

Release(d) ==
    /\ Editable(d, {"BackedUp", "Held"})
    /\ disc[d].hold
    /\ disc' = [disc EXCEPT ![d] = [@ EXCEPT !.hold = FALSE]]
    /\ UNCHANGED <<seen, ctl, job, task, leak, tray, work, lib, made, left>>

BumpRetry(d) ==
    /\ Editable(d, {"Failed"})
    /\ disc[d].retry < MaxRetries
    /\ disc' = [disc EXCEPT ![d] = [@ EXCEPT !.retry = disc[d].retry + 1]]
    /\ UNCHANGED <<seen, ctl, job, task, leak, tray, work, lib, made, left>>

-----------------------------------------------------------------------------
DriveNext(v) ==
    \/ AgentStep(v)
    \/ HandleError(v) \/ EjectFails(v)
    \/ Crash(v) \/ Restart(v) \/ Unplug(v) \/ Plug(v)
    \/ Remove(v)
    \/ \E d \in Discs : Insert(v, d)

DiscNext(d) ==
    \/ Renew(d) \/ Elapse(d)
    \/ Watch(d) \/ ReconcileStep(d) \/ GpuStarved(d) \/ ReconcileError(d)
    \/ \E n \in 1 .. MaxAttempts : JobStep(d, n)
    \/ \E id \in JobIds : KillJob(d, id) \/ ExpireJob(d, id)
    \/ EditEncode(d) \/ EditLayout(d) \/ Hold(d) \/ Release(d) \/ BumpRetry(d)

Next == (\E v \in Drives : DriveNext(v)) \/ (\E d \in Discs : DiscNext(d))

Spec == Init /\ [][Next]_vars

(* Pods and reconciles that can run do run, failed pods are replaced, and  *)
(* time passes.  People, faults and a drive plugged back in are not fair.  *)
Fairness ==
    /\ \A v \in Drives : WF_vars(AgentStep(v)) /\ WF_vars(Restart(v))
    /\ \A d \in Discs : /\ WF_vars(Renew(d)) /\ WF_vars(Elapse(d)) /\ WF_vars(Watch(d))
                        /\ WF_vars(ReconcileStep(d))
                        /\ \A n \in 1 .. MaxAttempts : WF_vars(JobStep(d, n))
FairSpec == Spec /\ Fairness

-----------------------------------------------------------------------------
(* A disc the status calls backed up still exists as an image: finish()    *)
(* takes the master out of the work dir only when the library has an ISO.  *)
BackupKept ==
    \A d \in Discs : disc[d].backup # 0 => work[d].master # 0 \/ lib[d].iso # 0

(* That image is the recorded one or a later one: no clean-up and no       *)
(* publish of an older one costs the better read of a rescued disc.        *)
LatestKept ==
    \A d \in Discs :
        disc[d].backup # 0 => work[d].master >= disc[d].backup \/ lib[d].iso >= disc[d].backup

Resting(d) == disc[d].phase = "Done" /\ Settled(d) /\ \A v \in Drives : task[v].disc # d

(* A Done disc has the recorded master's image and encodes in the library: *)
(* a new master invalidates what was derived from the old one.             *)
DoneMatchesBackup ==
    \A d \in Discs :
        Resting(d) => lib[d].iso = disc[d].backup /\ lib[d].mkv = disc[d].backup

(* A Done disc the controller has nothing to do for was encoded and laid   *)
(* out as its spec says now, whatever was edited on the way there.         *)
DoneMatchesSpec ==
    \A d \in Discs :
        Resting(d) => lib[d].ekey = disc[d].ekey /\ lib[d].lkey = disc[d].lkey

(* An ISO in the library is only ever replaced by a later read of the disc. *)
IsoGrows == [][\A d \in Discs : lib'[d].iso >= lib[d].iso]_vars

(* A disc has one live encode Job at most: Jobs are named by the attempt,  *)
(* so a restarted controller adopts the one it created and never doubles   *)
(* it.                                                                     *)
OneEncode ==
    \A d \in Discs : \A m, n \in 1 .. MaxAttempts :
        /\ JobState(job[d][<<"e", m>>]) = "Running"
        /\ JobState(job[d][<<"e", n>>]) = "Running"
        => m = n

(* A backed up disc is encoded and published, or fails visibly, or is      *)
(* held, or is read again: it never hangs between two phases.              *)
PipelineEnds ==
    \A d \in Discs :
        disc[d].phase \in {"BackedUp", "Encoding", "Encoded", "Publishing"}
        ~> disc[d].phase \in {"Done", "Failed", "Held", "BackingUp"}

(* No disc stays BackingUp for ever: the agent finishes, or its lease runs *)
(* out and the controller fails the disc.                                  *)
LeaseEnds == \A d \in Discs : disc[d].phase = "BackingUp" ~> disc[d].phase # "BackingUp"
=============================================================================
