---------------------------- MODULE DvdController ----------------------------
(***************************************************************************)
(* The controller (controller.rs): the Disc phase machine.  A reconcile    *)
(* works on the cached Disc; different discs are reconciled concurrently,  *)
(* one disc never twice at a time.  A reconcile that only patches is one   *)
(* step; one that starts a Job is three: count or choose, create, patch.   *)
(* What can come between the read and the patch of the first kind is seen  *)
(* with LaggingCache only.                                                 *)
(***************************************************************************)
EXTENDS DvdState

(* The Disc as the controller sees it: with a cache that lags, as of the   *)
(* last watch event that reached it.                                       *)
Cached(d) == IF LaggingCache THEN seen[d] ELSE disc[d]

Watch(d) ==
    /\ LaggingCache
    /\ seen[d] # disc[d]
    /\ seen' = [seen EXCEPT ![d] = disc[d]]
    /\ UNCHANGED <<disc, ctl, job, task, leak, tray, work, lib, made, left>>

(* A new reconcile; a Disc without a status yet is left alone. *)
Reconciling(d) == ctl[d].pc = "idle" /\ Cached(d).exists /\ Cached(d).st

(* decide(): what to do with a Disc o, given its Job's state. *)
Wait == [do |-> "Wait", to |-> None]
SetPhase(p) == [do |-> "SetPhase", to |-> p]
HeartbeatExpired(o) == o.phase = "BackingUp" /\ o.heartbeat = "stale"     \* mutant
LeaseExpired(o) ==
    /\ o.phase = "BackingUp"
    /\ (IF o.heartbeat # "none" THEN o.heartbeat ELSE o.since) = "stale"
Fail == [do |-> "Fail", to |-> "Failed"]
AfterJobWaiting(state, next, again) ==                                  \* mutant
    CASE state = "Succeeded" -> SetPhase(next)
      [] state = "Failed" -> Fail
      [] OTHER -> Wait
AfterJob(state, next, again) ==
    CASE state = "Running" -> Wait
      [] state = "Succeeded" -> SetPhase(next)
      [] state = "Failed" -> Fail
      [] state = "Missing" -> SetPhase(again)
RepublishOnly(o) ==                                                     \* mutant
    IF o.encKey # o.ekey \/ o.pubKey # o.lkey THEN SetPhase("Encoded") ELSE Wait
WhenDone(o) ==
    IF o.encKey # o.ekey THEN SetPhase("BackedUp")
    ELSE IF o.pubKey # o.lkey THEN SetPhase("Encoded")
    ELSE Wait
Decide(o, state) ==
    CASE o.phase \in {"Detected", "BackingUp"} -> IF LeaseExpired(o) THEN Fail ELSE Wait
      [] o.phase = "BackedUp" ->
            IF o.hold THEN SetPhase("Held") ELSE [do |-> "StartEncode", to |-> "Encoding"]
      [] o.phase = "Held" -> IF o.hold THEN Wait ELSE SetPhase("BackedUp")
      [] o.phase = "Encoding" -> AfterJob(state, "Encoded", "BackedUp")
      [] o.phase = "Encoded" -> [do |-> "StartPublish", to |-> "Publishing"]
      [] o.phase = "Publishing" -> AfterJob(state, "Done", "Encoded")
      [] o.phase = "Done" -> WhenDone(o)
      [] o.phase = "Failed" -> Wait

(* The Job of the stage the Disc is in, looked up by its name. *)
JobOf(d, o) ==
    LET stage == IF o.phase = "Encoding" THEN "e" ELSE "p"
    IN IF o.phase \in {"Encoding", "Publishing"} /\ o.attempts > 0
       THEN job[d][<<stage, o.attempts>>] ELSE NoJob

Decision(d) == Decide(Cached(d), JobState(JobOf(d, Cached(d))))

(* A bumped spec.retry restarts a failed disc from what it already has; the *)
(* phase of a disc that did not fail is written back as it was cached.      *)
RetryDue(d) == Cached(d).retry > Cached(d).observed
RetryPhase(o) ==
    IF o.phase # "Failed" THEN o.phase
    ELSE IF o.backup # 0 THEN "BackedUp" ELSE "Detected"
Retry(d) ==
    /\ Reconciling(d)
    /\ RetryDue(d)
    /\ disc' = [disc EXCEPT ![d] = [@ EXCEPT !.observed = Cached(d).retry,
                                             !.phase = RetryPhase(Cached(d)),
                                             !.since = "fresh"]]
    /\ UNCHANGED <<seen, ctl, job, task, leak, tray, work, lib, made, left>>

(* A phase change without a Job.  The keys recorded are those of the spec  *)
(* in the cache now.                                                       *)
MovePhase(d) ==
    /\ Reconciling(d)
    /\ ~RetryDue(d)
    /\ Decision(d).do = "SetPhase"
    /\ LET p == Decision(d).to IN
         disc' = [disc EXCEPT ![d] =
                    [@ EXCEPT !.phase = p,
                              !.since = "fresh",
                              !.encKey = IF p = "Encoded" THEN Cached(d).ekey ELSE disc[d].encKey,
                              !.pubKey = IF p = "Done" THEN Cached(d).lkey ELSE disc[d].pubKey]]
    /\ UNCHANGED <<seen, ctl, job, task, leak, tray, work, lib, made, left>>

FailDisc(d) ==
    /\ Reconciling(d)
    /\ ~RetryDue(d)
    /\ Decision(d).do = "Fail"
    /\ disc' = [disc EXCEPT ![d] = [@ EXCEPT !.phase = "Failed", !.since = "fresh"]]
    /\ UNCHANGED <<seen, ctl, job, task, leak, tray, work, lib, made, left>>

-----------------------------------------------------------------------------
(* Encode Jobs listed as running, over all discs. *)
RunningEncodes ==
    {r \in Discs \X (1 .. MaxAttempts) : JobState(job[r[1]][<<"e", r[2]>>]) = "Running"}

(* The next attempt's Job is to be created. *)
Starting(d, stage, cpu) ==
    /\ Cached(d).attempts < MaxAttempts
    /\ ctl' = [ctl EXCEPT ![d] = [pc |-> "create", stage |-> stage,
                                  n |-> Cached(d).attempts + 1, cpu |-> cpu]]

StartEncode(d) ==
    /\ Reconciling(d)
    /\ ~RetryDue(d)
    /\ Decision(d).do = "StartEncode"
    /\ Cardinality(RunningEncodes) < MaxEncodes
    /\ Starting(d, "e", FALSE)
    /\ UNCHANGED <<disc, seen, job, task, leak, tray, work, lib, made, left>>

StartPublish(d) ==
    /\ Reconciling(d)
    /\ ~RetryDue(d)
    /\ Decision(d).do = "StartPublish"
    /\ Starting(d, "p", FALSE)
    /\ UNCHANGED <<disc, seen, job, task, leak, tray, work, lib, made, left>>

(* The Job's pod waited too long for a GPU: the Job is deleted (or stays,  *)
(* when that call fails) and the next attempt is started on the CPU.  The  *)
(* look at the pod and the deletion are one step, so a pod that starts     *)
(* between the two, or ends later than its Job, is not represented.        *)
Starved(d) ==
    /\ Cached(d).phase = "Encoding"
    /\ JobOf(d, Cached(d)).pc = "pending" /\ ~JobOf(d, Cached(d)).cpu
StarvedJobStays(d) ==                                                   \* mutant
    /\ Reconciling(d) /\ ~RetryDue(d) /\ Starved(d)
    /\ Starting(d, "e", TRUE)
    /\ UNCHANGED <<disc, seen, job, task, leak, tray, work, lib, made, left>>
GpuStarved(d) ==
    /\ Reconciling(d)
    /\ ~RetryDue(d)
    /\ Starved(d)
    /\ \/ SetJob(d, <<"e", Cached(d).attempts>>, NoJob) /\ UNCHANGED left
       \/ Fault("delete") /\ UNCHANGED job
    /\ Starting(d, "e", TRUE)
    /\ UNCHANGED <<disc, seen, task, leak, tray, work, lib, made>>

(* start_job(): a Job of that name already there (409) is as good. *)
CreateJob(d) ==
    /\ ctl[d].pc = "create"
    /\ LET id == <<ctl[d].stage, ctl[d].n>> IN
         IF job[d][id].pc = "none"
         THEN SetJob(d, id, [NoJob EXCEPT !.pc = "pending", !.cpu = ctl[d].cpu])
         ELSE UNCHANGED job
    /\ ctl' = [ctl EXCEPT ![d] = [@ EXCEPT !.pc = "patch"]]
    /\ UNCHANGED <<disc, seen, task, leak, tray, work, lib, made, left>>

(* The started Job's patch; the move to the CPU leaves the phase alone. *)
PatchStarted(d) ==
    /\ ctl[d].pc = "patch"
    /\ disc' = [disc EXCEPT ![d] =
                  [@ EXCEPT !.attempts = ctl[d].n,
                            !.phase = IF ctl[d].cpu THEN disc[d].phase
                                      ELSE IF ctl[d].stage = "e" THEN "Encoding" ELSE "Publishing",
                            !.since = IF ctl[d].cpu THEN disc[d].since ELSE "fresh"]]
    /\ ctl' = [ctl EXCEPT ![d] = IdleReconcile]
    /\ UNCHANGED <<seen, job, task, leak, tray, work, lib, made, left>>

(* An API call failed, or the controller restarted: the reconcile is lost. *)
ReconcileError(d) ==
    /\ ctl[d].pc # "idle"
    /\ Fault("reconcile")
    /\ ctl' = [ctl EXCEPT ![d] = IdleReconcile]
    /\ UNCHANGED <<disc, seen, job, task, leak, tray, work, lib, made>>

ReconcileStep(d) ==
    \/ Retry(d) \/ MovePhase(d) \/ FailDisc(d)
    \/ StartEncode(d) \/ StartPublish(d) \/ CreateJob(d) \/ PatchStarted(d)
=============================================================================
