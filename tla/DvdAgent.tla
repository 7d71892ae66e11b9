------------------------------ MODULE DvdAgent ------------------------------
(***************************************************************************)
(* The agent (agent.rs): one task per drive, which waits for a disc, looks *)
(* its Disc up, claims it, backs it up, uploads the master to the work     *)
(* volume, records the result and ejects.  Every API call is a step of its *)
(* own, so that other drives, the controller and the Jobs run in between.  *)
(***************************************************************************)
EXTENDS DvdState

(* Leave the disc in the tray as handled: nothing more happens to it until *)
(* it is taken out or the agent restarts.                                  *)
Handled(v) == task' = [task EXCEPT ![v] = [IdleTask EXCEPT !.pc = "handled", !.disc = task[v].disc]]

Goto(v, pc) == task' = [task EXCEPT ![v] = [@ EXCEPT !.pc = pc]]

(* The disc is done with, one way or the other: eject it. *)
Ejecting(v) == task' = [task EXCEPT ![v] = [IdleTask EXCEPT !.pc = "eject", !.disc = task[v].disc]]

(* Is the drive's heartbeat younger than the lease?  It is while the agent *)
(* runs, even for a drive that was unplugged (the heartbeat task is never  *)
(* aborted), and for up to the lease after the agent went down.            *)
DriveAlive(w, recent) == w # None /\ (task[w].pc = "down" => recent)

(* step() found a disc and handle() looked its Disc up. *)
Detect(v) ==
    /\ task[v].pc = "idle"
    /\ tray[v] # None
    /\ LET d == tray[v]
           o == disc[d]
           rescue == o.rescue /\ work[d].raw
       IN \E recent \in BOOLEAN :
            task' = [task EXCEPT ![v] =
                [IdleTask EXCEPT !.disc = d,
                                 !.pc = IF ~o.exists THEN "create"
                                        ELSE IF rescue THEN "get"
                                        ELSE IF o.backup # 0 THEN "eject"
                                        ELSE IF /\ o.phase = "BackingUp"
                                                /\ o.drive # v
                                                /\ DriveAlive(o.drive, recent)
                                             THEN "eject"
                                        ELSE "get"]]
    /\ UNCHANGED <<disc, seen, ctl, job, leak, tray, work, lib, made, left>>

(* The create is the lock: a conflict means another drive has the disc. *)
Create(v) ==
    /\ task[v].pc = "create"
    /\ LET d == task[v].disc IN
         \/ /\ disc[d].exists
            /\ Ejecting(v)
            /\ UNCHANGED disc
         \/ /\ ~disc[d].exists
            /\ disc' = [disc EXCEPT ![d] = [@ EXCEPT !.exists = TRUE]]
            /\ Goto(v, "get")
    /\ UNCHANGED <<seen, ctl, job, leak, tray, work, lib, made, left>>

(* The attempts so far, read before the claim. *)
GetStatusCounting(v) ==                                                 \* mutant
    /\ task[v].pc = "get"
    /\ task' = [task EXCEPT ![v] = [@ EXCEPT !.pc = "claim", !.n = disc[task[v].disc].attempts + 1]]
    /\ UNCHANGED <<disc, seen, ctl, job, leak, tray, work, lib, made, left>>
GetStatus(v) ==
    /\ task[v].pc = "get"
    /\ task' = [task EXCEPT ![v] = [@ EXCEPT !.pc = "claim", !.n = disc[task[v].disc].attempts]]
    /\ UNCHANGED <<disc, seen, ctl, job, leak, tray, work, lib, made, left>>

(* The merge patch that takes the disc: it does not touch the heartbeat an *)
(* earlier attempt left.  From here on the lease task renews it.           *)
Claim(v) ==
    /\ task[v].pc = "claim"
    /\ task[v].n < MaxAttempts
    /\ disc' = [disc EXCEPT ![task[v].disc] =
                  [@ EXCEPT !.st = TRUE, !.phase = "BackingUp", !.drive = v,
                            !.attempts = task[v].n + 1, !.since = "fresh"]]
    /\ Goto(v, "backup")
    /\ UNCHANGED <<seen, ctl, job, leak, tray, work, lib, made, left>>

(* The backup chain read the disc, completely or with sectors missing. *)
BackUp(v) ==
    /\ task[v].pc = "backup"
    /\ made[task[v].disc] < MaxBackups
    /\ made' = [made EXCEPT ![task[v].disc] = @ + 1]
    /\ \E pending \in {FALSE, Damaged} :
         task' = [task EXCEPT ![v] = [@ EXCEPT !.pc = "upload", !.ver = made[task[v].disc] + 1,
                                               !.pending = pending]]
    /\ UNCHANGED <<disc, seen, ctl, job, leak, tray, work, lib, left>>

(* Copied, verified and renamed over the master there was. *)
Upload(v) ==
    /\ task[v].pc = "upload"
    /\ work' = [work EXCEPT ![task[v].disc] = [@ EXCEPT !.master = task[v].ver]]
    /\ Goto(v, "clean")
    /\ UNCHANGED <<disc, seen, ctl, job, leak, tray, lib, made, left>>

(* What was derived from the old master goes; the raw image stays on the   *)
(* work volume only while a rescue is pending.  The lease ends here.       *)
CleanKeepingEncodes(v) ==                                               \* mutant
    /\ task[v].pc = "clean"
    /\ work' = [work EXCEPT ![task[v].disc].raw = task[v].pending]
    /\ Goto(v, "record")
    /\ UNCHANGED <<disc, seen, ctl, job, leak, tray, lib, made, left>>
Clean(v) ==
    /\ task[v].pc = "clean"
    /\ work' = [work EXCEPT ![task[v].disc] = [@ EXCEPT !.enc = 0, !.raw = task[v].pending]]
    /\ Goto(v, "record")
    /\ UNCHANGED <<disc, seen, ctl, job, leak, tray, lib, made, left>>

(* Unreadable disc, or the upload failed: the lease ends, the Disc fails.   *)
(* After the upload only the copies of the raw image can fail, when what   *)
(* was derived from the old master is gone already.                        *)
BackUpFails(v) ==
    /\ \/ task[v].pc \in {"backup", "upload"} /\ UNCHANGED work
       \/ /\ task[v].pc = "clean"
          /\ \E raw \in {work[task[v].disc].raw, task[v].pending} :
               work' = [work EXCEPT ![task[v].disc] = [@ EXCEPT !.enc = 0, !.raw = raw]]
    /\ Goto(v, "fail")
    /\ UNCHANGED <<disc, seen, ctl, job, leak, tray, lib, made, left>>

(* The result is recorded before the disc is ejected. *)
Record(v) ==
    /\ task[v].pc = "record"
    /\ disc' = [disc EXCEPT ![task[v].disc] =
                  [@ EXCEPT !.phase = "BackedUp", !.backup = task[v].ver,
                            !.rescue = task[v].pending, !.drive = v, !.since = "fresh"]]
    /\ Ejecting(v)
    /\ UNCHANGED <<seen, ctl, job, leak, tray, work, lib, made, left>>

(* The failure is recorded if the API server answers (.ok()). *)
RecordFailure(v) ==
    /\ task[v].pc = "fail"
    /\ \/ /\ disc' = [disc EXCEPT ![task[v].disc] = [@ EXCEPT !.phase = "Failed", !.since = "fresh"]]
          /\ UNCHANGED left
       \/ Fault("api") /\ UNCHANGED disc
    /\ Ejecting(v)
    /\ UNCHANGED <<seen, ctl, job, leak, tray, work, lib, made>>

(* An API call of handle() failed and changed nothing (a call carried out  *)
(* whose answer is lost is not modelled): the error is logged, nothing     *)
(* retries it.                                                             *)
HandleError(v) ==
    /\ task[v].pc \in {"create", "get", "claim", "record"}
    /\ Fault("api")
    /\ Handled(v)
    /\ UNCHANGED <<disc, seen, ctl, job, leak, tray, work, lib, made>>

Eject(v) ==
    /\ task[v].pc = "eject"
    /\ tray' = [tray EXCEPT ![v] = None]
    /\ task' = [task EXCEPT ![v] = IdleTask]
    /\ UNCHANGED <<disc, seen, ctl, job, leak, work, lib, made, left>>

EjectFails(v) ==
    /\ task[v].pc = "eject"
    /\ Fault("eject")
    /\ Handled(v)
    /\ UNCHANGED <<disc, seen, ctl, job, leak, tray, work, lib, made>>

-----------------------------------------------------------------------------
(* The agent's pod dies with all its tasks, and comes back: it has handled *)
(* nothing yet, so a disc still in the tray is looked at again.            *)
Crash(v) ==
    /\ task[v].pc # "down"
    /\ Fault("agent")
    /\ task' = [task EXCEPT ![v] = [IdleTask EXCEPT !.pc = "down"]]
    /\ leak' = [leak EXCEPT ![v] = {}]
    /\ UNCHANGED <<disc, seen, ctl, job, tray, work, lib, made>>

Restart(v) ==
    /\ task[v].pc = "down"
    /\ task' = [task EXCEPT ![v] = IdleTask]
    /\ UNCHANGED <<disc, seen, ctl, job, leak, tray, work, lib, made, left>>

(* A drive that is gone has its task aborted, but not the lease task that  *)
(* task spawned, nor a copy already running on a blocking thread.          *)
Unplug(v) ==
    /\ task[v].pc \notin {"down", "unplugged"}
    /\ Fault("unplug")
    /\ leak' = [leak EXCEPT ![v] = @ \cup {d \in Discs : HoldsLease(v, d)}]
    /\ \/ UNCHANGED work
       \/ /\ task[v].pc = "upload"
          /\ work' = [work EXCEPT ![task[v].disc] = [@ EXCEPT !.master = task[v].ver]]
    /\ task' = [task EXCEPT ![v] = [IdleTask EXCEPT !.pc = "unplugged"]]
    /\ UNCHANGED <<disc, seen, ctl, job, tray, lib, made>>

Plug(v) ==
    /\ task[v].pc = "unplugged"
    /\ task' = [task EXCEPT ![v] = IdleTask]
    /\ UNCHANGED <<disc, seen, ctl, job, leak, tray, work, lib, made, left>>

(* The lease task renews status.heartbeat. *)
Renew(d) ==
    /\ Renewed(d)
    /\ disc[d].heartbeat # "fresh"
    /\ disc' = [disc EXCEPT ![d] = [@ EXCEPT !.heartbeat = "fresh"]]
    /\ UNCHANGED <<seen, ctl, job, task, leak, tray, work, lib, made, left>>

(* Stamps nobody renews grow older than the lease, in the object and in    *)
(* the cached copy alike.  status.since is only ever compared with the     *)
(* lease while BackingUp, so it ages only there.                           *)
Aged(o) ==
    [o EXCEPT !.heartbeat = IF @ = "fresh" THEN "stale" ELSE @,
              !.since = IF @ = "fresh" /\ o.phase = "BackingUp" THEN "stale" ELSE @]
Elapse(d) ==
    /\ ~Renewed(d)
    /\ Aged(disc[d]) # disc[d]
    /\ disc' = [disc EXCEPT ![d] = Aged(@)]
    /\ seen' = [seen EXCEPT ![d] = Aged(@)]
    /\ UNCHANGED <<ctl, job, task, leak, tray, work, lib, made, left>>

AgentStep(v) ==
    \/ Detect(v) \/ Create(v) \/ GetStatus(v) \/ Claim(v)
    \/ BackUp(v) \/ Upload(v) \/ Clean(v) \/ BackUpFails(v)
    \/ Record(v) \/ RecordFailure(v) \/ Eject(v)
=============================================================================
