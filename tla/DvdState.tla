------------------------------ MODULE DvdState ------------------------------
(***************************************************************************)
(* The state the parts of dvdrip (apps/dvdrip) share: the Disc objects of  *)
(* the API server, the controller's watch cache, the Jobs, the drives'     *)
(* tasks, the work volume and the libraries.  DvdAgent, DvdController and  *)
(* DvdJobs define the steps each part takes on it, DvdRip composes them.   *)
(*                                                                         *)
(* Data is reduced to what the properties tell apart.  A master image is   *)
(* the number of the backup that wrote it (0: none); the spec fields an    *)
(* encode or a publish depends on are the number of edits made to them.    *)
(***************************************************************************)
EXTENDS Integers, FiniteSets

CONSTANTS
    Discs,          \* the physical discs, one Disc object each (by fingerprint)
    Drives,         \* the optical drives, each on a node of its own
    None,           \* no disc, no drive, no key
    MaxEncodes,     \* DVDRIP_MAX_ENCODES
    MaxAttempts,    \* bound on status.attempts
    MaxBackups,     \* bound on the backups made of one disc
    MaxEdits,       \* bound on the edits of the encode fields, and of the layout fields
    MaxRetries,     \* bound on spec.retry
    MaxInserts,     \* bound on how often people put a disc into a drive
    MaxFaults,      \* bound on how often something fails
    FaultKinds,     \* what may fail (see Kinds)
    Damaged,        \* whether discs may have sectors the first read misses
    TwoCopies,      \* whether a disc and a copy of it may be in two drives
    BusyPeople,     \* whether people touch a disc while something is under way for it
    LaggingCache    \* whether a reconcile may start from an old version of the Disc

ASSUME BoundsAssumption ==
    /\ MaxEncodes \in Nat \ {0} /\ MaxAttempts \in Nat /\ MaxBackups \in Nat
    /\ MaxEdits \in Nat /\ MaxRetries \in Nat /\ MaxInserts \in Nat /\ MaxFaults \in Nat

(* What may fail: an agent's pod, an agent's API call, the eject, a drive   *)
(* that is unplugged, a reconcile (its API call, or the controller), the   *)
(* deletion of a starved Job, a Job's pod or API call, and a finished Job  *)
(* that is removed before the controller looked.                           *)
Kinds == {"agent", "api", "eject", "unplug", "reconcile", "delete", "job", "expire"}

ASSUME SwitchAssumption ==
    /\ Damaged \in BOOLEAN /\ TwoCopies \in BOOLEAN
    /\ BusyPeople \in BOOLEAN /\ LaggingCache \in BOOLEAN
    /\ FaultKinds \subseteq Kinds

ASSUME NoneAssumption == None \notin Discs /\ None \notin Drives /\ None \notin Nat

VARIABLES
    disc,       \* the Disc objects in the API server
    seen,       \* the controller's watch cache of them
    ctl,        \* the controller's reconcile of each disc: where it is
    job,        \* the Jobs of each disc by stage and attempt, with their pod's progress
    task,       \* the agent's task for each drive
    leak,       \* discs whose lease task outlived the drive task that spawned it
    tray,       \* the disc in each drive
    work,       \* the disc's dir on the work volume
    lib,        \* what media-dvd and media-movies hold of the disc
    made,       \* how many masters were read off each disc so far
    left        \* what the environment may still do

vars == <<disc, seen, ctl, job, task, leak, tray, work, lib, made, left>>

-----------------------------------------------------------------------------
Phase == {"Detected", "BackingUp", "BackedUp", "Held", "Encoding", "Encoded",
          "Publishing", "Done", "Failed"}

(* The age of a time stamp against the lease of 5 minutes. *)
Stamp == {"none", "fresh", "stale"}

Versions == 0 .. MaxBackups
Edits == 0 .. MaxEdits
Attempts == 0 .. MaxAttempts

(* The Disc: exists and st (has it a status yet), the spec people own, and *)
(* the status.  encKey and pubKey are status.encodeKey and publishKey.     *)
DiscObject ==
    [exists : BOOLEAN, st : BOOLEAN,
     hold : BOOLEAN, retry : 0 .. MaxRetries, ekey : Edits, lkey : Edits,
     phase : Phase, drive : Drives \cup {None}, attempts : Attempts,
     observed : 0 .. MaxRetries, backup : Versions, rescue : BOOLEAN,
     encKey : Edits \cup {None}, pubKey : Edits \cup {None}, published : BOOLEAN,
     heartbeat : Stamp, since : Stamp]

NoObject ==
    [exists |-> FALSE, st |-> FALSE, hold |-> FALSE, retry |-> 0, ekey |-> 0,
     lkey |-> 0, phase |-> "Detected", drive |-> None, attempts |-> 0,
     observed |-> 0, backup |-> 0, rescue |-> FALSE, encKey |-> None,
     pubKey |-> None, published |-> FALSE, heartbeat |-> "none", since |-> "none"]

(* A reconcile rests ("idle") or is between two API calls of a start.      *)
Reconcile == [pc : {"idle", "create", "patch"}, stage : {"e", "p"}, n : Attempts, cpu : BOOLEAN]
IdleReconcile == [pc |-> "idle", stage |-> "e", n |-> 0, cpu |-> FALSE]

(* A Job with its pod.  ekey, lkey, backup, published are what the pod     *)
(* read from the Disc when it started; src is the master it read.          *)
JobPc == {"none", "pending", "encode", "titles", "iso", "place", "movies", "record",
          "finish", "succeeded", "failed"}
JobRecord == [pc : JobPc, cpu : BOOLEAN, ekey : Edits, lkey : Edits, backup : Versions,
              published : BOOLEAN, src : Versions]
NoJob == [pc |-> "none", cpu |-> FALSE, ekey |-> 0, lkey |-> 0, backup |-> 0,
          published |-> FALSE, src |-> 0]
JobIds == {"e", "p"} \X (1 .. MaxAttempts)
SetJob(d, id, j) == job' = [job EXCEPT ![d] = [@ EXCEPT ![id] = j]]

(* A drive's task: disc is what it handles, n the attempts it read, ver    *)
(* the master it made, pending whether sectors are still missing from it.  *)
TaskPc == {"idle", "create", "get", "claim", "backup", "upload", "clean", "record", "fail",
           "eject", "handled", "unplugged", "down"}
TaskRecord == [pc : TaskPc, disc : Discs \cup {None}, n : Attempts, ver : Versions,
               pending : BOOLEAN]
IdleTask == [pc |-> "idle", disc |-> None, n |-> 0, ver |-> 0, pending |-> FALSE]

(* The work dir: master.iso, the encodes (the master and the encode fields *)
(* they were made from; version 0: none) and the kept rescue image.        *)
WorkDir == [master : Versions, enc : Versions, ekey : Edits, raw : BOOLEAN]
Library == [iso : Versions, mkv : Versions, ekey : Edits, lkey : Edits]

Budget == [insert : 0 .. MaxInserts, fault : 0 .. MaxFaults]

(* Every variable has its shape. *)
TypeOK ==
    /\ disc \in [Discs -> DiscObject]
    /\ seen \in [Discs -> DiscObject]
    /\ ctl \in [Discs -> Reconcile]
    /\ job \in [Discs -> [JobIds -> JobRecord]]
    /\ task \in [Drives -> TaskRecord]
    /\ leak \in [Drives -> SUBSET Discs]
    /\ tray \in [Drives -> Discs \cup {None}]
    /\ work \in [Discs -> WorkDir]
    /\ lib \in [Discs -> Library]
    /\ made \in [Discs -> Versions]
    /\ left \in Budget

Init ==
    /\ disc = [d \in Discs |-> NoObject]
    /\ seen = [d \in Discs |-> NoObject]
    /\ ctl = [d \in Discs |-> IdleReconcile]
    /\ job = [d \in Discs |-> [id \in JobIds |-> NoJob]]
    /\ task = [v \in Drives |-> IdleTask]
    /\ leak = [v \in Drives |-> {}]
    /\ tray = [v \in Drives |-> None]
    /\ work = [d \in Discs |-> [master |-> 0, enc |-> 0, ekey |-> 0, raw |-> FALSE]]
    /\ lib = [d \in Discs |-> [iso |-> 0, mkv |-> 0, ekey |-> 0, lkey |-> 0]]
    /\ made = [d \in Discs |-> 0]
    /\ left = [insert |-> MaxInserts, fault |-> MaxFaults]

-----------------------------------------------------------------------------
(* What the API server shows of a Job (job_state). *)
JobState(j) ==
    CASE j.pc = "none" -> "Missing"
      [] j.pc = "succeeded" -> "Succeeded"
      [] j.pc = "failed" -> "Failed"
      [] OTHER -> "Running"

(* The drive's task holds the disc's lease: its renewal task is spawned    *)
(* after the claim and aborted when backup_and_upload returns.             *)
HoldsLease(v, d) == task[v].disc = d /\ task[v].pc \in {"backup", "upload", "clean"}

(* Some task renews the disc's status.heartbeat every 30 s. *)
Renewed(d) == \E v \in Drives : HoldsLease(v, d) \/ d \in leak[v]

Fault(kind) ==
    /\ kind \in FaultKinds
    /\ left.fault > 0
    /\ left' = [left EXCEPT !.fault = @ - 1]
=============================================================================
