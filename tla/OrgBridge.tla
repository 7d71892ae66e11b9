----------------------------- MODULE OrgBridge -----------------------------
(***************************************************************************)
(* org-bridge: the objects of the org files kept in a CalDAV calendar that *)
(* people write to as well.  A start reconciles every file and then sweeps *)
(* the calendar; after that Syncthing's events say which file changed.     *)
(* Every CalDAV request is a step; files change, requests fail and the     *)
(* container or the whole pod restarts between any two.                    *)
(***************************************************************************)
EXTENDS OrgFormat

CONSTANTS
    Files,          \* the org files, as paths relative to the org directory
    Docs,           \* names of the contents a file may have
    Text,           \* the headings each of them stands for
    Absent,         \* no such file
    Stranger,       \* the UID of an object someone else put in the calendar
    MaxEdits,       \* bound on changes of files
    MaxFaults,      \* bound on requests and reads that fail
    MaxCrashes      \* bound on restarts

ASSUME BoundAssumption == MaxEdits \in Nat /\ MaxFaults \in Nat /\ MaxCrashes \in Nat
ASSUME StrangerAssumption == ~Ours(Stranger) /\ Absent \notin Docs
ASSUME FilesAssumption == Files # {} /\ IsFiniteSet(Files)
ASSUME TextAssumption == \A d \in Docs : Text[d] \in Seq(Headings)

VARIABLES
    files,      \* the org directory
    cal,        \* the calendar: UIDs to objects
    db,         \* exported_entries: UIDs to the hash and the file
    pc,         \* where main() is
    file,       \* the file being reconciled or removed
    puts,       \* objects it still has to write
    dels,       \* UIDs it still has to delete
    queue,      \* files full_reconciliation() still has to look at
    seen,       \* its seen_files
    failed,     \* its flag of that name
    full,       \* whether the event loop is yet to begin
    events,     \* the paths of Syncthing's events
    unsaid,     \* changed files whose event is yet to come
    cursor,     \* last_event_id
    clean,      \* history: nothing was missed since this pod started with an empty state
    left        \* what the environment may still do

vars == <<files, cal, db, pc, file, puts, dels, queue, seen, failed, full, events, unsaid, cursor,
          clean, left>>
env == <<files, events, unsaid>>
work == <<file, puts, dels>>
sweep == <<queue, seen, failed, full>>

Empty == [u \in {} |-> 0]
ObjectTable == [f \in Files |-> [d \in Docs \cup {Absent} |-> IF d = Absent THEN <<>> ELSE Objects(f, Text[d])]]
ObjectsIn(f) == ObjectTable[f][files[f]]
AllObjects == UNION {ToSet(ObjectTable[f][d]) : f \in Files, d \in Docs}
(* The state describes objects the calendar has, as they are there. *)
StateTrue == \A u \in DOMAIN db :
    u \in DOMAIN cal /\ \E o \in AllObjects : o.uid = u /\ o.hash = db[u].hash /\ o.ical = cal[u]
Pc == {"down", "files", "reconcile", "stale", "remove", "list", "orphans", "cursor", "loop"}

(* Every variable has its shape, and the state only ever speaks of UIDs of ours, each under its file. *)
TypeOK ==
    /\ files \in [Files -> Docs \cup {Absent}]
    /\ \A u \in DOMAIN db : Ours(u) /\ db[u].file = u.file
    /\ pc \in Pc /\ file \in Files
    /\ \A i \in DOMAIN puts : puts[i].uid.file = file
    /\ queue \subseteq Files /\ seen \subseteq Files /\ {failed, full, clean} \subseteq BOOLEAN
    /\ unsaid \subseteq Files /\ cursor \in 0 .. Len(events)
    /\ left \in [edit : 0 .. MaxEdits, fault : 0 .. MaxFaults, crash : 0 .. MaxCrashes]

(* A new pod over a calendar that holds what the last one left. *)
Init ==
    /\ \E d \in Docs \cup {Absent} : files = [f \in Files |-> d]
    /\ \E old \in Docs \cup {Absent} :
          LET was == UNION {ToSet(ObjectTable[f][old]) : f \in Files}
          IN cal = [u \in {Stranger} \cup {o.uid : o \in was} |->
                       IF u = Stranger THEN "theirs" ELSE (CHOOSE o \in was : o.uid = u).ical]
    /\ db = Empty /\ pc = "down" /\ file = (CHOOSE f \in Files : TRUE) /\ puts = <<>> /\ dels = {}
    /\ queue = {} /\ seen = {} /\ failed = FALSE /\ full = FALSE
    /\ events = <<>> /\ unsaid = {} /\ cursor = 0 /\ clean = TRUE
    /\ left = [edit |-> MaxEdits, fault |-> MaxFaults, crash |-> MaxCrashes]

-----------------------------------------------------------------------------
(* CalDavClient.  send_as() answers a 401 once, with the challenge that    *)
(* came with it: a challenge it kept and the server forgot fails no        *)
(* request.  One that does fail may still have been carried out: its       *)
(* answer was lost, or it timed out.                                       *)
SendAs(ok) ==
    IF ok THEN UNCHANGED <<clean, left>>
    ELSE /\ left.fault > 0
         /\ left' = [left EXCEPT !.fault = @ - 1]
         /\ clean' = FALSE

Without(m, uid) == Restrict(m, DOMAIN m \ {uid})
With(m, uid, v) == [u \in DOMAIN m \cup {uid} |-> IF u = uid THEN v ELSE m[u]]

PutEvent(o, ok) == SendAs(ok) /\ (cal' = With(cal, o.uid, o.ical) \/ (~ok /\ UNCHANGED cal))
DeleteEvent(uid, ok) == SendAs(ok) /\ (cal' = Without(cal, uid) \/ (~ok /\ UNCHANGED cal))

(* StateDb *)
UpsertUnderPath(o) == db' = With(db, o.uid, [hash |-> o.hash, file |-> o.uid.path])  \* mutant
Upsert(o) == db' = With(db, o.uid, [hash |-> o.hash, file |-> o.uid.file])
AllEntries(f) == DOMAIN db                                              \* mutant
EntriesForFile(f) == {u \in DOMAIN db : db[u].file = f}
DeleteFileEntries(f) == db' = Restrict(db, DOMAIN db \ EntriesForFile(f))

-----------------------------------------------------------------------------
(* reconcile_file(): what to write and to delete follows from the file and *)
(* from the state as they are now; the requests come afterwards.           *)
NewOnly(o) == o.uid \notin DOMAIN db                                    \* mutant
NeedsUpdate(o) == o.uid \notin DOMAIN db \/ db[o.uid].hash # o.hash
ReadFile(f) ==
    /\ file' = f
    /\ puts' = Passing(ObjectsIn(f), NeedsUpdate)
    /\ dels' = EntriesForFile(f) \ {o.uid : o \in ToSet(ObjectsIn(f))}
    /\ pc' = "reconcile"

Return == pc' = IF full THEN "files" ELSE "loop"

(* A failure abandons the file; full_reconciliation() notes it and goes on. *)
Abandon ==
    /\ puts' = <<>> /\ dels' = {} /\ Return
    /\ failed' = (failed \/ full)

Put ==
    /\ pc = "reconcile" /\ puts # <<>>
    /\ \E ok \in BOOLEAN :
          /\ PutEvent(Head(puts), ok)
          /\ IF ok THEN Upsert(Head(puts)) /\ puts' = Tail(puts) /\ UNCHANGED <<pc, dels, failed>>
             ELSE Abandon /\ UNCHANGED db
    /\ UNCHANGED <<env, file, queue, seen, full, cursor>>

DeleteOrphan ==
    /\ pc = "reconcile" /\ puts = <<>>
    /\ \E uid \in dels, ok \in BOOLEAN :
          /\ DeleteEvent(uid, ok)
          /\ IF ok THEN db' = Without(db, uid) /\ dels' = dels \ {uid} /\ UNCHANGED <<pc, puts, failed>>
             ELSE Abandon /\ UNCHANGED db
    /\ UNCHANGED <<env, file, queue, seen, full, cursor>>

Reconciled ==
    /\ pc = "reconcile" /\ puts = <<>> /\ dels = {}
    /\ Return
    /\ UNCHANGED <<env, cal, db, work, sweep, cursor, clean, left>>

-----------------------------------------------------------------------------
(* main(): once Syncthing answers, full_reconciliation() lists the files   *)
(* that have something to export.  A file it cannot read (a fault) counts  *)
(* as one that has nothing.                                                *)
Start ==
    /\ pc = "down"
    /\ \E unreadable \in SUBSET {f \in Files : files[f] # Absent} :
          /\ Cardinality(unreadable) <= left.fault
          /\ left' = [left EXCEPT !.fault = @ - Cardinality(unreadable)]
          /\ clean' = (StateTrue /\ unreadable = {})
          /\ queue' = {f \in Files \ unreadable : ObjectsIn(f) # <<>>}
    /\ seen' = queue'
    /\ pc' = "files" /\ full' = TRUE /\ failed' = FALSE
    /\ UNCHANGED <<env, cal, db, work, cursor>>

(* A file may be gone by the time it is read again. *)
NextFile ==
    /\ pc = "files"
    /\ \E f \in queue :
          /\ queue' = queue \ {f}
          /\ IF files[f] = Absent
             THEN failed' = TRUE /\ clean' = FALSE /\ UNCHANGED <<pc, work>>
             ELSE ReadFile(f) /\ UNCHANGED <<failed, clean>>
    /\ UNCHANGED <<env, cal, db, seen, full, cursor, left>>

(* Then the files the state knows and this pass did not see. *)
FilesDone ==
    /\ pc = "files" /\ queue = {}
    /\ queue' = {db[u].file : u \in DOMAIN db} \ seen
    /\ pc' = "stale"
    /\ UNCHANGED <<env, cal, db, work, seen, failed, full, cursor, clean, left>>

(* A file's entries leave the state first, then the calendar. *)
RemoveFile(f) ==
    /\ file' = f
    /\ dels' = EntriesForFile(f)
    /\ DeleteFileEntries(f)
    /\ pc' = "remove"

NextStale ==
    /\ pc = "stale"
    /\ \E f \in queue : RemoveFile(f) /\ queue' = queue \ {f}
    /\ UNCHANGED <<env, cal, puts, seen, failed, full, cursor, clean, left>>

(* A failed deletion ends a full reconciliation, the event loop goes on. *)
RemoveEntry ==
    /\ pc = "remove"
    /\ \E uid \in dels, ok \in BOOLEAN :
          /\ DeleteEvent(uid, ok)
          /\ IF ok \/ ~full THEN dels' = dels \ {uid} /\ UNCHANGED <<pc, queue>>
             ELSE dels' = {} /\ pc' = "cursor" /\ queue' = {}
    /\ UNCHANGED <<env, db, file, puts, seen, failed, full, cursor>>

Removed ==
    /\ pc = "remove" /\ dels = {}
    /\ pc' = IF full THEN "stale" ELSE "loop"
    /\ UNCHANGED <<env, cal, db, work, sweep, cursor, clean, left>>

StaleDone ==
    /\ pc = "stale" /\ queue = {}
    /\ pc' = IF failed THEN "cursor" ELSE "list"
    /\ UNCHANGED <<env, cal, db, work, sweep, cursor, clean, left>>

(* list_uids(): objects of ours that the state does not know. *)
UnknownOfAnyone == DOMAIN cal \ DOMAIN db                               \* mutant
Unknown == {u \in DOMAIN cal : Ours(u) /\ u \notin DOMAIN db}
List ==
    /\ pc = "list"
    /\ \E ok \in BOOLEAN :
          /\ SendAs(ok)
          /\ IF ok THEN dels' = Unknown /\ pc' = "orphans" ELSE dels' = {} /\ pc' = "cursor"
    /\ UNCHANGED <<env, cal, db, file, puts, sweep, cursor>>

Orphan ==
    /\ pc = "orphans"
    /\ \E uid \in dels, ok \in BOOLEAN : DeleteEvent(uid, ok) /\ dels' = dels \ {uid}
    /\ UNCHANGED <<env, db, pc, file, puts, sweep, cursor>>

OrphansDone ==
    /\ pc = "orphans" /\ dels = {}
    /\ pc' = "cursor"
    /\ UNCHANGED <<env, cal, db, work, sweep, cursor, clean, left>>

-----------------------------------------------------------------------------
(* get_latest_event_id(): the id of the latest event of another kind, so   *)
(* at most the latest of ours, or 0 if the request fails.  Ids of the two  *)
(* subscriptions are taken to be comparable, as the code takes them.       *)
GetLatestEventId ==
    /\ pc = "cursor"
    /\ cursor' \in 0 .. Len(events)
    /\ pc' = "loop" /\ full' = FALSE
    /\ UNCHANGED <<env, cal, db, work, queue, seen, failed, clean, left>>

(* One event: the cursor moves first, whatever becomes of the file. *)
Stuck ==                                                                \* mutant
    /\ pc = "loop" /\ cursor < Len(events)
    /\ ReadFile(events[cursor + 1])
    /\ UNCHANGED <<env, cal, db, cursor, sweep, clean, left>>
HandleEvent ==
    /\ pc = "loop" /\ cursor < Len(events)
    /\ cursor' = cursor + 1
    /\ LET f == events[cursor + 1]
       IN IF files[f] = Absent
          THEN RemoveFile(f) /\ UNCHANGED puts
          ELSE ReadFile(f) /\ UNCHANGED db
    /\ UNCHANGED <<env, cal, sweep, clean, left>>

-----------------------------------------------------------------------------
(* The environment.  Syncthing announces a change once it has found it; an *)
(* event before the cursor is read is not seen again.                      *)
Edit ==
    /\ left.edit > 0
    /\ \E f \in Files, d \in Docs \cup {Absent} :
          /\ d # files[f]
          /\ files' = [files EXCEPT ![f] = d]
          /\ unsaid' = unsaid \cup {f}
    /\ left' = [left EXCEPT !.edit = @ - 1]
    /\ UNCHANGED <<cal, db, pc, work, sweep, events, cursor, clean>>

YetToRead(f) == pc \in {"files", "reconcile"} /\ f \in queue
Announce ==
    /\ \E f \in unsaid :
          /\ events' = Append(events, f) /\ unsaid' = unsaid \ {f}
          /\ clean' = (clean /\ (full => YetToRead(f)))
    /\ UNCHANGED <<files, cal, db, pc, work, sweep, cursor, left>>

(* The container restarts and finds its state, or the pod does and does not. *)
Restart ==
    /\ pc # "down" /\ left.crash > 0
    /\ left' = [left EXCEPT !.crash = @ - 1]
    /\ pc' = "down" /\ puts' = <<>> /\ dels' = {} /\ queue' = {} /\ seen' = {}
    /\ full' = FALSE /\ failed' = FALSE /\ cursor' = 0
    /\ db' \in {db, Empty}
    /\ UNCHANGED <<env, cal, file, clean>>

Bridge ==
    \/ Start \/ NextFile \/ FilesDone \/ NextStale \/ StaleDone \/ List \/ Orphan \/ OrphansDone
    \/ Put \/ DeleteOrphan \/ Reconciled \/ RemoveEntry \/ Removed \/ GetLatestEventId \/ HandleEvent
Next == Bridge \/ Edit \/ Announce \/ Restart
Spec == Init /\ [][Next]_vars
FairSpec == Spec /\ WF_vars(Bridge) /\ WF_vars(Announce)

-----------------------------------------------------------------------------
CaughtUp == pc = "loop" /\ cursor = Len(events) /\ unsaid = {}
Wanted == UNION {ToSet(ObjectsIn(f)) : f \in Files}

(* Once the bridge has handled every event, and no request or read failed  *)
(* and no event came before the cursor was read, the calendar holds        *)
(* exactly the objects of the files, whatever an earlier pod left there    *)
(* and whether the state survived the restart or not.  Of headings that    *)
(* share a UID it holds one.                                               *)
InSync ==
    clean /\ CaughtUp =>
        /\ {u \in DOMAIN cal : Ours(u)} = {o.uid : o \in Wanted}
        /\ \A u \in {o.uid : o \in Wanted} : \E o \in Wanted : o.uid = u /\ o.ical = cal[u]

(* Nothing the bridge does changes an object that is not its own.          *)
Theirs == [u \in DOMAIN cal \cap {Stranger} |-> cal[u]]
OthersKept == [][Theirs' = Theirs]_vars

(* An object leaves the calendar only when no file asks for it, or when    *)
(* the bridge is going to look at its file again: an entry never vanishes  *)
(* for as long as its heading stands.                                      *)
Coming(f) ==
    \/ f \in unsaid
    \/ full /\ YetToRead(f)
    \/ ~full /\ \E i \in cursor + 1 .. Len(events) : events[i] = f
RemovedForGood ==
    [][\A u \in DOMAIN cal \ DOMAIN cal' :
          clean => u \notin {o.uid : o \in Wanted} \/ Coming(u.file)]_vars

(* Files that stop changing are in time all accounted for: no failure, no  *)
(* restart leaves the bridge in the middle of something.      *)
CatchesUp == <>[]CaughtUp
=============================================================================
