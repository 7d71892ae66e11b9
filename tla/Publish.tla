------------------------------- MODULE Publish -------------------------------
(***************************************************************************)
(* The publish Job at the level of files (publish.rs): one disc's ISO and  *)
(* movies in the libraries, the journal of paths an interrupted run wrote, *)
(* the record in the Disc's status, the files other people keep in the     *)
(* same libraries, and the pod dying between any two steps.                *)
(*                                                                         *)
(* A library maps a path to what is there.  `.part` files are left out: a  *)
(* copy is seen when it is renamed into place.                             *)
(***************************************************************************)
EXTENDS Integers, FiniteSets

CONSTANTS
    NumTitles,      \* the encoded titles are 1 .. NumTitles
    Names,          \* the file names a layout can give a title
    Isos,           \* the paths a layout can give the ISO
    None,           \* nothing there, no path
    Stranger,       \* a file somebody put at a path the disc did not claim
    Guest,          \* a file somebody put at a path the disc did claim
    MaxEdits,       \* bound on layout edits
    MaxEncodings,   \* bound on encode Jobs (and on new masters)
    MaxCrashes,     \* bound on pods that die
    MaxStrangers,   \* bound on the files people add
    MaxDeletes,     \* bound on the files of the disc people delete
    HandOver        \* whether an edit may give a title the path another title has

ASSUME PublishAssumption ==
    /\ NumTitles \in Nat \ {0} /\ MaxEdits \in Nat /\ MaxEncodings \in Nat \ {0}
    /\ MaxCrashes \in Nat /\ MaxStrangers \in Nat /\ MaxDeletes \in Nat
    /\ HandOver \in BOOLEAN
    /\ Names # {} /\ Isos # {} /\ None \notin Names /\ None \notin Isos
    /\ None # Stranger /\ None # Guest /\ Stranger # Guest

Titles == 1 .. NumTitles

(* A name as the layout gives it, or kept_both_name() of it ("- dvdrip"). *)
Paths == Names \X {"plain", "dvdrip"}
Plain(name) == <<name, "plain">>
KeptBoth(p) == <<p[1], "dvdrip">>

(* Where a publish can put a title that the layout gives this name. *)
Outcomes(name) == IF name = None THEN {None} ELSE {Plain(name), KeptBoth(Plain(name))}

Versions == 0 .. MaxEncodings
Images == {<<"iso", n>> : n \in Versions \ {0}}
Movies == Titles \X (Versions \ {0})

(* The two libraries have no path in common, and nothing is taken for another. *)
ASSUME PathAssumption ==
    /\ Paths \cap Isos = {} /\ None \notin Paths
    /\ {Stranger, Guest, None} \cap (Images \cup Movies) = {}

(* What layout() computes from the spec: a path for the ISO, and for each  *)
(* title a name of its own or none (junk, unsorted bumpers).               *)
Layouts ==
    {l \in [iso : Isos, dest : [Titles -> Names \cup {None}]] :
        \A t, u \in Titles : t # u /\ l.dest[t] # None => l.dest[t] # l.dest[u]}

VARIABLES
    dvd,        \* media-dvd
    movies,     \* media-movies
    master,     \* the work dir's master.iso (a version; 0: none)
    encodes,    \* the work dir's encodes by title (a version; 0: none)
    journal,    \* publish-journal.json: paths written by runs that did not finish
    status,     \* status.published
    layout,     \* the layout the spec asks for
    run,        \* the publish Job's pod
    latest,     \* the latest version of master and encodes
    left        \* what the environment may still do

vars == <<dvd, movies, master, encodes, journal, status, layout, run, latest, left>>

Published == [iso : Isos \cup {None}, files : [Titles -> Paths \cup {None}]]
NothingPublished == [iso |-> None, files |-> [t \in Titles |-> None]]

(* The pod: where it is, the title it is at, what it read when it started  *)
(* (layout, status and the paths that are ours), the target it chose and   *)
(* the record it builds.  It can end "refused" (a file "was not published  *)
(* by this disc") or "missing" (neither a source nor a published file).    *)
RunPc == {"ready", "iso", "isocopy", "isonote", "isoold", "isomove", "target", "place", "note",
          "old", "move", "record", "finish", "journal", "succeeded", "refused", "missing", "died"}
Run == [pc : RunPc, t : 1 .. NumTitles + 1, lay : Layouts, prev : Published,
        ours : SUBSET (Paths \cup Isos), dest : Paths \cup {None}, out : Published]

TypeOK ==
    /\ dvd \in [Isos -> Images \cup {None, Stranger, Guest}]
    /\ movies \in [Paths -> Movies \cup {None, Stranger, Guest}]
    /\ master \in Versions
    /\ encodes \in [Titles -> Versions]
    /\ journal \subseteq Paths \cup Isos
    /\ status \in Published
    /\ layout \in Layouts
    /\ run \in Run
    /\ latest \in Versions \ {0}
    /\ left \in [edit : 0 .. MaxEdits, crash : 0 .. MaxCrashes, add : 0 .. MaxStrangers,
                delete : 0 .. MaxDeletes]

AtRest(pc) == pc \in {"ready", "succeeded", "refused", "missing", "died"}

(* The first backup is encoded and to be published for the first time. *)
Init ==
    /\ dvd = [p \in Isos |-> None]
    /\ movies = [p \in Paths |-> None]
    /\ master = 1
    /\ encodes = [t \in Titles |-> 1]
    /\ journal = {}
    /\ status = NothingPublished
    /\ layout \in Layouts
    /\ run = [pc |-> "ready", t |-> 1, lay |-> layout, prev |-> NothingPublished,
              ours |-> {}, dest |-> None, out |-> NothingPublished]
    /\ latest = 1
    /\ left = [edit |-> MaxEdits, crash |-> MaxCrashes, add |-> MaxStrangers,
             delete |-> MaxDeletes]

-----------------------------------------------------------------------------
Recorded(p) == {p.files[t] : t \in Titles} \ {None}

(* The layout differs from the one published (the controller's publishKey). *)
LayoutEdited ==
    \/ status.iso # layout.iso
    \/ \E t \in Titles : status.files[t] \notin Outcomes(layout.dest[t])

Rest(outcome) ==
    run' = [run EXCEPT !.pc = outcome, !.t = 1, !.lay = layout, !.prev = NothingPublished,
                       !.ours = {}, !.dest = None, !.out = NothingPublished]
GiveUp(why) ==
    /\ Rest(why)
    /\ UNCHANGED <<dvd, movies, master, encodes, journal, status, layout, latest, left>>

(* publish(): the spec, the status and the journal are read once. *)
Start ==
    /\ run.pc = "ready" \/ (run.pc = "succeeded" /\ LayoutEdited)
    /\ run' = [pc |-> "iso", t |-> 1, lay |-> layout, prev |-> status,
               ours |-> Recorded(status) \cup journal, dest |-> None,
               out |-> [NothingPublished EXCEPT !.iso = layout.iso]]
    /\ UNCHANGED <<dvd, movies, master, encodes, journal, status, layout, latest, left>>

(* The ISO, with a master: nothing is at its path, or what is there counts *)
(* as the disc's own; it is copied, verified and renamed over what is      *)
(* there by then.                                                          *)
IsoMine == run.prev.iso = run.lay.iso \/ run.lay.iso \in run.ours
CheckIso ==
    /\ run.pc = "iso" /\ master # 0
    /\ dvd[run.lay.iso] = None \/ IsoMine
    /\ run' = [run EXCEPT !.pc = "isocopy"]
    /\ UNCHANGED <<dvd, movies, master, encodes, journal, status, layout, latest, left>>
CopyIso ==
    /\ run.pc = "isocopy"
    /\ dvd' = [dvd EXCEPT ![run.lay.iso] = <<"iso", master>>]
    /\ run' = [run EXCEPT !.pc = "isonote"]
    /\ UNCHANGED <<movies, master, encodes, journal, status, layout, latest, left>>

NoteIso ==
    /\ run.pc = "isonote"
    /\ journal' = journal \cup {run.lay.iso}
    /\ run' = [run EXCEPT !.pc = "isoold"]
    /\ UNCHANGED <<dvd, movies, master, encodes, status, layout, latest, left>>

RemoveAnyOldIso ==                                                      \* mutant
    /\ run.pc = "isoold"
    /\ dvd' = IF run.prev.iso \in Isos THEN [dvd EXCEPT ![run.prev.iso] = None] ELSE dvd
    /\ run' = [run EXCEPT !.pc = "target"]
    /\ UNCHANGED <<movies, master, encodes, journal, status, layout, latest, left>>
RemoveOldIso ==
    /\ run.pc = "isoold"
    /\ dvd' = IF run.prev.iso \in Isos \ {run.lay.iso}
              THEN [dvd EXCEPT ![run.prev.iso] = None] ELSE dvd
    /\ run' = [run EXCEPT !.pc = "target"]
    /\ UNCHANGED <<movies, master, encodes, journal, status, layout, latest, left>>

(* The ISO, without a master: it is there, or it is moved (relocate(),     *)
(* which looks at the path and then renames).                              *)
IsoThere ==
    /\ dvd[run.lay.iso] # None
    /\ run.prev.iso = run.lay.iso \/ (run.prev.iso = None /\ run.lay.iso \in run.ours)
IsoMovable ==
    /\ run.prev.iso \in Isos \ {run.lay.iso}
    /\ dvd[run.lay.iso] = None
    /\ dvd[run.prev.iso] # None
KeepIso ==
    /\ run.pc = "iso" /\ master = 0
    /\ IsoThere
    /\ run' = [run EXCEPT !.pc = "target"]
    /\ UNCHANGED <<dvd, movies, master, encodes, journal, status, layout, latest, left>>
CheckMoveIso ==
    /\ run.pc = "iso" /\ master = 0
    /\ IsoMovable
    /\ run' = [run EXCEPT !.pc = "isomove"]
    /\ UNCHANGED <<dvd, movies, master, encodes, journal, status, layout, latest, left>>
MoveIso ==
    /\ run.pc = "isomove"
    /\ dvd' = [dvd EXCEPT ![run.lay.iso] = dvd[run.prev.iso], ![run.prev.iso] = None]
    /\ run' = [run EXCEPT !.pc = "target"]
    /\ UNCHANGED <<movies, master, encodes, journal, status, layout, latest, left>>

RefuseIso ==
    /\ run.pc = "iso"
    /\ dvd[run.lay.iso] # None
    /\ IF master # 0 THEN ~IsoMine ELSE run.prev.iso \in Isos \ {run.lay.iso}
    /\ GiveUp("refused")
NoIso ==
    /\ run.pc = "iso" /\ master = 0
    /\ ~IsoThere /\ ~IsoMovable
    /\ ~(dvd[run.lay.iso] # None /\ run.prev.iso \in Isos \ {run.lay.iso})
    /\ GiveUp("missing")

-----------------------------------------------------------------------------
SkipTitle == [run EXCEPT !.pc = "target", !.t = @ + 2, !.dest = None,    \* mutant
                         !.out = [@ EXCEPT !.files[run.t] = run.dest]]
NextTitle == [run EXCEPT !.pc = "target", !.t = @ + 1, !.dest = None,
                         !.out = [@ EXCEPT !.files[run.t] = run.dest]]

(* target(): the layout's path, unless a stranger's file is there; then    *)
(* beside it, unless that is a stranger's too.                             *)
Free(p) == movies[p] = None \/ p \in run.ours
TargetBeside(p) == IF Free(p) THEN p ELSE KeptBoth(p)                  \* mutant
Target(p) == IF Free(p) THEN p ELSE IF Free(KeptBoth(p)) THEN KeptBoth(p) ELSE None
ChooseTarget ==
    /\ run.pc = "target" /\ run.t \in Titles
    /\ LET name == run.lay.dest[run.t] IN
         IF name = None
         THEN run' = [run EXCEPT !.t = @ + 1]
         ELSE /\ Target(Plain(name)) # None
              /\ run' = [run EXCEPT !.pc = "place", !.dest = Target(Plain(name))]
    /\ UNCHANGED <<dvd, movies, master, encodes, journal, status, layout, latest, left>>

RefuseTarget ==
    /\ run.pc = "target" /\ run.t \in Titles
    /\ run.lay.dest[run.t] # None
    /\ Target(Plain(run.lay.dest[run.t])) = None
    /\ GiveUp("refused")

OldPath == run.prev.files[run.t]

(* A fresh encode: copied, verified, renamed over whatever is there now. *)
PlaceEncode ==
    /\ run.pc = "place" /\ encodes[run.t] # 0
    /\ movies' = [movies EXCEPT ![run.dest] = <<run.t, encodes[run.t]>>]
    /\ run' = [run EXCEPT !.pc = "note"]
    /\ UNCHANGED <<dvd, master, encodes, journal, status, layout, latest, left>>

NoteEncode ==
    /\ run.pc = "note"
    /\ journal' = journal \cup {run.dest}
    /\ run' = [run EXCEPT !.pc = "old"]
    /\ UNCHANGED <<dvd, movies, master, encodes, status, layout, latest, left>>

RemoveOld ==
    /\ run.pc = "old"
    /\ movies' = IF OldPath \in Paths \ {run.dest}
                 THEN [movies EXCEPT ![OldPath] = None] ELSE movies
    /\ run' = NextTitle
    /\ UNCHANGED <<dvd, master, encodes, journal, status, layout, latest, left>>

(* No fresh encode: the published file stays or is moved (relocate()). *)
Stays == OldPath = run.dest /\ movies[run.dest] # None
Movable == OldPath \in Paths \ {run.dest} /\ movies[run.dest] = None /\ movies[OldPath] # None
KeepMovie ==
    /\ run.pc = "place" /\ encodes[run.t] = 0
    /\ Stays
    /\ run' = NextTitle
    /\ UNCHANGED <<dvd, movies, master, encodes, journal, status, layout, latest, left>>
CheckMoveMovie ==
    /\ run.pc = "place" /\ encodes[run.t] = 0
    /\ Movable
    /\ run' = [run EXCEPT !.pc = "move"]
    /\ UNCHANGED <<dvd, movies, master, encodes, journal, status, layout, latest, left>>
MoveMovie ==
    /\ run.pc = "move"
    /\ movies' = [movies EXCEPT ![run.dest] = movies[OldPath], ![OldPath] = None]
    /\ run' = NextTitle
    /\ UNCHANGED <<dvd, master, encodes, journal, status, layout, latest, left>>
RefuseMovie ==
    /\ run.pc = "place" /\ encodes[run.t] = 0
    /\ OldPath \in Paths \ {run.dest} /\ movies[run.dest] # None
    /\ GiveUp("refused")
NoMovie ==
    /\ run.pc = "place" /\ encodes[run.t] = 0
    /\ ~Stays /\ ~Movable
    /\ ~(OldPath \in Paths \ {run.dest} /\ movies[run.dest] # None)
    /\ GiveUp("missing")

(* What this disc published before and no longer wants. *)
RemoveAllOld ==                                                         \* mutant
    /\ run.pc = "target" /\ run.t = NumTitles + 1
    /\ movies' = [p \in Paths |-> IF p \in Recorded(run.prev) THEN None ELSE movies[p]]
    /\ run' = [run EXCEPT !.pc = "record"]
    /\ UNCHANGED <<dvd, master, encodes, journal, status, layout, latest, left>>
RemoveUnwanted ==
    /\ run.pc = "target" /\ run.t = NumTitles + 1
    /\ movies' = [p \in Paths |-> IF p \in Recorded(run.prev) \ Recorded(run.out)
                                  THEN None ELSE movies[p]]
    /\ run' = [run EXCEPT !.pc = "record"]
    /\ UNCHANGED <<dvd, master, encodes, journal, status, layout, latest, left>>

RecordPublished ==
    /\ run.pc = "record"
    /\ status' = run.out
    /\ run' = [run EXCEPT !.pc = "finish"]
    /\ UNCHANGED <<dvd, movies, master, encodes, journal, layout, latest, left>>

(* finish(): published encodes and the master leave the work dir (nothing  *)
(* reads it between two of the removals), then the journal.                *)
Finish ==
    /\ run.pc = "finish"
    /\ encodes' = [t \in Titles |-> IF run.out.files[t] # None THEN 0 ELSE encodes[t]]
    /\ master' = 0
    /\ run' = [run EXCEPT !.pc = "journal"]
    /\ UNCHANGED <<dvd, movies, journal, status, layout, latest, left>>
FinishJournal ==
    /\ run.pc = "journal"
    /\ journal' = {}
    /\ Rest("succeeded")
    /\ UNCHANGED <<dvd, movies, master, encodes, status, layout, latest, left>>

PublishStep ==
    \/ Start \/ CheckIso \/ CopyIso \/ NoteIso \/ RemoveOldIso
    \/ KeepIso \/ CheckMoveIso \/ MoveIso \/ RefuseIso \/ NoIso
    \/ ChooseTarget \/ RefuseTarget \/ PlaceEncode \/ NoteEncode \/ RemoveOld
    \/ KeepMovie \/ CheckMoveMovie \/ MoveMovie \/ RefuseMovie \/ NoMovie
    \/ RemoveUnwanted \/ RecordPublished \/ Finish \/ FinishJournal

-----------------------------------------------------------------------------
(* The pod dies: the Job fails, or its object is gone and a new one starts. *)
(* The journal is written in place, so a pod that dies writing it can leave *)
(* one that does not parse, which reads as empty.                          *)
Crash ==
    /\ ~AtRest(run.pc)
    /\ left.crash > 0
    /\ left' = [left EXCEPT !.crash = @ - 1]
    /\ \E outcome \in {"died", "ready"} : Rest(outcome)
    /\ journal' \in {journal} \cup (IF run.pc \in {"isonote", "note"} THEN {{}} ELSE {})
    /\ UNCHANGED <<dvd, movies, master, encodes, status, layout, latest>>

(* A retry encodes first, from the work dir's master or the ISO the status *)
(* records; encodes that are there are kept.                               *)
HaveImage == master # 0 \/ (status.iso # None /\ dvd[status.iso] # None)
Retry ==
    /\ run.pc \in {"refused", "missing", "died"}
    /\ HaveImage
    /\ encodes' = [t \in Titles |-> IF encodes[t] = 0 THEN latest ELSE encodes[t]]
    /\ Rest("ready")
    /\ UNCHANGED <<dvd, movies, master, journal, status, layout, latest, left>>

(* An edit of mainTitle or protected encodes a published disc again; the   *)
(* rescue of a damaged one brings a new master as well.                    *)
EncodeAgain ==
    /\ run.pc = "succeeded" /\ latest < MaxEncodings
    /\ HaveImage
    /\ latest' = latest + 1
    /\ encodes' = [t \in Titles |-> latest + 1]
    /\ master' \in {master, latest + 1}
    /\ Rest("ready")
    /\ UNCHANGED <<dvd, movies, journal, status, layout, left>>

(* People edit spec.name, spec.disc or spec.titles between publishes. *)
Edit ==
    /\ AtRest(run.pc)
    /\ left.edit > 0
    /\ left' = [left EXCEPT !.edit = @ - 1]
    /\ \E l \in Layouts \ {layout} :
         /\ HandOver \/ \A t, u \in Titles :
               t # u /\ l.dest[t] # None => status.files[u] \notin Outcomes(l.dest[t])
         /\ layout' = l
         /\ run' = [run EXCEPT !.lay = l]
    /\ UNCHANGED <<dvd, movies, master, encodes, journal, status, latest>>

(* The paths the disc claims: those of its record and its journal, those   *)
(* of the titles a pod has done, and the one it has looked at and writes   *)
(* to.  What is there publish takes for the disc's own.                    *)
PastIso == {"isocopy", "isonote", "isoold", "isomove", "target", "place", "note", "old", "move",
            "record", "finish", "journal"}
AtTitle == {"place", "note", "old", "move"}
Claims ==
    Recorded(status) \cup {status.iso} \cup journal \cup Recorded(run.out)
    \cup (IF run.pc \in PastIso THEN {run.lay.iso} ELSE {})
    \cup (IF run.pc \in AtTitle THEN {run.dest} ELSE {})

(* People put files of their own into the libraries where there are none,  *)
(* whatever a pod is doing.                                                *)
Theirs(p) == IF p \in Claims THEN Guest ELSE Stranger
AddFile ==
    /\ left.add > 0
    /\ left' = [left EXCEPT !.add = @ - 1]
    /\ \/ \E p \in Isos :
            /\ dvd[p] = None
            /\ dvd' = [dvd EXCEPT ![p] = Theirs(p)]
            /\ UNCHANGED movies
       \/ \E p \in Paths :
            /\ movies[p] = None
            /\ movies' = [movies EXCEPT ![p] = Theirs(p)]
            /\ UNCHANGED dvd
    /\ UNCHANGED <<master, encodes, journal, status, layout, run, latest>>

(* People delete what a Done disc published, the ISO or a movie. *)
Delete ==
    /\ run.pc = "succeeded"
    /\ left.delete > 0
    /\ left' = [left EXCEPT !.delete = @ - 1]
    /\ \/ \E p \in Isos :
            /\ dvd[p] \in Images
            /\ dvd' = [dvd EXCEPT ![p] = None]
            /\ UNCHANGED movies
       \/ \E p \in Paths :
            /\ movies[p] \in Movies
            /\ movies' = [movies EXCEPT ![p] = None]
            /\ UNCHANGED dvd
    /\ UNCHANGED <<master, encodes, journal, status, layout, run, latest>>
NobodyDeleted == left.delete = MaxDeletes

Next == PublishStep \/ Crash \/ Retry \/ EncodeAgain \/ Edit \/ AddFile \/ Delete

Spec == Init /\ [][Next]_vars

-----------------------------------------------------------------------------
(* A file that was put where the disc claimed nothing is never             *)
(* overwritten, moved or removed: not by a publish, whatever people add    *)
(* while it runs, and not by one that picks up a crashed one.  The promise *)
(* of publish.rs:3 is wider, and the code does not keep it for a Guest: a  *)
(* file put where the disc's own was recorded and is gone, or where a pod  *)
(* has looked and is about to write.                                       *)
StrangersKept ==
    [][/\ \A p \in Isos : dvd[p] = Stranger => dvd'[p] = Stranger
       /\ \A p \in Paths : movies[p] = Stranger => movies'[p] = Stranger]_vars

(* The disc's image is in the work dir or in media-dvd at every moment,    *)
(* wherever a publish, a move or a clean-up is cut off, unless people      *)
(* delete it.                                                              *)
ImageKept == NobodyDeleted => master # 0 \/ \E p \in Isos : dvd[p] \in Images

(* What a publish recorded is in the libraries, from before it cleans the  *)
(* work dir on until people delete it: the ISO, and for each title that    *)
(* title's own encode, the latest one; or a Guest, which the publish found *)
(* in the place of its own and took for it.                                *)
RecordTrue ==
    run.pc \in {"finish", "journal"} \/ (run.pc = "succeeded" /\ NobodyDeleted) =>
        /\ dvd[status.iso] \in Images \cup {Guest}
        /\ \A t \in Titles : status.files[t] # None =>
              movies[status.files[t]] \in {<<t, latest>>, Guest}
=============================================================================
