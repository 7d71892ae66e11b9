---------------------------- MODULE PublishProofs ----------------------------
(***************************************************************************)
(* What a publish leaves in the libraries, for any number of titles, names *)
(* and paths and any number of edits, crashes, encodes and files of other  *)
(* people.                                                                 *)
(***************************************************************************)
EXTENDS Publish, TLAPS

\* Where a pod has the ISO in place, and where it has not yet recorded anything.
IsoPlaced == PastIso \ {"isocopy", "isomove"}
BeforeRecord == {"iso", "isocopy", "isonote", "isoold", "isomove", "target", "place", "note", "old",
                 "move", "record"}

\* TypeOK is not inductive: a step at a title writes that title's entry, and a move
\* acts on what the pod looked at before, which still is so: only people come between.
TitleOK == run.pc \in AtTitle => run.t \in Titles /\ run.dest \in Paths
Checked ==
    /\ run.pc \in {"isocopy", "isonote", "isoold"} => master # 0
    /\ run.pc = "isomove" =>
          /\ master = 0
          /\ run.prev.iso \in Isos \ {run.lay.iso} /\ dvd[run.prev.iso] # None
          /\ dvd[run.lay.iso] \notin Images
    /\ run.pc = "move" =>
          /\ encodes[run.t] = 0
          /\ OldPath \in Paths \ {run.dest} /\ movies[OldPath] # None
Typed == TypeOK /\ TitleOK /\ Checked

\* What the pod read when it started is still so: people edit between publishes.
Reading ==
    /\ run.lay = layout
    /\ run.pc \in BeforeRecord => run.prev = status
    /\ ~AtRest(run.pc) => run.out.iso = run.lay.iso
    /\ run.pc \in {"finish", "journal"} => status = run.out

\* ImageKept, and: a pod past the ISO has put the master, if there is one, into
\* media-dvd, so the master and an old ISO can go.
ImageInv ==
    /\ ImageKept
    /\ run.pc \in IsoPlaced /\ master # 0 => dvd[run.lay.iso] \in Images

\* What a pod takes for the disc's own is what the record and the journal name.
OursInv == run.pc \in BeforeRecord => run.ours \subseteq Recorded(status) \cup journal

\* No claimed path holds a stranger's file.
NotTheirs(p) == (p \in Isos => dvd[p] # Stranger) /\ (p \in Paths => movies[p] # Stranger)
StrangerInv == \A p \in Claims : NotTheirs(p)

\* No title is given a path that another title has.
NoHandOver ==
    \A t, u \in Titles : t # u /\ layout.dest[t] # None => status.files[u] \notin Outcomes(layout.dest[t])

\* An encode is the latest or published; a published one is where it was recorded
\* or was deleted; somebody may have put a file there since.
EncodesInv ==
    \A t \in Titles :
        /\ encodes[t] \in {0, latest}
        /\ encodes[t] = 0 /\ status.files[t] # None => movies[status.files[t]] \in {None, <<t, latest>>, Guest}

\* The titles a pod has done are in place, and so is the ISO.
ProgressInv ==
    /\ run.pc \in IsoPlaced => dvd[run.lay.iso] \in Images \cup {Guest}
    /\ run.pc \in PastIso \cup {"iso"} => \A t \in Titles :
          /\ t >= run.t => run.out.files[t] = None
          /\ run.out.files[t] # None => /\ run.lay.dest[t] # None
                                        /\ run.out.files[t] \in Outcomes(run.lay.dest[t])
                                        /\ movies[run.out.files[t]] \in {<<t, latest>>, Guest}
    /\ run.pc \in AtTitle => run.lay.dest[run.t] # None /\ run.dest \in Outcomes(run.lay.dest[run.t])
    /\ run.pc \in {"note", "old"} => movies[run.dest] = <<run.t, latest>>
    /\ run.pc = "succeeded" => status.iso \in Isos

RecordInv == NoHandOver /\ EncodesInv /\ ProgressInv /\ RecordTrue
-----------------------------------------------------------------------------
\* The kinds of things a library holds are told apart.
LEMMA Kinds ==
    /\ None \notin Images /\ Stranger \notin Images /\ None \notin Movies /\ Stranger \notin Movies
    /\ Guest \notin Images /\ Guest \notin Movies /\ None # Guest /\ Stranger # Guest
    /\ None # Stranger /\ None \notin Paths /\ None \notin Isos /\ None \notin Names
    /\ 1 \in Titles /\ 1 \in 1 .. NumTitles + 1 /\ 1 \in Versions
BY PublishAssumption, PathAssumption DEF Titles, Versions

\* Where a title can go is a path, never none; two names share no path.
LEMMA OutcomePaths ==
    ASSUME NEW n \in Names
    PROVE  /\ Plain(n) \in Paths /\ KeptBoth(Plain(n)) \in Paths
           /\ n # None /\ Outcomes(n) = {Plain(n), KeptBoth(Plain(n))} /\ None \notin Outcomes(n)
BY Kinds DEF Plain, KeptBoth, Outcomes, Paths
\* Two names share no outcome.
LEMMA OutcomesApart ==
    ASSUME NEW n \in Names, NEW m \in Names, n # m
    PROVE  Outcomes(n) \cap Outcomes(m) = {}
  <1>1. \A k \in Names : \A p \in Outcomes(k) : p[1] = k
    <2> SUFFICES ASSUME NEW k \in Names, NEW p \in Outcomes(k) PROVE p[1] = k
      OBVIOUS
    <2>1. p \in {<<k, "plain">>, <<k, "dvdrip">>}
      BY OutcomePaths DEF Plain, KeptBoth
    <2>2. QED
      BY <2>1
  <1>2. QED
    BY <1>1

\* The record of a disc that published nothing.
LEMMA EmptyRecord ==
    /\ NothingPublished \in Published /\ Recorded(NothingPublished) = {}
    /\ NothingPublished.iso = None /\ \A t \in Titles : NothingPublished.files[t] = None
BY DEF NothingPublished, Published, Recorded

\* What the pod's record of a title looks like when it goes on to the next.
LEMMA NextTitleRun ==
    ASSUME run \in Run, run.t \in Titles, run.dest \in Paths \cup {None}
    PROVE  /\ NextTitle \in Run
           /\ NextTitle.pc = "target" /\ NextTitle.t = run.t + 1 /\ NextTitle.lay = run.lay
           /\ NextTitle.prev = run.prev /\ NextTitle.ours = run.ours /\ NextTitle.dest = None
           /\ NextTitle.out.iso = run.out.iso
           /\ \A u \in Titles : NextTitle.out.files[u] = IF u = run.t THEN run.dest ELSE run.out.files[u]
  <1> DEFINE fs == [run.out.files EXCEPT ![run.t] = run.dest]
             o == [run.out EXCEPT !.files = fs]
  <1>1. run.out \in Published /\ run.out.files \in [Titles -> Paths \cup {None}]
    BY DEF Run, Published
  <1>2. fs \in [Titles -> Paths \cup {None}] /\ \A u \in Titles : fs[u] = IF u = run.t THEN run.dest ELSE run.out.files[u]
    BY <1>1
  <1>3. o \in Published /\ o.iso = run.out.iso /\ o.files = fs
    BY <1>1, <1>2 DEF Published
  <1>4. NextTitle = [run EXCEPT !.pc = "target", !.t = run.t + 1, !.dest = None, !.out = o]
    BY DEF NextTitle
  <1>5. run.t + 1 \in 1 .. NumTitles + 1
    BY PublishAssumption DEF Titles
  <1> HIDE DEF fs, o
  <1>6. QED
    BY <1>2, <1>3, <1>4, <1>5 DEF Run, RunPc

\* What a pod at rest looks like, and one that starts.
LEMMA RestRun ==
    ASSUME TypeOK, NEW pc \in RunPc, Rest(pc), layout' = layout
    PROVE  /\ run' \in Run /\ run'.pc = pc /\ run'.lay = layout'
           /\ run'.t = 1 /\ run'.ours = {} /\ run'.dest = None
           /\ run'.prev = NothingPublished /\ run'.out = NothingPublished
  <1> HIDE DEF NothingPublished
  <1>1. QED
    BY EmptyRecord, Kinds DEF Rest, TypeOK, Run, Titles
\* What a pod that starts knows.
LEMMA StartRun ==
    ASSUME TypeOK, Start
    PROVE  /\ run' \in Run /\ run'.pc = "iso" /\ run'.t = 1 /\ run'.lay = layout /\ run'.prev = status
           /\ run'.ours = Recorded(status) \cup journal /\ run'.dest = None
           /\ run'.out.iso = layout.iso /\ \A t \in Titles : run'.out.files[t] = None
  <1> DEFINE o == [NothingPublished EXCEPT !.iso = layout.iso]
  <1>1. o \in Published /\ o.iso = layout.iso /\ \A t \in Titles : o.files[t] = None
    BY EmptyRecord DEF TypeOK, Published, Layouts, NothingPublished
  <1>2. Recorded(status) \cup journal \in SUBSET (Paths \cup Isos)
    BY DEF TypeOK, Published, Recorded
  <1> HIDE DEF o
  <1>3. QED
    BY <1>1, <1>2, Kinds DEF Start, TypeOK, Run, RunPc, o
-----------------------------------------------------------------------------
\* A file put at a path of a library, and one moved from a path to another.
LEMMA DvdPut ==
    ASSUME TypeOK, NEW p \in Isos, NEW x \in Images \cup {None, Stranger, Guest}
    PROVE  [dvd EXCEPT ![p] = x] \in [Isos -> Images \cup {None, Stranger, Guest}]
BY DEF TypeOK
\* A file in the movie library.
LEMMA MoviePut ==
    ASSUME TypeOK, NEW p \in Paths, NEW x \in Movies \cup {None, Stranger, Guest}
    PROVE  [movies EXCEPT ![p] = x] \in [Paths -> Movies \cup {None, Stranger, Guest}]
BY DEF TypeOK

\* The pod at a title goes for one of the layout's outcomes.
LEMMA TargetType ==
    ASSUME NEW n \in Names
    PROVE  Target(Plain(n)) \in Outcomes(n) \cup {None}
BY OutcomePaths DEF Target

\* The first state has the types.
LEMMA InitTyped == Init => Typed /\ Reading
  <1> SUFFICES ASSUME Init PROVE Typed /\ Reading
    OBVIOUS
  <1> HIDE DEF NothingPublished
  <1>1. run \in Run /\ run.pc = "ready" /\ run.lay = layout
    BY EmptyRecord, Kinds DEF Init, Run, RunPc
  <1>2. left \in [edit : 0 .. MaxEdits, crash : 0 .. MaxCrashes, add : 0 .. MaxStrangers,
                  delete : 0 .. MaxDeletes]
    BY PublishAssumption DEF Init
  <1>3. TypeOK
    BY <1>1, <1>2, EmptyRecord, Kinds, PublishAssumption DEF Init, TypeOK
  <1>4. QED
    BY <1>1, <1>3 DEF Typed, TitleOK, Checked, Reading, AtTitle, BeforeRecord, AtRest

\* A pod that gives up keeps the types.
LEMMA GiveUpTyped ==
    ASSUME Typed, Reading, NEW why \in {"refused", "missing"}, GiveUp(why)
    PROVE  Typed' /\ Reading'
  <1> USE DEF Typed
  <1>1. why \in RunPc /\ AtRest(why) /\ why \notin AtTitle \cup BeforeRecord \cup {"isomove", "move", "finish", "journal"}
    BY DEF RunPc, AtRest, AtTitle, BeforeRecord
  <1>2. run' \in Run /\ run'.pc = why /\ run'.lay = layout'
    BY <1>1, RestRun DEF GiveUp
  <1>3. QED
    BY <1>1, <1>2 DEF GiveUp, TypeOK, TitleOK, Checked, Reading

\* Only the place in the run changes.
LEMMA PcRun ==
    ASSUME TypeOK, NEW pc \in RunPc
    PROVE  LET r == [run EXCEPT !.pc = pc] IN
             /\ r \in Run /\ r.pc = pc /\ r.t = run.t /\ r.lay = run.lay /\ r.prev = run.prev
             /\ r.ours = run.ours /\ r.dest = run.dest /\ r.out = run.out
BY DEF TypeOK, Run

\* Every step of the pod keeps the types.
LEMMA PublishTyped ==
    ASSUME Typed, Reading, PublishStep
    PROVE  Typed' /\ Reading'
  <1> USE DEF Typed
  <1>0. /\ run \in Run /\ run.pc \in RunPc /\ run.lay \in Layouts /\ run.lay.iso \in Isos
        /\ run.lay.dest \in [Titles -> Names \cup {None}]
        /\ run.prev \in Published /\ run.out \in Published
        /\ run.prev.iso \in Isos \cup {None} /\ run.prev.files \in [Titles -> Paths \cup {None}]
    BY DEF TypeOK, Run, Layouts, Published
  <1>1. CASE Start
    BY <1>1, StartRun DEF Start, TypeOK, TitleOK, Checked, Reading, AtTitle, BeforeRecord, AtRest
  <1>2. CASE CopyIso
    <2>1. <<"iso", master>> \in Images
      BY <1>2 DEF CopyIso, TypeOK, Images, Checked
    <2>2. dvd' \in [Isos -> Images \cup {None, Stranger, Guest}]
      BY <1>0, <1>2, <2>1, DvdPut DEF CopyIso
    <2>3. run' \in Run /\ run'.pc = "isonote" /\ run'.lay = run.lay /\ run'.prev = run.prev /\ run'.out = run.out
      BY <1>2, PcRun DEF CopyIso, RunPc
    <2>4. QED
      BY <1>2, <2>2, <2>3 DEF CopyIso, TypeOK, TitleOK, Checked, Reading, AtTitle, BeforeRecord, AtRest
  <1>2a. CASE CheckIso
    <2>1. run' \in Run /\ run'.pc = "isocopy" /\ run'.lay = run.lay /\ run'.prev = run.prev /\ run'.out = run.out
      BY <1>2a, PcRun DEF CheckIso, RunPc
    <2>2. QED
      BY <1>2a, <2>1 DEF CheckIso, TypeOK, TitleOK, Checked, Reading, AtTitle, BeforeRecord, AtRest
  <1>2b. CASE CheckMoveIso
    <2>1. run' \in Run /\ run'.pc = "isomove" /\ run'.lay = run.lay /\ run'.prev = run.prev /\ run'.out = run.out
      BY <1>2b, PcRun DEF CheckMoveIso, RunPc
    <2>2. Checked'
      BY <1>2b, <2>1, Kinds DEF CheckMoveIso, IsoMovable, Checked
    <2>3. QED
      BY <1>2b, <2>1, <2>2 DEF CheckMoveIso, TypeOK, TitleOK, Reading, AtTitle, BeforeRecord, AtRest
  <1>3. CASE NoteIso
    <2>1. run' \in Run /\ run'.pc = "isoold" /\ run'.lay = run.lay /\ run'.prev = run.prev /\ run'.out = run.out
      BY <1>3, PcRun DEF NoteIso, RunPc
    <2>2. QED
      BY <1>0, <1>3, <2>1 DEF NoteIso, TypeOK, TitleOK, Checked, Reading, AtTitle, BeforeRecord, AtRest
  <1>4. CASE RemoveOldIso
    <2>1. dvd' \in [Isos -> Images \cup {None, Stranger, Guest}]
      BY <1>0, <1>4, DvdPut DEF RemoveOldIso, TypeOK
    <2>2. run' \in Run /\ run'.pc = "target" /\ run'.lay = run.lay /\ run'.prev = run.prev /\ run'.out = run.out
      BY <1>4, PcRun DEF RemoveOldIso, RunPc
    <2>3. QED
      BY <1>4, <2>1, <2>2 DEF RemoveOldIso, TypeOK, TitleOK, Checked, Reading, AtTitle, BeforeRecord, AtRest
  <1>5. CASE KeepIso
    <2>1. run' \in Run /\ run'.pc = "target" /\ run'.lay = run.lay /\ run'.prev = run.prev /\ run'.out = run.out
      BY <1>5, PcRun DEF KeepIso, RunPc
    <2>2. QED
      BY <1>5, <2>1 DEF KeepIso, TypeOK, TitleOK, Checked, Reading, AtTitle, BeforeRecord, AtRest
  <1>6. CASE MoveIso
    <2>1. dvd' \in [Isos -> Images \cup {None, Stranger, Guest}]
      BY <1>0, <1>6, DvdPut DEF MoveIso, Checked, TypeOK
    <2>2. run' \in Run /\ run'.pc = "target" /\ run'.lay = run.lay /\ run'.prev = run.prev /\ run'.out = run.out
      BY <1>6, PcRun DEF MoveIso, RunPc
    <2>3. QED
      BY <1>6, <2>1, <2>2 DEF MoveIso, TypeOK, TitleOK, Checked, Reading, AtTitle, BeforeRecord, AtRest
  <1>7. CASE RefuseIso \/ RefuseTarget \/ RefuseMovie
    BY <1>7, GiveUpTyped DEF RefuseIso, RefuseTarget, RefuseMovie
  <1>8. CASE NoIso \/ NoMovie
    BY <1>8, GiveUpTyped DEF NoIso, NoMovie
  <1>9. CASE ChooseTarget
    <2>1. CASE run.lay.dest[run.t] = None
      <3>1. run.t + 1 \in 1 .. NumTitles + 1
        BY <1>9, PublishAssumption DEF ChooseTarget, Titles
      <3>2. run' \in Run /\ run'.pc = "target" /\ run'.lay = run.lay /\ run'.prev = run.prev /\ run'.out = run.out
        BY <1>0, <1>9, <2>1, <3>1 DEF ChooseTarget, Run
      <3>3. QED
        BY <1>9, <3>2 DEF ChooseTarget, TypeOK, TitleOK, Checked, Reading, AtTitle, BeforeRecord, AtRest
    <2>2. CASE run.lay.dest[run.t] # None
      <3> DEFINE d == Target(Plain(run.lay.dest[run.t]))
      <3>1. d \in Paths
        BY <1>0, <1>9, <2>2, TargetType, OutcomePaths DEF ChooseTarget
      <3>2. run' = [run EXCEPT !.pc = "place", !.dest = d] /\ run.t \in Titles
        BY <1>9, <2>2 DEF ChooseTarget
      <3> HIDE DEF d
      <3>3. /\ run' \in Run /\ run'.pc = "place" /\ run'.lay = run.lay /\ run'.prev = run.prev /\ run'.out = run.out
            /\ run'.t = run.t /\ run'.dest = d
        BY <1>0, <3>1, <3>2 DEF Run, RunPc
      <3>4. QED
        BY <1>9, <3>1, <3>2, <3>3 DEF ChooseTarget, TypeOK, TitleOK, Checked, Reading, AtTitle, BeforeRecord, AtRest
    <2>3. QED
      BY <2>1, <2>2
  <1>10. CASE PlaceEncode
    <2>1. run.t \in Titles /\ run.dest \in Paths
      BY <1>10 DEF PlaceEncode, TitleOK, AtTitle
    <2>2. <<run.t, encodes[run.t]>> \in Movies
      BY <1>10, <2>1 DEF PlaceEncode, TypeOK, Movies
    <2>3. movies' \in [Paths -> Movies \cup {None, Stranger, Guest}]
      BY <1>10, <2>1, <2>2, MoviePut DEF PlaceEncode
    <2>4. /\ run' \in Run /\ run'.pc = "note" /\ run'.lay = run.lay /\ run'.prev = run.prev /\ run'.out = run.out
          /\ run'.t = run.t /\ run'.dest = run.dest
      BY <1>10, PcRun DEF PlaceEncode, RunPc
    <2>5. QED
      BY <1>10, <2>1, <2>3, <2>4 DEF PlaceEncode, TypeOK, TitleOK, Checked, Reading, AtTitle, BeforeRecord, AtRest
  <1>11. CASE NoteEncode
    <2>1. run.t \in Titles /\ run.dest \in Paths
      BY <1>11 DEF NoteEncode, TitleOK, AtTitle
    <2>2. /\ run' \in Run /\ run'.pc = "old" /\ run'.lay = run.lay /\ run'.prev = run.prev /\ run'.out = run.out
          /\ run'.t = run.t /\ run'.dest = run.dest
      BY <1>11, PcRun DEF NoteEncode, RunPc
    <2>3. QED
      BY <1>11, <2>1, <2>2 DEF NoteEncode, TypeOK, TitleOK, Checked, Reading, AtTitle, BeforeRecord, AtRest
  <1>11a. CASE CheckMoveMovie
    <2>1. run.t \in Titles /\ run.dest \in Paths
      BY <1>11a DEF CheckMoveMovie, TitleOK, AtTitle
    <2>2. /\ run' \in Run /\ run'.pc = "move" /\ run'.lay = run.lay /\ run'.prev = run.prev /\ run'.out = run.out
          /\ run'.t = run.t /\ run'.dest = run.dest
      BY <1>11a, PcRun DEF CheckMoveMovie, RunPc
    <2>3. Checked'
      BY <1>11a, <2>2 DEF CheckMoveMovie, Movable, OldPath, Checked
    <2>4. QED
      BY <1>11a, <2>1, <2>2, <2>3 DEF CheckMoveMovie, TypeOK, TitleOK, Reading, AtTitle, BeforeRecord, AtRest
  <1>12. CASE RemoveOld \/ KeepMovie \/ MoveMovie
    <2>1. run.t \in Titles /\ run.dest \in Paths /\ OldPath \in Paths \cup {None}
      BY <1>0, <1>12 DEF RemoveOld, KeepMovie, MoveMovie, TitleOK, AtTitle, OldPath
    <2>2. /\ run' \in Run /\ run'.pc = "target" /\ run'.lay = run.lay /\ run'.prev = run.prev
          /\ run'.out.iso = run.out.iso
      BY <1>0, <1>12, <2>1, NextTitleRun DEF RemoveOld, KeepMovie, MoveMovie
    <2>3. movies' \in [Paths -> Movies \cup {None, Stranger, Guest}]
      BY <1>12, <2>1, MoviePut DEF RemoveOld, KeepMovie, MoveMovie, TypeOK, Checked
    <2>4. UNCHANGED <<dvd, master, encodes, journal, status, layout, latest, left>>
      BY <1>12 DEF RemoveOld, KeepMovie, MoveMovie
    <2>5. run.pc \in BeforeRecord /\ ~AtRest(run.pc)
      BY <1>12 DEF RemoveOld, KeepMovie, MoveMovie, BeforeRecord, AtRest
    <2>6. QED
      BY <2>2, <2>3, <2>4, <2>5 DEF TypeOK, TitleOK, Checked, Reading, AtTitle
  <1>13. CASE RemoveUnwanted
    <2>1. movies' \in [Paths -> Movies \cup {None, Stranger, Guest}]
      BY <1>13 DEF RemoveUnwanted, TypeOK
    <2>2. run' \in Run /\ run'.pc = "record" /\ run'.lay = run.lay /\ run'.prev = run.prev /\ run'.out = run.out
      BY <1>13, PcRun DEF RemoveUnwanted, RunPc
    <2>3. QED
      BY <1>13, <2>1, <2>2 DEF RemoveUnwanted, TypeOK, TitleOK, Checked, Reading, AtTitle, BeforeRecord, AtRest
  <1>14. CASE RecordPublished
    <2>1. run' \in Run /\ run'.pc = "finish" /\ run'.lay = run.lay /\ run'.out = run.out
      BY <1>14, PcRun DEF RecordPublished, RunPc
    <2>2. QED
      BY <1>0, <1>14, <2>1 DEF RecordPublished, TypeOK, TitleOK, Checked, Reading, AtTitle, BeforeRecord, AtRest
  <1>15. CASE Finish
    <2>1. run' \in Run /\ run'.pc = "journal" /\ run'.lay = run.lay /\ run'.out = run.out
      BY <1>15, PcRun DEF Finish, RunPc
    <2>2. encodes' \in [Titles -> Versions] /\ master' \in Versions
      BY <1>15, PublishAssumption DEF Finish, TypeOK, Versions
    <2>3. QED
      BY <1>15, <2>1, <2>2 DEF Finish, TypeOK, TitleOK, Checked, Reading, AtTitle, BeforeRecord, AtRest
  <1>16. CASE FinishJournal
    <2>1. run' \in Run /\ run'.pc = "succeeded" /\ run'.lay = layout'
      BY <1>16, RestRun DEF FinishJournal, RunPc
    <2>2. QED
      BY <1>16, <2>1 DEF FinishJournal, TypeOK, TitleOK, Checked, Reading, AtTitle, BeforeRecord, AtRest
  <1>17. QED
    BY <1>1, <1>2, <1>2a, <1>2b, <1>3, <1>4, <1>5, <1>6, <1>7, <1>8, <1>9, <1>10, <1>11, <1>11a, <1>12, <1>13,
       <1>14, <1>15, <1>16
       DEF PublishStep

\* Crashes, people and re-encodes keep the types.
LEMMA OthersTyped ==
    ASSUME Typed, Reading, Crash \/ Retry \/ EncodeAgain \/ Edit \/ AddFile \/ Delete
    PROVE  Typed' /\ Reading'
  <1> USE DEF Typed
  <1>1. CASE Crash
    <2>1. PICK pc \in {"died", "ready"} : Rest(pc)
      BY <1>1 DEF Crash
    <2>2. run' \in Run /\ run'.pc = pc /\ run'.lay = layout'
      BY <1>1, <2>1, RestRun DEF Crash, RunPc
    <2>3. left' \in [edit : 0 .. MaxEdits, crash : 0 .. MaxCrashes, add : 0 .. MaxStrangers,
                     delete : 0 .. MaxDeletes]
      BY <1>1, PublishAssumption DEF Crash, TypeOK
    <2>4. journal' \subseteq Paths \cup Isos
      BY <1>1 DEF Crash, TypeOK
    <2>5. QED
      BY <1>1, <2>2, <2>3, <2>4 DEF Crash, TypeOK, TitleOK, Checked, Reading, AtTitle, BeforeRecord, AtRest
  <1>2. CASE Retry
    <2>1. run' \in Run /\ run'.pc = "ready" /\ run'.lay = layout'
      BY <1>2, RestRun DEF Retry, RunPc
    <2>2. encodes' \in [Titles -> Versions]
      BY <1>2 DEF Retry, TypeOK
    <2>3. QED
      BY <1>2, <2>1, <2>2 DEF Retry, TypeOK, TitleOK, Checked, Reading, AtTitle, BeforeRecord, AtRest
  <1>3. CASE EncodeAgain
    <2>1. run' \in Run /\ run'.pc = "ready" /\ run'.lay = layout'
      BY <1>3, RestRun DEF EncodeAgain, RunPc
    <2>2. latest + 1 \in Versions \ {0}
      BY <1>3, PublishAssumption DEF EncodeAgain, TypeOK, Versions
    <2>3. encodes' \in [Titles -> Versions] /\ master' \in Versions /\ latest' \in Versions \ {0}
      BY <1>3, <2>2 DEF EncodeAgain, TypeOK
    <2>4. QED
      BY <1>3, <2>1, <2>3 DEF EncodeAgain, TypeOK, TitleOK, Checked, Reading, AtTitle, BeforeRecord, AtRest
  <1>4. CASE Edit
    <2>1. PICK l \in Layouts : layout' = l /\ run' = [run EXCEPT !.lay = l]
      BY <1>4 DEF Edit
    <2>2. run' \in Run /\ run'.pc = run.pc /\ run'.lay = l
      BY <2>1 DEF TypeOK, Run
    <2>3. left' \in [edit : 0 .. MaxEdits, crash : 0 .. MaxCrashes, add : 0 .. MaxStrangers,
                     delete : 0 .. MaxDeletes]
      BY <1>4, PublishAssumption DEF Edit, TypeOK
    <2>4. QED
      BY <1>4, <2>1, <2>2, <2>3 DEF Edit, TypeOK, TitleOK, Checked, Reading, AtTitle, BeforeRecord, AtRest
  <1>5. CASE AddFile
    <2>1. left' \in [edit : 0 .. MaxEdits, crash : 0 .. MaxCrashes, add : 0 .. MaxStrangers,
                     delete : 0 .. MaxDeletes]
      BY <1>5, PublishAssumption DEF AddFile, TypeOK
    <2>2. dvd' \in [Isos -> Images \cup {None, Stranger, Guest}] /\ movies' \in [Paths -> Movies \cup {None, Stranger, Guest}]
      BY <1>5, DvdPut, MoviePut DEF AddFile, Theirs, TypeOK
    <2>3. /\ \A p \in Isos : dvd[p] # None => dvd'[p] = dvd[p]
          /\ \A p \in Isos : dvd'[p] = dvd[p] \/ dvd'[p] \notin Images
          /\ \A p \in Paths : movies[p] # None => movies'[p] = movies[p]
      BY <1>5, Kinds DEF AddFile, Theirs, TypeOK
    <2>4. run.lay.iso \in Isos
      BY DEF TypeOK, Run, Layouts
    <2>5. Checked'
      <3>1. UNCHANGED <<run, master, encodes>>
        BY <1>5 DEF AddFile
      <3>2. OldPath' = OldPath
        BY <3>1 DEF OldPath
      <3>3. QED
        BY <2>3, <2>4, <3>1, <3>2 DEF Checked
    <2>6. QED
      BY <1>5, <2>1, <2>2, <2>5 DEF AddFile, TypeOK, TitleOK, Reading
  <1>6. CASE Delete
    <2>1. left' \in [edit : 0 .. MaxEdits, crash : 0 .. MaxCrashes, add : 0 .. MaxStrangers,
                     delete : 0 .. MaxDeletes]
      BY <1>6, PublishAssumption DEF Delete, TypeOK
    <2>2. dvd' \in [Isos -> Images \cup {None, Stranger, Guest}] /\ movies' \in [Paths -> Movies \cup {None, Stranger, Guest}]
      BY <1>6, DvdPut, MoviePut DEF Delete, TypeOK
    <2>3. QED
      BY <1>6, <2>1, <2>2 DEF Delete, TypeOK, TitleOK, Checked, Reading
  <1>7. QED
    BY <1>1, <1>2, <1>3, <1>4, <1>5, <1>6

\* Every step keeps the types.
LEMMA NextTyped == Typed /\ Reading /\ [Next]_vars => Typed' /\ Reading'
  <1>1. ASSUME Typed, Reading, UNCHANGED vars PROVE Typed' /\ Reading'
    BY <1>1 DEF vars, Typed, TypeOK, TitleOK, Checked, OldPath, Reading
  <1>2. QED
    BY <1>1, PublishTyped, OthersTyped DEF Next

(* Every state is well-typed: in particular a publish only ever writes at  *)
(* paths its layout gives, and keeps a record for every title.             *)
THEOREM TypeCorrect == Spec => []TypeOK
  <1>1. Spec => [](Typed /\ Reading)
    BY InitTyped, NextTyped, PTL DEF Spec
  <1>2. QED
    BY <1>1, PTL DEF Typed
-----------------------------------------------------------------------------
\* A step that leaves the libraries and the master alone.
LEMMA ImageElsewhere ==
    ASSUME TypeOK, ImageInv, UNCHANGED <<dvd, master, left>>,
           run'.pc \in IsoPlaced => run.pc \in IsoPlaced /\ run'.lay = run.lay
    PROVE  ImageInv'
BY DEF ImageInv, ImageKept, NobodyDeleted

\* Every step keeps an image of the disc somewhere.
LEMMA ImageStep ==
    ASSUME Typed, Reading, ImageInv, Next
    PROVE  ImageInv'
  <1> USE DEF Typed
  <1>0. /\ run \in Run /\ run.lay.iso \in Isos /\ run.prev.iso \in Isos \cup {None} /\ layout.iso \in Isos
        /\ dvd \in [Isos -> Images \cup {None, Stranger, Guest}] /\ master \in Nat /\ latest \in Nat
    BY PublishAssumption DEF TypeOK, Run, Layouts, Published, Versions
  <1>1. CASE Start
    BY <1>1, StartRun, ImageElsewhere DEF Start, IsoPlaced, PastIso
  <1>2. CASE CopyIso
    <2>1. <<"iso", master>> \in Images
      BY <1>2 DEF CopyIso, TypeOK, Images, Checked
    <2>2. dvd'[run.lay.iso] \in Images /\ master' = master
      BY <1>0, <1>2, <2>1 DEF CopyIso
    <2>3. run'.lay = run.lay
      BY <1>2, PcRun DEF CopyIso, RunPc
    <2>4. QED
      BY <1>0, <2>2, <2>3 DEF ImageInv, ImageKept
  <1>2a. CASE CheckIso \/ CheckMoveIso
    <2>1. PICK pc \in {"isocopy", "isomove"} : run' = [run EXCEPT !.pc = pc]
      BY <1>2a DEF CheckIso, CheckMoveIso
    <2>2. run'.pc = pc
      BY <2>1, PcRun DEF RunPc
    <2>3. QED
      BY <1>2a, <2>2, ImageElsewhere DEF CheckIso, CheckMoveIso, IsoPlaced
  <1>3. CASE NoteIso
    <2>1. run'.lay = run.lay /\ run'.pc = "isoold"
      BY <1>3, PcRun DEF NoteIso, RunPc
    <2>2. QED
      BY <1>3, <2>1, ImageElsewhere DEF NoteIso, IsoPlaced, PastIso
  <1>4. CASE RemoveOldIso
    <2>1. dvd[run.lay.iso] \in Images /\ master # 0
      BY <1>4 DEF RemoveOldIso, ImageInv, Checked, IsoPlaced, PastIso
    <2>2. dvd'[run.lay.iso] \in Images /\ master' = master
      BY <1>0, <1>4, <2>1 DEF RemoveOldIso
    <2>3. run'.lay = run.lay /\ run'.pc = "target"
      BY <1>4, PcRun DEF RemoveOldIso, RunPc
    <2>4. QED
      BY <1>0, <2>1, <2>2, <2>3 DEF ImageInv, ImageKept
  <1>5. CASE KeepIso
    <2>1. run'.pc = "target"
      BY <1>5, PcRun DEF KeepIso, RunPc
    <2>2. QED
      BY <1>5, <2>1 DEF KeepIso, ImageInv, ImageKept, NobodyDeleted
  <1>6. CASE MoveIso
    <2>1. run'.pc = "target"
      BY <1>6, PcRun DEF MoveIso, RunPc
    <2>2. ASSUME NEW p \in Isos, dvd[p] \in Images PROVE \E q \in Isos : dvd'[q] \in Images
      <3>1. p # run.lay.iso /\ run.prev.iso \in Isos /\ run.prev.iso # run.lay.iso
        BY <1>6, <2>2 DEF MoveIso, Checked
      <3>2. CASE p = run.prev.iso
        BY <1>0, <1>6, <2>2, <3>1, <3>2 DEF MoveIso
      <3>3. CASE p # run.prev.iso
        BY <1>0, <1>6, <2>2, <3>1, <3>3 DEF MoveIso
      <3>4. QED
        BY <3>2, <3>3
    <2>3. master = 0
      BY <1>6 DEF MoveIso, Checked
    <2>4. QED
      BY <1>6, <2>1, <2>2, <2>3 DEF MoveIso, ImageInv, ImageKept, NobodyDeleted
  <1>7. CASE RefuseIso \/ RefuseTarget \/ RefuseMovie \/ NoIso \/ NoMovie
    <2>1. PICK why \in {"refused", "missing"} : GiveUp(why)
      BY <1>7 DEF RefuseIso, RefuseTarget, RefuseMovie, NoIso, NoMovie
    <2>2. run'.pc = why
      BY <2>1, RestRun DEF GiveUp, RunPc
    <2>3. QED
      BY <2>1, <2>2, ImageElsewhere DEF GiveUp, IsoPlaced, PastIso
  <1>8. CASE ChooseTarget
    <2>1. run'.lay = run.lay /\ run'.pc \in {"target", "place"}
      BY <1>0, <1>8 DEF ChooseTarget, Run
    <2>2. QED
      BY <1>8, <2>1, ImageElsewhere DEF ChooseTarget, IsoPlaced, PastIso
  <1>9. CASE PlaceEncode \/ NoteEncode \/ CheckMoveMovie \/ RemoveUnwanted \/ RecordPublished
    <2>1. PICK pc \in {"note", "old", "move", "record", "finish"} : run' = [run EXCEPT !.pc = pc]
      BY <1>9 DEF PlaceEncode, NoteEncode, CheckMoveMovie, RemoveUnwanted, RecordPublished
    <2>2. run'.lay = run.lay /\ run'.pc = pc
      BY <2>1, PcRun DEF RunPc
    <2>3. run.pc \in IsoPlaced /\ UNCHANGED <<dvd, master, left>>
      BY <1>9 DEF PlaceEncode, NoteEncode, CheckMoveMovie, RemoveUnwanted, RecordPublished, IsoPlaced, PastIso
    <2>4. QED
      BY <2>2, <2>3, ImageElsewhere
  <1>10. CASE RemoveOld \/ KeepMovie \/ MoveMovie
    <2>1. run.t \in Titles /\ run.dest \in Paths
      BY <1>10 DEF RemoveOld, KeepMovie, MoveMovie, TitleOK, AtTitle
    <2>2. run'.lay = run.lay /\ run'.pc = "target"
      BY <1>0, <1>10, <2>1, NextTitleRun DEF RemoveOld, KeepMovie, MoveMovie
    <2>3. run.pc \in IsoPlaced /\ UNCHANGED <<dvd, master, left>>
      BY <1>10 DEF RemoveOld, KeepMovie, MoveMovie, IsoPlaced, PastIso
    <2>4. QED
      BY <2>2, <2>3, ImageElsewhere
  <1>11. CASE Finish
    <2>1. run'.pc = "journal"
      BY <1>11, PcRun DEF Finish, RunPc
    <2>2. NobodyDeleted => \E p \in Isos : dvd[p] \in Images
      BY <1>0, <1>11 DEF Finish, ImageInv, ImageKept, IsoPlaced, PastIso
    <2>3. QED
      BY <1>11, <2>1, <2>2 DEF Finish, ImageInv, ImageKept, NobodyDeleted
  <1>12. CASE FinishJournal
    <2>1. run'.pc = "succeeded"
      BY <1>12, RestRun DEF FinishJournal, RunPc
    <2>2. QED
      BY <1>12, <2>1, ImageElsewhere DEF FinishJournal, IsoPlaced, PastIso
  <1>13. CASE Crash
    <2>1. PICK pc \in {"died", "ready"} : Rest(pc)
      BY <1>13 DEF Crash
    <2>2. run'.pc = pc
      BY <1>13, <2>1, RestRun DEF Crash, RunPc
    <2>3. left'.delete = left.delete
      BY <1>13 DEF Crash, TypeOK
    <2>4. QED
      BY <1>13, <2>2, <2>3 DEF Crash, ImageInv, ImageKept, NobodyDeleted, IsoPlaced, PastIso
  <1>14. CASE Retry
    <2>1. run'.pc = "ready"
      BY <1>14, RestRun DEF Retry, RunPc
    <2>2. QED
      BY <1>14, <2>1, ImageElsewhere DEF Retry, IsoPlaced, PastIso
  <1>15. CASE EncodeAgain
    <2>1. run'.pc = "ready"
      BY <1>15, RestRun DEF EncodeAgain, RunPc
    <2>2. master # 0 => master' # 0
      BY <1>0, <1>15 DEF EncodeAgain
    <2>3. QED
      BY <1>15, <2>1, <2>2 DEF EncodeAgain, ImageInv, ImageKept, NobodyDeleted, IsoPlaced, PastIso
  <1>16. CASE Edit
    <2>1. run'.pc = run.pc
      BY <1>0, <1>16 DEF Edit, Run
    <2>2. left'.delete = left.delete
      BY <1>16 DEF Edit, TypeOK
    <2>3. QED
      BY <1>16, <2>1, <2>2 DEF Edit, ImageInv, ImageKept, NobodyDeleted, AtRest, IsoPlaced, PastIso
  <1>17. CASE AddFile
    <2>1. left'.delete = left.delete
      BY <1>17 DEF AddFile, TypeOK
    <2>2. \A p \in Isos : dvd[p] \in Images => dvd'[p] \in Images
      BY <1>0, <1>17, Kinds DEF AddFile, Theirs
    <2>3. QED
      BY <1>0, <1>17, <2>1, <2>2 DEF AddFile, ImageInv, ImageKept, NobodyDeleted
  <1>18. CASE Delete
    <2>1. left'.delete # MaxDeletes
      BY <1>18, PublishAssumption DEF Delete, TypeOK
    <2>2. QED
      BY <1>18, <2>1 DEF Delete, ImageInv, ImageKept, NobodyDeleted, IsoPlaced, PastIso
  <1>19. QED
    BY <1>1, <1>2, <1>2a, <1>3, <1>4, <1>5, <1>6, <1>7, <1>8, <1>9, <1>10, <1>11, <1>12, <1>13, <1>14,
       <1>15, <1>16, <1>17, <1>18
       DEF Next, PublishStep

(* The disc's image is never lost: whatever layouts people ask for and     *)
(* whatever files they add, a publish that is cut off anywhere leaves it   *)
(* in the work dir or in media-dvd.                                        *)
THEOREM ImageSafe == Spec => []ImageKept
  <1>1. Init => ImageInv
    BY DEF Init, ImageInv, ImageKept, IsoPlaced, PastIso
  <1>2. Typed /\ Reading /\ ImageInv /\ [Next]_vars => ImageInv'
    <2>1. ASSUME ImageInv, UNCHANGED vars PROVE ImageInv'
      BY <2>1 DEF vars, ImageInv, ImageKept, NobodyDeleted
    <2>2. QED
      BY <2>1, ImageStep
  <1>3. Spec => [](Typed /\ Reading /\ ImageInv)
    BY <1>1, <1>2, InitTyped, NextTyped, PTL DEF Spec
  <1>4. QED
    BY <1>3, PTL DEF ImageInv
-----------------------------------------------------------------------------
\* What StrangersKept says of a step, and that a step adds no stranger's file.
FilesKept ==
    /\ \A p \in Isos : dvd[p] = Stranger => dvd'[p] = Stranger
    /\ \A p \in Paths : movies[p] = Stranger => movies'[p] = Stranger
NoneAdded == \A p : NotTheirs(p) => NotTheirs(p)'

\* The libraries a step writes to change at paths that are not a stranger's.
LEMMA DvdWrite ==
    ASSUME TypeOK, NEW p \in Isos, NEW x \in Images \cup {None}, NotTheirs(p),
           dvd' = [dvd EXCEPT ![p] = x], movies' = movies
    PROVE  FilesKept /\ NoneAdded
BY Kinds DEF TypeOK, FilesKept, NoneAdded, NotTheirs
\* The same in the movie library.
LEMMA MovieWrite ==
    ASSUME TypeOK, NEW p \in Paths, NEW x \in Movies \cup {None}, NotTheirs(p),
           movies' = [movies EXCEPT ![p] = x], dvd' = dvd
    PROVE  FilesKept /\ NoneAdded
BY Kinds DEF TypeOK, FilesKept, NoneAdded, NotTheirs
\* A step that writes nothing.
LEMMA NoWrite ==
    ASSUME UNCHANGED <<dvd, movies>>
    PROVE  FilesKept /\ NoneAdded
BY DEF FilesKept, NoneAdded, NotTheirs

\* A step that claims nothing new, or only what is not a stranger's.
LEMMA ClaimsGrow ==
    ASSUME StrangerInv, NoneAdded, \A p \in Claims' : p \in Claims \/ NotTheirs(p)
    PROVE  StrangerInv'
BY DEF StrangerInv, NoneAdded

\* A pod at rest claims what the record and the journal say.
LEMMA RestClaims ==
    ASSUME TypeOK, NEW pc \in RunPc, AtRest(pc), Rest(pc), status' = status, layout' = layout,
           journal' \subseteq journal
    PROVE  Claims' \subseteq Claims
  <1>1. run'.pc = pc
    BY RestRun
  <1>2. pc \notin PastIso \cup AtTitle
    BY DEF AtRest, PastIso, AtTitle
  <1>3. Recorded(run'.out) = {}
    BY RestRun, EmptyRecord
  <1>4. QED
    BY <1>1, <1>2, <1>3 DEF Claims, Recorded

\* Before it records anything a pod takes no path for the disc's own that its record
\* and its journal do not name.
LEMMA OursStep ==
    ASSUME Typed, OursInv, Next
    PROVE  OursInv'
  <1> USE DEF Typed
  <1>1. CASE Start
    BY <1>1, StartRun DEF Start, OursInv, Recorded
  <1>2. CASE \/ CheckIso \/ CopyIso \/ NoteIso \/ RemoveOldIso \/ KeepIso \/ CheckMoveIso \/ MoveIso
             \/ PlaceEncode \/ NoteEncode \/ CheckMoveMovie \/ RemoveUnwanted
    <2>1. PICK pc \in BeforeRecord : run' = [run EXCEPT !.pc = pc]
      BY <1>2 DEF CheckIso, CopyIso, NoteIso, RemoveOldIso, KeepIso, CheckMoveIso, MoveIso, PlaceEncode,
                  NoteEncode, CheckMoveMovie, RemoveUnwanted, BeforeRecord
    <2>2. run'.ours = run.ours
      BY <2>1, PcRun DEF BeforeRecord, RunPc
    <2>3. run.pc \in BeforeRecord /\ status' = status /\ journal \subseteq journal'
      BY <1>2 DEF CheckIso, CopyIso, NoteIso, RemoveOldIso, KeepIso, CheckMoveIso, MoveIso, PlaceEncode,
                  NoteEncode, CheckMoveMovie, RemoveUnwanted, BeforeRecord
    <2>4. QED
      BY <2>2, <2>3 DEF OursInv, Recorded
  <1>3. CASE ChooseTarget
    <2>1. run'.ours = run.ours
      BY <1>3 DEF ChooseTarget, TypeOK, Run
    <2>2. QED
      BY <1>3, <2>1 DEF ChooseTarget, OursInv, Recorded, BeforeRecord
  <1>4. CASE RemoveOld \/ KeepMovie \/ MoveMovie
    <2>1. run.t \in Titles /\ run.dest \in Paths /\ run \in Run
      BY <1>4 DEF RemoveOld, KeepMovie, MoveMovie, TitleOK, AtTitle, TypeOK
    <2>2. run'.ours = run.ours
      BY <1>4, <2>1, NextTitleRun DEF RemoveOld, KeepMovie, MoveMovie
    <2>3. run.pc \in BeforeRecord /\ UNCHANGED <<status, journal>>
      BY <1>4 DEF RemoveOld, KeepMovie, MoveMovie, BeforeRecord
    <2>4. QED
      BY <2>2, <2>3 DEF OursInv, Recorded
  <1>5. CASE RecordPublished \/ Finish
    <2>1. PICK pc \in {"finish", "journal"} : run' = [run EXCEPT !.pc = pc]
      BY <1>5 DEF RecordPublished, Finish
    <2>2. QED
      BY <2>1, PcRun DEF RunPc, OursInv, BeforeRecord
  <1>6. CASE \/ RefuseIso \/ RefuseTarget \/ RefuseMovie \/ NoIso \/ NoMovie \/ FinishJournal
             \/ Crash \/ Retry \/ EncodeAgain
    <2>1. PICK pc \in {"refused", "missing", "succeeded", "died", "ready"} : Rest(pc) /\ layout' = layout
      BY <1>6 DEF RefuseIso, RefuseTarget, RefuseMovie, NoIso, NoMovie, GiveUp, FinishJournal,
                  Crash, Retry, EncodeAgain
    <2>2. run'.pc = pc
      BY <2>1, RestRun DEF RunPc
    <2>3. QED
      BY <2>2 DEF OursInv, BeforeRecord
  <1>7. CASE Edit
    <2>1. run'.pc = run.pc /\ AtRest(run.pc)
      BY <1>7 DEF Edit, TypeOK, Run
    <2>2. QED
      BY <2>1 DEF OursInv, BeforeRecord, AtRest
  <1>8. CASE AddFile \/ Delete
    BY <1>8 DEF AddFile, Delete, OursInv, Recorded
  <1>9. QED
    BY <1>1, <1>2, <1>3, <1>4, <1>5, <1>6, <1>7, <1>8 DEF Next, PublishStep

\* Every step leaves strangers' files alone.
LEMMA StrangerStep ==
    ASSUME Typed, Reading, OursInv, StrangerInv, Next
    PROVE  StrangerInv' /\ FilesKept
  <1> USE DEF Typed
  <1>0. /\ run \in Run /\ run.lay.iso \in Isos /\ run.prev.iso \in Isos \cup {None}
        /\ dvd \in [Isos -> Images \cup {None, Stranger, Guest}] /\ movies \in [Paths -> Movies \cup {None, Stranger, Guest}]
        /\ run.prev.files \in [Titles -> Paths \cup {None}] /\ run.out.files \in [Titles -> Paths \cup {None}]
        /\ Paths \cap Isos = {} /\ (run.pc \in BeforeRecord => run.prev = status)
        /\ (run.pc \in BeforeRecord => \A p \in Recorded(run.prev) \cup {run.prev.iso} \cup run.ours : NotTheirs(p))
    BY PathAssumption DEF TypeOK, Run, Layouts, Published, Reading, OursInv, StrangerInv, Claims, Recorded
  <1>1. CASE Start
    <2>1. Recorded(run'.out) = {}
      BY <1>1, StartRun DEF Recorded
    <2>2. Claims' \subseteq Claims
      BY <1>1, <2>1, StartRun DEF Start, Claims, PastIso, AtTitle, Recorded
    <2>3. QED
      BY <1>1, <2>2, NoWrite, ClaimsGrow DEF Start
  <1>2. CASE CopyIso
    <2>1. NotTheirs(run.lay.iso)
      BY <1>2 DEF CopyIso, StrangerInv, Claims, PastIso
    <2>2. <<"iso", master>> \in Images
      BY <1>2 DEF CopyIso, TypeOK, Images, Checked
    <2>3. FilesKept /\ NoneAdded
      BY <1>0, <1>2, <2>1, <2>2, DvdWrite DEF CopyIso
    <2>4. run'.pc = "isonote" /\ run'.lay = run.lay /\ run'.out = run.out
      BY <1>2, PcRun DEF CopyIso, RunPc
    <2>5. Claims' \subseteq Claims
      BY <1>2, <2>4 DEF CopyIso, Claims, PastIso, AtTitle, Recorded
    <2>6. QED
      BY <2>3, <2>5, ClaimsGrow
  <1>2a. CASE CheckIso \/ CheckMoveIso
    <2>1. PICK pc \in {"isocopy", "isomove"} : run' = [run EXCEPT !.pc = pc]
      BY <1>2a DEF CheckIso, CheckMoveIso
    <2>2. run'.pc = pc /\ run'.lay = run.lay /\ run'.out = run.out
      BY <2>1, PcRun DEF RunPc
    <2>3. run.pc \in BeforeRecord /\ UNCHANGED <<dvd, movies, status, journal>>
      BY <1>2a DEF CheckIso, CheckMoveIso, BeforeRecord
    <2>4. NotTheirs(run.lay.iso)
      BY <1>0, <1>2a, <2>3, Kinds DEF CheckIso, CheckMoveIso, IsoMine, IsoMovable, NotTheirs
    <2>5. Claims' \subseteq Claims \cup {run.lay.iso}
      BY <2>2, <2>3 DEF Claims, AtTitle, Recorded
    <2>6. QED
      BY <2>3, <2>4, <2>5, NoWrite, ClaimsGrow
  <1>3. CASE NoteIso
    <2>1. /\ run'.pc = "isoold" /\ run'.lay = run.lay /\ run'.out = run.out
      BY <1>3, PcRun DEF NoteIso, RunPc
    <2>2. Claims' \subseteq Claims
      BY <1>3, <2>1 DEF NoteIso, Claims, PastIso, AtTitle, Recorded
    <2>3. QED
      BY <1>3, <2>2, NoWrite, ClaimsGrow DEF NoteIso
  <1>4. CASE RemoveOldIso
    <2>1. NotTheirs(run.prev.iso)
      BY <1>0, <1>4 DEF RemoveOldIso, BeforeRecord
    <2>2. FilesKept /\ NoneAdded
      BY <1>0, <1>4, <2>1, DvdWrite, NoWrite DEF RemoveOldIso
    <2>3. /\ run'.pc = "target" /\ run'.lay = run.lay /\ run'.out = run.out
      BY <1>4, PcRun DEF RemoveOldIso, RunPc
    <2>4. Claims' \subseteq Claims
      BY <1>4, <2>3 DEF RemoveOldIso, Claims, PastIso, AtTitle, Recorded
    <2>5. QED
      BY <2>2, <2>4, ClaimsGrow
  <1>5. CASE KeepIso
    <2>1. /\ run'.pc = "target" /\ run'.lay = run.lay /\ run'.out = run.out
      BY <1>5, PcRun DEF KeepIso, RunPc
    <2>2. NotTheirs(run.lay.iso)
      BY <1>0, <1>5 DEF KeepIso, IsoThere, BeforeRecord
    <2>3. Claims' \subseteq Claims \cup {run.lay.iso}
      BY <1>5, <2>1 DEF KeepIso, Claims, PastIso, AtTitle, Recorded
    <2>4. QED
      BY <1>5, <2>2, <2>3, NoWrite, ClaimsGrow DEF KeepIso
  <1>6. CASE MoveIso
    <2>1. NotTheirs(run.prev.iso) /\ NotTheirs(run.lay.iso)
      BY <1>0, <1>6 DEF MoveIso, StrangerInv, Claims, PastIso, BeforeRecord
    <2>2. FilesKept /\ NoneAdded
      <3>1. run.prev.iso \in Isos /\ dvd[run.prev.iso] # Stranger
        BY <1>6, <2>1 DEF MoveIso, Checked, NotTheirs
      <3>2. \A p \in Isos : dvd'[p] = IF p = run.prev.iso THEN None
                                     ELSE IF p = run.lay.iso THEN dvd[run.prev.iso] ELSE dvd[p]
        BY <1>0, <1>6, <3>1 DEF MoveIso
      <3>3. QED
        BY <1>0, <1>6, <2>1, <3>1, <3>2, Kinds DEF MoveIso, FilesKept, NoneAdded, NotTheirs
    <2>3. /\ run'.pc = "target" /\ run'.lay = run.lay /\ run'.out = run.out
      BY <1>6, PcRun DEF MoveIso, RunPc
    <2>4. Claims' \subseteq Claims
      BY <1>6, <2>3 DEF MoveIso, Claims, PastIso, AtTitle, Recorded
    <2>5. QED
      BY <2>2, <2>4, ClaimsGrow
  <1>7. CASE RefuseIso \/ RefuseTarget \/ RefuseMovie \/ NoIso \/ NoMovie
    <2>1. PICK why \in {"refused", "missing"} : GiveUp(why)
      BY <1>7 DEF RefuseIso, RefuseTarget, RefuseMovie, NoIso, NoMovie
    <2>2. Claims' \subseteq Claims
      BY <2>1, RestClaims DEF GiveUp, RunPc, AtRest
    <2>3. QED
      BY <2>1, <2>2, NoWrite, ClaimsGrow DEF GiveUp
  <1>8. CASE ChooseTarget
    <2>1. CASE run.lay.dest[run.t] = None
      <3>1. /\ run'.pc = "target" /\ run'.lay = run.lay /\ run'.out = run.out
        BY <1>0, <1>8, <2>1 DEF ChooseTarget, Run
      <3>2. Claims' \subseteq Claims
        BY <1>8, <3>1 DEF ChooseTarget, Claims, PastIso, AtTitle, Recorded
      <3>3. QED
        BY <1>8, <3>2, NoWrite, ClaimsGrow DEF ChooseTarget
    <2>2. CASE run.lay.dest[run.t] # None
      <3> DEFINE d == Target(Plain(run.lay.dest[run.t]))
      <3>1. run' = [run EXCEPT !.pc = "place", !.dest = d] /\ run.t \in Titles /\ d # None
        BY <1>8, <2>2 DEF ChooseTarget
      <3>2. d \in Paths
        BY <1>0, <2>2, <3>1, TargetType, OutcomePaths DEF Run, Layouts
      <3>3. Free(d)
        BY <3>1 DEF Target
      <3> HIDE DEF d
      <3>4. NotTheirs(d)
        BY <1>0, <1>8, <3>2, <3>3, Kinds DEF Free, NotTheirs, ChooseTarget, BeforeRecord
      <3>5. /\ run'.pc = "place" /\ run'.lay = run.lay /\ run'.out = run.out /\ run'.dest = d
        BY <1>0, <3>1 DEF Run
      <3>6. Claims' \subseteq Claims \cup {d}
        BY <1>8, <3>5 DEF ChooseTarget, Claims, PastIso, AtTitle, Recorded
      <3>7. QED
        BY <1>8, <3>4, <3>6, NoWrite, ClaimsGrow DEF ChooseTarget
    <2>3. QED
      BY <2>1, <2>2
  <1>9. CASE PlaceEncode
    <2>1. run.t \in Titles /\ run.dest \in Paths
      BY <1>9 DEF PlaceEncode, TitleOK, AtTitle
    <2>2. NotTheirs(run.dest)
      BY <1>9 DEF PlaceEncode, StrangerInv, Claims, AtTitle
    <2>3. <<run.t, encodes[run.t]>> \in Movies
      BY <1>9, <2>1 DEF PlaceEncode, TypeOK, Movies
    <2>4. FilesKept /\ NoneAdded
      BY <1>9, <2>1, <2>2, <2>3, MovieWrite DEF PlaceEncode
    <2>5. /\ run'.pc = "note" /\ run'.lay = run.lay /\ run'.out = run.out /\ run'.dest = run.dest
      BY <1>9, PcRun DEF PlaceEncode, RunPc
    <2>6. Claims' \subseteq Claims
      BY <1>9, <2>5 DEF PlaceEncode, Claims, PastIso, AtTitle, Recorded
    <2>7. QED
      BY <2>4, <2>6, ClaimsGrow
  <1>10. CASE NoteEncode
    <2>1. /\ run'.pc = "old" /\ run'.lay = run.lay /\ run'.out = run.out /\ run'.dest = run.dest
      BY <1>10, PcRun DEF NoteEncode, RunPc
    <2>2. Claims' \subseteq Claims
      BY <1>10, <2>1 DEF NoteEncode, Claims, PastIso, AtTitle, Recorded
    <2>3. QED
      BY <1>10, <2>2, NoWrite, ClaimsGrow DEF NoteEncode
  <1>10a. CASE CheckMoveMovie
    <2>1. run'.pc = "move" /\ run'.lay = run.lay /\ run'.out = run.out /\ run'.dest = run.dest
      BY <1>10a, PcRun DEF CheckMoveMovie, RunPc
    <2>2. Claims' \subseteq Claims
      BY <1>10a, <2>1 DEF CheckMoveMovie, Claims, PastIso, AtTitle, Recorded
    <2>3. QED
      BY <1>10a, <2>2, NoWrite, ClaimsGrow DEF CheckMoveMovie
  <1>11. CASE RemoveOld \/ KeepMovie \/ MoveMovie
    <2>1. run.t \in Titles /\ run.dest \in Paths /\ run.pc \in AtTitle
      BY <1>11 DEF RemoveOld, KeepMovie, MoveMovie, TitleOK, AtTitle
    <2>2. OldPath # None => OldPath \in Recorded(run.prev) /\ OldPath \in Paths
      BY <1>0, <2>1 DEF OldPath, Recorded
    <2>3. NotTheirs(run.dest) /\ NotTheirs(OldPath)
      BY <1>0, <2>1, <2>2, Kinds DEF StrangerInv, Claims, AtTitle, BeforeRecord, NotTheirs
    <2>4. FilesKept /\ NoneAdded
      <3>1. CASE RemoveOld
        BY <2>2, <2>3, <3>1, MovieWrite, NoWrite DEF RemoveOld
      <3>2. CASE KeepMovie
        BY <3>2, NoWrite DEF KeepMovie
      <3>3. CASE MoveMovie
        <4>1. OldPath \in Paths /\ movies[OldPath] # Stranger /\ dvd' = dvd
          BY <2>3, <3>3 DEF MoveMovie, Checked, NotTheirs
        <4>2. \A p \in Paths : movies'[p] = IF p = OldPath THEN None
                                           ELSE IF p = run.dest THEN movies[OldPath] ELSE movies[p]
          BY <1>0, <2>1, <3>3, <4>1 DEF MoveMovie
        <4> HIDE DEF OldPath
        <4>3. QED
          BY <1>0, <2>1, <2>3, <4>1, <4>2, Kinds DEF FilesKept, NoneAdded, NotTheirs
      <3>4. QED
        BY <1>11, <3>1, <3>2, <3>3
    <2>5. /\ run'.pc = "target" /\ run'.lay = run.lay
          /\ \A u \in Titles : run'.out.files[u] = IF u = run.t THEN run.dest ELSE run.out.files[u]
      BY <1>0, <1>11, <2>1, NextTitleRun DEF RemoveOld, KeepMovie, MoveMovie
    <2>6. Recorded(run'.out) \subseteq Recorded(run.out) \cup {run.dest}
      BY <2>5 DEF Recorded
    <2>7. UNCHANGED <<status, journal>>
      BY <1>11 DEF RemoveOld, KeepMovie, MoveMovie
    <2>8. Claims' \subseteq Claims
      BY <2>1, <2>5, <2>6, <2>7 DEF Claims, PastIso, AtTitle, Recorded
    <2>9. QED
      BY <2>4, <2>8, ClaimsGrow
  <1>12. CASE RemoveUnwanted
    <2>1. \A p \in Recorded(run.prev) : NotTheirs(p)
      BY <1>0, <1>12 DEF RemoveUnwanted, BeforeRecord
    <2>2. FilesKept /\ NoneAdded
      BY <1>0, <1>12, <2>1, Kinds DEF RemoveUnwanted, FilesKept, NoneAdded, NotTheirs
    <2>3. /\ run'.pc = "record" /\ run'.lay = run.lay /\ run'.out = run.out
      BY <1>12, PcRun DEF RemoveUnwanted, RunPc
    <2>4. Claims' \subseteq Claims
      BY <1>12, <2>3 DEF RemoveUnwanted, Claims, PastIso, AtTitle, Recorded
    <2>5. QED
      BY <2>2, <2>4, ClaimsGrow
  <1>13. CASE RecordPublished
    <2>1. /\ run'.pc = "finish" /\ run'.lay = run.lay /\ run'.out = run.out
      BY <1>13, PcRun DEF RecordPublished, RunPc
    <2>2. run.out.iso = run.lay.iso
      BY <1>13 DEF RecordPublished, Reading, AtRest
    <2>3. Claims' \subseteq Claims
      BY <1>13, <2>1, <2>2 DEF RecordPublished, Claims, PastIso, AtTitle, Recorded
    <2>4. QED
      BY <1>13, <2>3, NoWrite, ClaimsGrow DEF RecordPublished
  <1>14. CASE Finish
    <2>1. /\ run'.pc = "journal" /\ run'.lay = run.lay /\ run'.out = run.out
      BY <1>14, PcRun DEF Finish, RunPc
    <2>2. Claims' \subseteq Claims
      BY <1>14, <2>1 DEF Finish, Claims, PastIso, AtTitle, Recorded
    <2>3. QED
      BY <1>14, <2>2, NoWrite, ClaimsGrow DEF Finish
  <1>15. CASE FinishJournal
    <2>1. Claims' \subseteq Claims
      BY <1>15, RestClaims DEF FinishJournal, RunPc, AtRest
    <2>2. QED
      BY <1>15, <2>1, NoWrite, ClaimsGrow DEF FinishJournal
  <1>16. CASE Crash
    <2>1. PICK pc \in {"died", "ready"} : Rest(pc)
      BY <1>16 DEF Crash
    <2>2. journal' \subseteq journal
      BY <1>16 DEF Crash
    <2>3. Claims' \subseteq Claims
      BY <1>16, <2>1, <2>2, RestClaims DEF Crash, RunPc, AtRest
    <2>4. QED
      BY <1>16, <2>3, NoWrite, ClaimsGrow DEF Crash
  <1>17. CASE Retry
    <2>1. Claims' \subseteq Claims
      BY <1>17, RestClaims DEF Retry, RunPc, AtRest
    <2>2. QED
      BY <1>17, <2>1, NoWrite, ClaimsGrow DEF Retry
  <1>18. CASE EncodeAgain
    <2>1. Claims' \subseteq Claims
      BY <1>18, RestClaims DEF EncodeAgain, RunPc, AtRest
    <2>2. QED
      BY <1>18, <2>1, NoWrite, ClaimsGrow DEF EncodeAgain
  <1>19. CASE Edit
    <2>1. run'.pc = run.pc /\ AtRest(run.pc) /\ run.pc \notin PastIso \cup AtTitle
      BY <1>0, <1>19 DEF Edit, Run, AtRest, PastIso, AtTitle
    <2>2. Claims' \subseteq Claims
      BY <1>19, <2>1 DEF Edit, Claims, Recorded
    <2>3. QED
      BY <1>19, <2>2, NoWrite, ClaimsGrow DEF Edit
  <1>20. CASE AddFile
    <2>1. Claims' = Claims
      BY <1>20 DEF AddFile, Claims, Recorded
    <2>2. FilesKept
      BY <1>0, <1>20, Kinds DEF AddFile, FilesKept
    <2>3. \A p \in Claims : NotTheirs(p) => NotTheirs(p)'
      BY <1>0, <1>20, Kinds DEF AddFile, Theirs, NotTheirs
    <2>4. QED
      BY <2>1, <2>2, <2>3 DEF StrangerInv
  <1>21. CASE Delete
    <2>1. FilesKept /\ NoneAdded
      BY <1>0, <1>21, Kinds DEF Delete, FilesKept, NoneAdded, NotTheirs
    <2>2. Claims' \subseteq Claims
      BY <1>21 DEF Delete, Claims, Recorded
    <2>3. QED
      BY <2>1, <2>2, ClaimsGrow
  <1>22. QED
    BY <1>1, <1>2, <1>2a, <1>3, <1>4, <1>5, <1>6, <1>7, <1>8, <1>9, <1>10, <1>10a, <1>11, <1>12, <1>13, <1>14,
       <1>15, <1>16, <1>17, <1>18, <1>19, <1>20, <1>21
       DEF Next, PublishStep

\* What the disc claims is never a stranger's.
LEMMA StrangerAlways == Spec => [](Typed /\ Reading /\ OursInv /\ StrangerInv)
  <1>1. Init => OursInv /\ StrangerInv
    BY Kinds DEF Init, OursInv, BeforeRecord, StrangerInv, NotTheirs
  <1>2. Typed /\ Reading /\ OursInv /\ StrangerInv /\ [Next]_vars => OursInv' /\ StrangerInv'
    <2>1. ASSUME OursInv, StrangerInv, UNCHANGED vars PROVE OursInv' /\ StrangerInv'
      BY <2>1 DEF vars, OursInv, StrangerInv, NotTheirs, Claims, Recorded
    <2>2. QED
      BY <2>1, OursStep, StrangerStep
  <1>3. QED
    BY <1>1, <1>2, InitTyped, NextTyped, PTL DEF Spec

(* A file somebody put where the disc claimed nothing is never             *)
(* overwritten, moved or removed: whatever people add at whatever moment,  *)
(* between a publish's look at a path and its rename too, and whatever     *)
(* crashes.  Left out is what the disc claims: the paths of its record and *)
(* its journal, those a pod has done and the one it has looked at.         *)
THEOREM StrangersSafe == Spec => StrangersKept
  <1>1. Typed /\ Reading /\ OursInv /\ StrangerInv /\ [Next]_vars => [FilesKept]_vars
    BY StrangerStep
  <1>2. Spec => [][FilesKept]_vars
    BY <1>1, StrangerAlways, PTL DEF Spec
  <1>3. QED
    BY <1>2 DEF StrangersKept, FilesKept
-----------------------------------------------------------------------------
\* The path of one title is neither the new nor the old one of another.
LEMMA TitlesApart ==
    ASSUME Typed, Reading, NoHandOver, run.pc \in BeforeRecord,
           NEW t \in Titles, NEW u \in Titles, t # u, run.lay.dest[t] # None,
           NEW p \in Outcomes(run.lay.dest[t])
    PROVE  /\ p # run.prev.files[u] /\ p # None /\ p \in Paths
           /\ p # status.files[u]
           /\ run.lay.dest[u] # None => p \notin Outcomes(run.lay.dest[u])
  <1>1. /\ run.lay = layout /\ run.prev = status
        /\ run.lay \in Layouts /\ run.lay.dest \in [Titles -> Names \cup {None}]
    BY DEF Typed, TypeOK, Reading, Layouts
  <1>2. run.lay.dest[t] \in Names /\ run.lay.dest[t] # run.lay.dest[u]
    BY <1>1 DEF Layouts
  <1>3. p # status.files[u]
    BY <1>1 DEF NoHandOver
  <1>4. p \in Paths /\ p # None
    BY <1>2, OutcomePaths, Kinds
  <1>5. ASSUME run.lay.dest[u] # None PROVE p \notin Outcomes(run.lay.dest[u])
    BY <1>1, <1>2, <1>5, OutcomesApart
  <1>6. QED
    BY <1>1, <1>3, <1>4, <1>5

\* Going to rest other than after a success, nothing is promised of the record.
LEMMA RestRecord ==
    ASSUME Typed, RecordInv, run'.pc \in {"ready", "refused", "missing", "died"},
           UNCHANGED <<movies, encodes, status, layout, latest>>
    PROVE  RecordInv'
BY DEF RecordInv, NoHandOver, EncodesInv, ProgressInv, RecordTrue, IsoPlaced, PastIso, AtTitle

\* A step on the ISO leaves the titles as they are.
LEMMA IsoRecord ==
    ASSUME Typed, RecordInv, UNCHANGED <<movies, encodes, status, layout, latest>>,
           run.pc \in {"iso", "isocopy", "isonote", "isoold", "isomove"},
           run'.pc \in {"isocopy", "isonote", "isoold", "isomove", "target"},
           run'.t = run.t, run'.lay = run.lay, run'.out = run.out,
           run'.pc \in IsoPlaced => dvd'[run.lay.iso] \in Images \cup {Guest}
    PROVE  RecordInv'
BY DEF RecordInv, NoHandOver, EncodesInv, ProgressInv, RecordTrue, IsoPlaced, PastIso, AtTitle

\* A copied encode is what the record will say.
LEMMA PlaceRecord ==
    ASSUME Typed, Reading, RecordInv, PlaceEncode
    PROVE  RecordInv'
  <1> USE DEF Typed
  <1>1. /\ run.t \in Titles /\ run.dest \in Paths /\ run.pc \in BeforeRecord /\ run.pc \in PastIso
        /\ run.lay.dest[run.t] # None /\ run.dest \in Outcomes(run.lay.dest[run.t])
        /\ run.pc \in IsoPlaced
    BY DEF PlaceEncode, TitleOK, AtTitle, BeforeRecord, IsoPlaced, PastIso, RecordInv, ProgressInv
  <1>2. /\ run'.pc = "note" /\ run'.t = run.t /\ run'.lay = run.lay /\ run'.prev = run.prev
        /\ run'.out = run.out /\ run'.dest = run.dest
    BY PcRun DEF PlaceEncode, RunPc
  <1>3. encodes[run.t] = latest
    BY <1>1 DEF PlaceEncode, RecordInv, EncodesInv
  <1>4. \A p \in Paths : movies'[p] = IF p = run.dest THEN <<run.t, latest>> ELSE movies[p]
    BY <1>1, <1>3 DEF PlaceEncode, TypeOK
  <1>5. NoHandOver'
    BY DEF PlaceEncode, RecordInv, NoHandOver
  <1>6. EncodesInv'
    <2> SUFFICES ASSUME NEW u \in Titles
                 PROVE  /\ encodes'[u] \in {0, latest'}
                        /\ encodes'[u] = 0 /\ status'.files[u] # None
                             => movies'[status'.files[u]] \in {None, <<u, latest'>>, Guest}
      BY DEF EncodesInv
    <2>1. status.files[u] \in Paths \cup {None}
      BY DEF TypeOK, Published
    <2>2. CASE u = run.t
      BY <1>3, <2>2 DEF PlaceEncode, RecordInv, EncodesInv
    <2>3. CASE u # run.t
      BY <1>1, <1>4, <2>1, <2>3, TitlesApart DEF PlaceEncode, RecordInv, EncodesInv
    <2>4. QED
      BY <2>2, <2>3
  <1>7. ProgressInv'
    <2>1. ASSUME NEW u \in Titles
          PROVE  /\ u >= run.t => run.out.files[u] = None
                 /\ run.out.files[u] # None => /\ run.lay.dest[u] # None
                                               /\ run.out.files[u] \in Outcomes(run.lay.dest[u])
                                               /\ movies'[run.out.files[u]] \in {<<u, latest>>, Guest}
      <3>1. /\ u >= run.t => run.out.files[u] = None
            /\ run.out.files[u] # None => /\ run.lay.dest[u] # None
                                          /\ run.out.files[u] \in Outcomes(run.lay.dest[u])
                                          /\ movies[run.out.files[u]] \in {<<u, latest>>, Guest}
        BY <1>1 DEF RecordInv, ProgressInv
      <3>2. u = run.t => run.out.files[u] = None
        BY <1>1, <3>1 DEF Titles
      <3>3. u # run.t /\ run.out.files[u] # None => run.out.files[u] \in Paths /\ run.out.files[u] # run.dest
        BY <1>1, <3>1, TitlesApart DEF RecordInv
      <3>4. QED
        BY <1>4, <3>1, <3>2, <3>3
    <2>2. dvd'[run.lay.iso] \in Images \cup {Guest}
      BY <1>1 DEF PlaceEncode, RecordInv, ProgressInv
    <2>3. QED
      BY <1>1, <1>2, <1>4, <2>1, <2>2 DEF ProgressInv, PlaceEncode
  <1>8. RecordTrue'
    BY <1>2 DEF RecordTrue
  <1>9. QED
    BY <1>5, <1>6, <1>7, <1>8 DEF RecordInv

\* A title is done: its file is in place, the old path is empty or untouched.
LEMMA TitleDone ==
    ASSUME Typed, Reading, RecordInv, RemoveOld \/ KeepMovie \/ MoveMovie
    PROVE  RecordInv'
  <1> USE DEF Typed
  <1>1. /\ run.t \in Titles /\ run.dest \in Paths /\ run.pc \in BeforeRecord /\ run.pc \in PastIso
        /\ run.lay.dest[run.t] # None /\ run.dest \in Outcomes(run.lay.dest[run.t])
        /\ run.pc \in IsoPlaced
    BY DEF RemoveOld, KeepMovie, MoveMovie, TitleOK, AtTitle, BeforeRecord, IsoPlaced, PastIso, RecordInv,
           ProgressInv
  <1>2. run \in Run /\ movies \in [Paths -> Movies \cup {None, Stranger, Guest}] /\ run.prev = status
        /\ status.files \in [Titles -> Paths \cup {None}]
    BY <1>1 DEF TypeOK, Reading, Published
  <1>3. OldPath = status.files[run.t] /\ OldPath \in Paths \cup {None}
    BY <1>1, <1>2 DEF OldPath
  <1>4. /\ run'.pc = "target" /\ run'.t = run.t + 1 /\ run'.lay = run.lay
        /\ \A u \in Titles : run'.out.files[u] = IF u = run.t THEN run.dest ELSE run.out.files[u]
    BY <1>1, <1>2, NextTitleRun DEF RemoveOld, KeepMovie, MoveMovie
  <1>5. UNCHANGED <<dvd, encodes, status, layout, latest>>
    BY DEF RemoveOld, KeepMovie, MoveMovie
  <1>6. /\ movies'[run.dest] \in {<<run.t, latest>>, Guest}
        /\ \A p \in Paths : p # run.dest => movies'[p] \in {None, movies[p]} /\ (p # OldPath => movies'[p] = movies[p])
    <2>1. CASE RemoveOld
      <3>1. movies[run.dest] = <<run.t, latest>>
        BY <2>1 DEF RemoveOld, RecordInv, ProgressInv
      <3>2. QED
        BY <1>1, <1>2, <2>1, <3>1 DEF RemoveOld
    <2>2. CASE KeepMovie
      <3>1. movies[run.dest] \in {None, <<run.t, latest>>, Guest}
        BY <1>1, <1>3, <2>2, Kinds DEF KeepMovie, Stays, RecordInv, EncodesInv
      <3>2. QED
        BY <2>2, <3>1 DEF KeepMovie, Stays
    <2>3. CASE MoveMovie
      <3>1. OldPath \in Paths /\ OldPath # run.dest /\ movies[OldPath] # None
        BY <2>3 DEF MoveMovie, Checked
      <3>2. movies[OldPath] \in {<<run.t, latest>>, Guest}
        BY <1>1, <1>3, <2>3, <3>1, Kinds DEF MoveMovie, Checked, RecordInv, EncodesInv
      <3>3. \A p \in Paths : movies'[p] = IF p = OldPath THEN None
                                         ELSE IF p = run.dest THEN movies[OldPath] ELSE movies[p]
        BY <1>1, <1>2, <2>3, <3>1 DEF MoveMovie
      <3>4. QED
        BY <1>1, <3>1, <3>2, <3>3
    <2>4. QED
      BY <2>1, <2>2, <2>3
  <1>7. NoHandOver'
    BY <1>5 DEF RecordInv, NoHandOver
  <1>8. EncodesInv'
    <2> SUFFICES ASSUME NEW u \in Titles
                 PROVE  /\ encodes'[u] \in {0, latest'}
                        /\ encodes'[u] = 0 /\ status'.files[u] # None
                             => movies'[status'.files[u]] \in {None, <<u, latest'>>, Guest}
      BY DEF EncodesInv
    <2>1. /\ encodes[u] \in {0, latest} /\ status.files[u] \in Paths \cup {None}
          /\ encodes[u] = 0 /\ status.files[u] # None => movies[status.files[u]] \in {None, <<u, latest>>, Guest}
      BY <1>2 DEF RecordInv, EncodesInv
    <2>2. u # run.t => status.files[u] # run.dest
      BY <1>1, TitlesApart DEF RecordInv
    <2>3. QED
      BY <1>5, <1>6, <2>1, <2>2
  <1>9. ProgressInv'
    <2>1. ASSUME NEW u \in Titles
          PROVE  /\ u >= run'.t => run'.out.files[u] = None
                 /\ run'.out.files[u] # None => /\ run.lay.dest[u] # None
                                                /\ run'.out.files[u] \in Outcomes(run.lay.dest[u])
                                                /\ movies'[run'.out.files[u]] \in {<<u, latest>>, Guest}
      <3>1. /\ u >= run.t => run.out.files[u] = None
            /\ run.out.files[u] # None => /\ run.lay.dest[u] # None
                                          /\ run.out.files[u] \in Outcomes(run.lay.dest[u])
                                          /\ movies[run.out.files[u]] \in {<<u, latest>>, Guest}
        BY <1>1 DEF RecordInv, ProgressInv
      <3>2. u # run.t /\ run.out.files[u] # None =>
               run.out.files[u] \in Paths /\ run.out.files[u] # run.dest /\ run.out.files[u] # OldPath
        BY <1>1, <1>3, <3>1, TitlesApart DEF RecordInv
      <3>3. u >= run'.t => u # run.t /\ u >= run.t
        BY <1>1, <1>4 DEF Titles
      <3>4. QED
        BY <1>1, <1>4, <1>6, <3>1, <3>2, <3>3
    <2>2. dvd'[run.lay.iso] \in Images \cup {Guest}
      BY <1>1, <1>5 DEF RecordInv, ProgressInv
    <2>3. QED
      BY <1>4, <1>5, <2>1, <2>2 DEF ProgressInv, AtTitle
  <1>10. RecordTrue'
    BY <1>4 DEF RecordTrue
  <1>11. QED
    BY <1>7, <1>8, <1>9, <1>10 DEF RecordInv

\* Every step keeps the record true.
LEMMA RecordStep ==
    ASSUME ~HandOver, Typed, Reading, OursInv, StrangerInv, RecordInv, Next
    PROVE  RecordInv'
  <1> USE DEF Typed
  <1>0. /\ run \in Run /\ run.lay.iso \in Isos /\ run.prev.iso \in Isos \cup {None}
        /\ dvd \in [Isos -> Images \cup {None, Stranger, Guest}] /\ movies \in [Paths -> Movies \cup {None, Stranger, Guest}]
        /\ run.lay \in Layouts /\ run.lay.dest \in [Titles -> Names \cup {None}]
        /\ status.files \in [Titles -> Paths \cup {None}] /\ status.iso \in Isos \cup {None}
        /\ run.out.files \in [Titles -> Paths \cup {None}]
    BY DEF TypeOK, Run, Layouts, Published
  <1>1. CASE Start
    <2>1. run'.pc = "iso" /\ \A t \in Titles : run'.out.files[t] = None
      BY <1>1, StartRun
    <2>2. QED
      BY <1>1, <2>1 DEF Start, RecordInv, NoHandOver, EncodesInv, ProgressInv, RecordTrue, IsoPlaced, PastIso, AtTitle
  <1>2. CASE CopyIso
    <2>1. <<"iso", master>> \in Images
      BY <1>2 DEF CopyIso, TypeOK, Images, Checked
    <2>2. run'.pc = "isonote" /\ run'.t = run.t /\ run'.lay = run.lay /\ run'.out = run.out
      BY <1>2, PcRun DEF CopyIso, RunPc
    <2>3. dvd'[run.lay.iso] \in Images \cup {Guest}
      BY <1>0, <1>2, <2>1 DEF CopyIso
    <2>4. QED
      BY <1>2, <2>2, <2>3, IsoRecord DEF CopyIso
  <1>2a. CASE CheckIso \/ CheckMoveIso
    <2>1. PICK pc \in {"isocopy", "isomove"} : run' = [run EXCEPT !.pc = pc]
      BY <1>2a DEF CheckIso, CheckMoveIso
    <2>2. run'.pc = pc /\ run'.t = run.t /\ run'.lay = run.lay /\ run'.out = run.out
      BY <2>1, PcRun DEF RunPc
    <2>3. QED
      BY <1>2a, <2>2, IsoRecord DEF CheckIso, CheckMoveIso, IsoPlaced
  <1>3. CASE NoteIso
    <2>1. run'.pc = "isoold" /\ run'.t = run.t /\ run'.lay = run.lay /\ run'.out = run.out
      BY <1>3, PcRun DEF NoteIso, RunPc
    <2>2. dvd'[run.lay.iso] \in Images \cup {Guest}
      BY <1>3 DEF NoteIso, RecordInv, ProgressInv, IsoPlaced, PastIso
    <2>3. QED
      BY <1>3, <2>1, <2>2, IsoRecord DEF NoteIso
  <1>4. CASE RemoveOldIso
    <2>1. run'.pc = "target" /\ run'.t = run.t /\ run'.lay = run.lay /\ run'.out = run.out
      BY <1>4, PcRun DEF RemoveOldIso, RunPc
    <2>2. dvd[run.lay.iso] \in Images \cup {Guest}
      BY <1>4 DEF RemoveOldIso, RecordInv, ProgressInv, IsoPlaced, PastIso
    <2>3. dvd'[run.lay.iso] \in Images \cup {Guest}
      BY <1>0, <1>4, <2>2 DEF RemoveOldIso
    <2>4. QED
      BY <1>4, <2>1, <2>3, IsoRecord DEF RemoveOldIso
  <1>5. CASE KeepIso
    <2>1. run'.pc = "target" /\ run'.t = run.t /\ run'.lay = run.lay /\ run'.out = run.out
      BY <1>5, PcRun DEF KeepIso, RunPc
    <2>2. NotTheirs(run.lay.iso)
      BY <1>5 DEF KeepIso, IsoThere, StrangerInv, OursInv, Reading, Claims, BeforeRecord
    <2>3. dvd[run.lay.iso] \in Images \cup {Guest}
      BY <1>0, <1>5, <2>2 DEF KeepIso, IsoThere, NotTheirs
    <2>4. QED
      BY <1>5, <2>1, <2>3, IsoRecord DEF KeepIso
  <1>6. CASE MoveIso
    <2>1. run'.pc = "target" /\ run'.t = run.t /\ run'.lay = run.lay /\ run'.out = run.out
      BY <1>6, PcRun DEF MoveIso, RunPc
    <2>2. NotTheirs(run.prev.iso) /\ run.prev.iso \in Isos /\ run.prev.iso # run.lay.iso
      BY <1>6 DEF MoveIso, Checked, StrangerInv, Reading, Claims, BeforeRecord
    <2>3. dvd[run.prev.iso] \in Images \cup {Guest}
      BY <1>0, <1>6, <2>2 DEF MoveIso, Checked, NotTheirs
    <2>4. dvd'[run.lay.iso] \in Images \cup {Guest}
      BY <1>0, <1>6, <2>2, <2>3 DEF MoveIso
    <2>5. QED
      BY <1>6, <2>1, <2>4, IsoRecord DEF MoveIso
  <1>7. CASE RefuseIso \/ RefuseTarget \/ RefuseMovie \/ NoIso \/ NoMovie
    <2>1. PICK why \in {"refused", "missing"} : GiveUp(why)
      BY <1>7 DEF RefuseIso, RefuseTarget, RefuseMovie, NoIso, NoMovie
    <2>2. run'.pc = why
      BY <2>1, RestRun DEF GiveUp, RunPc
    <2>3. QED
      BY <2>1, <2>2, RestRecord DEF GiveUp
  <1>8. CASE ChooseTarget
    <2>0. run.t \in Titles /\ run.pc = "target" /\ UNCHANGED <<dvd, movies, encodes, status, layout, latest>>
      BY <1>8 DEF ChooseTarget
    <2>1. CASE run.lay.dest[run.t] = None
      <3>1. run'.pc = "target" /\ run'.t = run.t + 1 /\ run'.lay = run.lay /\ run'.out = run.out
        BY <1>0, <1>8, <2>1 DEF ChooseTarget, Run
      <3>2. \A t \in Titles : t >= run'.t => t >= run.t
        BY <2>0, <3>1 DEF Titles
      <3>3. QED
        BY <2>0, <3>1, <3>2 DEF RecordInv, NoHandOver, EncodesInv, ProgressInv, RecordTrue, IsoPlaced, PastIso, AtTitle
    <2>2. CASE run.lay.dest[run.t] # None
      <3> DEFINE d == Target(Plain(run.lay.dest[run.t]))
      <3>1. run' = [run EXCEPT !.pc = "place", !.dest = d] /\ d # None
        BY <1>8, <2>2 DEF ChooseTarget
      <3>2. d \in Outcomes(run.lay.dest[run.t])
        BY <1>0, <2>0, <2>2, <3>1, TargetType
      <3> HIDE DEF d
      <3>3. run'.pc = "place" /\ run'.t = run.t /\ run'.lay = run.lay /\ run'.out = run.out /\ run'.dest = d
        BY <1>0, <3>1 DEF Run
      <3>4. QED
        BY <2>0, <2>2, <3>2, <3>3 DEF RecordInv, NoHandOver, EncodesInv, ProgressInv, RecordTrue, IsoPlaced, PastIso, AtTitle
    <2>3. QED
      BY <2>1, <2>2
  <1>9. CASE PlaceEncode
    BY <1>9, PlaceRecord
  <1>10. CASE NoteEncode
    <2>1. /\ run'.pc = "old" /\ run'.t = run.t /\ run'.lay = run.lay /\ run'.out = run.out
          /\ run'.dest = run.dest
      BY <1>10, PcRun DEF NoteEncode, RunPc
    <2>2. QED
      BY <1>10, <2>1 DEF NoteEncode, RecordInv, NoHandOver, EncodesInv, ProgressInv, RecordTrue, IsoPlaced, PastIso, AtTitle
  <1>10a. CASE CheckMoveMovie
    <2>1. /\ run'.pc = "move" /\ run'.t = run.t /\ run'.lay = run.lay /\ run'.out = run.out
          /\ run'.dest = run.dest
      BY <1>10a, PcRun DEF CheckMoveMovie, RunPc
    <2>2. QED
      BY <1>10a, <2>1
         DEF CheckMoveMovie, RecordInv, NoHandOver, EncodesInv, ProgressInv, RecordTrue, IsoPlaced, PastIso, AtTitle
  <1>11. CASE RemoveOld \/ KeepMovie \/ MoveMovie
    BY <1>11, TitleDone
  <1>12. CASE RemoveUnwanted
    <2>1. run'.pc = "record" /\ run'.t = run.t /\ run'.lay = run.lay /\ run'.out = run.out
      BY <1>12, PcRun DEF RemoveUnwanted, RunPc
    <2>2. \A p \in Paths : movies'[p] \in {None, movies[p]} /\ (p \in Recorded(run.out) => movies'[p] = movies[p])
      BY <1>0, <1>12 DEF RemoveUnwanted
    <2>3. \A t \in Titles : run.out.files[t] # None => run.out.files[t] \in Paths /\ run.out.files[t] \in Recorded(run.out)
      BY <1>0 DEF Recorded
    <2>4. UNCHANGED <<dvd, encodes, status, layout, latest>> /\ run.pc = "target"
      BY <1>12 DEF RemoveUnwanted
    <2>5. EncodesInv'
      BY <1>0, <2>2, <2>4 DEF RecordInv, EncodesInv
    <2>6. ProgressInv'
      BY <1>0, <2>1, <2>2, <2>3, <2>4 DEF RecordInv, ProgressInv, IsoPlaced, PastIso, AtTitle
    <2>7. QED
      BY <2>1, <2>4, <2>5, <2>6 DEF RecordInv, NoHandOver, RecordTrue
  <1>13. CASE RecordPublished
    <2>1. run'.pc = "finish" /\ run'.t = run.t /\ run'.lay = run.lay /\ run'.out = run.out
      BY <1>13, PcRun DEF RecordPublished, RunPc
    <2>2. run.out.iso = run.lay.iso /\ run.lay = layout
      BY <1>13 DEF RecordPublished, Reading, AtRest
    <2>3. UNCHANGED <<dvd, movies, encodes, layout, latest>> /\ run.pc = "record" /\ status' = run.out
      BY <1>13 DEF RecordPublished
    <2>4. ProgressInv'
      BY <2>1, <2>3 DEF RecordInv, ProgressInv, IsoPlaced, PastIso, AtTitle
    <2>5. \A t \in Titles : run.out.files[t] # None =>
             /\ run.lay.dest[t] # None /\ run.out.files[t] \in Outcomes(run.lay.dest[t])
             /\ movies[run.out.files[t]] \in {<<t, latest>>, Guest}
      BY <2>3 DEF RecordInv, ProgressInv, IsoPlaced, PastIso
    <2>6. EncodesInv'
      BY <2>3, <2>5 DEF RecordInv, EncodesInv
    <2>7. NoHandOver'
      <3> SUFFICES ASSUME NEW t \in Titles, NEW u \in Titles, t # u, run.lay.dest[t] # None
                   PROVE  run.out.files[u] \notin Outcomes(run.lay.dest[t])
        BY <2>2, <2>3 DEF NoHandOver
      <3>1. CASE run.out.files[u] = None
        BY <1>0, <3>1, OutcomePaths
      <3>2. CASE run.out.files[u] # None
        BY <2>3, <2>5, <3>2, TitlesApart DEF BeforeRecord, RecordInv
      <3>3. QED
        BY <3>1, <3>2
    <2>8. dvd[run.lay.iso] \in Images \cup {Guest}
      BY <2>3 DEF RecordInv, ProgressInv, IsoPlaced, PastIso
    <2>9. RecordTrue'
      BY <2>2, <2>3, <2>5, <2>8 DEF RecordTrue
    <2>10. QED
      BY <2>4, <2>6, <2>7, <2>9 DEF RecordInv
  <1>14. CASE Finish
    <2>1. run'.pc = "journal" /\ run'.t = run.t /\ run'.lay = run.lay /\ run'.out = run.out
      BY <1>14, PcRun DEF Finish, RunPc
    <2>2. UNCHANGED <<dvd, movies, status, layout, latest, left>> /\ run.pc = "finish"
      BY <1>14 DEF Finish
    <2>3. EncodesInv'
      <3>1. \A t \in Titles : encodes'[t] = IF run.out.files[t] # None THEN 0 ELSE encodes[t]
        BY <1>14 DEF Finish
      <3>2. status = run.out
        BY <2>2 DEF Reading
      <3>3. \A t \in Titles : status.files[t] # None => movies[status.files[t]] \in {<<t, latest>>, Guest}
        BY <2>2 DEF RecordInv, RecordTrue
      <3>4. QED
        BY <2>2, <3>1, <3>2, <3>3 DEF RecordInv, EncodesInv
    <2>4. QED
      BY <2>1, <2>2, <2>3 DEF RecordInv, NoHandOver, ProgressInv, RecordTrue, IsoPlaced, PastIso, AtTitle
  <1>15. CASE FinishJournal
    <2>1. run'.pc = "succeeded"
      BY <1>15, RestRun DEF FinishJournal, RunPc
    <2>2. status.iso \in Isos
      BY <1>0, <1>15 DEF FinishJournal, Reading, AtRest
    <2>3. QED
      BY <1>15, <2>1, <2>2 DEF FinishJournal, RecordInv, NoHandOver, EncodesInv, ProgressInv, RecordTrue, IsoPlaced, PastIso, AtTitle
  <1>16. CASE Crash
    <2>1. PICK pc \in {"died", "ready"} : Rest(pc)
      BY <1>16 DEF Crash
    <2>2. run'.pc = pc
      BY <1>16, <2>1, RestRun DEF Crash, RunPc
    <2>3. QED
      BY <1>16, <2>2, RestRecord DEF Crash
  <1>17. CASE Retry
    <2>1. run'.pc = "ready"
      BY <1>17, RestRun DEF Retry, RunPc
    <2>2. \A t \in Titles : encodes'[t] \in {latest, encodes[t]} /\ (encodes'[t] = 0 => encodes[t] = 0)
      BY <1>17 DEF Retry
    <2>3. EncodesInv'
      BY <1>17, <2>2 DEF Retry, RecordInv, EncodesInv
    <2>4. QED
      BY <1>17, <2>1, <2>3 DEF Retry, RecordInv, NoHandOver, ProgressInv, RecordTrue, IsoPlaced, PastIso, AtTitle
  <1>18. CASE EncodeAgain
    <2>1. run'.pc = "ready"
      BY <1>18, RestRun DEF EncodeAgain, RunPc
    <2>2. \A t \in Titles : encodes'[t] = latest' /\ latest' # 0
      BY <1>18, PublishAssumption DEF EncodeAgain, TypeOK, Versions
    <2>3. EncodesInv'
      BY <2>2 DEF EncodesInv
    <2>4. QED
      BY <1>18, <2>1, <2>3 DEF EncodeAgain, RecordInv, NoHandOver, ProgressInv, RecordTrue, IsoPlaced, PastIso, AtTitle
  <1>19. CASE Edit
    <2>1. run'.pc = run.pc /\ AtRest(run.pc)
      BY <1>0, <1>19 DEF Edit, Run
    <2>2. NoHandOver'
      BY <1>19 DEF Edit, NoHandOver
    <2>3. left'.delete = left.delete
      BY <1>19 DEF Edit, TypeOK
    <2>4. QED
      BY <1>19, <2>1, <2>2, <2>3
         DEF Edit, RecordInv, EncodesInv, ProgressInv, RecordTrue, NobodyDeleted, AtRest, IsoPlaced, PastIso, AtTitle
  <1>20. CASE AddFile
    <2>1. UNCHANGED <<run, encodes, status, layout, latest>> /\ left'.delete = left.delete
      BY <1>20 DEF AddFile, TypeOK
    <2>2. /\ \A p \in Paths : movies[p] # None => movies'[p] = movies[p]
          /\ \A p \in Paths : p \in Claims => movies'[p] \in {movies[p], Guest}
          /\ \A p \in Isos : dvd[p] # None => dvd'[p] = dvd[p]
      BY <1>0, <1>20 DEF AddFile, Theirs
    <2>3. \A t \in Titles : status.files[t] # None => status.files[t] \in Claims /\ status.files[t] \in Paths
      BY <1>0 DEF Claims, Recorded
    <2>4. EncodesInv'
      BY <2>1, <2>2, <2>3 DEF RecordInv, EncodesInv
    <2>5. \A t \in Titles : <<t, latest>> # None
      BY Kinds DEF Movies, TypeOK
    <2>6. RecordTrue'
      <3>1. run.pc \in {"finish", "journal", "succeeded"} => status.iso \in Isos
        BY <1>0 DEF RecordInv, ProgressInv, Reading, AtRest
      <3>2. QED
        BY <2>1, <2>2, <2>3, <2>5, <3>1, Kinds DEF RecordInv, RecordTrue, NobodyDeleted
    <2>7. NoHandOver'
      BY <2>1 DEF RecordInv, NoHandOver
    <2>8. ProgressInv'
      <3>1. run.pc \in {"note", "old"} => run.dest \in Paths /\ run.t \in Titles
        BY DEF TitleOK, AtTitle
      <3>2. run.pc \in {"note", "old"} => movies'[run.dest] = movies[run.dest]
        BY <2>2, <2>5, <3>1 DEF RecordInv, ProgressInv
      <3>3. run.pc \in IsoPlaced => dvd'[run.lay.iso] = dvd[run.lay.iso]
        BY <1>0, <2>2, Kinds DEF RecordInv, ProgressInv
      <3>4. ASSUME NEW t \in Titles, run.pc \in PastIso \cup {"iso"}, run.out.files[t] # None
            PROVE  movies'[run.out.files[t]] = movies[run.out.files[t]]
        <4>1. run.out.files[t] \in Paths /\ movies[run.out.files[t]] \in {<<t, latest>>, Guest}
          BY <1>0, <3>4 DEF RecordInv, ProgressInv
        <4>2. QED
          BY <2>2, <2>5, <4>1, Kinds
      <3>5. QED
        BY <2>1, <3>2, <3>3, <3>4 DEF RecordInv, ProgressInv
    <2>9. QED
      BY <2>4, <2>6, <2>7, <2>8 DEF RecordInv
  <1>21. CASE Delete
    <2>1. left'.delete # MaxDeletes /\ run' = run /\ run.pc = "succeeded"
      BY <1>21, PublishAssumption DEF Delete, TypeOK
    <2>2. \A p \in Paths : movies'[p] \in {None, movies[p]}
      BY <1>0, <1>21 DEF Delete
    <2>3. EncodesInv'
      BY <1>0, <1>21, <2>2 DEF Delete, RecordInv, EncodesInv
    <2>4. QED
      BY <1>21, <2>1, <2>3 DEF Delete, RecordInv, NoHandOver, ProgressInv, RecordTrue, NobodyDeleted, IsoPlaced, PastIso, AtTitle
  <1>22. QED
    BY <1>1, <1>2, <1>2a, <1>3, <1>4, <1>5, <1>6, <1>7, <1>8, <1>9, <1>10, <1>10a, <1>11, <1>12, <1>13, <1>14,
       <1>15, <1>16, <1>17, <1>18, <1>19, <1>20, <1>21
       DEF Next, PublishStep

(* What a publish recorded is in the libraries, the latest encode of each  *)
(* title among it, across every crash and retry and whatever people add at *)
(* whatever moment, as long as no edit gives a title the path another one  *)
(* has: it is the disc's own, or a file somebody put in its place.         *)
THEOREM RecordSafe == ~HandOver => (Spec => []RecordTrue)
  <1>1. Init => RecordInv
    <2> SUFFICES ASSUME Init PROVE RecordInv
      OBVIOUS
    <2>1. /\ run.pc = "ready" /\ status = NothingPublished /\ latest = 1
          /\ layout \in Layouts /\ \A t \in Titles : encodes[t] = 1
      BY DEF Init
    <2>2. NoHandOver
      BY <2>1, EmptyRecord, OutcomePaths DEF NoHandOver, Layouts
    <2>3. QED
      BY <2>1, <2>2 DEF RecordInv, EncodesInv, ProgressInv, RecordTrue, IsoPlaced, PastIso, AtTitle
  <1>2. ~HandOver /\ Typed /\ Reading /\ OursInv /\ StrangerInv /\ RecordInv /\ [Next]_vars => RecordInv'
    <2>1. ASSUME RecordInv, UNCHANGED vars PROVE RecordInv'
      BY <2>1 DEF vars, RecordInv, NoHandOver, EncodesInv, ProgressInv, RecordTrue, NobodyDeleted
    <2>2. QED
      BY <2>1, RecordStep
  <1>3. RecordInv => RecordTrue
    BY DEF RecordInv
  <1>4. ASSUME ~HandOver PROVE Spec => []RecordTrue
    BY <1>1, <1>2, <1>3, <1>4, StrangerAlways, PTL DEF Spec
  <1>5. QED
    BY <1>4
=============================================================================
