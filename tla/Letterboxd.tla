---------------------------- MODULE Letterboxd ----------------------------
(***************************************************************************)
(* letterboxd-sync: a daily job that sends the plays of a Trakt history to *)
(* a Letterboxd diary that has neither an undo nor a write API.  A click   *)
(* in a browser imports a batch; the job may be killed at any step, and    *)
(* the page may take the batch without the job seeing it say so.           *)
(***************************************************************************)
EXTENDS Naturals, Sequences, FiniteSets, FiniteSetsExt

CONSTANTS
    Plays,          \* Trakt's history ids
    WatchedAt,      \* when each was watched, in 1 .. LastTime
    Film,           \* the TMDB id of each, or NoTmdb
    NoTmdb,
    LastTime,       \* bound on the clock
    MaxFilms,       \* MAX_FILMS
    StartAt,        \* START_AT, past LastTime when it is unset
    MaxKills,       \* bound on jobs killed or failed
    MaxIdle         \* bound on runs that find nothing to do or only look

ASSUME PlayAssumption ==
    /\ Plays \subseteq Nat /\ MaxFilms \in Nat \ {0} /\ LastTime \in Nat \ {0}
    /\ StartAt \in Nat /\ MaxKills \in Nat /\ MaxIdle \in Nat
    /\ WatchedAt \in [Plays -> 1 .. LastTime] /\ DOMAIN Film = Plays

VARIABLES
    now,        \* the clock
    history,    \* the plays Trakt knows
    saved,      \* state.json
    pc,         \* where the job is
    state,      \* its copy of the state
    plays,      \* the plays it handles
    diary,      \* the diary: <<play, rewatch>> in the order they were added
    landed,     \* history: whether the click of the pending batch was taken
    skipped,    \* history: plays before the baseline
    late,       \* history: plays Trakt learnt of after a later one, or behind the cursor
    left        \* what the environment may still do

vars == <<now, history, saved, pc, state, plays, diary, landed, skipped, late, left>>
None == [none |-> TRUE]
Default == [cursor |-> 0, ids |-> {}, seen |-> {}, pending |-> None]
InDiary == {diary[i][1] : i \in DOMAIN diary}

(* Every variable has its shape. *)
TypeOK ==
    /\ now \in 1 .. LastTime /\ history \subseteq Plays
    /\ \A s \in {saved, state} : s.cursor \in 0 .. LastTime /\ s.ids \subseteq Plays
    /\ pc \in {"idle", "browser", "confirm", "clicked"}
    /\ plays \subseteq Plays /\ InDiary \subseteq Plays
    /\ landed \in BOOLEAN /\ skipped \subseteq Plays /\ late \subseteq Plays
    /\ left \in [kill : 0 .. MaxKills, idle : 0 .. MaxIdle]

Init ==
    /\ now = 1 /\ history = {} /\ saved = Default /\ pc = "idle" /\ state = Default /\ plays = {}
    /\ diary = <<>> /\ landed = FALSE /\ skipped = {} /\ late = {}
    /\ left = [kill |-> MaxKills, idle |-> MaxIdle]

-----------------------------------------------------------------------------
(* Plays are handled oldest first.  Place is how many of ps come earlier;  *)
(* Sorted has them in that order; upload() keeps the first MAX_FILMS.      *)
Before(p, q) == WatchedAt[p] < WatchedAt[q] \/ (WatchedAt[p] = WatchedAt[q] /\ p < q)
Place(ps, p) == Cardinality({q \in ps : Before(q, p)})
Sorted(ps) == [i \in 1 .. Cardinality(ps) |-> CHOOSE p \in ps : Place(ps, p) = i - 1]
Capped(ps) == {p \in ps : Place(ps, p) < MaxFilms}

(* csv::build(): a play without an id makes no row; a film that is known,  *)
(* or has an earlier row, is a rewatch.                                    *)
Rows(ps) == {p \in ps : Film[p] # NoTmdb}
Films(ps) == {Film[p] : p \in Rows(ps)}
EarlierRows(ps, p) == {q \in Rows(ps) : Before(q, p)}
EveryRowIsNew(ps, seen) == [i \in 1 .. Cardinality(Rows(ps)) |-> <<Sorted(Rows(ps))[i], FALSE>>]   \* mutant
Build(ps, seen) ==
    LET row == Sorted(Rows(ps))
    IN [i \in 1 .. Cardinality(Rows(ps)) |->
           <<row[i], Film[row[i]] \in seen \cup Films(EarlierRows(ps, row[i]))>>]

NewestAt(ps) == Max({WatchedAt[p] : p \in ps})
Newest(ps) == {p \in ps : WatchedAt[p] = NewestAt(ps)}

(* upload(): the cursor a batch leads to.  Ids at the old one are kept if it does not move. *)
ToOldest(s, ps) ==                                                                  \* mutant
    [cursor |-> Min({WatchedAt[p] : p \in ps}), ids |-> Newest(ps), seen |-> s.seen]
Advanced(s, ps) ==
    [cursor |-> NewestAt(ps),
     ids |-> Newest(ps) \cup (IF NewestAt(ps) = s.cursor THEN s.ids ELSE {}),
     seen |-> s.seen]
AfterBatch == LET a == Advanced(state, plays) IN [a EXCEPT !.seen = @ \cup Films(plays)]

(* What a run has to look at: the history from the cursor on, less what is *)
(* known to be handled at exactly that moment.                             *)
AfterCursor(s) == {p \in history : WatchedAt[p] > s.cursor}                         \* mutant
Fresh(s) == {p \in history : WatchedAt[p] >= s.cursor /\ ~(WatchedAt[p] = s.cursor /\ p \in s.ids)}

Settled(s) == [s EXCEPT !.pending = None]
StillPending(s) == [cursor |-> s.pending.cursor, ids |-> s.pending.ids, seen |-> s.pending.seen,
                    pending |-> s.pending]                                          \* mutant
Adopted(s) == [cursor |-> s.pending.cursor, ids |-> s.pending.ids, seen |-> s.pending.seen, pending |-> None]

Idle == pc' = "idle" /\ state' = Default /\ plays' = {}

-----------------------------------------------------------------------------
(* The first run with nothing to backfill records where the history stands. *)
Baseline ==
    /\ pc = "idle" /\ saved.pending = None /\ saved.cursor = 0
    /\ \A p \in history : WatchedAt[p] < StartAt
    /\ saved' = [saved EXCEPT !.cursor = IF history = {} THEN now ELSE NewestAt(history),
                              !.ids = IF history = {} THEN {} ELSE Newest(history),
                              !.seen = Films(history)]
    /\ skipped' = history
    /\ UNCHANGED <<now, history, pc, state, plays, diary, landed, late, left>>

(* The first run with plays from START_AT on, and every later run that     *)
(* finds some: take the oldest, up to MAX_FILMS.                           *)
Take(s, ps) ==
    /\ ps # {}
    /\ state' = s
    /\ plays' = Capped(ps)
    /\ pc' = "browser"
    /\ UNCHANGED <<now, history, saved, diary, landed, late, left>>
Backfill ==
    /\ pc = "idle" /\ saved.pending = None /\ saved.cursor = 0
    /\ LET backfill == {p \in history : WatchedAt[p] >= StartAt}
       IN /\ Take([saved EXCEPT !.seen = Films(history \ backfill)], backfill)
          /\ skipped' = history \ backfill
Run ==
    /\ pc = "idle" /\ saved.pending = None /\ saved.cursor # 0
    /\ Take(saved, Fresh(saved))
    /\ UNCHANGED skipped

(* Nothing new; or a run that only looks: DRY_RUN, or no credentials. *)
LookOnly ==
    /\ left.idle > 0 /\ left' = [left EXCEPT !.idle = @ - 1]
    /\ \/ pc = "idle" /\ saved.pending = None /\ saved.cursor # 0 /\ Fresh(saved) = {}
       \/ pc = "browser" /\ Rows(plays) # {}
    /\ Idle
    /\ UNCHANGED <<now, history, saved, diary, landed, skipped, late>>

(* Only plays that cannot be matched: they are handled without an upload. *)
Unmatched ==
    /\ pc = "browser" /\ Rows(plays) = {}
    /\ LET a == Advanced(state, plays)
       IN saved' = [state EXCEPT !.cursor = a.cursor, !.ids = a.ids]
    /\ Idle
    /\ UNCHANGED <<now, history, diary, landed, skipped, late, left>>

(* Signed in and uploaded; stop_before_confirm ends here.  Otherwise the   *)
(* batch is recorded as pending, and only then comes the click.            *)
StopBeforeConfirm ==
    /\ pc = "browser" /\ Rows(plays) # {}
    /\ left.idle > 0 /\ left' = [left EXCEPT !.idle = @ - 1]
    /\ Idle
    /\ UNCHANGED <<now, history, saved, diary, landed, skipped, late>>

SavePending ==
    /\ pc = "browser" /\ Rows(plays) # {}
    /\ saved' = [state EXCEPT !.pending = AfterBatch]
    /\ state' = saved'
    /\ pc' = "confirm" /\ landed' = FALSE
    /\ UNCHANGED <<now, history, plays, diary, skipped, late, left>>

(* The click, which the site may take or not. *)
Confirm ==
    /\ pc = "confirm"
    /\ landed' \in BOOLEAN
    /\ diary' = IF landed' THEN diary \o Build(plays, state.seen) ELSE diary
    /\ pc' = "clicked"
    /\ UNCHANGED <<now, history, saved, state, plays, skipped, late, left>>

(* The page says that it took the batch.  A page that says so falsely (any *)
(* text with "imported" or "queued" in it counts, from before the click    *)
(* too) is outside the model.                                              *)
Recognised ==
    /\ pc = "clicked" /\ landed
    /\ saved' = Adopted(state)
    /\ Idle
    /\ UNCHANGED <<now, history, diary, landed, skipped, late, left>>

(* No known text followed, within CONFIRM_WAIT_SECS; the batch stays pending. *)
Unrecognised ==
    /\ pc = "clicked"
    /\ left.kill > 0 \/ ~landed
    /\ left' = [left EXCEPT !.kill = IF landed THEN @ - 1 ELSE @]
    /\ Idle
    /\ UNCHANGED <<now, history, saved, diary, landed, skipped, late>>

(* A request or a page failed, or the job hit its deadline. *)
Dies ==
    /\ pc # "idle" /\ left.kill > 0
    /\ left' = [left EXCEPT !.kill = @ - 1]
    /\ Idle
    /\ UNCHANGED <<now, history, saved, diary, landed, skipped, late>>

(* resolve(): the owner looks at the diary and says whether the batch is there. *)
Resolve ==
    /\ pc = "idle" /\ saved.pending # None
    /\ saved' = IF landed THEN Adopted(saved) ELSE Settled(saved)
    /\ UNCHANGED <<now, history, pc, state, plays, diary, landed, skipped, late, left>>

-----------------------------------------------------------------------------
(* The environment: time, and plays that reach Trakt, some of them late. *)
Tick ==
    /\ now < LastTime /\ now' = now + 1
    /\ UNCHANGED <<history, saved, pc, state, plays, diary, landed, skipped, late, left>>
Watch ==
    \E p \in Plays \ history :
        /\ WatchedAt[p] <= now
        /\ history' = history \cup {p}
        /\ late' = IF WatchedAt[p] < saved.cursor \/ \E q \in history : WatchedAt[q] > WatchedAt[p]
                   THEN late \cup {p} ELSE late
        /\ UNCHANGED <<now, saved, pc, state, plays, diary, landed, skipped, left>>

Job == Baseline \/ Backfill \/ Run \/ Unmatched \/ SavePending \/ Confirm \/ Recognised
Next ==
    \/ Job \/ LookOnly \/ StopBeforeConfirm \/ Unrecognised \/ Dies \/ Resolve \/ Tick \/ Watch
Spec == Init /\ [][Next]_vars

(* The job runs every day and the owner answers; a click is taken if it is tried again and again. *)
FairSpec ==
    /\ Spec /\ WF_vars(Job) /\ WF_vars(Resolve) /\ WF_vars(Unrecognised) /\ WF_vars(Tick)
    /\ WF_vars(Watch) /\ SF_vars(Confirm /\ landed')

-----------------------------------------------------------------------------
(* No play is added to the diary twice, whenever a job dies and whatever   *)
(* the page said: the click is never repeated on a batch that may be in.   *)
NeverTwice == \A i, j \in DOMAIN diary : diary[i][1] = diary[j][1] => i = j

(* The cursor never passes a play that is not in the diary: what it has    *)
(* passed was sent, is without an id, or was there before the first run or *)
(* reached Trakt late.                                                     *)
Passed(s, p) == WatchedAt[p] < s.cursor \/ p \in s.ids
NoneDropped ==
    \A p \in history :
        Passed(saved, p) => p \in InDiary \cup skipped \cup late \/ Film[p] = NoTmdb

(* A row says rewatch exactly when the film is in the diary already, or    *)
(* was watched before the baseline; this holds across batches, settled by  *)
(* the job or by hand.                                                     *)
RewatchTrue ==
    \A i \in DOMAIN diary :
        diary[i][2] <=> \/ \E j \in 1 .. i - 1 : Film[diary[j][1]] = Film[diary[i][1]]
                        \/ \E p \in skipped : Film[p] = Film[diary[i][1]]

(* Every play that can be matched and came in order gets to the diary. *)
AllSent ==
    \A p \in Plays : (Film[p] # NoTmdb /\ saved.cursor # 0 /\ p \in history \ (skipped \cup late)) ~> p \in InDiary
=============================================================================
