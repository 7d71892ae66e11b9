-------------------------- MODULE LetterboxdProofs --------------------------
(***************************************************************************)
(* Proofs about letterboxd-sync: for any history, any cap on a batch, any  *)
(* number of days, failures and killed jobs, the diary holds no play       *)
(* twice, the cursor passes no play that was not sent, and a row says      *)
(* rewatch exactly when it is one.                                         *)
(***************************************************************************)
EXTENDS Letterboxd, FiniteSetTheorems, TLAPS

\* What a state may hold, and what a pending batch adds to it.
FilmIds == {Film[p] : p \in Plays}
Batch == [cursor : 0 .. LastTime, ids : SUBSET Plays, seen : SUBSET FilmIds]
State == [cursor : 0 .. LastTime, ids : SUBSET Plays, seen : SUBSET FilmIds, pending : Batch \cup {None}]
Typed ==
    /\ TypeOK
    /\ saved \in State /\ state \in State /\ diary \in Seq(Plays \X BOOLEAN)
    /\ IsFiniteSet(history) /\ plays \subseteq history

\* The ids are those of plays at the cursor.
AtCursor(s) == \A p \in s.ids : p \in history /\ WatchedAt[p] = s.cursor

\* The cursor is past all that is in the diary; it is past nothing else that should
\* be in it, but for the plays ps; the films it knows are those of the diary and of
\* the time before it.
Sent(s) == \A p \in InDiary : Passed(s, p)
Covers(s, ps) ==
    \A p \in history : Passed(s, p) => p \in InDiary \cup skipped \cup late \cup ps \/ Film[p] = NoTmdb
Knows(s) == s.seen = Films(InDiary \cup skipped)
Right(s) == Sent(s) /\ (s.cursor # 0 => Knows(s))

\* Which of the two states of the file is right depends on whether the click was taken.
SavedRight ==
    /\ AtCursor(saved) /\ Covers(saved, {})
    /\ saved.pending = None \/ ~landed => Right(saved)
PendingRight ==
    saved.pending # None =>
        /\ AtCursor(saved.pending) /\ saved.pending.ids # {} /\ saved.pending.cursor # 0
        /\ landed => Right(saved.pending) /\ Covers(saved.pending, {})

\* A batch has nothing that was handled, and nothing older was left out of it.
Fetched ==
    /\ plays # {}
    /\ \A p \in plays : ~Passed(state, p)
    /\ \A p \in history, q \in plays :
          WatchedAt[p] < WatchedAt[q] => p \in plays \/ Passed(state, p) \/ p \in skipped \cup late
AtBrowser ==
    pc = "browser" =>
        /\ saved.pending = None /\ state.pending = None
        /\ state.cursor = saved.cursor /\ state.ids = saved.ids
        /\ Knows(state) /\ Fetched
AtConfirm ==
    /\ pc \in {"confirm", "clicked"} => saved = state /\ saved.pending # None
    /\ pc = "confirm" =>
        /\ ~landed /\ Knows(state) /\ \A p \in plays : ~Passed(state, p)
        /\ \A p \in InDiary \cup plays : Passed(saved.pending, p)
        /\ Covers(saved.pending, plays)
        /\ saved.pending.seen = state.seen \cup Films(plays)

IInv == Typed /\ SavedRight /\ PendingRight /\ AtBrowser /\ AtConfirm
DiaryRight == NeverTwice /\ RewatchTrue

-----------------------------------------------------------------------------
\* The order of plays is total.
LEMMA Order ==
    \A p, q, r \in Plays :
        /\ ~Before(p, p)
        /\ p = q \/ Before(p, q) \/ Before(q, p)
        /\ Before(p, q) => ~Before(q, p)
        /\ Before(p, q) /\ Before(q, r) => Before(p, r)
BY PlayAssumption DEF Before

\* The places of finitely many plays are 0, 1, 2 and so on, in that order.
LEMMA Places ==
    ASSUME NEW ps \in SUBSET Plays, IsFiniteSet(ps)
    PROVE  /\ Cardinality(ps) \in Nat
           /\ \A p \in ps : Place(ps, p) \in 0 .. Cardinality(ps) - 1
           /\ \A p, q \in ps : Before(p, q) <=> Place(ps, p) < Place(ps, q)
           /\ \A i \in 0 .. Cardinality(ps) - 1 : \E p \in ps : Place(ps, p) = i
<1> DEFINE Earlier(p) == {q \in ps : Before(q, p)}
           n == Cardinality(ps)
<1>1. n \in Nat
  BY FS_CardinalityType
<1>2. \A p \in ps : IsFiniteSet(Earlier(p)) /\ Place(ps, p) = Cardinality(Earlier(p)) /\ Place(ps, p) \in Nat
  <2> TAKE p \in ps
  <2>1. Earlier(p) \in SUBSET ps
    OBVIOUS
  <2>2. IsFiniteSet(Earlier(p)) /\ Cardinality(Earlier(p)) \in Nat
    BY <2>1, FS_Subset, FS_CardinalityType
  <2> QED
    BY <2>2 DEF Place
<1>3. \A p \in ps : Place(ps, p) \in 0 .. n - 1
  <2> TAKE p \in ps
  <2>1. Earlier(p) \in SUBSET ps /\ Earlier(p) # ps
    BY Order
  <2>2. Cardinality(Earlier(p)) <= n /\ Cardinality(Earlier(p)) # n
    BY <2>1, FS_Subset
  <2> QED
    BY <2>2, <1>1, <1>2
<1>4. ASSUME NEW p \in ps, NEW q \in ps, Before(p, q) PROVE Place(ps, p) < Place(ps, q)
  <2>1. Earlier(p) \in SUBSET Earlier(q) /\ p \in Earlier(q) /\ p \notin Earlier(p)
    BY <1>4, Order
  <2>2. Cardinality(Earlier(p)) <= Cardinality(Earlier(q)) /\ Cardinality(Earlier(p)) # Cardinality(Earlier(q))
    BY <2>1, <1>2, FS_Subset
  <2>3. /\ Place(ps, p) = Cardinality(Earlier(p)) /\ Place(ps, p) \in Nat
        /\ Place(ps, q) = Cardinality(Earlier(q)) /\ Place(ps, q) \in Nat
    BY <1>2
  <2> HIDE DEF Earlier
  <2> QED
    BY <2>2, <2>3
<1>5. \A p, q \in ps : Before(p, q) <=> Place(ps, p) < Place(ps, q)
  <2> SUFFICES ASSUME NEW p \in ps, NEW q \in ps, Place(ps, p) < Place(ps, q) PROVE Before(p, q)
    BY <1>4
  <2>1. Place(ps, p) \in Nat /\ Place(ps, q) \in Nat
    BY <1>2
  <2>2. ~(Place(ps, p) < Place(ps, p)) /\ ~(Place(ps, q) < Place(ps, p))
    BY <2>1
  <2>3. p # q /\ ~Before(q, p)
    BY <2>2, <1>4
  <2> QED
    BY <2>3, Order
<1>6. \A i \in 0 .. n - 1 : \E p \in ps : Place(ps, p) = i
  <2> DEFINE f == [p \in ps |-> Place(ps, p)]
             T == 0 .. n - 1
  <2>1. \A p, q \in ps : Place(ps, p) = Place(ps, q) => p = q
    BY <1>2, <1>5, Order
  <2>2. f \in [ps -> T]
    BY <1>3
  <2>3. f \in Injection(ps, T)
    BY <2>1, <2>2 DEF Injection, IsInjective
  <2>4. IsFiniteSet(T) /\ Cardinality(T) = n
    BY <1>1, FS_Interval
  <2>5. f \in Surjection(ps, T)
    BY <2>3, <2>4, FS_Injection
  <2> QED
    BY <2>5 DEF Surjection
<1> QED
  BY <1>1, <1>3, <1>5, <1>6

\* Sorted has every play once, in order.
LEMMA SortedHas ==
    ASSUME NEW ps \in SUBSET Plays, IsFiniteSet(ps)
    PROVE  /\ Cardinality(ps) \in Nat
           /\ Sorted(ps) \in [1 .. Cardinality(ps) -> ps]
           /\ \A i, j \in 1 .. Cardinality(ps) : Before(Sorted(ps)[i], Sorted(ps)[j]) <=> i < j
           /\ \A p \in ps : \E i \in 1 .. Cardinality(ps) : Sorted(ps)[i] = p
<1> DEFINE n == Cardinality(ps)
           row == Sorted(ps)
<1>1. n \in Nat /\ \A i \in 1 .. n : i - 1 \in 0 .. n - 1
  BY Places
<1>2. \A i \in 1 .. n : row[i] \in ps /\ Place(ps, row[i]) = i - 1
  BY <1>1, Places DEF Sorted
<1>3. row \in [1 .. n -> ps]
  BY <1>2 DEF Sorted
<1>4. \A i, j \in 1 .. n : Before(row[i], row[j]) <=> i < j
  BY <1>1, <1>2, Places
<1>5. \A p \in ps : \E i \in 1 .. n : row[i] = p
  <2> TAKE p \in ps
  <2>1. Place(ps, p) \in 0 .. n - 1
    BY Places
  <2>2. Place(ps, p) + 1 \in 1 .. n /\ Place(ps, row[Place(ps, p) + 1]) = Place(ps, p) /\ row[Place(ps, p) + 1] \in ps
    BY <2>1, <1>1, <1>2
  <2>3. \A q \in ps : Place(ps, q) = Place(ps, p) => q = p
    BY Places, Order, <2>1
  <2> QED
    BY <2>2, <2>3
<1> QED
  BY <1>1, <1>3, <1>4, <1>5

\* A batch is not empty, and what is older than a play of it is in it too.
LEMMA CappedHas ==
    ASSUME NEW ps \in SUBSET Plays, IsFiniteSet(ps), ps # {}
    PROVE  /\ Capped(ps) \subseteq ps /\ Capped(ps) # {}
           /\ \A p \in ps, q \in Capped(ps) : Before(p, q) => p \in Capped(ps)
<1>1. Cardinality(ps) \in Nat \ {0} /\ 0 \in 0 .. Cardinality(ps) - 1
  BY Places, FS_EmptySet
<1>2. PICK p \in ps : Place(ps, p) = 0
  BY <1>1, Places
<1>3. p \in Capped(ps)
  BY <1>2, PlayAssumption DEF Capped
<1>4. \A r \in ps, q \in Capped(ps) : Before(r, q) => r \in Capped(ps)
  BY Places, PlayAssumption, <1>1 DEF Capped
<1> QED
  BY <1>3, <1>4 DEF Capped

\* The moment of the newest play.
LEMMA NewestHas ==
    ASSUME NEW ps \in SUBSET Plays, IsFiniteSet(ps), ps # {}
    PROVE  /\ NewestAt(ps) \in 1 .. LastTime
           /\ \A p \in ps : WatchedAt[p] <= NewestAt(ps)
           /\ Newest(ps) # {} /\ Newest(ps) \subseteq ps
<1> DEFINE n == Cardinality(ps)
           row == Sorted(ps)
<1>1. n \in Nat \ {0}
  BY Places, FS_EmptySet
<1>2. row[n] \in ps /\ \A p \in ps : p = row[n] \/ Before(p, row[n])
  <2>1. row[n] \in ps
    BY <1>1, SortedHas
  <2>2. \A i \in 1 .. n : i = n \/ i < n
    BY <1>1
  <2> QED
    BY <1>1, <2>1, <2>2, SortedHas
<1>3. WatchedAt[row[n]] \in 1 .. LastTime /\ \A p \in ps : WatchedAt[p] <= WatchedAt[row[n]]
  <2> DEFINE top == row[n]
  <2>1. top \in ps /\ \A p \in ps : p = top \/ Before(p, top)
    BY <1>2
  <2> HIDE DEF top
  <2>2. WatchedAt[top] \in 1 .. LastTime /\ \A p \in ps : WatchedAt[p] <= WatchedAt[top]
    BY <2>1, PlayAssumption DEF Before
  <2> QED
    BY <2>2 DEF top
<1> DEFINE M == {WatchedAt[p] : p \in ps}
<1>4. WatchedAt[row[n]] \in M /\ \A y \in M : WatchedAt[row[n]] >= y
  BY <1>2, <1>3
<1>5. Max(M) \in M /\ \A y \in M : Max(M) >= y
  BY <1>4 DEF Max
<1>6. NewestAt(ps) = Max(M)
  BY DEF NewestAt
<1>7. \A p \in ps : WatchedAt[p] \in 1 .. LastTime
  BY PlayAssumption
<1> HIDE DEF M
<1>8. NewestAt(ps) \in 1 .. LastTime /\ \E p \in ps : WatchedAt[p] = NewestAt(ps)
  BY <1>5, <1>6, <1>7 DEF M
<1>9. \A p \in ps : WatchedAt[p] <= NewestAt(ps)
  BY <1>5, <1>6, <1>7, <1>8 DEF M
<1> QED
  BY <1>8, <1>9 DEF Newest

-----------------------------------------------------------------------------
\* Where the cursor has not been set nothing was handled.
LEMMA NothingYet ==
    ASSUME NEW s, s.cursor = 0, AtCursor(s), history \subseteq Plays, NEW p \in Plays
    PROVE  ~Passed(s, p)
BY PlayAssumption DEF AtCursor, Passed

\* What becomes of the cursor: past everything it was past and past the batch, and
\* past nothing else but what is older than a play of the batch.
LEMMA AdvancedHas ==
    ASSUME IInv, pc = "browser", NEW a, a = Advanced(state, plays)
    PROVE  /\ a.cursor \in 1 .. LastTime /\ a.ids \subseteq Plays /\ a.ids # {} /\ AtCursor(a)
           /\ \A p \in plays : Passed(a, p)
           /\ \A p \in Plays : Passed(state, p) => Passed(a, p)
           /\ \A p \in Plays : Passed(a, p) =>
                 Passed(state, p) \/ p \in plays \/ \E q \in plays : WatchedAt[p] < WatchedAt[q]
<1>1. /\ plays \in SUBSET Plays /\ IsFiniteSet(plays) /\ plays # {} /\ plays \subseteq history
      /\ history \subseteq Plays
  BY FS_Subset DEF IInv, Typed, TypeOK, AtBrowser, Fetched
<1>2. /\ NewestAt(plays) \in 1 .. LastTime /\ Newest(plays) # {} /\ Newest(plays) \subseteq plays
      /\ \A p \in plays : WatchedAt[p] <= NewestAt(plays)
      /\ \A p \in plays : p \in Newest(plays) <=> WatchedAt[p] = NewestAt(plays)
  BY <1>1, NewestHas DEF Newest
<1>3. state.cursor \in Nat /\ state.ids \subseteq Plays /\ AtCursor(state)
  BY DEF IInv, Typed, State, SavedRight, AtBrowser, AtCursor
<1>4. /\ a.cursor = NewestAt(plays)
      /\ a.ids = Newest(plays) \cup (IF NewestAt(plays) = state.cursor THEN state.ids ELSE {})
  BY DEF Advanced
<1>5. \A p \in plays : WatchedAt[p] >= state.cursor
  BY <1>1, <1>3, PlayAssumption DEF IInv, AtBrowser, Fetched, Passed
<1>6. NewestAt(plays) >= state.cursor
  BY <1>1, <1>2, <1>3, <1>5, PlayAssumption
<1>7. \A p \in Plays : WatchedAt[p] \in Nat
  BY PlayAssumption
<1>8. AtCursor(a)
  BY <1>1, <1>2, <1>3, <1>4 DEF AtCursor
<1>9. \A p \in plays : Passed(a, p)
  BY <1>1, <1>2, <1>4, <1>7 DEF Passed
<1>10. \A p \in Plays : Passed(state, p) => Passed(a, p)
  BY <1>2, <1>3, <1>4, <1>6, <1>7 DEF Passed, AtCursor
<1>11. ASSUME NEW p \in Plays, Passed(a, p), ~Passed(state, p), p \notin plays
       PROVE  \E q \in plays : WatchedAt[p] < WatchedAt[q]
  <2>1. p \notin a.ids
    BY <1>2, <1>4, <1>11 DEF Passed
  <2> QED
    BY <1>2, <1>4, <1>11, <2>1 DEF Passed
<1> QED
  BY <1>1, <1>2, <1>3, <1>4, <1>8, <1>9, <1>10, <1>11

\* A batch is told from no batch.
LEMMA SomeBatch == (\A b \in Batch : b # None) /\ Default \in State /\ Default.pending = None
<1>1. \A b \in Batch : DOMAIN b = {"cursor", "ids", "seen"}
  BY DEF Batch
<1>2. DOMAIN None = {"none"}
  BY DEF None
<1> QED
  BY <1>1, <1>2, PlayAssumption DEF Default, State

-----------------------------------------------------------------------------
\* Nothing is handled at first.
LEMMA InitFits == Init => IInv /\ DiaryRight
<1> SUFFICES ASSUME Init PROVE IInv /\ DiaryRight
  OBVIOUS
<1>1. InDiary = {} /\ diary \in Seq(Plays \X BOOLEAN)
  BY DEF Init, InDiary
<1>2. Typed
  <2>1. saved \in State /\ state \in State /\ IsFiniteSet(history)
    BY SomeBatch, FS_EmptySet DEF Init
  <2>2. left \in [kill : 0 .. MaxKills, idle : 0 .. MaxIdle] /\ now \in 1 .. LastTime
    BY PlayAssumption DEF Init
  <2>3. \A t \in {saved, state} : t.cursor \in 0 .. LastTime /\ t.ids \subseteq Plays
    BY <2>1 DEF State
  <2>4. TypeOK
    BY <1>1, <2>2, <2>3 DEF Init, TypeOK
  <2> QED
    BY <1>1, <2>1, <2>4 DEF Init, Typed
<1>3. SavedRight /\ PendingRight /\ AtBrowser /\ AtConfirm
  BY <1>1 DEF Init, SavedRight, PendingRight, AtBrowser, AtConfirm, AtCursor, Covers, Right, Sent, Default
<1>4. DiaryRight
  BY DEF Init, DiaryRight, NeverTwice, RewatchTrue
<1> QED
  BY <1>2, <1>3, <1>4 DEF IInv

\* A job that ends without a word: dry run, stop before the click, failure, death.
LEMMA Ends ==
    ASSUME IInv, Idle, UNCHANGED <<now, history, saved, diary, landed, skipped, late>>,
           left' \in [kill : 0 .. MaxKills, idle : 0 .. MaxIdle]
    PROVE  IInv'
<1>1. InDiary' = InDiary
  BY DEF InDiary
<1>2. Typed'
  BY <1>1, SomeBatch, PlayAssumption DEF IInv, Idle, Typed, TypeOK, Default
<1>3. SavedRight' /\ PendingRight'
  BY <1>1 DEF IInv, SavedRight, PendingRight, AtCursor, Covers, Right, Sent, Knows, Passed
<1>4. AtBrowser' /\ AtConfirm'
  BY DEF Idle, AtBrowser, AtConfirm
<1> QED
  BY <1>2, <1>3, <1>4 DEF IInv

\* The four ways a job ends like that.
LEMMA EndsFit ==
    ASSUME IInv, LookOnly \/ StopBeforeConfirm \/ Unrecognised \/ Dies
    PROVE  IInv'
<1>1. left \in [kill : 0 .. MaxKills, idle : 0 .. MaxIdle]
  BY DEF IInv, Typed, TypeOK
<1>2. left' \in [kill : 0 .. MaxKills, idle : 0 .. MaxIdle]
  BY <1>1, PlayAssumption DEF LookOnly, StopBeforeConfirm, Unrecognised, Dies
<1>3. Idle /\ UNCHANGED <<now, history, saved, diary, landed, skipped, late>>
  BY DEF LookOnly, StopBeforeConfirm, Unrecognised, Dies
<1> QED
  BY <1>2, <1>3, Ends

\* Time passes.
LEMMA TickFits ==
    ASSUME IInv, Tick \/ UNCHANGED vars
    PROVE  IInv'
<1>1. InDiary' = InDiary /\ UNCHANGED <<history, saved, pc, state, plays, diary, landed, skipped, late, left>>
  BY DEF InDiary, Tick, vars
<1>2. Typed'
  BY <1>1, PlayAssumption DEF IInv, Tick, Typed, TypeOK, vars
<1>3. SavedRight' /\ PendingRight'
  BY <1>1 DEF IInv, SavedRight, PendingRight, AtCursor, Covers, Right, Sent, Knows, Passed
<1>4. AtBrowser' /\ AtConfirm'
  BY <1>1 DEF IInv, AtBrowser, AtConfirm, Fetched, Covers, Knows, Passed
<1> QED
  BY <1>2, <1>3, <1>4 DEF IInv

\* A play that reaches Trakt: one that the cursor has passed is late.
LEMMA WatchFits ==
    ASSUME IInv, Watch
    PROVE  IInv'
<1>1. PICK p \in Plays \ history :
         /\ history' = history \cup {p}
         /\ late' = IF WatchedAt[p] < saved.cursor \/ \E q \in history : WatchedAt[q] > WatchedAt[p]
                    THEN late \cup {p} ELSE late
         /\ UNCHANGED <<now, saved, pc, state, plays, diary, landed, skipped, left>>
  BY DEF Watch
<1>2. InDiary' = InDiary
  BY <1>1 DEF InDiary
<1>3. Typed'
  <2>1. IsFiniteSet(history')
    BY <1>1, FS_AddElement DEF IInv, Typed
  <2> QED
    BY <1>1, <1>2, <2>1 DEF IInv, Typed, TypeOK
<1>4. \A q \in Plays : WatchedAt[q] \in Nat
  BY PlayAssumption
<1>5. ASSUME NEW s, AtCursor(s), s.cursor = saved.cursor \/ s.ids # {}, Passed(s, p) PROVE p \in late'
  <2>1. p \notin s.ids /\ WatchedAt[p] < s.cursor
    BY <1>1, <1>5 DEF AtCursor, Passed
  <2>2. CASE s.cursor = saved.cursor
    BY <1>1, <2>1, <2>2
  <2>3. CASE s.ids # {}
    <3>1. PICK q \in s.ids : q \in history /\ WatchedAt[q] = s.cursor
      BY <2>3, <1>5 DEF AtCursor
    <3> QED
      BY <1>1, <1>4, <2>1, <3>1 DEF IInv, Typed, TypeOK
  <2> QED
    BY <1>5, <2>2, <2>3
<1>6. ASSUME NEW s, NEW ps, AtCursor(s), s.cursor = saved.cursor \/ s.ids # {}, Covers(s, ps)
      PROVE  \A q \in history' : Passed(s, q) => q \in InDiary \cup skipped \cup late' \cup ps \/ Film[q] = NoTmdb
  BY <1>1, <1>5, <1>6 DEF Covers
<1>7. SavedRight'
  BY <1>1, <1>2, <1>6 DEF IInv, SavedRight, AtCursor, Covers, Right, Sent, Knows, Passed
<1>8. PendingRight'
  BY <1>1, <1>2, <1>6 DEF IInv, PendingRight, AtCursor, Covers, Right, Sent, Knows, Passed
<1>9. AtBrowser'
  <2> SUFFICES ASSUME pc = "browser" PROVE AtBrowser'
    BY <1>1 DEF AtBrowser
  <2>1. ASSUME NEW q \in plays, WatchedAt[p] < WatchedAt[q] PROVE p \in late'
    BY <1>1, <1>4, <2>1 DEF IInv, Typed, TypeOK
  <2>2. Fetched'
    BY <1>1, <2>1 DEF IInv, AtBrowser, Fetched, Passed
  <2> QED
    BY <1>1, <1>2, <2>2 DEF IInv, AtBrowser, Knows
<1>10. AtConfirm'
  <2>1. pc = "confirm" => Covers(saved.pending, plays)'
    BY <1>1, <1>2, <1>6 DEF IInv, AtConfirm, PendingRight, Covers, Passed
  <2> QED
    BY <1>1, <1>2, <2>1 DEF IInv, AtConfirm, Knows, Passed
<1> QED
  BY <1>3, <1>7, <1>8, <1>9, <1>10 DEF IInv

\* The first run: nothing is in the diary yet.
LEMMA FirstRun ==
    ASSUME IInv, saved.pending = None, saved.cursor = 0
    PROVE  InDiary = {} /\ \A p \in Plays : ~Passed(saved, p)
<1>1. \A p \in Plays : ~Passed(saved, p)
  BY NothingYet DEF IInv, SavedRight, Typed, TypeOK
<1> QED
  BY <1>1 DEF IInv, SavedRight, Right, Sent, Typed, TypeOK

\* The films of plays are films.
LEMMA FilmsFit == \A ps \in SUBSET Plays : Films(ps) \subseteq FilmIds
BY DEF Films, Rows, FilmIds

\* The first run, with nothing to send: all there is lies before the baseline.
LEMMA BaselineFits ==
    ASSUME IInv, Baseline
    PROVE  IInv'
<1> DEFINE c == IF history = {} THEN now ELSE NewestAt(history)
           i == IF history = {} THEN {} ELSE Newest(history)
<1>1. /\ pc = "idle" /\ saved.pending = None /\ saved.cursor = 0 /\ skipped' = history
      /\ saved' = [saved EXCEPT !.cursor = c, !.ids = i, !.seen = Films(history)]
      /\ UNCHANGED <<now, history, pc, state, plays, diary, landed, late, left>>
  BY DEF Baseline
<1>2. InDiary = {} /\ InDiary' = {} /\ history \subseteq Plays /\ IsFiniteSet(history)
  BY <1>1, FirstRun DEF InDiary, IInv, Typed, TypeOK
<1>3. c \in 1 .. LastTime /\ i \subseteq history /\ \A p \in i : WatchedAt[p] = c
  BY <1>2, NewestHas DEF Newest, IInv, Typed, TypeOK
<1> HIDE DEF c, i
<1>4. /\ saved' \in State /\ saved'.pending = None
      /\ saved'.cursor = c /\ saved'.ids = i /\ saved'.seen = Films(history)
  <2>1. saved \in State /\ c \in 0 .. LastTime /\ i \in SUBSET Plays /\ Films(history) \in SUBSET FilmIds
    BY <1>2, <1>3, FilmsFit DEF IInv, Typed
  <2> DEFINE f == Films(history)
  <2> HIDE DEF f
  <2>2. saved' = [saved EXCEPT !.cursor = c, !.ids = i, !.seen = f] /\ f \in SUBSET FilmIds
    BY <1>1, <2>1 DEF f
  <2>3. saved' \in State /\ saved'.pending = saved.pending /\ saved'.cursor = c /\ saved'.ids = i /\ saved'.seen = f
    BY <2>1, <2>2 DEF State
  <2> QED
    BY <1>1, <2>3 DEF f
<1>5. Typed'
  BY <1>1, <1>2, <1>3, <1>4 DEF IInv, Typed, TypeOK
<1>6. SavedRight' /\ PendingRight'
  BY <1>1, <1>2, <1>3, <1>4 DEF SavedRight, PendingRight, AtCursor, Covers, Right, Sent, Knows
<1>7. AtBrowser' /\ AtConfirm'
  BY <1>1 DEF AtBrowser, AtConfirm
<1> QED
  BY <1>5, <1>6, <1>7 DEF IInv

\* A batch is the oldest of what there is to send.
LEMMA TakeFits ==
    ASSUME IInv, NEW s \in State, NEW ps \in SUBSET history, Take(s, ps),
           saved.pending = None, s.pending = None, s.cursor = saved.cursor, s.ids = saved.ids,
           s.seen = Films(InDiary \cup skipped'),
           Covers(saved, {})', Right(saved)', \A p \in ps : ~Passed(s, p),
           \A p \in history, q \in ps :
                WatchedAt[p] <= WatchedAt[q] => p \in ps \/ Passed(s, p) \/ p \in skipped' \cup late,
           skipped' \subseteq Plays
    PROVE  IInv'
<1>1. /\ ps # {} /\ state' = s /\ plays' = Capped(ps) /\ pc' = "browser"
      /\ UNCHANGED <<now, history, saved, diary, landed, late, left>>
  BY DEF Take
<1>2. InDiary' = InDiary
  BY <1>1 DEF InDiary
<1>3. ps \subseteq Plays /\ IsFiniteSet(ps) /\ history \subseteq Plays
  BY FS_Subset DEF IInv, Typed, TypeOK
<1>4. /\ plays' \subseteq ps /\ plays' # {}
      /\ \A p \in ps, q \in plays' : Before(p, q) => p \in plays'
  BY <1>1, <1>3, CappedHas
<1>5. Typed'
  <2>1. s.cursor \in 0 .. LastTime /\ s.ids \subseteq Plays
    BY DEF State
  <2> QED
    BY <1>1, <1>2, <1>3, <1>4, <2>1 DEF IInv, Typed, TypeOK
<1>6. SavedRight' /\ PendingRight'
  BY <1>1 DEF IInv, SavedRight, PendingRight, AtCursor
<1>7. Fetched'
  <2>1. \A p, q \in Plays : WatchedAt[p] < WatchedAt[q] => Before(p, q) /\ WatchedAt[p] <= WatchedAt[q]
    BY PlayAssumption DEF Before
  <2>2. ASSUME NEW p \in history, NEW q \in plays', WatchedAt[p] < WatchedAt[q]
        PROVE  p \in plays' \/ Passed(s, p) \/ p \in skipped' \cup late
    BY <1>3, <1>4, <2>1, <2>2
  <2> QED
    BY <1>1, <1>4, <2>2 DEF Fetched, Passed
<1>8. AtBrowser' /\ AtConfirm'
  BY <1>1, <1>2, <1>7 DEF AtBrowser, AtConfirm, Knows
<1> QED
  BY <1>5, <1>6, <1>8 DEF IInv

\* The first run, with plays from START_AT on.
LEMMA BackfillFits ==
    ASSUME IInv, Backfill
    PROVE  IInv'
<1> DEFINE ps == {p \in history : WatchedAt[p] >= StartAt}
           s == [saved EXCEPT !.seen = Films(history \ ps)]
<1>1. /\ saved.pending = None /\ saved.cursor = 0
      /\ Take(s, ps) /\ skipped' = history \ ps
  BY DEF Backfill
<1>2. InDiary = {} /\ (\A p \in Plays : ~Passed(saved, p)) /\ history \subseteq Plays /\ saved \in State
  BY <1>1, FirstRun DEF IInv, Typed, TypeOK
<1>3. /\ UNCHANGED <<history, saved, diary, landed>>
      /\ InDiary' = InDiary
  BY <1>1 DEF Take, InDiary
<1>4. /\ s \in State /\ s.pending = None /\ s.cursor = saved.cursor /\ s.ids = saved.ids
      /\ s.seen = Films(InDiary \cup skipped')
  BY <1>1, <1>2, FilmsFit DEF State
<1>5. \A p \in Plays : ~Passed(s, p)
  BY <1>2, <1>4 DEF Passed
<1>6. Covers(saved, {})' /\ Right(saved)'
  BY <1>1, <1>2, <1>3 DEF Covers, Right, Sent, Passed
<1>7. /\ ps \in SUBSET history
      /\ \A p \in history, q \in ps :
            WatchedAt[p] <= WatchedAt[q] => p \in ps \/ Passed(s, p) \/ p \in skipped' \cup late
  BY <1>1
<1> HIDE DEF s, ps
<1> QED
  BY <1>1, <1>2, <1>4, <1>5, <1>6, <1>7, TakeFits

\* A later run: what is fresh is what the cursor has not passed.
LEMMA RunFits ==
    ASSUME IInv, Run
    PROVE  IInv'
<1>1. /\ saved.pending = None /\ saved.cursor # 0
      /\ Take(saved, Fresh(saved)) /\ skipped' = skipped
  BY DEF Run
<1>2. UNCHANGED <<history, saved, diary, late, landed>> /\ InDiary' = InDiary
  BY <1>1 DEF Take, InDiary
<1>3. /\ saved \in State /\ history \subseteq Plays /\ skipped \subseteq Plays /\ AtCursor(saved)
      /\ Covers(saved, {}) /\ Right(saved) /\ saved.cursor \in Nat
  BY <1>1 DEF IInv, Typed, TypeOK, SavedRight, State
<1>4. Covers(saved, {})' /\ Right(saved)'
  BY <1>1, <1>2, <1>3 DEF Covers, Right, Sent, Knows, Passed
<1>5. /\ Fresh(saved) \in SUBSET history
      /\ \A p \in history : p \in Fresh(saved) <=> ~Passed(saved, p)
  BY <1>3, PlayAssumption DEF Fresh, Passed, AtCursor
<1>6. saved.seen = Films(InDiary \cup skipped')
  BY <1>1, <1>3 DEF Right, Knows
<1> QED
  BY <1>1, <1>3, <1>4, <1>5, <1>6, TakeFits

\* Only plays without an id: they are passed without a click.
LEMMA UnmatchedFits ==
    ASSUME IInv, Unmatched
    PROVE  IInv'
<1> DEFINE a == Advanced(state, plays)
<1>1. /\ pc = "browser" /\ Rows(plays) = {} /\ Idle
      /\ saved' = [state EXCEPT !.cursor = a.cursor, !.ids = a.ids]
      /\ UNCHANGED <<now, history, diary, landed, skipped, late, left>>
  BY DEF Unmatched
<1>2. /\ a.cursor \in 1 .. LastTime /\ a.ids \subseteq Plays /\ AtCursor(a)
      /\ \A p \in Plays : Passed(state, p) => Passed(a, p)
      /\ \A p \in Plays : Passed(a, p) =>
            Passed(state, p) \/ p \in plays \/ \E q \in plays : WatchedAt[p] < WatchedAt[q]
  BY <1>1, AdvancedHas
<1> HIDE DEF a
<1>3. state \in State /\ history \subseteq Plays /\ InDiary \subseteq Plays /\ InDiary' = InDiary
  BY <1>1 DEF IInv, Typed, TypeOK, InDiary
<1>4. /\ saved' \in State /\ saved'.cursor = a.cursor /\ saved'.ids = a.ids
      /\ saved'.seen = state.seen /\ saved'.pending = None
  <2> DEFINE c == a.cursor
             i == a.ids
  <2>1. saved' = [state EXCEPT !.cursor = c, !.ids = i] /\ c \in 0 .. LastTime /\ i \in SUBSET Plays
    BY <1>1, <1>2
  <2>2. state.pending = None
    BY <1>1 DEF IInv, AtBrowser
  <2> HIDE DEF c, i
  <2>3. /\ saved' \in State /\ saved'.cursor = c /\ saved'.ids = i
        /\ saved'.seen = state.seen /\ saved'.pending = state.pending
    BY <1>3, <2>1 DEF State
  <2> QED
    BY <2>2, <2>3 DEF c, i
<1>5. \A p : Passed(saved', p) <=> Passed(a, p)
  BY <1>4 DEF Passed
<1>6. \A p : Passed(saved, p) <=> Passed(state, p)
  BY <1>1 DEF Passed, IInv, AtBrowser
<1>7. Typed'
  BY <1>1, <1>2, <1>3, <1>4, SomeBatch, PlayAssumption DEF IInv, Typed, TypeOK, Idle, Default
<1>8. Covers(saved, {})'
  <2> SUFFICES ASSUME NEW p \in history, Passed(a, p), Film[p] # NoTmdb
               PROVE  p \in InDiary \cup skipped \cup late
    BY <1>1, <1>3, <1>5 DEF Covers, Passed
  <2>1. p \notin plays
    BY <1>1 DEF Rows
  <2>2. Passed(saved, p) \/ p \in skipped \cup late
    BY <1>1, <1>2, <1>3, <1>6, <2>1 DEF IInv, AtBrowser, Fetched
  <2> QED
    BY <2>2 DEF IInv, SavedRight, Covers
<1>9. Right(saved)'
  <2>1. Sent(saved)'
    BY <1>1, <1>2, <1>3, <1>5, <1>6 DEF IInv, AtBrowser, SavedRight, Right, Sent, Passed
  <2>2. Knows(saved)'
    BY <1>1, <1>3, <1>4 DEF IInv, AtBrowser, Knows
  <2> QED
    BY <2>1, <2>2 DEF Right
<1>10. SavedRight' /\ PendingRight'
  BY <1>1, <1>2, <1>4, <1>8, <1>9 DEF SavedRight, PendingRight, AtCursor
<1>11. AtBrowser' /\ AtConfirm'
  BY <1>1 DEF Idle, AtBrowser, AtConfirm
<1> QED
  BY <1>7, <1>10, <1>11 DEF IInv

\* The batch is on record before the click.
LEMMA SavePendingFits ==
    ASSUME IInv, SavePending
    PROVE  IInv'
<1> DEFINE a == Advanced(state, plays)
           b == AfterBatch
<1>1. /\ pc = "browser" /\ saved' = [state EXCEPT !.pending = b] /\ state' = saved'
      /\ pc' = "confirm" /\ landed' = FALSE
      /\ UNCHANGED <<now, history, plays, diary, skipped, late, left>>
  BY DEF SavePending
<1>2. /\ a.cursor \in 1 .. LastTime /\ a.ids \subseteq Plays /\ a.ids # {} /\ AtCursor(a)
      /\ \A p \in plays : Passed(a, p)
      /\ \A p \in Plays : Passed(state, p) => Passed(a, p)
      /\ \A p \in Plays : Passed(a, p) =>
            Passed(state, p) \/ p \in plays \/ \E q \in plays : WatchedAt[p] < WatchedAt[q]
  BY <1>1, AdvancedHas
<1>3. /\ b.cursor = a.cursor /\ b.ids = a.ids /\ b.seen = state.seen \cup Films(plays)
      /\ DOMAIN b = {"cursor", "ids", "seen"}
      /\ b = [cursor |-> b.cursor, ids |-> b.ids, seen |-> b.seen]
  BY DEF AfterBatch, Advanced
<1> HIDE DEF a, b
<1>4. /\ state \in State /\ history \subseteq Plays /\ InDiary \subseteq Plays /\ InDiary' = InDiary
      /\ plays \subseteq Plays
  BY <1>1 DEF IInv, Typed, TypeOK, InDiary
<1>5. b \in Batch /\ b # None
  <2>1. b.cursor \in 0 .. LastTime /\ b.ids \in SUBSET Plays
    BY <1>2, <1>3
  <2>2. b.seen \in SUBSET FilmIds
    BY <1>3, <1>4, FilmsFit DEF State
  <2>3. b \in Batch
    BY <1>3, <2>1, <2>2 DEF Batch
  <2> QED
    BY <2>3, SomeBatch
<1>6. /\ saved' \in State /\ saved'.cursor = state.cursor /\ saved'.ids = state.ids
      /\ saved'.seen = state.seen /\ saved'.pending = b
  BY <1>1, <1>4, <1>5 DEF State
<1>7. /\ \A p : Passed(b, p) <=> Passed(a, p)
      /\ \A p : Passed(saved', p) <=> Passed(saved, p)
      /\ \A p : Passed(state, p) <=> Passed(saved, p)
  BY <1>1, <1>3, <1>6 DEF Passed, IInv, AtBrowser
<1>8. Typed'
  BY <1>1, <1>4, <1>6 DEF IInv, Typed, TypeOK, State
<1>9. SavedRight'
  <2>1. AtCursor(saved)' /\ Covers(saved, {})'
    BY <1>1, <1>4, <1>6, <1>7 DEF IInv, AtBrowser, SavedRight, AtCursor, Covers, Passed
  <2>2. Right(saved)'
    BY <1>1, <1>4, <1>6, <1>7 DEF IInv, AtBrowser, SavedRight, Right, Sent, Knows, Passed
  <2> QED
    BY <2>1, <2>2 DEF SavedRight
<1>10. PendingRight'
  BY <1>1, <1>2, <1>3, <1>6 DEF PendingRight, AtCursor
<1>11. Covers(saved.pending, plays)'
  <2> SUFFICES ASSUME NEW p \in history, Passed(a, p), Film[p] # NoTmdb, p \notin plays
               PROVE  p \in InDiary \cup skipped \cup late
    BY <1>1, <1>4, <1>6, <1>7 DEF Covers, Passed
  <2>1. Passed(saved, p) \/ p \in skipped \cup late
    BY <1>1, <1>2, <1>4, <1>7 DEF IInv, AtBrowser, Fetched
  <2> QED
    BY <2>1 DEF IInv, SavedRight, Covers
<1>12. \A p \in InDiary \cup plays : Passed(b, p)
  BY <1>1, <1>2, <1>4, <1>7 DEF IInv, AtBrowser, SavedRight, Right, Sent
<1>13. \A p \in plays : ~Passed(state, p)
  BY <1>1 DEF IInv, AtBrowser, Fetched
<1>14. Knows(state)'
  BY <1>1, <1>4, <1>6 DEF IInv, AtBrowser, Knows
<1>15. AtBrowser' /\ AtConfirm'
  <2>1. \A p \in plays : ~Passed(state', p)
    BY <1>1, <1>7, <1>13
  <2>2. \A p \in InDiary \cup plays : Passed(saved'.pending, p)
    BY <1>6, <1>12
  <2>3. saved'.pending.seen = state'.seen \cup Films(plays)
    BY <1>1, <1>3, <1>6
  <2> QED
    BY <1>1, <1>4, <1>5, <1>6, <1>11, <1>14, <2>1, <2>2, <2>3 DEF AtBrowser, AtConfirm, Passed
<1> QED
  BY <1>8, <1>9, <1>10, <1>15 DEF IInv

-----------------------------------------------------------------------------
\* Where the rows of two sequences are in the two put together.
LEMMA Concatenated ==
    ASSUME NEW S, NEW s \in Seq(S), NEW t \in Seq(S)
    PROVE  /\ s \o t \in Seq(S) /\ Len(s) \in Nat /\ Len(t) \in Nat
           /\ DOMAIN s = 1 .. Len(s) /\ DOMAIN (s \o t) = 1 .. Len(s) + Len(t)
           /\ \A i \in 1 .. Len(s) : i \in DOMAIN (s \o t) /\ (s \o t)[i] = s[i]
           /\ \A k \in 1 .. Len(t) : Len(s) + k \in DOMAIN (s \o t) /\ (s \o t)[Len(s) + k] = t[k]
           /\ \A i \in DOMAIN (s \o t) : i \in 1 .. Len(s) \/ \E k \in 1 .. Len(t) : i = Len(s) + k
<1>1. /\ s \o t \in Seq(S) /\ Len(s) \in Nat /\ Len(t) \in Nat /\ Len(s \o t) = Len(s) + Len(t)
      /\ DOMAIN s = 1 .. Len(s) /\ DOMAIN (s \o t) = 1 .. Len(s) + Len(t)
  OBVIOUS
<1>2. \A i \in 1 .. Len(s) : i \in DOMAIN (s \o t) /\ (s \o t)[i] = s[i]
  OBVIOUS
<1>3. ASSUME NEW k \in 1 .. Len(t)
      PROVE  Len(s) + k \in DOMAIN (s \o t) /\ (s \o t)[Len(s) + k] = t[k]
  <2>1. k \in Nat /\ k >= 1 /\ k <= Len(t) /\ (Len(s) + k) - Len(s) = k /\ Len(s) + k \in 1 .. Len(s) + Len(t)
    BY <1>1
  <2> QED
    BY <1>1, <2>1
<1>4. ASSUME NEW i \in DOMAIN (s \o t), i \notin 1 .. Len(s) PROVE \E k \in 1 .. Len(t) : i = Len(s) + k
  <2>1. i - Len(s) \in 1 .. Len(t) /\ i = Len(s) + (i - Len(s))
    BY <1>1, <1>4
  <2> QED
    BY <2>1
<1> QED
  BY <1>1, <1>2, <1>3, <1>4

\* Whether the row of a play says rewatch.
Again(ps, seen, p) == Film[p] \in seen \cup Films(EarlierRows(ps, p))

\* The rows of a batch, oldest first, each with whether it is a rewatch.
LEMMA BuildHas ==
    ASSUME NEW ps, NEW seen, Rows(ps) \in SUBSET Plays, IsFiniteSet(Rows(ps))
    PROVE  LET n == Cardinality(Rows(ps))
               row == Sorted(Rows(ps))
               B == Build(ps, seen)
           IN  /\ B \in Seq(Plays \X BOOLEAN) /\ Len(B) = n
               /\ \A i \in 1 .. n : B[i][1] = row[i] /\ (B[i][2] <=> Again(ps, seen, row[i]))
<1> DEFINE n == Cardinality(Rows(ps))
           row == Sorted(Rows(ps))
           A == [i \in 1 .. n |-> Again(ps, seen, row[i])]
           C == [i \in 1 .. n |-> <<row[i], A[i]>>]
<1>1. n \in Nat /\ row \in [1 .. n -> Rows(ps)]
  BY SortedHas
<1>2. \A i \in 1 .. n : A[i] \in BOOLEAN /\ A[i] = Again(ps, seen, row[i])
  <2>1. \A i \in 1 .. n : A[i] = Again(ps, seen, row[i])
    OBVIOUS
  <2>2. \A p : Again(ps, seen, p) \in BOOLEAN
    BY DEF Again
  <2> QED
    BY <2>1, <2>2, Zenon
<1>3. Build(ps, seen) = C
  BY Zenon DEF Build, Again
<1> HIDE DEF n, row, A
<1>4. C \in [1 .. n -> Plays \X BOOLEAN]
  BY <1>1, <1>2
<1>5. C \in Seq(Plays \X BOOLEAN) /\ Len(C) = n
  BY <1>1, <1>4
<1>6. \A i \in 1 .. n : C[i][1] = row[i] /\ C[i][2] = A[i]
  OBVIOUS
<1> HIDE DEF C
<1>7. \A i \in 1 .. n : C[i][2] <=> Again(ps, seen, row[i])
  BY <1>2, <1>6
<1> QED
  BY <1>3, <1>5, <1>6, <1>7 DEF n, row

\* The diary after a click that was taken.
LEMMA DiaryGrows ==
    ASSUME IInv, pc = "confirm", diary' = diary \o Build(plays, state.seen)
    PROVE  /\ diary' \in Seq(Plays \X BOOLEAN)
           /\ InDiary' = InDiary \cup Rows(plays)
           /\ NeverTwice => NeverTwice'
           /\ RewatchTrue /\ skipped' = skipped => RewatchTrue'
<1> DEFINE R == Rows(plays)
           n == Cardinality(R)
           row == Sorted(R)
           again(p) == Again(plays, state.seen, p)
           B == Build(plays, state.seen)
           m == Len(diary)
           who(i) == diary'[i][1]
           twice(i) == diary'[i][2]
<1>1. R \in SUBSET Plays /\ IsFiniteSet(R) /\ diary \in Seq(Plays \X BOOLEAN) /\ m \in Nat
  <2>1. R \in SUBSET history /\ history \subseteq Plays /\ IsFiniteSet(history)
    BY DEF Rows, IInv, Typed, TypeOK
  <2> QED
    BY <2>1, FS_Subset DEF IInv, Typed
<1>2. /\ n \in Nat /\ row \in [1 .. n -> R]
      /\ \A i, j \in 1 .. n : Before(row[i], row[j]) <=> i < j
      /\ \A p \in R : \E i \in 1 .. n : row[i] = p
  BY <1>1, SortedHas
<1>3. /\ B \in Seq(Plays \X BOOLEAN) /\ Len(B) = n
      /\ \A i \in 1 .. n : B[i][1] = row[i] /\ (B[i][2] <=> again(row[i]))
  BY <1>1, BuildHas
<1>4. diary' = diary \o B
  OBVIOUS
<1> HIDE DEF R, n, row, again, m, B
<1>5. /\ diary' \in Seq(Plays \X BOOLEAN) /\ DOMAIN diary = 1 .. m
      /\ \A i \in 1 .. m : i \in DOMAIN diary' /\ diary'[i] = diary[i]
      /\ \A k \in 1 .. n : m + k \in DOMAIN diary' /\ diary'[m + k] = B[k]
      /\ \A i \in DOMAIN diary' : i \in 1 .. m \/ \E k \in 1 .. n : i = m + k
  BY <1>1, <1>3, <1>4, Concatenated DEF m
<1>6. \A k \in 1 .. n : m + k \in DOMAIN diary' /\ who(m + k) = row[k] /\ (twice(m + k) <=> again(row[k]))
  BY <1>3, <1>5
<1>7. \A i \in 1 .. m : i \in DOMAIN diary' /\ who(i) = diary[i][1] /\ twice(i) = diary[i][2] /\ who(i) \in InDiary
  BY <1>5 DEF InDiary
<1>8. /\ InDiary' = {who(i) : i \in DOMAIN diary'}
      /\ \A p \in InDiary : \E i \in 1 .. m : p = who(i)
      /\ \A k \in 1 .. n : row[k] \in R
  <2>1. InDiary' = {who(i) : i \in DOMAIN diary'}
    BY DEF InDiary
  <2>2. \A p \in InDiary : \E i \in 1 .. m : p = diary[i][1]
    BY <1>5, Zenon DEF InDiary
  <2>3. \A p \in InDiary : \E i \in 1 .. m : p = who(i)
    BY <1>7, <2>2
  <2>4. \A k \in 1 .. n : row[k] \in R
    BY <1>2
  <2> QED
    BY <2>1, <2>3, <2>4
<1>a. NeverTwice' <=> \A i, j \in DOMAIN diary' : who(i) = who(j) => i = j
  BY DEF NeverTwice
<1>b. RewatchTrue' <=> \A i \in DOMAIN diary' :
          twice(i) <=> (\E j \in 1 .. i - 1 : Film[who(j)] = Film[who(i)]) \/ \E p \in skipped' : Film[p] = Film[who(i)]
  BY DEF RewatchTrue
<1> HIDE DEF who, twice
<1>9. InDiary' = InDiary \cup R
  <2>1. \A p \in InDiary : p \in InDiary'
    BY <1>7, <1>8
  <2>2. \A p \in R : p \in InDiary'
    BY <1>2, <1>6, <1>8
  <2>3. ASSUME NEW i \in DOMAIN diary' PROVE who(i) \in InDiary \cup R
    BY <1>5, <1>6, <1>7, <1>8
  <2> QED
    BY <1>8, <2>1, <2>2, <2>3
<1>10. \A p \in R : p \notin InDiary /\ Film[p] # NoTmdb
  BY DEF R, Rows, IInv, AtConfirm, SavedRight, Right, Sent
<1>11. ASSUME NeverTwice PROVE NeverTwice'
  <2> SUFFICES ASSUME NEW i \in DOMAIN diary', NEW j \in DOMAIN diary', who(i) = who(j)
               PROVE  i = j
    BY <1>a
  <2>1. \A k \in 1 .. m : who(k) \in InDiary
    BY <1>7
  <2>2. \A k \in 1 .. n : who(m + k) \in R
    BY <1>6, <1>8
  <2>3. CASE i \in 1 .. m /\ j \in 1 .. m
    BY <1>5, <1>7, <1>11, <2>3 DEF NeverTwice
  <2>4. CASE i \in 1 .. m /\ j \notin 1 .. m
    BY <1>5, <1>10, <2>1, <2>2, <2>4
  <2>5. CASE i \notin 1 .. m /\ j \in 1 .. m
    BY <1>5, <1>10, <2>1, <2>2, <2>5
  <2>6. CASE i \notin 1 .. m /\ j \notin 1 .. m
    <3>1. PICK k \in 1 .. n, l \in 1 .. n : i = m + k /\ j = m + l
      BY <1>5, <2>6
    <3>2. row[k] = row[l]
      BY <1>6, <3>1
    <3>3. row[k] \in Plays /\ ~(k < l) /\ ~(l < k)
      BY <1>1, <1>2, <3>2, Order
    <3>4. k \in Nat /\ l \in Nat
      BY <1>2
    <3> QED
      BY <3>1, <3>3, <3>4
  <2> QED
    BY <2>3, <2>4, <2>5, <2>6
<1>12. ASSUME RewatchTrue, skipped' = skipped PROVE RewatchTrue'
  <2> SUFFICES ASSUME NEW i \in DOMAIN diary'
               PROVE  twice(i) <=> \/ \E j \in 1 .. i - 1 : Film[who(j)] = Film[who(i)]
                                   \/ \E p \in skipped : Film[p] = Film[who(i)]
    BY <1>b, <1>12
  <2>1. CASE i \in 1 .. m
    <3>1. \A j \in 1 .. i - 1 : j \in 1 .. m
      BY <1>1, <2>1
    <3>2. diary[i][2] <=> \/ \E j \in 1 .. i - 1 : Film[diary[j][1]] = Film[diary[i][1]]
                          \/ \E p \in skipped : Film[p] = Film[diary[i][1]]
      BY <1>5, <1>12, <2>1 DEF RewatchTrue
    <3>3. who(i) = diary[i][1] /\ twice(i) = diary[i][2] /\ \A j \in 1 .. i - 1 : who(j) = diary[j][1]
      BY <1>7, <2>1, <3>1
    <3> QED
      BY <3>2, <3>3
  <2>2. CASE i \notin 1 .. m
    <3>1. PICK k \in 1 .. n : i = m + k
      BY <1>5, <2>2
    <3> DEFINE p == row[k]
               f == Film[row[k]]
    <3>2. p \in R /\ f # NoTmdb /\ who(i) = p /\ (twice(i) <=> again(p))
      BY <1>6, <1>8, <1>10, <3>1
    <3>3. \A j : j \in 1 .. i - 1 <=> j \in 1 .. m \/ \E l \in 1 .. k - 1 : j = m + l
      <4>1. m \in Nat /\ k \in Nat /\ i = m + k /\ k >= 1
        BY <1>1, <1>2, <3>1
      <4>2. ASSUME NEW j \in 1 .. i - 1, j \notin 1 .. m PROVE j - m \in 1 .. k - 1 /\ j = m + (j - m)
        BY <4>1, <4>2
      <4>3. ASSUME NEW j \in 1 .. m PROVE j \in 1 .. i - 1
        BY <4>1
      <4>4. ASSUME NEW l \in 1 .. k - 1 PROVE m + l \in 1 .. i - 1
        BY <4>1
      <4> QED
        BY <4>2, <4>3, <4>4
    <3>4. (\E j \in 1 .. m : Film[who(j)] = f) <=> \E q \in InDiary : Film[q] = f
      BY <1>7, <1>8
    <3>5. (\E l \in 1 .. k - 1 : Film[who(m + l)] = f) <=> \E q \in R : Before(q, p) /\ Film[q] = f
      <4>1. \A l \in 1 .. k - 1 : l \in 1 .. n /\ l < k
        BY <1>2
      <4>2. \A l \in 1 .. n : l < k => l \in 1 .. k - 1
        BY <1>2
      <4>3. \A l \in 1 .. n : who(m + l) = row[l] /\ (Before(row[l], p) <=> l < k)
        BY <1>2, <1>6
      <4>4. \A q \in R : \E l \in 1 .. n : q = row[l]
        BY <1>2
      <4>5. \A l \in 1 .. n : row[l] \in R
        BY <1>2
      <4> HIDE DEF p, f
      <4> QED
        BY <4>1, <4>2, <4>3, <4>4, <4>5
    <3>6. again(p) <=> \/ \E q \in InDiary \cup skipped : Film[q] = f
                      \/ \E q \in R : Before(q, p) /\ Film[q] = f
      <4>1. state.seen = Films(InDiary \cup skipped)
        BY DEF IInv, AtConfirm, Knows
      <4>2. f \in Films(InDiary \cup skipped) <=> \E q \in InDiary \cup skipped : Film[q] = f
        BY <3>2 DEF Films, Rows
      <4>3. f \in Films(EarlierRows(plays, p)) <=> \E q \in R : Before(q, p) /\ Film[q] = f
        BY <3>2 DEF Films, Rows, EarlierRows, R
      <4> QED
        BY <4>1, <4>2, <4>3 DEF again, Again
    <3> HIDE DEF p, f
    <3>7. f = Film[p]
      BY DEF p, f
    <3>8. (\E j \in 1 .. i - 1 : Film[who(j)] = f)
            <=> (\E j \in 1 .. m : Film[who(j)] = f) \/ (\E l \in 1 .. k - 1 : Film[who(m + l)] = f)
      BY <3>3
    <3> QED
      BY <3>2, <3>4, <3>5, <3>6, <3>7, <3>8
  <2> QED
    BY <2>1, <2>2
<1> QED
  BY <1>5, <1>9, <1>11, <1>12 DEF R

\* The click.
LEMMA ConfirmFits ==
    ASSUME IInv, DiaryRight, Confirm
    PROVE  IInv' /\ DiaryRight'
<1>1. /\ pc = "confirm" /\ pc' = "clicked" /\ landed' \in BOOLEAN
      /\ diary' = IF landed' THEN diary \o Build(plays, state.seen) ELSE diary
      /\ UNCHANGED <<now, history, saved, state, plays, skipped, late, left>>
  BY DEF Confirm
<1>2. /\ diary' \in Seq(Plays \X BOOLEAN) /\ DiaryRight'
      /\ InDiary' = IF landed' THEN InDiary \cup Rows(plays) ELSE InDiary
  <2>1. CASE landed'
    BY <1>1, <2>1, DiaryGrows DEF DiaryRight
  <2>2. CASE ~landed'
    BY <1>1, <2>2 DEF IInv, Typed, InDiary, DiaryRight, NeverTwice, RewatchTrue
  <2> QED
    BY <2>1, <2>2
<1>3. Rows(plays) \subseteq plays /\ plays \subseteq Plays /\ \A p \in plays \ Rows(plays) : Film[p] = NoTmdb
  BY DEF Rows, IInv, Typed, TypeOK
<1>4. Typed'
  BY <1>1, <1>2, <1>3 DEF IInv, Typed, TypeOK
<1>5. SavedRight'
  BY <1>1, <1>2 DEF IInv, SavedRight, AtConfirm, AtCursor, Covers, Right, Sent, Knows, Passed
<1>6. PendingRight'
  <2>1. AtCursor(saved.pending)' /\ saved.pending.ids # {} /\ saved.pending.cursor # 0
    BY <1>1 DEF IInv, AtConfirm, PendingRight, AtCursor
  <2>2. ASSUME landed' PROVE Sent(saved.pending)'
    BY <1>1, <1>2, <1>3, <2>2 DEF IInv, AtConfirm, Sent, Passed
  <2>3. ASSUME landed' PROVE Covers(saved.pending, {})'
    BY <1>1, <1>2, <1>3, <2>3 DEF IInv, AtConfirm, Covers, Passed
  <2>4. ASSUME landed' PROVE Knows(saved.pending)'
    <3>1. Films((InDiary \cup Rows(plays)) \cup skipped) = Films(InDiary \cup skipped) \cup Films(plays)
      BY DEF Films, Rows
    <3> QED
      BY <1>1, <1>2, <2>4, <3>1 DEF IInv, AtConfirm, Knows
  <2> QED
    BY <1>1, <2>1, <2>2, <2>3, <2>4 DEF PendingRight, Right
<1>7. AtBrowser' /\ AtConfirm'
  BY <1>1 DEF IInv, AtBrowser, AtConfirm
<1> QED
  BY <1>2, <1>4, <1>5, <1>6, <1>7 DEF IInv

\* A batch that is settled, by the page's answer or by the owner's.
LEMMA Settles ==
    ASSUME IInv, saved.pending # None, pc' = "idle", state' \in State, plays' \subseteq history,
           saved' = IF landed THEN Adopted(saved) ELSE Settled(saved),
           UNCHANGED <<now, history, diary, landed, skipped, late, left>>
    PROVE  IInv'
<1>1. InDiary' = InDiary /\ saved \in State /\ saved.pending \in Batch /\ landed \in BOOLEAN
  BY DEF InDiary, IInv, Typed, TypeOK, State
<1>2. CASE landed
  <2> DEFINE b == saved.pending
  <2>1. saved' = [cursor |-> b.cursor, ids |-> b.ids, seen |-> b.seen, pending |-> None]
    BY <1>2 DEF Adopted
  <2>2. b \in Batch /\ AtCursor(b) /\ Right(b) /\ Covers(b, {})
    BY <1>1, <1>2 DEF IInv, PendingRight
  <2> HIDE DEF b
  <2>3. /\ saved' \in State /\ saved'.cursor = b.cursor /\ saved'.ids = b.ids /\ saved'.seen = b.seen
        /\ saved'.pending = None
    BY <2>1, <2>2 DEF State, Batch
  <2>4. Typed'
    BY <1>1, <2>3 DEF IInv, Typed, TypeOK, State
  <2>5. SavedRight' /\ PendingRight'
    BY <1>1, <2>2, <2>3 DEF SavedRight, PendingRight, AtCursor, Covers, Right, Sent, Knows, Passed
  <2>6. AtBrowser' /\ AtConfirm'
    BY DEF AtBrowser, AtConfirm
  <2> QED
    BY <2>4, <2>5, <2>6 DEF IInv
<1>3. CASE ~landed
  <2>1. saved' = [saved EXCEPT !.pending = None]
    BY <1>3 DEF Settled
  <2>2. /\ saved' \in State /\ saved'.cursor = saved.cursor /\ saved'.ids = saved.ids /\ saved'.seen = saved.seen
        /\ saved'.pending = None
    BY <1>1, <2>1 DEF State
  <2>3. Typed'
    BY <1>1, <2>2 DEF IInv, Typed, TypeOK, State
  <2>4. SavedRight' /\ PendingRight'
    BY <1>1, <1>3, <2>2 DEF IInv, SavedRight, PendingRight, AtCursor, Covers, Right, Sent, Knows, Passed
  <2>5. AtBrowser' /\ AtConfirm'
    BY DEF AtBrowser, AtConfirm
  <2> QED
    BY <2>3, <2>4, <2>5 DEF IInv
<1> QED
  BY <1>2, <1>3

\* The success text, and ack or discard.
LEMMA SettledFits ==
    ASSUME IInv, Recognised \/ Resolve
    PROVE  IInv'
<1>1. CASE Recognised
  <2>1. saved = state /\ saved.pending # None /\ landed
    BY <1>1 DEF Recognised, IInv, AtConfirm
  <2> QED
    BY <1>1, <2>1, SomeBatch, Settles DEF Recognised, Idle
<1>2. CASE Resolve
  <2>1. pc' = "idle" /\ state' \in State /\ plays' \subseteq history /\ saved.pending # None
    BY <1>2 DEF Resolve, IInv, Typed
  <2> QED
    BY <1>2, <2>1, Settles DEF Resolve
<1> QED
  BY <1>1, <1>2

-----------------------------------------------------------------------------
\* Rows are only added by the click; what is before the baseline changes only while
\* there are none.
LEMMA DiaryStays ==
    ASSUME IInv, DiaryRight, [Next]_vars, ~Confirm
    PROVE  DiaryRight'
<1>1. diary' = diary
  BY DEF Next, Job, Baseline, Backfill, Run, Take, LookOnly, Unmatched, StopBeforeConfirm, SavePending,
         Recognised, Unrecognised, Dies, Resolve, Tick, Watch, vars
<1>2. NeverTwice'
  BY <1>1 DEF DiaryRight, NeverTwice
<1>3. CASE skipped' = skipped
  BY <1>1, <1>2, <1>3 DEF DiaryRight, RewatchTrue
<1>4. CASE skipped' # skipped
  <2>1. Baseline \/ Backfill
    BY <1>4 DEF Next, Job, Run, LookOnly, Unmatched, StopBeforeConfirm, SavePending,
         Recognised, Unrecognised, Dies, Resolve, Tick, Watch, vars
  <2>2. InDiary = {}
    BY <2>1, FirstRun DEF Baseline, Backfill
  <2>3. DOMAIN diary = {}
    BY <2>2 DEF InDiary
  <2> QED
    BY <1>1, <1>2, <2>3 DEF DiaryRight, RewatchTrue
<1> QED
  BY <1>3, <1>4

\* Every step keeps the invariant.
LEMMA NextFits == IInv /\ DiaryRight /\ [Next]_vars => IInv' /\ DiaryRight'
<1> SUFFICES ASSUME IInv, DiaryRight, [Next]_vars PROVE IInv' /\ DiaryRight'
  OBVIOUS
<1>1. CASE Confirm
  BY <1>1, ConfirmFits
<1>2. CASE ~Confirm
  <2>1. IInv'
    BY <1>2, BaselineFits, BackfillFits, RunFits, UnmatchedFits, SavePendingFits, SettledFits, EndsFit,
       TickFits, WatchFits DEF Next, Job
  <2> QED
    BY <1>2, <2>1, DiaryStays
<1> QED
  BY <1>1, <1>2

\* Every variable keeps its shape: in particular the cursor never leaves the moments
\* there are, and a batch has only plays of the history.
THEOREM TypeCorrect == Spec => []TypeOK
<1>1. IInv => TypeOK
  BY DEF IInv, Typed
<1> QED
  BY <1>1, InitFits, NextFits, PTL DEF Spec

\* The diary has no undo, and no play gets into it twice (lib.rs, drive): the batch is
\* on record before the click, nothing is sent while it is, and what settles it moves
\* the cursor past it exactly if it is in.
THEOREM SentOnce == Spec => []NeverTwice
<1>1. DiaryRight => NeverTwice
  BY DEF DiaryRight
<1> QED
  BY <1>1, InitFits, NextFits, PTL DEF Spec

\* No play is forgotten (lib.rs, upload): a capped batch leaves the newer plays for
\* the next run, plays at the moment of the cursor are told apart by their ids, and
\* a play that comes in between is behind the batch or late.
THEOREM NothingForgotten == Spec => []NoneDropped
<1>1. IInv => NoneDropped
  BY DEF IInv, SavedRight, Covers, NoneDropped
<1> QED
  BY <1>1, InitFits, NextFits, PTL DEF Spec

\* A row says rewatch exactly when the film has an earlier row or a play before the
\* baseline (csv.rs, build): the films known are kept with the batch they belong to.
THEOREM RewatchRight == Spec => []RewatchTrue
<1>1. DiaryRight => RewatchTrue
  BY DEF DiaryRight
<1> QED
  BY <1>1, InitFits, NextFits, PTL DEF Spec
=============================================================================
