---------------------------- MODULE OrgProofs ----------------------------
(***************************************************************************)
(* Proofs about org-bridge, for any files and contents, any number of      *)
(* edits, failures and restarts: the type invariant, that objects of       *)
(* others stay (OthersKept), that no standing heading loses its entry      *)
(* (RemovedForGood), and that a bridge that missed nothing leaves the      *)
(* calendar as the files say (InSync) unless a timestamp is at midnight,   *)
(* which its hash does not tell from a whole day.                          *)
(***************************************************************************)
EXTENDS OrgBridge, FiniteSetTheorems, NaturalsInduction, WellFoundedInduction, TLAPS

-----------------------------------------------------------------------------
(* Sequences *)

\* A set of numbers that is not empty has a least element.
LEMMA LeastExists ==
    ASSUME NEW S \in SUBSET Nat, S # {}
    PROVE  \E u \in S : \A v \in S : u <= v
<1>1. PICK u \in S : \A v \in S : ~(<<v, u>> \in OpToRel(<, Nat))
  <2>1. IsWellFoundedOn(OpToRel(<, Nat), Nat)
    BY NatLessThanWellFounded
  <2> QED
    BY <2>1, WFMin
<1>2. \A v \in S : ~(v < u)
  BY <1>1 DEF OpToRel
<1> QED
  BY <1>2

(* FlattenSeq is a recursive function: g joins the first n sequences. *)
Joins(seqs, g, n) == g = [i \in 1 .. n |-> IF i = 1 THEN seqs[i] ELSE g[i - 1] \o seqs[i]]

\* There is one for every n, by induction on n.
LEMMA Prefixed ==
    ASSUME NEW S, NEW seqs \in Seq(Seq(S)), NEW n \in 1 .. Len(seqs)
    PROVE  \E g : Joins(seqs, g, n)
<1> DEFINE Bad == {k \in 1 .. Len(seqs) : ~ \E g : Joins(seqs, g, k)}
<1> SUFFICES ASSUME n \in Bad PROVE FALSE
  OBVIOUS
<1>0. Bad \in SUBSET Nat /\ \A k \in Bad : k \in 1 .. Len(seqs) /\ Len(seqs) \in Nat
  OBVIOUS
<1>1. PICK k \in Bad : \A j \in Bad : k <= j
  <2> HIDE DEF Bad
  <2> QED
    BY <1>0, LeastExists
<1>2. CASE k = 1
  <2>1. Joins(seqs, [i \in 1 .. 1 |-> seqs[i]], 1)
    BY DEF Joins
  <2> QED
    BY <2>1, <1>2
<1>3. CASE k # 1
  <2>1. k - 1 \in 1 .. Len(seqs) /\ k - 1 \notin Bad
    <3> HIDE DEF Bad
    <3> QED
      BY <1>0, <1>1, <1>3
  <2>2. PICK g : Joins(seqs, g, k - 1)
    BY <2>1
  <2> DEFINE last == g[k - 1] \o seqs[k]
             h == [i \in 1 .. k |-> IF i = k THEN last ELSE g[i]]
  <2>3. \A i \in 1 .. k - 1 : g[i] = IF i = 1 THEN seqs[i] ELSE g[i - 1] \o seqs[i]
    BY <2>2 DEF Joins
  <2>4. ASSUME NEW i \in 1 .. k PROVE h[i] = IF i = 1 THEN seqs[i] ELSE h[i - 1] \o seqs[i]
    <3> HIDE DEF Bad
    <3>1. k \in Nat /\ k > 1
      BY <1>0, <1>3
    <3> HIDE DEF last
    <3>5. \A j \in 1 .. k : h[j] = IF j = k THEN last ELSE g[j]
      OBVIOUS
    <3> HIDE DEF h
    <3>2. CASE i = k
      <4>1. k - 1 \in 1 .. k /\ k - 1 # k
        BY <3>1
      <4>2. h[k] = last /\ h[k - 1] = g[k - 1]
        BY <4>1, <3>5
      <4>3. i # 1
        BY <3>1, <3>2
      <4>4. last = g[k - 1] \o seqs[k]
        BY DEF last
      <4> QED
        BY <4>2, <4>3, <4>4, <3>2, Zenon
    <3>3. CASE i = 1
      <4>1. 1 \in 1 .. k - 1 /\ 1 # k
        BY <3>1
      <4> QED
        BY <4>1, <3>3, <3>5, <2>3
    <3>4. CASE i # k /\ i # 1
      <4>1. i \in 1 .. k - 1 /\ i - 1 \in 1 .. k /\ i - 1 # k
        BY <3>1, <3>4
      <4>2. h[i] = g[i] /\ h[i - 1] = g[i - 1]
        BY <4>1, <3>5, <3>4
      <4> QED
        BY <4>1, <4>2, <3>4, <2>3
    <3> QED
      BY <3>2, <3>3, <3>4
  <2>5. Joins(seqs, h, k)
    BY <2>4 DEF Joins
  <2> QED
    BY <2>5
<1> QED
  BY <1>2, <1>3

\* FlattenSeq takes its value from one.
LEMMA FlattenIs ==
    ASSUME NEW S, NEW seqs \in Seq(Seq(S)), Len(seqs) # 0
    PROVE  \E g : Joins(seqs, g, Len(seqs)) /\ FlattenSeq(seqs) = g[Len(seqs)]
<1> DEFINE F == CHOOSE g : g = [i \in 1 .. Len(seqs) |-> IF i = 1 THEN seqs[i] ELSE g[i - 1] \o seqs[i]]
<1>1. FlattenSeq(seqs) = F[Len(seqs)]
  BY DEF FlattenSeq
<1>2. \E g : g = [i \in 1 .. Len(seqs) |-> IF i = 1 THEN seqs[i] ELSE g[i - 1] \o seqs[i]]
  <2>1. Len(seqs) \in 1 .. Len(seqs)
    OBVIOUS
  <2>2. \E g : Joins(seqs, g, Len(seqs))
    BY <2>1, Prefixed
  <2> QED
    BY <2>2 DEF Joins
<1>3. Joins(seqs, F, Len(seqs))
  BY <1>2 DEF Joins
<1> QED
  BY <1>1, <1>3

\* What two sequences hold together.
LEMMA Joined ==
    ASSUME NEW S, NEW s \in Seq(S), NEW t \in Seq(S)
    PROVE  ToSet(s \o t) = ToSet(s) \cup ToSet(t)
<1>1. /\ DOMAIN (s \o t) = 1 .. Len(s) + Len(t) /\ Len(s) \in Nat /\ Len(t) \in Nat
      /\ DOMAIN s = 1 .. Len(s) /\ DOMAIN t = 1 .. Len(t)
  OBVIOUS
<1>2. \A i \in 1 .. Len(s) + Len(t) : (s \o t)[i] = IF i <= Len(s) THEN s[i] ELSE t[i - Len(s)]
  OBVIOUS
<1>3. ASSUME NEW i \in 1 .. Len(s) + Len(t) PROVE (s \o t)[i] \in ToSet(s) \cup ToSet(t)
  BY <1>1, <1>2 DEF ToSet
<1>4. ASSUME NEW i \in 1 .. Len(s) PROVE s[i] \in ToSet(s \o t)
  BY <1>1, <1>2 DEF ToSet
<1>5. ASSUME NEW i \in 1 .. Len(t) PROVE t[i] \in ToSet(s \o t)
  <2>1. i + Len(s) \in 1 .. Len(s) + Len(t) /\ (s \o t)[i + Len(s)] = t[i]
    BY <1>1, <1>2
  <2> QED
    BY <2>1, <1>1 DEF ToSet
<1> QED
  BY <1>1, <1>3, <1>4, <1>5 DEF ToSet

(* FlattenSeq puts sequences of elements of S one after the other: nothing *)
(* is lost, nothing added.                                                 *)
LEMMA Flattened ==
    ASSUME NEW S, NEW seqs \in Seq(Seq(S))
    PROVE  /\ FlattenSeq(seqs) \in Seq(S)
           /\ ToSet(FlattenSeq(seqs)) = UNION {ToSet(seqs[i]) : i \in DOMAIN seqs}
<1> DEFINE Upto(k) == UNION {ToSet(seqs[i]) : i \in 1 .. k}
<1>1. CASE Len(seqs) = 0
  <2>1. FlattenSeq(seqs) = <<>> /\ DOMAIN seqs = {}
    BY <1>1 DEF FlattenSeq
  <2> QED
    BY <2>1 DEF ToSet
<1>2. CASE Len(seqs) # 0
  <2>1. PICK g : Joins(seqs, g, Len(seqs)) /\ FlattenSeq(seqs) = g[Len(seqs)]
    BY <1>2, FlattenIs
  <2>2. \A i \in 1 .. Len(seqs) : g[i] = IF i = 1 THEN seqs[i] ELSE g[i - 1] \o seqs[i]
    BY <2>1 DEF Joins
  <2>0. Len(seqs) \in Nat /\ DOMAIN seqs = 1 .. Len(seqs) /\ \A i \in 1 .. Len(seqs) : seqs[i] \in Seq(S)
    OBVIOUS
  <2> DEFINE Right(k) == g[k] \in Seq(S) /\ ToSet(g[k]) = Upto(k)
             Bad == {k \in 1 .. Len(seqs) : ~Right(k)}
  <2>3. ASSUME Bad # {} PROVE FALSE
    <3>0. Bad \in SUBSET Nat /\ \A k \in Bad : k \in 1 .. Len(seqs) /\ ~Right(k)
      OBVIOUS
    <3>1. PICK k \in Bad : \A j \in Bad : k <= j
      <4> HIDE DEF Bad
      <4> QED
        BY <3>0, <2>3, LeastExists
    <3>2. k \in 1 .. Len(seqs) /\ ~Right(k)
      BY <3>0
    <3>3. CASE k = 1
      <4>1. g[k] = seqs[k] /\ 1 .. k = {k}
        BY <2>2, <3>2, <3>3
      <4>2. ToSet(seqs[k]) = Upto(k)
        BY <4>1
      <4> QED
        BY <4>1, <4>2, <3>2, <2>0
    <3>4. CASE k # 1
      <4>1. k - 1 \in 1 .. Len(seqs) /\ k - 1 \notin Bad
        <5> HIDE DEF Bad
        <5> QED
          BY <2>0, <3>1, <3>2, <3>4
      <4>2. Right(k - 1)
        BY <4>1
      <4>3. g[k] = g[k - 1] \o seqs[k]
        BY <2>2, <3>2, <3>4
      <4>4. g[k] \in Seq(S)
        BY <4>2, <4>3, <3>2, <2>0
      <4>5. ToSet(g[k]) = ToSet(g[k - 1]) \cup ToSet(seqs[k])
        <5>1. \A s, t \in Seq(S) : ToSet(s \o t) = ToSet(s) \cup ToSet(t)
          BY Joined
        <5> QED
          BY <5>1, <4>2, <4>3, <3>2, <2>0
      <4>6. Upto(k) = Upto(k - 1) \cup ToSet(seqs[k])
        <5>1. 1 .. k = (1 .. k - 1) \cup {k}
          BY <3>2, <2>0
        <5> QED
          BY <5>1
      <4> QED
        BY <4>2, <4>4, <4>5, <4>6, <3>2
    <3> QED
      BY <3>3, <3>4
  <2>4. Right(Len(seqs))
    <3>1. Len(seqs) \in 1 .. Len(seqs)
      BY <2>0, <1>2
    <3> HIDE DEF Right
    <3> QED
      BY <3>1, <2>3
  <2> QED
    BY <2>4, <2>1, <2>0
<1> QED
  BY <1>1, <1>2

\* A sequence is one of what it holds, and of anything larger.
LEMMA OfItsElements ==
    ASSUME NEW S, NEW s \in Seq(S), NEW T, ToSet(s) \subseteq T
    PROVE  s \in Seq(T)
<1>1. \A i \in 1 .. Len(s) : s[i] \in T
  BY DEF ToSet
<1>2. s \in [1 .. Len(s) -> T]
  BY <1>1
<1> QED
  BY <1>2

\* The first of a sequence and the rest.
LEMMA HeadAndTail ==
    ASSUME NEW S, NEW s \in Seq(S), s # <<>>
    PROVE  /\ Head(s) \in ToSet(s) /\ Head(s) \in S /\ Tail(s) \in Seq(S)
           /\ ToSet(s) = {Head(s)} \cup ToSet(Tail(s))
<1>1. /\ Len(s) \in Nat /\ Len(s) # 0 /\ DOMAIN s = 1 .. Len(s) /\ Head(s) = s[1]
      /\ Tail(s) \in Seq(S) /\ DOMAIN Tail(s) = 1 .. Len(s) - 1
  OBVIOUS
<1>2. \A i \in 1 .. Len(s) - 1 : Tail(s)[i] = s[i + 1]
  OBVIOUS
<1>3. ASSUME NEW i \in 1 .. Len(s) PROVE s[i] \in {Head(s)} \cup ToSet(Tail(s))
  <2>1. CASE i = 1
    BY <2>1, <1>1
  <2>2. CASE i # 1
    <3>1. i - 1 \in 1 .. Len(s) - 1 /\ Tail(s)[i - 1] = s[i]
      BY <2>2, <1>1, <1>2
    <3> QED
      BY <3>1, <1>1 DEF ToSet
  <2> QED
    BY <2>1, <2>2
<1>4. ASSUME NEW i \in 1 .. Len(s) - 1 PROVE Tail(s)[i] \in ToSet(s)
  <2>1. i + 1 \in 1 .. Len(s)
    BY <1>1
  <2> QED
    BY <2>1, <1>1, <1>2 DEF ToSet
<1>5. s[1] \in ToSet(s) /\ s[1] \in S
  BY <1>1 DEF ToSet
<1>6. ToSet(s) = {Head(s)} \cup ToSet(Tail(s))
  BY <1>1, <1>3, <1>4, <1>5 DEF ToSet
<1> QED
  BY <1>1, <1>5, <1>6

\* What sequences of at most one element hold.
LEMMA Singletons == ToSet(<<>>) = {} /\ \A x : ToSet(<<x>>) = {x}
<1>1. DOMAIN <<>> = {}
  OBVIOUS
<1>2. ASSUME NEW x PROVE ToSet(<<x>>) = {x}
  <2>1. <<x>> \in Seq({x}) /\ Len(<<x>>) = 1 /\ <<x>>[1] = x
    OBVIOUS
  <2>2. DOMAIN <<x>> = {1}
    <3>1. DOMAIN <<x>> = 1 .. 1
      BY <2>1
    <3> QED
      BY <3>1
  <2> QED
    BY <2>1, <2>2 DEF ToSet
<1> QED
  BY <1>1, <1>2 DEF ToSet

\* What reconcile_file() finds to write: the objects that need an update.
LEMMA Updates ==
    ASSUME NEW S, NEW s \in Seq(S)
    PROVE  /\ Passing(s, NeedsUpdate) \in Seq(S)
           /\ ToSet(Passing(s, NeedsUpdate)) = {o \in ToSet(s) : NeedsUpdate(o)}
<1> DEFINE t == [i \in DOMAIN s |-> IF NeedsUpdate(s[i]) THEN <<s[i]>> ELSE <<>>]
<1>1. /\ DOMAIN s = 1 .. Len(s) /\ Len(s) \in Nat /\ DOMAIN t = DOMAIN s
      /\ \A i \in DOMAIN s : s[i] \in S /\ t[i] = IF NeedsUpdate(s[i]) THEN <<s[i]>> ELSE <<>>
      /\ t = [i \in 1 .. Len(s) |-> t[i]]
  OBVIOUS
<1>2. Passing(s, NeedsUpdate) = FlattenSeq(t)
  BY DEF Passing
<1> HIDE DEF t
<1>3. t \in Seq(Seq(S))
  <2>1. ASSUME NEW i \in DOMAIN s PROVE t[i] \in Seq(S)
    <3>1. s[i] \in S /\ (t[i] = <<s[i]>> \/ t[i] = <<>>)
      BY <1>1
    <3>2. \A x \in S : <<x>> \in Seq(S)
      OBVIOUS
    <3>3. <<>> \in Seq(S)
      OBVIOUS
    <3> QED
      BY <3>1, <3>2, <3>3, Zenon
  <2>2. t \in [1 .. Len(s) -> Seq(S)]
    BY <2>1, <1>1
  <2> QED
    BY <2>2, <1>1
<1>4. \A i \in DOMAIN s : ToSet(t[i]) = IF NeedsUpdate(s[i]) THEN {s[i]} ELSE {}
  <2> QED
    BY <1>1, Singletons
<1>5. /\ FlattenSeq(t) \in Seq(S)
      /\ ToSet(FlattenSeq(t)) = UNION {ToSet(t[i]) : i \in DOMAIN t}
  BY <1>3, Flattened
<1>6. UNION {ToSet(t[i]) : i \in DOMAIN t} = {o \in ToSet(s) : NeedsUpdate(o)}
  BY <1>1, <1>4 DEF ToSet
<1> QED
  BY <1>2, <1>5, <1>6

-----------------------------------------------------------------------------
(* What a file's content asks for *)

EntriesOf(doc) == {[heading |-> doc[i], path |-> BuildHeadingPath(doc, i)] : i \in DOMAIN doc}
Made(f, e) == {EventOf(f, e, ts) : ts \in ToSet(Timestamps(e.heading))} \cup {TodoOf(f, e)}

\* parse_org_content() keeps some of the headings, each with its path.
LEMMA Parsed ==
    ASSUME NEW doc \in Seq(Headings)
    PROVE  ParseOrgContent(doc) \in Seq(EntriesOf(doc))
<1> DEFINE s == [i \in DOMAIN doc |-> [heading |-> doc[i], path |-> BuildHeadingPath(doc, i)]]
           t == [i \in DOMAIN s |-> IF Exported(s[i].heading) THEN <<s[i]>> ELSE <<>>]
<1>1. ParseOrgContent(doc) = FlattenSeq(t)
  BY DEF ParseOrgContent, Passing
<1>2. DOMAIN doc = 1 .. Len(doc) /\ Len(doc) \in Nat
  OBVIOUS
<1>3. DOMAIN s = DOMAIN doc /\ \A i \in DOMAIN doc : s[i] \in EntriesOf(doc)
  BY DEF EntriesOf
<1> HIDE DEF s
<1>4. t = [i \in 1 .. Len(doc) |-> t[i]] /\ \A i \in 1 .. Len(doc) : t[i] = <<s[i]>> \/ t[i] = <<>>
  BY <1>2, <1>3
<1> HIDE DEF t
<1>5. ASSUME NEW i \in 1 .. Len(doc) PROVE t[i] \in Seq(EntriesOf(doc))
  <2>1. \A x \in EntriesOf(doc) : <<x>> \in Seq(EntriesOf(doc))
    OBVIOUS
  <2>2. <<>> \in Seq(EntriesOf(doc))
    OBVIOUS
  <2>3. s[i] \in EntriesOf(doc) /\ (t[i] = <<s[i]>> \/ t[i] = <<>>)
    BY <1>2, <1>3, <1>4
  <2> QED
    BY <2>1, <2>2, <2>3, Zenon
<1>6. t \in Seq(Seq(EntriesOf(doc)))
  <2>1. t \in [1 .. Len(doc) -> Seq(EntriesOf(doc))]
    BY <1>4, <1>5
  <2> QED
    BY <2>1, <1>2
<1> QED
  BY <1>1, <1>6, Flattened

\* The objects of one entry: its events, then its task.
LEMMA ObjectsOfEntry ==
    ASSUME NEW f, NEW e, e.heading \in Headings
    PROVE  ObjectsOf(f, e) \in Seq(Made(f, e))
<1> DEFINE ts == Timestamps(e.heading)
           events1 == [i \in DOMAIN ts |-> EventOf(f, e, ts[i])]
           tasks == IF e.heading.todo = "" THEN <<>> ELSE <<TodoOf(f, e)>>
<1>1. ts \in Seq(Stamps)
  BY DEF Timestamps, Headings
<1>2. ObjectsOf(f, e) = events1 \o tasks
  BY DEF ObjectsOf
<1> HIDE DEF ts
<1>3. events1 \in Seq(Made(f, e))
  <2>1. \A i \in DOMAIN ts : EventOf(f, e, ts[i]) \in Made(f, e)
    BY DEF Made, ToSet, ts
  <2>2. DOMAIN ts = 1 .. Len(ts) /\ Len(ts) \in Nat
    BY <1>1
  <2>3. events1 \in [1 .. Len(ts) -> Made(f, e)]
    BY <2>1, <2>2
  <2> HIDE DEF events1
  <2> QED
    BY <2>2, <2>3
<1>4. tasks \in Seq(Made(f, e))
  <2>1. TodoOf(f, e) \in Made(f, e)
    BY DEF Made
  <2>2. \A x \in Made(f, e) : <<x>> \in Seq(Made(f, e))
    OBVIOUS
  <2>3. <<>> \in Seq(Made(f, e))
    OBVIOUS
  <2> QED
    BY <2>1, <2>2, <2>3, Zenon
<1> HIDE DEF events1, tasks
<1> QED
  BY <1>2, <1>3, <1>4

\* The objects of a file: those of the entries of its content.
LEMMA ObjectsMade ==
    ASSUME NEW f, NEW doc \in Seq(Headings)
    PROVE  Objects(f, doc) \in Seq(UNION {Made(f, e) : e \in EntriesOf(doc)})
<1> DEFINE es == ParseOrgContent(doc)
           All == UNION {Made(f, e) : e \in EntriesOf(doc)}
           t == [k \in DOMAIN es |-> ObjectsOf(f, es[k])]
<1>1. es \in Seq(EntriesOf(doc))
  BY Parsed
<1>2. Objects(f, doc) = FlattenSeq(t)
  BY DEF Objects
<1>3. \A e \in EntriesOf(doc) : e.heading \in Headings
  BY DEF EntriesOf
<1> HIDE DEF es
<1>4. DOMAIN es = 1 .. Len(es) /\ Len(es) \in Nat /\ \A k \in DOMAIN es : es[k] \in EntriesOf(doc)
  BY <1>1
<1>5. ASSUME NEW k \in DOMAIN es PROVE ObjectsOf(f, es[k]) \in Seq(All)
  <2>1. ObjectsOf(f, es[k]) \in Seq(Made(f, es[k]))
    BY <1>3, <1>4, ObjectsOfEntry
  <2>2. Made(f, es[k]) \subseteq All
    BY <1>4
  <2> HIDE DEF All
  <2> QED
    BY <2>1, <2>2
<1> HIDE DEF All
<1>6. t \in [1 .. Len(es) -> Seq(All)]
  BY <1>4, <1>5
<1> HIDE DEF t
<1>7. t \in Seq(Seq(All))
  BY <1>4, <1>6
<1>8. FlattenSeq(t) \in Seq(All)
  BY <1>7, Flattened
<1> QED
  BY <1>2, <1>8 DEF All

\* The UID of every object is ours and names its file.
LEMMA UidsOurs ==
    ASSUME NEW f, NEW e, NEW o \in Made(f, e)
    PROVE  Ours(o.uid) /\ o.uid.file = f
<1>1. CASE o = TodoOf(f, e)
  BY <1>1 DEF TodoOf, MakeTodoUid, Ours
<1>2. ASSUME NEW ts, o = EventOf(f, e, ts) PROVE Ours(o.uid) /\ o.uid.file = f
  BY <1>2 DEF EventOf, MakeUid, Ours
<1> QED
  BY <1>1, <1>2 DEF Made

\* A row of the table: sequences of objects under the UIDs of their file.
LEMMA Table ==
    ASSUME NEW f \in Files, NEW d \in Docs \cup {Absent}
    PROVE  /\ ObjectTable[f][d] \in Seq(AllObjects)
           /\ ToSet(ObjectTable[f][d]) \subseteq AllObjects
           /\ \A o \in ToSet(ObjectTable[f][d]) : Ours(o.uid) /\ o.uid.file = f
           /\ d \in Docs => \A o \in ToSet(ObjectTable[f][d]) : \E e \in EntriesOf(Text[d]) : o \in Made(f, e)
           /\ d = Absent => ObjectTable[f][d] = <<>>
<1>0. ObjectTable[f][d] = IF d = Absent THEN <<>> ELSE Objects(f, Text[d])
  BY DEF ObjectTable
<1>1. CASE d = Absent
  <2>1. ObjectTable[f][d] = <<>> /\ d \notin Docs
    BY <1>0, <1>1, StrangerAssumption
  <2>2. ToSet(ObjectTable[f][d]) = {}
    BY <2>1, Singletons
  <2>3. <<>> \in Seq(AllObjects)
    OBVIOUS
  <2> QED
    BY <2>1, <2>2, <2>3
<1>2. CASE d # Absent
  <2> DEFINE row == ObjectTable[f][d]
             All == UNION {Made(f, e) : e \in EntriesOf(Text[d])}
  <2>1. d \in Docs /\ row = Objects(f, Text[d])
    BY <1>0, <1>2
  <2>2. row \in Seq(All)
    BY <2>1, ObjectsMade, TextAssumption
  <2>3. ToSet(row) \subseteq AllObjects
    BY <2>1 DEF AllObjects
  <2>4. ToSet(row) \subseteq All
    <3> HIDE DEF row, All
    <3>1. \A i \in DOMAIN row : row[i] \in All
      BY <2>2
    <3> QED
      BY <3>1 DEF ToSet
  <2>5. row \in Seq(AllObjects)
    <3> HIDE DEF row, All
    <3> QED
      BY <2>2, <2>3, OfItsElements
  <2> QED
    BY <2>1, <2>3, <2>4, <2>5, <1>2, UidsOurs
<1> QED
  BY <1>1, <1>2

\* Every object has a UID of ours, under one of the files.
LEMMA AllOurs == \A o \in AllObjects : Ours(o.uid) /\ o.uid.file \in Files
<1> SUFFICES ASSUME NEW o \in AllObjects PROVE Ours(o.uid) /\ o.uid.file \in Files
  OBVIOUS
<1>1. PICK f \in Files, d \in Docs : o \in ToSet(ObjectTable[f][d])
  BY DEF AllObjects
<1> QED
  BY <1>1, Table

(* No timestamp is, or ends, at 00:00. *)
NoMidnight ==
    \A d \in Docs : \A i \in DOMAIN Text[d] : \A ts \in ToSet(Timestamps(Text[d][i])) : ts.at # 0 /\ ts.end # 0

\* Then a UID and a hash tell what the object is: two entries that hash_entry_timestamp() or
\* hash_todo() cannot tell apart are written as the same iCalendar object.
LEMMA HashTells ==
    ASSUME NoMidnight, NEW o \in AllObjects, NEW p \in AllObjects, o.uid = p.uid, o.hash = p.hash
    PROVE  o.ical = p.ical
<1>1. PICK f \in Files, d \in Docs : o \in ToSet(ObjectTable[f][d])
  BY DEF AllObjects
<1>2. PICK g \in Files, c \in Docs : p \in ToSet(ObjectTable[g][c])
  BY DEF AllObjects
<1>3. PICK e \in EntriesOf(Text[d]) : o \in Made(f, e)
  BY <1>1, Table
<1>4. PICK b \in EntriesOf(Text[c]) : p \in Made(g, b)
  BY <1>2, Table
<1>5. ASSUME NEW x \in Docs, NEW a \in EntriesOf(Text[x]), NEW ts \in ToSet(Timestamps(a.heading))
      PROVE  /\ ts.at \in Nat \cup {NoTime} /\ ts.end \in Nat \cup {NoTime}
             /\ ts.at # 0 /\ ts.end # 0
  <2>1. PICK i \in DOMAIN Text[x] : a = [heading |-> Text[x][i], path |-> BuildHeadingPath(Text[x], i)]
    BY DEF EntriesOf
  <2>2. a.heading = Text[x][i] /\ a.heading \in Headings
    BY <2>1, TextAssumption
  <2>3. Timestamps(a.heading) \in Seq(Stamps)
    BY <2>2 DEF Timestamps, Headings
  <2>4. ts \in Stamps
    <3>1. \A k \in DOMAIN Timestamps(a.heading) : Timestamps(a.heading)[k] \in Stamps
      BY <2>3
    <3> QED
      BY <3>1 DEF ToSet
  <2> QED
    BY <2>2, <2>4, NoMidnight DEF NoMidnight, Stamps
<1>6. CASE o = TodoOf(f, e) /\ p = TodoOf(g, b)
  <2>1. /\ e.heading.title = b.heading.title /\ e.path = b.path /\ e.heading.todo = b.heading.todo
        /\ e.heading.info = b.heading.info /\ e.heading.scheduled = b.heading.scheduled
        /\ e.heading.deadline = b.heading.deadline
    BY <1>6 DEF TodoOf, HashTodo
  <2>2. Timestamps(e.heading) = Timestamps(b.heading)
    BY <2>1 DEF Timestamps
  <2>3. GenerateVtodo(e) = GenerateVtodo(b)
    BY <2>1, <2>2 DEF GenerateVtodo
  <2> QED
    BY <2>3, <1>6 DEF TodoOf
<1>7. ASSUME NEW ts \in ToSet(Timestamps(e.heading)), NEW us \in ToSet(Timestamps(b.heading)),
             o = EventOf(f, e, ts), p = EventOf(g, b, us)
      PROVE  o.ical = p.ical
  <2>1. HashEntryTimestamp(e, ts) = HashEntryTimestamp(b, us)
    BY <1>7 DEF EventOf
  <2>2. /\ e.heading.title = b.heading.title /\ e.path = b.path /\ e.heading.todo = b.heading.todo
        /\ e.heading.info = b.heading.info
        /\ ts.day = us.day /\ OrZero(ts.at) = OrZero(us.at) /\ OrZero(ts.end) = OrZero(us.end)
    BY <2>1 DEF HashEntryTimestamp
  <2>3. ts.at = us.at /\ ts.end = us.end
    BY <2>2, <1>5 DEF OrZero
  <2>4. FormatIcalDatetime(ts) = FormatIcalDatetime(us) /\ FormatIcalDtend(ts) = FormatIcalDtend(us)
    BY <2>2, <2>3 DEF FormatIcalDatetime, FormatIcalDtend
  <2>5. GenerateVevent(e, ts) = GenerateVevent(b, us)
    BY <2>2, <2>4 DEF GenerateVevent
  <2> QED
    BY <2>5, <1>7 DEF EventOf
<1>8. ASSUME NEW ts, (o = EventOf(f, e, ts) /\ p = TodoOf(g, b)) \/ (p = EventOf(g, b, ts) /\ o = TodoOf(f, e))
      PROVE  FALSE
  BY <1>8 DEF EventOf, TodoOf, MakeUid, MakeTodoUid
<1> QED
  BY <1>3, <1>4, <1>6, <1>7, <1>8 DEF Made

-----------------------------------------------------------------------------
(* The invariant.  Types: the shape of the state.  Plan: what is in hand   *)
(* at each point of main().  Accounted: when nothing was missed, the state *)
(* agrees with every file handled and not changed since, and with the      *)
(* calendar.                                                               *)
Uids(f) == {o.uid : o \in ToSet(ObjectsIn(f))}

Types ==
    /\ files \in [Files -> Docs \cup {Absent}]
    /\ \A u \in DOMAIN db : Ours(u) /\ u.file \in Files /\ db[u].file = u.file
    /\ \A u \in dels : Ours(u)
    /\ pc \in Pc /\ file \in Files
    /\ puts \in Seq(AllObjects) /\ \A o \in ToSet(puts) : o.uid.file = file
    /\ queue \subseteq Files /\ seen \subseteq Files
    /\ failed \in BOOLEAN /\ full \in BOOLEAN /\ clean \in BOOLEAN
    /\ unsaid \subseteq Files /\ events \in Seq(Files) /\ cursor \in 0 .. Len(events)
    /\ left \in [edit : 0 .. MaxEdits, fault : 0 .. MaxFaults, crash : 0 .. MaxCrashes]

Plan ==
    /\ pc # "reconcile" => puts = <<>>
    /\ pc \notin {"reconcile", "remove", "orphans"} => dels = {}
    /\ pc \in {"down", "loop"} => ~full
    /\ pc \in {"files", "stale", "list", "orphans", "cursor"} => full
    /\ ~full \/ pc \in {"list", "orphans", "cursor"} => queue = {}
    /\ full /\ pc \in {"files", "reconcile"} => queue \subseteq seen
    /\ full /\ pc \in {"stale", "remove"} => queue \cap seen = {}
    /\ pc \in {"reconcile", "remove"} => file \notin queue /\ \A u \in dels : u.file = file
    /\ pc \in {"remove", "orphans"} => dels \cap DOMAIN db = {}
    /\ clean /\ full => ~failed

(* A file that changed since it was looked at, which an event says or will say. *)
Late(f) == f \in unsaid \/ (~full /\ \E i \in cursor + 1 .. Len(events) : events[i] = f)

(* The state has the entries of the file, and in the middle of reconcile_file(). *)
Recorded(f, u) == u \in DOMAIN db /\ \E o \in ToSet(ObjectsIn(f)) : o.uid = u /\ o.hash = db[u].hash
Done(f) == EntriesForFile(f) \subseteq Uids(f) /\ \A u \in Uids(f) : Recorded(f, u)
Underway(f) ==
    /\ ToSet(puts) \subseteq ToSet(ObjectsIn(f))
    /\ EntriesForFile(f) \subseteq Uids(f) \cup dels
    /\ dels \cap Uids(f) = {}
    /\ \A u \in Uids(f) : Recorded(f, u) \/ \E o \in ToSet(puts) : o.uid = u

Handled(f) ==
    /\ f \notin queue
    /\ full /\ pc \in {"files", "reconcile"} => f \in seen
    /\ ~(pc = "reconcile" /\ f = file)
Swept == pc \in {"orphans", "cursor"} \/ (~full /\ pc # "down")

FilesRight == \A f \in Files : Handled(f) => Done(f) \/ Late(f)
FileRight == pc = "reconcile" => Underway(file) \/ Late(file)
UnseenEmpty == full => \A f \in Files \ seen : ObjectsIn(f) = <<>> \/ f \in unsaid
NoStrays == Swept => \A u \in DOMAIN cal : Ours(u) => u \in DOMAIN db \cup dels
Accounted == FilesRight /\ FileRight /\ UnseenEmpty /\ StateTrue /\ NoStrays
Good == clean /\ pc # "down" => Accounted
Inv == Types /\ Plan /\ Good

\* What the files ask for, given the shape of the state.
LEMMA InFiles ==
    ASSUME Types, NEW f \in Files
    PROVE  /\ ObjectsIn(f) \in Seq(AllObjects)
           /\ ToSet(ObjectsIn(f)) \subseteq AllObjects
           /\ \A o \in ToSet(ObjectsIn(f)) : Ours(o.uid) /\ o.uid.file = f
           /\ \A u \in Uids(f) : Ours(u) /\ u.file = f
           /\ files[f] = Absent => ObjectsIn(f) = <<>>
           /\ ObjectsIn(f) = <<>> => Uids(f) = {}
<1>1. files[f] \in Docs \cup {Absent}
  BY DEF Types
<1>2. ObjectsIn(f) = ObjectTable[f][files[f]]
  BY DEF ObjectsIn
<1>3. /\ ObjectsIn(f) \in Seq(AllObjects)
      /\ ToSet(ObjectsIn(f)) \subseteq AllObjects
      /\ \A o \in ToSet(ObjectsIn(f)) : Ours(o.uid) /\ o.uid.file = f
      /\ files[f] = Absent => ObjectsIn(f) = <<>>
  BY <1>1, <1>2, Table
<1> QED
  BY <1>3, Singletons DEF Uids

\* What the initial calendar holds does not matter: nothing has been started.
LEMMA InvInit == Init => Inv
<1> SUFFICES ASSUME Init PROVE Inv
  OBVIOUS
<1>1. Types
  <2>1. files \in [Files -> Docs \cup {Absent}]
    BY DEF Init
  <2>2. DOMAIN db = {}
    BY DEF Init, Empty
  <2>3. file \in Files
    BY FilesAssumption DEF Init
  <2>4. ToSet(puts) = {}
    BY Singletons DEF Init
  <2>6. puts \in Seq(AllObjects)
    BY DEF Init
  <2>7. events \in Seq(Files) /\ Len(events) = 0
    BY DEF Init
  <2>5. left \in [edit : 0 .. MaxEdits, fault : 0 .. MaxFaults, crash : 0 .. MaxCrashes]
    BY BoundAssumption DEF Init
  <2>8. /\ dels = {} /\ pc = "down" /\ queue = {} /\ seen = {} /\ unsaid = {} /\ cursor = 0
        /\ failed = FALSE /\ full = FALSE /\ clean = TRUE
    BY DEF Init
  <2>9. cursor \in 0 .. Len(events)
    BY <2>7, <2>8
  <2> QED
    BY <2>1, <2>2, <2>3, <2>4, <2>5, <2>6, <2>7, <2>8, <2>9 DEF Types, Pc
<1>2. Plan
  BY DEF Init, Plan
<1>3. Good
  BY DEF Init, Good
<1> QED
  BY <1>1, <1>2, <1>3 DEF Inv

-----------------------------------------------------------------------------
(* What a step leaves alone stays right *)

\* The entries of a file are those whose UID names it.
LEMMA EntriesByUid ==
    ASSUME Types, NEW f PROVE EntriesForFile(f) = {u \in DOMAIN db : u.file = f}
BY DEF Types, EntriesForFile

\* A file is as done as it was when neither it nor its entries changed.
LEMMA DoneStays ==
    ASSUME Types, Types', NEW f \in Files, files'[f] = files[f],
           \A u : u.file = f => (u \in DOMAIN db' <=> u \in DOMAIN db),
           \A u \in DOMAIN db' : u.file = f => db'[u] = db[u],
           Done(f)
    PROVE  Done(f)'
<1>1. ObjectsIn(f)' = ObjectsIn(f)
  BY DEF ObjectsIn
<1>2. Uids(f)' = Uids(f) /\ \A u \in Uids(f) : u.file = f
  BY <1>1, InFiles DEF Uids
<1>3. EntriesForFile(f)' \subseteq EntriesForFile(f)
  BY DEF Types, EntriesForFile
<1>4. \A u \in Uids(f) : Recorded(f, u) => Recorded(f, u)'
  BY <1>1, <1>2 DEF Recorded
<1> QED
  BY <1>2, <1>3, <1>4 DEF Done

\* The same when the state did not change at all.
LEMMA DoneStill ==
    ASSUME NEW f, files'[f] = files[f], db' = db
    PROVE  /\ ObjectsIn(f)' = ObjectsIn(f) /\ Uids(f)' = Uids(f)
           /\ EntriesForFile(f)' = EntriesForFile(f)
           /\ \A u : Recorded(f, u)' <=> Recorded(f, u)
           /\ Done(f)' <=> Done(f)
<1>1. ObjectsIn(f)' = ObjectsIn(f)
  BY DEF ObjectsIn
<1>2. Uids(f)' = Uids(f)
  BY <1>1 DEF Uids
<1>3. EntriesForFile(f)' = EntriesForFile(f)
  BY DEF EntriesForFile
<1>4. \A u : Recorded(f, u)' <=> Recorded(f, u)
  BY <1>1 DEF Recorded
<1> QED
  BY <1>1, <1>2, <1>3, <1>4 DEF Done

\* The state is as true as it was.
LEMMA TrueStill ==
    ASSUME db' = db, cal' = cal PROVE StateTrue' <=> StateTrue
BY DEF StateTrue

\* A request that is answered changes neither the history nor the bounds; one that is not is a fault.
LEMMA Sent ==
    ASSUME Types, NEW ok \in BOOLEAN, SendAs(ok)
    PROVE  /\ clean' \in BOOLEAN
           /\ left' \in [edit : 0 .. MaxEdits, fault : 0 .. MaxFaults, crash : 0 .. MaxCrashes]
           /\ clean' => clean /\ ok
           /\ ok => clean' = clean
<1>1. left \in [edit : 0 .. MaxEdits, fault : 0 .. MaxFaults, crash : 0 .. MaxCrashes] /\ clean \in BOOLEAN
  BY DEF Types
<1>2. CASE ok
  BY <1>1, <1>2 DEF SendAs
<1>3. CASE ~ok
  <2>1. left' = [left EXCEPT !.fault = @ - 1] /\ left.fault > 0 /\ clean' = FALSE
    BY <1>3 DEF SendAs
  <2>2. left.fault \in 0 .. MaxFaults /\ left.fault - 1 \in 0 .. MaxFaults
    <3>1. left.fault \in 0 .. MaxFaults
      BY <1>1
    <3> QED
      BY <3>1, <2>1, BoundAssumption
  <2> QED
    BY <2>1, <2>2, <1>1, <1>3
<1> QED
  BY <1>2, <1>3

-----------------------------------------------------------------------------
(* Steps that only move on *)

\* reconcile_file() has written and deleted everything.
LEMMA ReconciledKeeps == ASSUME Inv, Reconciled PROVE Inv'
<1> USE DEF Reconciled, env, work, sweep
<1>0. Types /\ Plan /\ Good
  BY DEF Inv
<1>1. Types'
  BY <1>0 DEF Types, Pc, Return
<1>2. Plan'
  BY <1>0 DEF Plan, Return, Types
<1>3. ASSUME clean', pc' # "down" PROVE Accounted'
  <2>1. Accounted
    BY <1>0, <1>3 DEF Good
  <2>2. \A f \in Files : Late(f)' <=> Late(f)
    BY DEF Late
  <2>3. \A f \in Files : Done(f)' <=> Done(f)
    BY DoneStill
  <2>4. Underway(file) => Done(file)
    <3>1. ToSet(puts) = {}
      BY Singletons
    <3> QED
      BY <3>1 DEF Underway, Done
  <2>5. FilesRight'
    BY <2>1, <2>2, <2>3, <2>4, <1>0 DEF Accounted, FilesRight, FileRight, Handled, Return, Types
  <2>6. FileRight'
    BY DEF FileRight, Return
  <2>7. UnseenEmpty'
    BY <2>1 DEF Accounted, UnseenEmpty, ObjectsIn
  <2>8. NoStrays'
    BY <2>1, <1>0 DEF Accounted, NoStrays, Swept, Return, Types
  <2> QED
    BY <2>1, <2>5, <2>6, <2>7, <2>8, TrueStill DEF Accounted
<1> QED
  BY <1>1, <1>2, <1>3 DEF Inv, Good

\* The files have been read: those the state knows and this pass did not see come next.
LEMMA FilesDoneKeeps == ASSUME Inv, FilesDone PROVE Inv'
<1> USE DEF FilesDone, env, work, sweep
<1>0. Types /\ Plan /\ Good
  BY DEF Inv
<1>1. Types'
  BY <1>0 DEF Types, Pc
<1>2. Plan'
  BY <1>0 DEF Plan
<1>3. ASSUME clean', pc' # "down" PROVE Accounted'
  <2>1. Accounted
    BY <1>0, <1>3 DEF Good
  <2>2. \A f \in Files : Late(f)' <=> Late(f)
    BY DEF Late
  <2>3. \A f \in Files : Done(f)' <=> Done(f)
    BY DoneStill
  <2>4. FilesRight'
    <3> SUFFICES ASSUME NEW f \in Files, f \notin queue' PROVE Done(f) \/ Late(f)
      BY <2>2, <2>3 DEF FilesRight, Handled
    <3>1. CASE f \in seen
      BY <3>1, <2>1 DEF Accounted, FilesRight, Handled
    <3>2. CASE f \notin seen
      <4>1. EntriesForFile(f) = {}
        BY <3>2 DEF EntriesForFile
      <4>2. ObjectsIn(f) = <<>> \/ Late(f)
        BY <3>2, <2>1, <1>0 DEF Accounted, UnseenEmpty, Late, Plan
      <4> QED
        BY <4>1, <4>2, <1>0, InFiles DEF Done
    <3> QED
      BY <3>1, <3>2
  <2>6. FileRight'
    BY DEF FileRight
  <2>7. UnseenEmpty'
    BY <2>1 DEF Accounted, UnseenEmpty, ObjectsIn
  <2>8. NoStrays'
    BY <2>1, <1>0 DEF Accounted, NoStrays, Swept, Plan
  <2> QED
    BY <2>1, <2>4, <2>6, <2>7, <2>8, TrueStill DEF Accounted
<1> QED
  BY <1>1, <1>2, <1>3 DEF Inv, Good

\* The files that are gone have been removed.
LEMMA StaleDoneKeeps == ASSUME Inv, StaleDone PROVE Inv'
<1> USE DEF StaleDone, env, work, sweep
<1>0. Types /\ Plan /\ Good
  BY DEF Inv
<1>1. Types'
  BY <1>0 DEF Types, Pc
<1>2. Plan'
  BY <1>0 DEF Plan, Types
<1>3. ASSUME clean', pc' # "down" PROVE Accounted'
  <2>1. Accounted
    BY <1>0, <1>3 DEF Good
  <2>2. \A f \in Files : Late(f)' <=> Late(f)
    BY DEF Late
  <2>3. \A f \in Files : Done(f)' <=> Done(f)
    BY DoneStill
  <2>4. FilesRight'
    BY <2>1, <2>2, <2>3 DEF Accounted, FilesRight, Handled
  <2>5. FileRight'
    BY DEF FileRight
  <2>6. UnseenEmpty'
    BY <2>1 DEF Accounted, UnseenEmpty, ObjectsIn
  <2>7. pc' = "list" /\ full
    BY <1>0, <1>3 DEF Plan, Types
  <2>8. NoStrays'
    BY <2>7 DEF NoStrays, Swept
  <2> QED
    BY <2>1, <2>4, <2>5, <2>6, <2>8, TrueStill DEF Accounted
<1> QED
  BY <1>1, <1>2, <1>3 DEF Inv, Good

\* A file's entries have left the calendar.
LEMMA RemovedKeeps == ASSUME Inv, Removed PROVE Inv'
<1> USE DEF Removed, env, work, sweep
<1>0. Types /\ Plan /\ Good
  BY DEF Inv
<1>1. Types'
  BY <1>0 DEF Types, Pc
<1>2. Plan'
  BY <1>0 DEF Plan, Types
<1>3. ASSUME clean', pc' # "down" PROVE Accounted'
  <2>1. Accounted
    BY <1>0, <1>3 DEF Good
  <2>2. \A f \in Files : Late(f)' <=> Late(f)
    BY DEF Late
  <2>3. \A f \in Files : Done(f)' <=> Done(f)
    BY DoneStill
  <2>4. FilesRight'
    BY <2>1, <2>2, <2>3 DEF Accounted, FilesRight, Handled
  <2>5. FileRight'
    BY DEF FileRight
  <2>6. UnseenEmpty'
    BY <2>1 DEF Accounted, UnseenEmpty, ObjectsIn
  <2>7. NoStrays'
    BY <2>1 DEF Accounted, NoStrays, Swept
  <2> QED
    BY <2>1, <2>4, <2>5, <2>6, <2>7, TrueStill DEF Accounted
<1> QED
  BY <1>1, <1>2, <1>3 DEF Inv, Good

\* The sweep is over.
LEMMA OrphansDoneKeeps == ASSUME Inv, OrphansDone PROVE Inv'
<1> USE DEF OrphansDone, env, work, sweep
<1>0. Types /\ Plan /\ Good
  BY DEF Inv
<1>1. Types'
  BY <1>0 DEF Types, Pc
<1>2. Plan'
  BY <1>0 DEF Plan
<1>3. ASSUME clean', pc' # "down" PROVE Accounted'
  <2>1. Accounted
    BY <1>0, <1>3 DEF Good
  <2>2. \A f \in Files : Late(f)' <=> Late(f)
    BY DEF Late
  <2>3. \A f \in Files : Done(f)' <=> Done(f)
    BY DoneStill
  <2>4. FilesRight'
    BY <2>1, <2>2, <2>3 DEF Accounted, FilesRight, Handled
  <2>5. FileRight'
    BY DEF FileRight
  <2>6. UnseenEmpty'
    BY <2>1 DEF Accounted, UnseenEmpty, ObjectsIn
  <2>7. NoStrays'
    BY <2>1 DEF Accounted, NoStrays, Swept
  <2> QED
    BY <2>1, <2>4, <2>5, <2>6, <2>7, TrueStill DEF Accounted
<1> QED
  BY <1>1, <1>2, <1>3 DEF Inv, Good

\* list_uids() finds what the state does not know.
LEMMA ListKeeps == ASSUME Inv, List PROVE Inv'
<1> USE DEF List, env, sweep
<1>0. Types /\ Plan /\ Good
  BY DEF Inv
<1>4. PICK ok \in BOOLEAN : SendAs(ok) /\ IF ok THEN dels' = Unknown /\ pc' = "orphans" ELSE dels' = {} /\ pc' = "cursor"
  OBVIOUS
<1>1. Types'
  <2>1. clean' \in BOOLEAN /\ left' \in [edit : 0 .. MaxEdits, fault : 0 .. MaxFaults, crash : 0 .. MaxCrashes]
    BY <1>4, Sent, <1>0 DEF Types
  <2>2. \A u \in dels' : Ours(u)
    BY <1>4 DEF Unknown
  <2> QED
    BY <1>4, <2>1, <2>2, <1>0 DEF Types, Pc
<1>2. Plan'
  BY <1>4, <1>0, Sent DEF Plan, Unknown, Types
<1>3. ASSUME clean', pc' # "down" PROVE Accounted'
  <2>1. clean /\ ok
    BY <1>0, <1>3, <1>4, Sent
  <2>2. Accounted /\ dels' = Unknown /\ pc' = "orphans"
    BY <1>0, <1>4, <2>1 DEF Good
  <2>3. \A f \in Files : (Late(f)' <=> Late(f)) /\ (Done(f)' <=> Done(f))
    BY DoneStill DEF Late
  <2>4. FilesRight'
    BY <2>2, <2>3, <1>0 DEF Accounted, FilesRight, Handled, Plan
  <2>5. FileRight'
    BY <2>2 DEF FileRight
  <2>6. UnseenEmpty'
    BY <2>2 DEF Accounted, UnseenEmpty, ObjectsIn
  <2>7. NoStrays'
    BY <2>2 DEF NoStrays, Unknown
  <2> QED
    BY <2>2, <2>4, <2>5, <2>6, <2>7, TrueStill DEF Accounted
<1> QED
  BY <1>1, <1>2, <1>3 DEF Inv, Good

\* The cursor is read: what comes after it is seen.
LEMMA GetLatestEventIdKeeps == ASSUME Inv, GetLatestEventId PROVE Inv'
<1> USE DEF GetLatestEventId, env, work
<1>0. Types /\ Plan /\ Good
  BY DEF Inv
<1>1. Types'
  BY <1>0 DEF Types, Pc
<1>2. Plan'
  BY <1>0 DEF Plan
<1>3. ASSUME clean', pc' # "down" PROVE Accounted'
  <2>1. Accounted /\ full
    BY <1>0, <1>3 DEF Good, Plan
  <2>2. \A f \in Files : Late(f) => Late(f)'
    BY <2>1 DEF Late
  <2>3. \A f \in Files : Done(f)' <=> Done(f)
    BY DoneStill
  <2>4. FilesRight'
    BY <2>1, <2>2, <2>3 DEF Accounted, FilesRight, Handled
  <2>5. FileRight' /\ UnseenEmpty'
    BY DEF FileRight, UnseenEmpty
  <2>6. NoStrays'
    BY <2>1 DEF Accounted, NoStrays, Swept
  <2> QED
    BY <2>1, <2>4, <2>5, <2>6, TrueStill DEF Accounted
<1> QED
  BY <1>1, <1>2, <1>3 DEF Inv, Good

-----------------------------------------------------------------------------
(* Steps that take up a file *)

\* The state is true of what it still describes, when the calendar keeps that.
LEMMA TrueStays ==
    ASSUME StateTrue,
           \A u \in DOMAIN db' : u \in DOMAIN db /\ db'[u] = db[u] /\ u \in DOMAIN cal' /\ cal'[u] = cal[u]
    PROVE  StateTrue'
<1> SUFFICES ASSUME NEW u \in DOMAIN db'
             PROVE  u \in DOMAIN cal' /\ \E o \in AllObjects : o.uid = u /\ o.hash = db'[u].hash /\ o.ical = cal'[u]
  BY DEF StateTrue
<1> QED
  BY DEF StateTrue

\* reconcile_file() begins: what the state lacks of the file is to be written, what the file lacks deleted.
LEMMA ReadFileBegins ==
    ASSUME Types, NEW f \in Files, ReadFile(f), db' = db, files' = files
    PROVE  /\ puts' \in Seq(AllObjects) /\ \A o \in ToSet(puts') : o.uid.file = f
           /\ \A u \in dels' : Ours(u) /\ u.file = f
           /\ Underway(f)'
<1>1. /\ puts' = Passing(ObjectsIn(f), NeedsUpdate)
      /\ dels' = EntriesForFile(f) \ {o.uid : o \in ToSet(ObjectsIn(f))}
  BY DEF ReadFile
<1>2. /\ ObjectsIn(f) \in Seq(AllObjects)
      /\ \A o \in ToSet(ObjectsIn(f)) : o.uid.file = f
  BY InFiles
<1>3. puts' \in Seq(AllObjects) /\ ToSet(puts') = {o \in ToSet(ObjectsIn(f)) : NeedsUpdate(o)}
  BY <1>1, <1>2, Updates
<1>4. \A u \in EntriesForFile(f) : Ours(u) /\ u.file = f
  BY DEF Types, EntriesForFile
<1>5. /\ ObjectsIn(f)' = ObjectsIn(f) /\ Uids(f)' = Uids(f) /\ EntriesForFile(f)' = EntriesForFile(f)
      /\ \A u : Recorded(f, u)' <=> Recorded(f, u)
  BY DoneStill
<1>6. dels' = EntriesForFile(f) \ Uids(f)
  BY <1>1 DEF Uids
<1>7. ASSUME NEW u \in Uids(f) PROVE Recorded(f, u) \/ \E o \in ToSet(puts') : o.uid = u
  <2>1. PICK o \in ToSet(ObjectsIn(f)) : o.uid = u
    BY DEF Uids
  <2>2. CASE NeedsUpdate(o)
    BY <2>1, <2>2, <1>3
  <2>3. CASE ~NeedsUpdate(o)
    BY <2>1, <2>3 DEF NeedsUpdate, Recorded
  <2> QED
    BY <2>2, <2>3
<1>8. ToSet(puts)' = ToSet(puts')
  BY DEF ToSet
<1>9. Underway(f)'
  <2>1. ToSet(puts)' \subseteq ToSet(ObjectsIn(f))'
    BY <1>3, <1>5, <1>8
  <2>2. EntriesForFile(f)' \subseteq Uids(f)' \cup dels' /\ dels' \cap Uids(f)' = {}
    BY <1>5, <1>6
  <2>3. \A u \in Uids(f)' : Recorded(f, u)' \/ \E o \in ToSet(puts)' : o.uid = u
    BY <1>5, <1>7, <1>8
  <2> QED
    BY <2>1, <2>2, <2>3 DEF Underway
<1> QED
  BY <1>2, <1>3, <1>4, <1>6, <1>9

\* A file's entries leave the state.
LEMMA RemoveFileBegins ==
    ASSUME Types, NEW f \in Files, RemoveFile(f)
    PROVE  /\ \A u \in dels' : Ours(u) /\ u.file = f
           /\ dels' \cap DOMAIN db' = {}
           /\ DOMAIN db' \cup dels' = DOMAIN db
           /\ \A u : u.file # f => (u \in DOMAIN db' <=> u \in DOMAIN db)
           /\ \A u \in DOMAIN db' : u.file # f /\ db'[u] = db[u]
           /\ EntriesForFile(f)' = {}
<1>1. /\ dels' = EntriesForFile(f)
      /\ db' = Restrict(db, DOMAIN db \ EntriesForFile(f))
  BY DEF RemoveFile, DeleteFileEntries
<1>2. EntriesForFile(f) = {u \in DOMAIN db : u.file = f}
  BY EntriesByUid
<1>3. DOMAIN db' = DOMAIN db \ EntriesForFile(f) /\ \A u \in DOMAIN db' : db'[u] = db[u]
  BY <1>1 DEF Restrict
<1>4. \A u \in DOMAIN db : Ours(u) /\ db[u].file = u.file
  BY DEF Types
<1> QED
  BY <1>1, <1>2, <1>3, <1>4 DEF EntriesForFile

\* Start lists the files that have something to export, and trusts a state that is true.
LEMMA StartKeeps == ASSUME Inv, Start PROVE Inv'
<1>0. Types /\ Plan /\ Good
  BY DEF Inv
<1>4. PICK unreadable \in SUBSET {f \in Files : files[f] # Absent} :
          /\ Cardinality(unreadable) <= left.fault
          /\ left' = [left EXCEPT !.fault = @ - Cardinality(unreadable)]
          /\ clean' = (StateTrue /\ unreadable = {})
          /\ queue' = {f \in Files \ unreadable : ObjectsIn(f) # <<>>}
  BY DEF Start
<1>5. /\ seen' = queue' /\ pc' = "files" /\ full' = TRUE /\ failed' = FALSE
      /\ UNCHANGED <<files, events, unsaid, cal, db, file, puts, dels, cursor>> /\ pc = "down"
  BY DEF Start, env, work
<1>1. Types'
  <2>1. left' \in [edit : 0 .. MaxEdits, fault : 0 .. MaxFaults, crash : 0 .. MaxCrashes]
    <3>1. Cardinality(unreadable) \in Nat
      <4>1. IsFiniteSet(unreadable)
        BY FilesAssumption, FS_Subset
      <4> QED
        BY <4>1, FS_CardinalityType
    <3>2. left \in [edit : 0 .. MaxEdits, fault : 0 .. MaxFaults, crash : 0 .. MaxCrashes]
      BY <1>0 DEF Types
    <3>3. left.fault \in 0 .. MaxFaults
      BY <3>2
    <3>4. left.fault - Cardinality(unreadable) \in 0 .. MaxFaults
      BY <3>1, <3>3, <1>4, BoundAssumption
    <3> QED
      BY <3>2, <3>4, <1>4
  <2>2. clean' \in BOOLEAN
    BY <1>4
  <2>3. queue' \subseteq Files
    BY <1>4
  <2> QED
    BY <2>1, <2>2, <2>3, <1>0, <1>5 DEF Types, Pc
<1>2. Plan'
  BY <1>0, <1>5 DEF Plan
<1>3. ASSUME clean', pc' # "down" PROVE Accounted'
  <2>1. StateTrue /\ unreadable = {}
    BY <1>3, <1>4
  <2>2. FilesRight' /\ FileRight'
    BY <1>5 DEF FilesRight, Handled, FileRight
  <2>3. UnseenEmpty'
    BY <2>1, <1>4, <1>5 DEF UnseenEmpty, ObjectsIn
  <2>4. NoStrays'
    BY <1>5 DEF NoStrays, Swept
  <2> QED
    BY <2>1, <2>2, <2>3, <2>4, <1>5, TrueStill DEF Accounted
<1> QED
  BY <1>1, <1>2, <1>3 DEF Inv, Good

\* The next file of the pass is read, or is gone by now.
LEMMA NextFileKeeps == ASSUME Inv, NextFile PROVE Inv'
<1>0. Types /\ Plan /\ Good
  BY DEF Inv
<1>4. PICK f \in queue :
          /\ queue' = queue \ {f}
          /\ IF files[f] = Absent
             THEN failed' = TRUE /\ clean' = FALSE /\ UNCHANGED <<pc, work>>
             ELSE ReadFile(f) /\ UNCHANGED <<failed, clean>>
  BY DEF NextFile
<1>5. pc = "files" /\ UNCHANGED <<files, events, unsaid, cal, db, seen, full, cursor, left>>
  BY DEF NextFile, env
<1>6. CASE files[f] = Absent
  <2>1. failed' = TRUE /\ clean' = FALSE /\ UNCHANGED <<pc, file, puts, dels>>
    BY <1>4, <1>6 DEF work
  <2>2. Types'
    BY <2>1, <1>0, <1>4, <1>5 DEF Types
  <2>3. Plan'
    BY <2>1, <1>0, <1>4, <1>5 DEF Plan
  <2> QED
    BY <2>1, <2>2, <2>3 DEF Inv, Good
<1>7. CASE files[f] # Absent
  <2>0. f \in Files
    BY <1>0 DEF Types
  <2>1. ReadFile(f) /\ UNCHANGED <<failed, clean>> /\ file' = f /\ pc' = "reconcile"
    BY <1>4, <1>7 DEF ReadFile
  <2>2. /\ puts' \in Seq(AllObjects) /\ \A o \in ToSet(puts') : o.uid.file = f
        /\ \A u \in dels' : Ours(u) /\ u.file = f
        /\ Underway(f)'
    BY <2>0, <2>1, <1>0, <1>5, ReadFileBegins
  <2>3. Types'
    BY <2>0, <2>1, <2>2, <1>0, <1>4, <1>5 DEF Types, Pc
  <2>4. Plan'
    BY <2>1, <2>2, <1>0, <1>4, <1>5 DEF Plan
  <2>5. ASSUME clean', pc' # "down" PROVE Accounted'
    <3>1. Accounted /\ full
      BY <2>1, <2>5, <1>0, <1>5 DEF Good, Plan
    <3>2. \A g \in Files : (Late(g)' <=> Late(g)) /\ (Done(g)' <=> Done(g))
      BY <1>5, DoneStill DEF Late
    <3>3. FilesRight'
      BY <3>1, <3>2, <2>1, <1>4, <1>5 DEF Accounted, FilesRight, Handled
    <3>4. FileRight'
      BY <2>1, <2>2 DEF FileRight
    <3>5. UnseenEmpty'
      BY <3>1, <1>5 DEF Accounted, UnseenEmpty, ObjectsIn
    <3>6. NoStrays'
      BY <3>1, <2>1, <1>5 DEF NoStrays, Swept
    <3> QED
      BY <3>1, <3>3, <3>4, <3>5, <3>6, <1>5, TrueStill DEF Accounted
  <2> QED
    BY <2>3, <2>4, <2>5 DEF Inv, Good
<1> QED
  BY <1>6, <1>7

\* A file the state knows and the pass did not see: it is empty or an event about it is to come.
LEMMA NextStaleKeeps == ASSUME Inv, NextStale PROVE Inv'
<1>0. Types /\ Plan /\ Good
  BY DEF Inv
<1>4. PICK f \in queue : RemoveFile(f) /\ queue' = queue \ {f}
  BY DEF NextStale
<1>5. pc = "stale" /\ UNCHANGED <<files, events, unsaid, cal, puts, seen, failed, full, cursor, clean, left>>
  BY DEF NextStale, env
<1>6. f \in Files /\ file' = f /\ pc' = "remove" /\ full /\ f \notin seen /\ puts = <<>> /\ dels = {}
  BY <1>0, <1>4, <1>5 DEF Types, Plan, RemoveFile
<1>7. /\ \A u \in dels' : Ours(u) /\ u.file = f
      /\ dels' \cap DOMAIN db' = {}
      /\ DOMAIN db' \cup dels' = DOMAIN db
      /\ \A u : u.file # f => (u \in DOMAIN db' <=> u \in DOMAIN db)
      /\ \A u \in DOMAIN db' : u.file # f /\ db'[u] = db[u]
      /\ EntriesForFile(f)' = {}
  BY <1>0, <1>4, <1>6, RemoveFileBegins
<1>1. Types'
  <2>1. \A u \in DOMAIN db' : Ours(u) /\ u.file \in Files /\ db'[u].file = u.file
    BY <1>7, <1>0 DEF Types
  <2>2. ToSet(puts') = {}
    BY <1>5, <1>6, Singletons
  <2> QED
    BY <2>1, <2>2, <1>0, <1>4, <1>5, <1>6, <1>7 DEF Types, Pc
<1>2. Plan'
  BY <1>0, <1>4, <1>5, <1>6, <1>7 DEF Plan
<1>3. ASSUME clean', pc' # "down" PROVE Accounted'
  <2>1. Accounted
    BY <1>3, <1>0, <1>5 DEF Good
  <2>2. \A g \in Files : Late(g)' <=> Late(g)
    BY <1>5 DEF Late
  <2>3. Done(f)' \/ Late(f)
    <3>1. ObjectsIn(f) = <<>> \/ Late(f)
      BY <2>1, <1>6 DEF Accounted, UnseenEmpty, Late
    <3>2. ObjectsIn(f)' = ObjectsIn(f)
      BY <1>5 DEF ObjectsIn
    <3>3. ObjectsIn(f) = <<>> => Uids(f)' = {}
      BY <3>2, Singletons DEF Uids
    <3> QED
      BY <3>1, <3>3, <1>7 DEF Done
  <2>4. ASSUME NEW g \in Files, g # f, Done(g) PROVE Done(g)'
    BY <2>4, <1>0, <1>1, <1>5, <1>7, DoneStays
  <2>5. FilesRight'
    BY <2>1, <2>2, <2>3, <2>4, <1>4, <1>5, <1>6 DEF Accounted, FilesRight, Handled
  <2>6. FileRight'
    BY <1>6 DEF FileRight
  <2>7. UnseenEmpty'
    BY <2>1, <1>5 DEF Accounted, UnseenEmpty, ObjectsIn
  <2>8. NoStrays'
    BY <1>5, <1>6 DEF NoStrays, Swept
  <2>9. StateTrue'
    <3>1. \A u \in DOMAIN db : u \in DOMAIN cal
      BY <2>1 DEF Accounted, StateTrue
    <3> QED
      BY <3>1, <2>1, <1>5, <1>7, TrueStays DEF Accounted
  <2> QED
    BY <2>5, <2>6, <2>7, <2>8, <2>9 DEF Accounted
<1> QED
  BY <1>1, <1>2, <1>3 DEF Inv, Good

\* An event: the file is removed or read again; what later events are about stays late.
LEMMA HandleEventKeeps == ASSUME Inv, HandleEvent PROVE Inv'
<1>0. Types /\ Plan /\ Good
  BY DEF Inv
<1>4. /\ pc = "loop" /\ cursor < Len(events) /\ cursor' = cursor + 1
      /\ UNCHANGED <<files, events, unsaid, cal, queue, seen, failed, full, clean, left>>
  BY DEF HandleEvent, env, sweep
<1>10. cursor + 1 \in 1 .. Len(events) /\ events \in Seq(Files) /\ cursor' \in 0 .. Len(events)
  BY <1>0, <1>4 DEF Types
<1>11. PICK f \in Files : f = events[cursor + 1]
  BY <1>10
<1>5. f \in Files /\ ~full /\ queue = {} /\ puts = <<>> /\ dels = {} /\ cursor' \in 0 .. Len(events)
  BY <1>10, <1>0, <1>4 DEF Plan
<1>6. IF files[f] = Absent THEN RemoveFile(f) /\ UNCHANGED puts ELSE ReadFile(f) /\ UNCHANGED db
  BY <1>11 DEF HandleEvent
<1>7. \A g \in Files : g # f /\ Late(g) => Late(g)'
  <2> SUFFICES ASSUME NEW g \in Files, g # f, NEW i \in cursor + 1 .. Len(events), events[i] = g
               PROVE  i \in cursor' + 1 .. Len(events')
    BY <1>4 DEF Late
  <2>1. i # cursor + 1
    BY <1>11
  <2> QED
    BY <2>1, <1>0, <1>4 DEF Types
<1>8. CASE files[f] = Absent
  <2>1. RemoveFile(f) /\ UNCHANGED puts /\ file' = f /\ pc' = "remove"
    BY <1>6, <1>8 DEF RemoveFile
  <2>2. /\ \A u \in dels' : Ours(u) /\ u.file = f
        /\ dels' \cap DOMAIN db' = {}
        /\ DOMAIN db' \cup dels' = DOMAIN db
        /\ \A u : u.file # f => (u \in DOMAIN db' <=> u \in DOMAIN db)
        /\ \A u \in DOMAIN db' : u.file # f /\ db'[u] = db[u]
        /\ EntriesForFile(f)' = {}
    BY <2>1, <1>0, <1>5, RemoveFileBegins
  <2>3. Types'
    <3>1. \A u \in DOMAIN db' : Ours(u) /\ u.file \in Files /\ db'[u].file = u.file
      BY <2>2, <1>0 DEF Types
    <3>2. ToSet(puts') = {}
      BY <2>1, <1>5, Singletons
    <3> QED
      BY <3>1, <3>2, <2>1, <2>2, <1>0, <1>4, <1>5 DEF Types, Pc
  <2>4. Plan'
    BY <2>1, <2>2, <1>0, <1>4, <1>5 DEF Plan
  <2>5. ASSUME clean', pc' # "down" PROVE Accounted'
    <3>1. Accounted
      BY <2>5, <1>0, <1>4 DEF Good
    <3>2. Done(f)'
      <4>1. ObjectsIn(f) = <<>> /\ ObjectsIn(f)' = ObjectsIn(f)
        BY <1>0, <1>4, <1>5, <1>8, InFiles DEF ObjectsIn
      <4>2. Uids(f)' = {}
        BY <4>1, Singletons DEF Uids
      <4> QED
        BY <4>2, <2>2 DEF Done
    <3>3. ASSUME NEW g \in Files, g # f, Done(g) PROVE Done(g)'
      BY <3>3, <2>2, <2>3, <1>0, <1>4, DoneStays
    <3>4. FilesRight'
      BY <3>1, <3>2, <3>3, <1>4, <1>5, <1>7 DEF Accounted, FilesRight, Handled
    <3>5. FileRight' /\ UnseenEmpty'
      BY <2>1, <1>4, <1>5 DEF FileRight, UnseenEmpty
    <3>6. NoStrays'
      BY <3>1, <2>1, <2>2, <1>4, <1>5 DEF Accounted, NoStrays, Swept
    <3>7. StateTrue'
      <4>1. \A u \in DOMAIN db : u \in DOMAIN cal
        BY <3>1 DEF Accounted, StateTrue
      <4> QED
        BY <4>1, <3>1, <2>2, <1>4, TrueStays DEF Accounted
    <3> QED
      BY <3>4, <3>5, <3>6, <3>7 DEF Accounted
  <2> QED
    BY <2>3, <2>4, <2>5 DEF Inv, Good
<1>9. CASE files[f] # Absent
  <2>1. ReadFile(f) /\ db' = db /\ file' = f /\ pc' = "reconcile"
    BY <1>6, <1>9 DEF ReadFile
  <2>2. /\ puts' \in Seq(AllObjects) /\ \A o \in ToSet(puts') : o.uid.file = f
        /\ \A u \in dels' : Ours(u) /\ u.file = f
        /\ Underway(f)'
    BY <2>1, <1>0, <1>4, <1>5, ReadFileBegins
  <2>3. Types'
    BY <2>1, <2>2, <1>0, <1>4, <1>5 DEF Types, Pc
  <2>4. Plan'
    BY <2>1, <2>2, <1>0, <1>4, <1>5 DEF Plan
  <2>5. ASSUME clean', pc' # "down" PROVE Accounted'
    <3>1. Accounted
      BY <2>5, <1>0, <1>4 DEF Good
    <3>2. \A g \in Files : Done(g)' <=> Done(g)
      BY <2>1, <1>4, DoneStill
    <3>3. FilesRight'
      BY <3>1, <3>2, <2>1, <1>4, <1>5, <1>7 DEF Accounted, FilesRight, Handled
    <3>4. FileRight' /\ UnseenEmpty'
      BY <2>1, <2>2, <1>4, <1>5 DEF FileRight, UnseenEmpty
    <3>5. NoStrays'
      BY <3>1, <2>1, <1>4, <1>5 DEF Accounted, NoStrays, Swept
    <3> QED
      BY <3>1, <3>3, <3>4, <3>5, <2>1, <1>4, TrueStill DEF Accounted
  <2> QED
    BY <2>3, <2>4, <2>5 DEF Inv, Good
<1> QED
  BY <1>8, <1>9

-----------------------------------------------------------------------------
(* Requests *)

\* reconcile_file() gives up: the history says so.
LEMMA AbandonKeeps ==
    ASSUME Inv, pc = "reconcile", Abandon, SendAs(FALSE),
           UNCHANGED <<files, events, unsaid, db, file, queue, seen, full, cursor>>
    PROVE  Inv'
<1>0. Types /\ Plan
  BY DEF Inv
<1>1. puts' = <<>> /\ dels' = {} /\ pc' = (IF full THEN "files" ELSE "loop") /\ failed' = (failed \/ full)
  BY DEF Abandon, Return
<1>2. /\ clean' = FALSE
      /\ left' \in [edit : 0 .. MaxEdits, fault : 0 .. MaxFaults, crash : 0 .. MaxCrashes]
  BY <1>0, Sent DEF SendAs
<1>3. Types'
  <2>1. puts' \in Seq(AllObjects)
    BY <1>1
  <2>2. ToSet(puts') = {}
    BY <1>1, Singletons
  <2>3. failed' \in BOOLEAN
    BY <1>1
  <2> QED
    BY <2>1, <2>2, <2>3, <1>0, <1>1, <1>2 DEF Types, Pc
<1>4. Plan'
  BY <1>0, <1>1, <1>2 DEF Plan, Types
<1> QED
  BY <1>2, <1>3, <1>4 DEF Inv, Good

\* An object is written and the state told, or the file is given up.
LEMMA PutKeeps == ASSUME Inv, Put PROVE Inv'
<1>0. Types /\ Plan /\ Good
  BY DEF Inv
<1>4. PICK ok \in BOOLEAN :
          /\ PutEvent(Head(puts), ok)
          /\ IF ok THEN Upsert(Head(puts)) /\ puts' = Tail(puts) /\ UNCHANGED <<pc, dels, failed>>
             ELSE Abandon /\ UNCHANGED db
  BY DEF Put
<1>5. pc = "reconcile" /\ puts # <<>> /\ UNCHANGED <<files, events, unsaid, file, queue, seen, full, cursor>>
  BY DEF Put, env
<1>6. CASE ~ok
  <2>1. SendAs(FALSE) /\ Abandon /\ db' = db
    BY <1>4, <1>6 DEF PutEvent
  <2> QED
    BY <2>1, <1>5, AbandonKeeps
<1>7. CASE ok
  <2>1. /\ Head(puts) \in AllObjects /\ Tail(puts) \in Seq(AllObjects)
        /\ ToSet(puts) = {Head(puts)} \cup ToSet(Tail(puts))
    BY <1>0, <1>5, HeadAndTail DEF Types
  <2>2. PICK o \in AllObjects : o = Head(puts)
    BY <2>1
  <2>3. /\ cal' = With(cal, o.uid, o.ical) /\ db' = With(db, o.uid, [hash |-> o.hash, file |-> o.uid.file])
        /\ puts' = Tail(puts) /\ UNCHANGED <<pc, dels, failed, clean, left>>
    BY <2>2, <1>4, <1>7 DEF PutEvent, SendAs, Upsert
  <2>4. /\ DOMAIN db' = DOMAIN db \cup {o.uid} /\ \A u \in DOMAIN db : u # o.uid => db'[u] = db[u]
        /\ db'[o.uid].hash = o.hash /\ db'[o.uid].file = o.uid.file
    BY <2>3 DEF With
  <2>5. /\ DOMAIN cal' = DOMAIN cal \cup {o.uid} /\ \A u \in DOMAIN cal : u # o.uid => cal'[u] = cal[u]
        /\ cal'[o.uid] = o.ical
    BY <2>3 DEF With
  <2>6. /\ puts' \in Seq(AllObjects) /\ ToSet(puts) = {o} \cup ToSet(puts')
        /\ Ours(o.uid) /\ o.uid.file = file /\ file \in Files
    BY <2>1, <2>2, <2>3, <1>0, AllOurs DEF Types
  <2>7. Types'
    <3>1. \A u \in DOMAIN db' : Ours(u) /\ u.file \in Files /\ db'[u].file = u.file
      BY <2>4, <2>6, <1>0 DEF Types
    <3>2. \A p \in ToSet(puts') : p.uid.file = file
      BY <2>6, <1>0 DEF Types
    <3> QED
      BY <3>1, <3>2, <2>3, <2>6, <1>0, <1>5 DEF Types
  <2>8. Plan'
    BY <2>3, <1>0, <1>5 DEF Plan
  <2>9. ASSUME clean', pc' # "down" PROVE Accounted'
    <3>1. Accounted
      BY <2>3, <2>9, <1>0 DEF Good
    <3>2. \A g \in Files : Late(g)' <=> Late(g)
      BY <1>5 DEF Late
    <3>3. ASSUME NEW g \in Files, g # file, Done(g) PROVE Done(g)'
      BY <3>3, <2>4, <2>6, <2>7, <1>0, <1>5, DoneStays
    <3>4. FilesRight'
      BY <3>1, <3>2, <3>3, <2>3, <1>5 DEF Accounted, FilesRight, Handled
    <3>5. FileRight'
      <4>1. PICK f \in Files : f = file
        BY <2>6
      <4>2. ASSUME Underway(f) PROVE Underway(f)'
        <5>1. ObjectsIn(f)' = ObjectsIn(f)
          BY <1>5 DEF ObjectsIn
        <5>2. Uids(f)' = Uids(f)
          BY <5>1 DEF Uids
        <5>3. o \in ToSet(ObjectsIn(f)) /\ ToSet(puts') \subseteq ToSet(ObjectsIn(f)) /\ o.uid \in Uids(f)
          BY <4>2, <2>6 DEF Underway, Uids
        <5>4. EntriesForFile(f)' \subseteq EntriesForFile(f) \cup {o.uid}
          BY <2>4 DEF EntriesForFile
        <5>5. EntriesForFile(f)' \subseteq Uids(f)' \cup dels' /\ dels' \cap Uids(f)' = {}
          BY <5>2, <5>3, <5>4, <4>2, <2>3 DEF Underway
        <5>6. ToSet(puts)' = ToSet(puts')
          BY DEF ToSet
        <5>7. ASSUME NEW u \in Uids(f) PROVE Recorded(f, u)' \/ \E p \in ToSet(puts') : p.uid = u
          <6>1. CASE u = o.uid
            BY <6>1, <5>1, <5>3, <2>4 DEF Recorded
          <6>2. CASE u # o.uid
            <7>1. Recorded(f, u) \/ \E p \in ToSet(puts) : p.uid = u
              BY <4>2 DEF Underway
            <7>2. Recorded(f, u) => Recorded(f, u)'
              BY <6>2, <5>1, <2>4 DEF Recorded
            <7> QED
              BY <7>1, <7>2, <6>2, <2>6
          <6> QED
            BY <6>1, <6>2
        <5> QED
          BY <5>1, <5>2, <5>3, <5>5, <5>6, <5>7 DEF Underway
      <4> QED
        BY <4>1, <4>2, <3>1, <3>2, <1>5 DEF Accounted, FileRight
    <3>6. UnseenEmpty'
      BY <3>1, <1>5 DEF Accounted, UnseenEmpty, ObjectsIn
    <3>7. NoStrays'
      BY <3>1, <2>3, <2>4, <2>5, <1>5 DEF Accounted, NoStrays, Swept
    <3>8. StateTrue'
      <4> SUFFICES ASSUME NEW u \in DOMAIN db'
                   PROVE  u \in DOMAIN cal' /\ \E p \in AllObjects : p.uid = u /\ p.hash = db'[u].hash /\ p.ical = cal'[u]
        BY DEF StateTrue
      <4>1. CASE u = o.uid
        BY <4>1, <2>2, <2>4, <2>5
      <4>2. CASE u # o.uid
        <5>1. u \in DOMAIN db /\ db'[u] = db[u]
          BY <4>2, <2>4
        <5>2. u \in DOMAIN cal /\ \E p \in AllObjects : p.uid = u /\ p.hash = db[u].hash /\ p.ical = cal[u]
          BY <5>1, <3>1 DEF Accounted, StateTrue
        <5> QED
          BY <5>1, <5>2, <4>2, <2>5
      <4> QED
        BY <4>1, <4>2
    <3> QED
      BY <3>4, <3>5, <3>6, <3>7, <3>8 DEF Accounted
  <2> QED
    BY <2>7, <2>8, <2>9 DEF Inv, Good
<1> QED
  BY <1>6, <1>7

\* An entry the file no longer has is deleted and forgotten, or the file is given up.
LEMMA DeleteOrphanKeeps == ASSUME Inv, DeleteOrphan PROVE Inv'
<1>0. Types /\ Plan /\ Good
  BY DEF Inv
<1>4. PICK uid \in dels, ok \in BOOLEAN :
          /\ DeleteEvent(uid, ok)
          /\ IF ok THEN db' = Without(db, uid) /\ dels' = dels \ {uid} /\ UNCHANGED <<pc, puts, failed>>
             ELSE Abandon /\ UNCHANGED db
  BY DEF DeleteOrphan
<1>5. pc = "reconcile" /\ puts = <<>> /\ UNCHANGED <<files, events, unsaid, file, queue, seen, full, cursor>>
  BY DEF DeleteOrphan, env
<1>6. CASE ~ok
  <2>1. SendAs(FALSE) /\ Abandon /\ db' = db
    BY <1>4, <1>6 DEF DeleteEvent
  <2> QED
    BY <2>1, <1>5, AbandonKeeps
<1>7. CASE ok
  <2>1. /\ cal' = Without(cal, uid) /\ db' = Without(db, uid)
        /\ dels' = dels \ {uid} /\ UNCHANGED <<pc, puts, failed, clean, left>>
    BY <1>4, <1>7 DEF DeleteEvent, SendAs
  <2>2. /\ DOMAIN db' = DOMAIN db \ {uid} /\ \A u \in DOMAIN db' : db'[u] = db[u]
        /\ DOMAIN cal' = DOMAIN cal \ {uid} /\ \A u \in DOMAIN cal' : cal'[u] = cal[u]
    BY <2>1 DEF Without, Restrict
  <2>3. uid.file = file /\ Ours(uid)
    BY <1>0, <1>5 DEF Plan, Types
  <2>4. Types'
    <3>1. \A u \in DOMAIN db' : Ours(u) /\ u.file \in Files /\ db'[u].file = u.file
      BY <2>2, <1>0 DEF Types
    <3> QED
      BY <3>1, <2>1, <1>0, <1>5 DEF Types
  <2>5. Plan'
    BY <2>1, <1>0, <1>5 DEF Plan
  <2>6. ASSUME clean', pc' # "down" PROVE Accounted'
    <3>1. Accounted
      BY <2>1, <2>6, <1>0 DEF Good
    <3>2. \A g \in Files : Late(g)' <=> Late(g)
      BY <1>5 DEF Late
    <3>3. ASSUME NEW g \in Files, g # file, Done(g) PROVE Done(g)'
      BY <3>3, <2>2, <2>3, <2>4, <1>0, <1>5, DoneStays
    <3>4. FilesRight'
      BY <3>1, <3>2, <3>3, <2>1, <1>5 DEF Accounted, FilesRight, Handled
    <3>5. FileRight'
      <4>1. PICK f \in Files : f = file
        BY <1>0 DEF Types
      <4>2. ASSUME Underway(f) PROVE Underway(f)'
        <5>1. ObjectsIn(f)' = ObjectsIn(f)
          BY <1>5 DEF ObjectsIn
        <5>2. Uids(f)' = Uids(f) /\ uid \notin Uids(f)
          BY <5>1, <4>2 DEF Uids, Underway
        <5>3. EntriesForFile(f)' \subseteq EntriesForFile(f) \ {uid}
          BY <2>2 DEF EntriesForFile
        <5>4. EntriesForFile(f)' \subseteq Uids(f)' \cup dels' /\ dels' \cap Uids(f)' = {}
          BY <5>2, <5>3, <4>2, <2>1 DEF Underway
        <5>5. ToSet(puts)' = ToSet(puts)
          BY <2>1 DEF ToSet
        <5>6. \A u \in Uids(f) : Recorded(f, u) => Recorded(f, u)'
          BY <5>1, <5>2, <2>2 DEF Recorded
        <5> QED
          BY <5>1, <5>2, <5>4, <5>5, <5>6, <4>2 DEF Underway
      <4> QED
        BY <4>1, <4>2, <3>1, <3>2, <1>5 DEF Accounted, FileRight
    <3>6. UnseenEmpty'
      BY <3>1, <1>5 DEF Accounted, UnseenEmpty, ObjectsIn
    <3>7. NoStrays'
      BY <3>1, <2>1, <2>2, <1>5 DEF Accounted, NoStrays, Swept
    <3>8. StateTrue'
      <4>1. \A u \in DOMAIN db : u \in DOMAIN cal
        BY <3>1 DEF Accounted, StateTrue
      <4> QED
        BY <4>1, <3>1, <2>2, TrueStays DEF Accounted
    <3> QED
      BY <3>4, <3>5, <3>6, <3>7, <3>8 DEF Accounted
  <2> QED
    BY <2>4, <2>5, <2>6 DEF Inv, Good
<1> QED
  BY <1>6, <1>7

\* Deleting what the state has forgotten: nothing the state describes goes.
LEMMA ForgottenGone ==
    ASSUME Accounted, NEW uid \in dels, dels \cap DOMAIN db = {}, cal' = Without(cal, uid), dels' = dels \ {uid},
           UNCHANGED <<files, db, events, unsaid, full, cursor, seen, queue, pc, file>>, pc # "reconcile"
    PROVE  Accounted'
<1>1. DOMAIN cal' = DOMAIN cal \ {uid} /\ \A u \in DOMAIN cal' : cal'[u] = cal[u]
  BY DEF Without, Restrict
<1>2. \A f \in Files : (Late(f)' <=> Late(f)) /\ (Done(f)' <=> Done(f))
  BY DoneStill DEF Late
<1>3. FilesRight'
  BY <1>2 DEF Accounted, FilesRight, Handled
<1>4. FileRight' /\ UnseenEmpty'
  BY DEF Accounted, FileRight, UnseenEmpty, ObjectsIn
<1>5. NoStrays'
  BY <1>1 DEF Accounted, NoStrays, Swept
<1>6. StateTrue'
  <2>1. \A u \in DOMAIN db : u \in DOMAIN cal /\ u # uid
    BY DEF Accounted, StateTrue
  <2> QED
    BY <2>1, <1>1, TrueStays DEF Accounted
<1> QED
  BY <1>3, <1>4, <1>5, <1>6 DEF Accounted

\* An entry of a removed file is deleted; a failure ends a full reconciliation.
LEMMA RemoveEntryKeeps == ASSUME Inv, RemoveEntry PROVE Inv'
<1>0. Types /\ Plan /\ Good
  BY DEF Inv
<1>4. PICK uid \in dels, ok \in BOOLEAN :
          /\ DeleteEvent(uid, ok)
          /\ IF ok \/ ~full THEN dels' = dels \ {uid} /\ UNCHANGED <<pc, queue>>
             ELSE dels' = {} /\ pc' = "cursor" /\ queue' = {}
  BY DEF RemoveEntry
<1>5. pc = "remove" /\ UNCHANGED <<files, events, unsaid, db, file, puts, seen, failed, full, cursor>>
  BY DEF RemoveEntry, env
<1>6. /\ clean' \in BOOLEAN /\ (clean' => clean /\ ok)
      /\ left' \in [edit : 0 .. MaxEdits, fault : 0 .. MaxFaults, crash : 0 .. MaxCrashes]
  BY <1>0, <1>4, Sent DEF DeleteEvent
<1>1. Types'
  <2>1. dels' \subseteq dels /\ queue' \subseteq queue /\ pc' \in {pc, "cursor"}
    BY <1>4
  <2> QED
    BY <2>1, <1>0, <1>5, <1>6 DEF Types, Pc
<1>2. Plan'
  <2>1. \/ dels' = dels \ {uid} /\ UNCHANGED <<pc, queue>>
        \/ full /\ dels' = {} /\ pc' = "cursor" /\ queue' = {}
    BY <1>0, <1>4 DEF Types
  <2> QED
    BY <2>1, <1>0, <1>5, <1>6 DEF Plan, Types
<1>3. ASSUME clean', pc' # "down" PROVE Accounted'
  <2>1. cal' = Without(cal, uid) /\ dels' = dels \ {uid} /\ UNCHANGED <<pc, queue>>
    BY <1>3, <1>4, <1>6 DEF DeleteEvent
  <2>2. Accounted /\ dels \cap DOMAIN db = {}
    BY <1>0, <1>3, <1>5, <1>6 DEF Good, Plan
  <2> QED
    BY <2>1, <2>2, <1>5, ForgottenGone
<1> QED
  BY <1>1, <1>2, <1>3 DEF Inv, Good

\* An object the state does not know is deleted.
LEMMA OrphanKeeps == ASSUME Inv, Orphan PROVE Inv'
<1>0. Types /\ Plan /\ Good
  BY DEF Inv
<1>4. PICK uid \in dels, ok \in BOOLEAN : DeleteEvent(uid, ok) /\ dels' = dels \ {uid}
  BY DEF Orphan
<1>5. pc = "orphans" /\ UNCHANGED <<files, events, unsaid, db, pc, file, puts, queue, seen, failed, full, cursor>>
  BY DEF Orphan, env, sweep
<1>6. /\ clean' \in BOOLEAN /\ (clean' => clean /\ ok)
      /\ left' \in [edit : 0 .. MaxEdits, fault : 0 .. MaxFaults, crash : 0 .. MaxCrashes]
  BY <1>0, <1>4, Sent DEF DeleteEvent
<1>1. Types'
  BY <1>0, <1>4, <1>5, <1>6 DEF Types
<1>2. Plan'
  BY <1>0, <1>4, <1>5, <1>6 DEF Plan
<1>3. ASSUME clean', pc' # "down" PROVE Accounted'
  <2>1. cal' = Without(cal, uid)
    BY <1>3, <1>4, <1>6 DEF DeleteEvent
  <2>2. Accounted /\ dels \cap DOMAIN db = {}
    BY <1>0, <1>3, <1>5, <1>6 DEF Good, Plan
  <2> QED
    BY <2>1, <2>2, <1>4, <1>5, ForgottenGone
<1> QED
  BY <1>1, <1>2, <1>3 DEF Inv, Good

-----------------------------------------------------------------------------
(* The environment *)

\* A file changes: an event about it is to come.
LEMMA EditKeeps == ASSUME Inv, Edit PROVE Inv'
<1>0. Types /\ Plan /\ Good
  BY DEF Inv
<1>4. PICK f \in Files, d \in Docs \cup {Absent} :
          files' = [files EXCEPT ![f] = d] /\ unsaid' = unsaid \cup {f}
  BY DEF Edit
<1>5. /\ left.edit > 0 /\ left' = [left EXCEPT !.edit = @ - 1]
      /\ UNCHANGED <<cal, db, pc, file, puts, dels, queue, seen, failed, full, events, cursor, clean>>
  BY DEF Edit, work, sweep
<1>6. \A g \in Files \ {f} : files'[g] = files[g]
  BY <1>0, <1>4 DEF Types
<1>1. Types'
  <2>1. left' \in [edit : 0 .. MaxEdits, fault : 0 .. MaxFaults, crash : 0 .. MaxCrashes]
    <3>1. left \in [edit : 0 .. MaxEdits, fault : 0 .. MaxFaults, crash : 0 .. MaxCrashes]
      BY <1>0 DEF Types
    <3>2. left.edit \in 0 .. MaxEdits
      BY <3>1
    <3>3. left.edit - 1 \in 0 .. MaxEdits
      BY <3>2, <1>5, BoundAssumption
    <3> QED
      BY <3>1, <3>3, <1>5
  <2>2. files' \in [Files -> Docs \cup {Absent}] /\ unsaid' \subseteq Files
    BY <1>0, <1>4 DEF Types
  <2> QED
    BY <2>1, <2>2, <1>0, <1>5 DEF Types
<1>2. Plan'
  BY <1>0, <1>5 DEF Plan
<1>3. ASSUME clean', pc' # "down" PROVE Accounted'
  <2>1. Accounted
    BY <1>0, <1>3, <1>5 DEF Good
  <2>2. \A g \in Files : Late(g) => Late(g)'
    BY <1>4, <1>5 DEF Late
  <2>3. Late(f)'
    BY <1>4 DEF Late
  <2>4. \A g \in Files \ {f} : Done(g)' <=> Done(g)
    BY <1>5, <1>6, DoneStill
  <2>5. FilesRight'
    BY <2>1, <2>2, <2>3, <2>4, <1>5 DEF Accounted, FilesRight, Handled
  <2>6. FileRight'
    <3>1. PICK g \in Files : g = file
      BY <1>0 DEF Types
    <3>2. CASE g = f
      BY <3>1, <3>2, <2>3, <1>5 DEF FileRight
    <3>3. CASE g # f
      <4>1. /\ ObjectsIn(g)' = ObjectsIn(g) /\ Uids(g)' = Uids(g) /\ EntriesForFile(g)' = EntriesForFile(g)
            /\ \A u : Recorded(g, u)' <=> Recorded(g, u)
        BY <3>3, <1>5, <1>6, DoneStill
      <4>2. Underway(g) => Underway(g)'
        BY <4>1, <1>5 DEF Underway
      <4> QED
        BY <4>2, <3>1, <2>1, <2>2, <1>5 DEF Accounted, FileRight
    <3> QED
      BY <3>2, <3>3
  <2>7. UnseenEmpty'
    BY <2>1, <1>4, <1>5, <1>6 DEF Accounted, UnseenEmpty, ObjectsIn
  <2>8. NoStrays'
    BY <2>1, <1>5 DEF Accounted, NoStrays, Swept
  <2> QED
    BY <2>1, <2>5, <2>6, <2>7, <2>8, <1>5, TrueStill DEF Accounted
<1> QED
  BY <1>1, <1>2, <1>3 DEF Inv, Good

\* An event is announced: it comes after the cursor, or before the file is read, or it is missed.
LEMMA AnnounceKeeps == ASSUME Inv, Announce PROVE Inv'
<1>0. Types /\ Plan /\ Good
  BY DEF Inv
<1>4. PICK f \in unsaid :
          /\ events' = Append(events, f) /\ unsaid' = unsaid \ {f}
          /\ clean' = (clean /\ (full => YetToRead(f)))
  BY DEF Announce
<1>5. UNCHANGED <<files, cal, db, pc, file, puts, dels, queue, seen, failed, full, cursor, left>>
  BY DEF Announce, work, sweep
<1>6. /\ f \in Files /\ events \in Seq(Files) /\ Len(events) \in Nat /\ cursor \in 0 .. Len(events)
  BY <1>0 DEF Types
<1>7. /\ events' \in Seq(Files) /\ Len(events') = Len(events) + 1 /\ events'[Len(events) + 1] = f
      /\ \A i \in 1 .. Len(events) : events'[i] = events[i]
  BY <1>4, <1>6
<1>1. Types'
  <2>1. cursor' \in 0 .. Len(events') /\ clean' \in BOOLEAN /\ unsaid' \subseteq Files
    BY <1>0, <1>4, <1>5, <1>6, <1>7 DEF Types
  <2> QED
    BY <2>1, <1>0, <1>5, <1>7 DEF Types
<1>2. Plan'
  BY <1>0, <1>4, <1>5 DEF Plan
<1>3. ASSUME clean', pc' # "down" PROVE Accounted'
  <2>1. Accounted /\ (full => YetToRead(f))
    BY <1>0, <1>3, <1>4, <1>5 DEF Good
  <2>2. ASSUME NEW g \in Files, Late(g) PROVE Late(g)' \/ (g = f /\ full)
    <3>1. CASE full
      BY <3>1, <2>2, <1>4, <1>5 DEF Late
    <3>2. CASE ~full
      <4>1. \A i \in cursor + 1 .. Len(events) : i \in cursor' + 1 .. Len(events') /\ events'[i] = events[i]
        BY <1>5, <1>6, <1>7
      <4>2. Len(events) + 1 \in cursor' + 1 .. Len(events')
        BY <1>5, <1>6, <1>7
      <4> QED
        BY <4>1, <4>2, <3>2, <2>2, <1>4, <1>5, <1>7 DEF Late
    <3> QED
      BY <3>1, <3>2
  <2>3. \A g \in Files : Done(g)' <=> Done(g)
    BY <1>5, DoneStill
  <2>4. full => f \in queue /\ f \in seen /\ pc \in {"files", "reconcile"}
    BY <2>1, <1>0 DEF YetToRead, Plan
  <2>5. FilesRight'
    BY <2>1, <2>2, <2>3, <2>4, <1>5 DEF Accounted, FilesRight, Handled
  <2>6. FileRight'
    <3>1. PICK g \in Files : g = file
      BY <1>0 DEF Types
    <3>2. /\ ObjectsIn(g)' = ObjectsIn(g) /\ Uids(g)' = Uids(g) /\ EntriesForFile(g)' = EntriesForFile(g)
          /\ \A u : Recorded(g, u)' <=> Recorded(g, u)
      BY <1>5, DoneStill
    <3>3. Underway(g) => Underway(g)'
      BY <3>2, <1>5 DEF Underway
    <3>4. pc = "reconcile" /\ full => g # f
      BY <3>1, <2>4, <1>0 DEF Plan
    <3> QED
      BY <3>1, <3>3, <3>4, <2>1, <2>2, <1>5 DEF Accounted, FileRight
  <2>7. UnseenEmpty'
    BY <2>1, <2>4, <1>4, <1>5 DEF Accounted, UnseenEmpty, ObjectsIn
  <2>8. NoStrays'
    BY <2>1, <1>5 DEF Accounted, NoStrays, Swept
  <2> QED
    BY <2>1, <2>5, <2>6, <2>7, <2>8, <1>5, TrueStill DEF Accounted
<1> QED
  BY <1>1, <1>2, <1>3 DEF Inv, Good

\* A restart: the state survives or it does not.
LEMMA RestartKeeps == ASSUME Inv, Restart PROVE Inv'
<1>0. Types /\ Plan /\ Good
  BY DEF Inv
<1>4. /\ left.crash > 0 /\ left' = [left EXCEPT !.crash = @ - 1]
      /\ pc' = "down" /\ puts' = <<>> /\ dels' = {} /\ queue' = {} /\ seen' = {}
      /\ full' = FALSE /\ failed' = FALSE /\ cursor' = 0
      /\ UNCHANGED <<files, events, unsaid, cal, file, clean>>
  BY DEF Restart, env
<1>5. \A u \in DOMAIN db' : Ours(u) /\ u.file \in Files /\ db'[u].file = u.file
  <2>1. db' = db \/ db' = Empty
    BY DEF Restart
  <2> QED
    BY <2>1, <1>0 DEF Types, Empty
<1>1. Types'
  <2>1. left' \in [edit : 0 .. MaxEdits, fault : 0 .. MaxFaults, crash : 0 .. MaxCrashes]
    <3>1. left \in [edit : 0 .. MaxEdits, fault : 0 .. MaxFaults, crash : 0 .. MaxCrashes]
      BY <1>0 DEF Types
    <3>2. left.crash \in 0 .. MaxCrashes
      BY <3>1
    <3>3. left.crash - 1 \in 0 .. MaxCrashes
      BY <3>2, <1>4, BoundAssumption
    <3> QED
      BY <3>1, <3>3, <1>4
  <2>2. puts' \in Seq(AllObjects)
    BY <1>4
  <2>3. ToSet(puts') = {}
    BY <1>4, Singletons
  <2>4. events' \in Seq(Files) /\ cursor' \in 0 .. Len(events')
    BY <1>0, <1>4 DEF Types
  <2> QED
    BY <2>1, <2>2, <2>3, <2>4, <1>0, <1>4, <1>5 DEF Types, Pc
<1>2. Plan'
  BY <1>4 DEF Plan
<1> QED
  BY <1>1, <1>2, <1>4 DEF Inv, Good

\* A step that changes nothing.
LEMMA StutterKeeps == ASSUME Inv, UNCHANGED vars PROVE Inv'
<1> USE DEF vars
<1>1. Types'
  BY DEF Inv, Types
<1>2. Plan'
  BY DEF Inv, Plan
<1>3. ASSUME clean', pc' # "down" PROVE Accounted'
  <2>1. Accounted
    BY <1>3 DEF Inv, Good
  <2>2. FilesRight' /\ FileRight'
    BY <2>1 DEF Accounted, FilesRight, FileRight, Handled, Done, Underway, Recorded, Late, Uids, ObjectsIn, EntriesForFile
  <2>3. UnseenEmpty' /\ NoStrays'
    BY <2>1 DEF Accounted, UnseenEmpty, NoStrays, Swept, ObjectsIn
  <2> QED
    BY <2>1, <2>2, <2>3, TrueStill DEF Accounted
<1> QED
  BY <1>1, <1>2, <1>3 DEF Inv, Good

\* The invariant is inductive.
LEMMA InvNext == Inv /\ [Next]_vars => Inv'
BY StartKeeps, NextFileKeeps, FilesDoneKeeps, NextStaleKeeps, StaleDoneKeeps, ListKeeps, OrphanKeeps,
   OrphansDoneKeeps, PutKeeps, DeleteOrphanKeeps, ReconciledKeeps, RemoveEntryKeeps, RemovedKeeps,
   GetLatestEventIdKeeps, HandleEventKeeps, EditKeeps, AnnounceKeeps, RestartKeeps, StutterKeeps
   DEF Next, Bridge

-----------------------------------------------------------------------------
(* The results *)

(* The bridge's own bookkeeping keeps its shape, for any files, contents,  *)
(* failures and restarts: the state speaks of UIDs of ours only, each      *)
(* under the file it names.                                                *)
THEOREM TypeCorrect == Spec => []TypeOK
<1>1. Inv => TypeOK
  <2> SUFFICES ASSUME Types PROVE TypeOK
    BY DEF Inv
  <2>1. \A i \in DOMAIN puts : puts[i].uid.file = file
    BY DEF Types, ToSet
  <2>2. {failed, full, clean} \subseteq BOOLEAN
    BY DEF Types
  <2> QED
    BY <2>1, <2>2 DEF Types, TypeOK
<1> QED
  BY <1>1, InvInit, InvNext, PTL DEF Spec

\* Of the calendar a step changes at most one object, and that is ours.
LEMMA CalendarStep ==
    ASSUME Inv, [Next]_vars
    PROVE  \/ cal' = cal
           \/ \E uid : Ours(uid) /\ (cal' = Without(cal, uid) \/ \E v : cal' = With(cal, uid, v))
<1>1. CASE Put
  <2>1. Head(puts) \in AllObjects
    BY <1>1, HeadAndTail DEF Inv, Types, Put
  <2>2. Ours(Head(puts).uid)
    BY <2>1, AllOurs
  <2>3. cal' = cal \/ cal' = With(cal, Head(puts).uid, Head(puts).ical)
    BY <1>1 DEF Put, PutEvent
  <2> QED
    BY <2>2, <2>3
<1>2. CASE DeleteOrphan \/ RemoveEntry \/ Orphan
  <2>1. PICK uid \in dels : cal' = cal \/ cal' = Without(cal, uid)
    BY <1>2 DEF DeleteOrphan, RemoveEntry, Orphan, DeleteEvent
  <2>2. Ours(uid)
    BY DEF Inv, Types
  <2> QED
    BY <2>1, <2>2
<1>3. CASE \/ Start \/ NextFile \/ FilesDone \/ NextStale \/ StaleDone \/ List \/ OrphansDone
           \/ Reconciled \/ Removed \/ GetLatestEventId \/ HandleEvent
  BY <1>3 DEF Start, NextFile, FilesDone, NextStale, StaleDone, List, OrphansDone, Reconciled, Removed,
              GetLatestEventId, HandleEvent
<1>4. CASE Edit \/ Announce \/ Restart \/ UNCHANGED vars
  BY <1>4 DEF Edit, Announce, Restart, vars
<1> QED
  BY <1>1, <1>2, <1>3, <1>4 DEF Next, Bridge

(* Whatever fails, is edited or restarts, the bridge never changes or      *)
(* removes an object of the calendar that is not its own: neither a put,   *)
(* nor a deletion, nor the sweep after a full reconciliation.              *)
THEOREM OthersSafe == Spec => OthersKept
<1>1. ASSUME Inv, [Next]_vars PROVE Theirs' = Theirs
  <2>1. Stranger \in DOMAIN cal' <=> Stranger \in DOMAIN cal
    BY <1>1, CalendarStep, StrangerAssumption DEF With, Without, Restrict
  <2>2. Stranger \in DOMAIN cal => cal'[Stranger] = cal[Stranger]
    BY <1>1, CalendarStep, StrangerAssumption DEF With, Without, Restrict
  <2> QED
    BY <2>1, <2>2 DEF Theirs
<1>2. Inv /\ [Next]_vars => [Theirs' = Theirs]_vars
  BY <1>1
<1> QED
  BY <1>2, InvInit, InvNext, PTL DEF Spec, OthersKept

\* A UID a file asks for is among that file's.
LEMMA WantedByFile ==
    ASSUME Types, NEW u \in {o.uid : o \in Wanted}
    PROVE  u.file \in Files /\ u \in Uids(u.file) /\ Ours(u)
<1>1. PICK f \in Files : \E o \in ToSet(ObjectsIn(f)) : o.uid = u
  BY DEF Wanted
<1>2. u \in Uids(f)
  BY <1>1 DEF Uids
<1>3. u.file = f /\ Ours(u)
  BY <1>2, InFiles
<1> QED
  BY <1>2, <1>3

(* As long as no request, read or event was missed, an object leaves the   *)
(* calendar only when its heading is gone or its file is to be looked at   *)
(* again: when orphans of a file are deleted, when a file is removed and   *)
(* when the calendar is swept, however the files change meanwhile.         *)
THEOREM StandingKept == Spec => RemovedForGood
<1>1. ASSUME Inv, [Next]_vars, clean, NEW u \in DOMAIN cal \ DOMAIN cal', u \in {o.uid : o \in Wanted}
      PROVE  Coming(u.file)
  <2>0. Types /\ Plan /\ Good
    BY <1>1 DEF Inv
  <2>1. u.file \in Files /\ u \in Uids(u.file)
    BY <2>0, <1>1, WantedByFile
  <2>2. SUFFICES Late(u.file)
    BY DEF Late, Coming
  <2>3. ASSUME NEW o, cal' = With(cal, o.uid, o.ical) \/ cal' = cal PROVE FALSE
    BY <2>3 DEF With
  <2>4. ASSUME NEW uid, cal' = Without(cal, uid) \/ cal' = cal PROVE u = uid
    BY <2>4 DEF Without, Restrict
  <2>5. CASE DeleteOrphan
    <3>1. u \in dels /\ pc = "reconcile"
      BY <2>4, <2>5 DEF DeleteOrphan, DeleteEvent
    <3>2. u.file = file /\ Accounted
      BY <3>1, <2>0, <1>1 DEF Plan, Good
    <3>3. ~Underway(u.file)
      BY <3>1, <2>1 DEF Underway
    <3> QED
      BY <3>1, <3>2, <3>3 DEF Accounted, FileRight
  <2>6. CASE RemoveEntry \/ Orphan
    <3>1. u \in dels /\ pc \in {"remove", "orphans"}
      BY <2>4, <2>6 DEF RemoveEntry, Orphan, DeleteEvent
    <3>2. u \notin DOMAIN db /\ Accounted
      BY <3>1, <2>0, <1>1 DEF Plan, Good
    <3>3. u.file \notin queue
      BY <3>1, <2>0 DEF Plan
    <3>4. Done(u.file) \/ Late(u.file)
      BY <3>1, <3>2, <3>3, <2>1 DEF Accounted, FilesRight, Handled
    <3> QED
      BY <3>2, <3>4, <2>1 DEF Done, Recorded
  <2>7. CASE Put
    BY <2>3, <2>7 DEF Put, PutEvent
  <2>8. CASE \/ Start \/ NextFile \/ FilesDone \/ NextStale \/ StaleDone \/ List \/ OrphansDone
             \/ Reconciled \/ Removed \/ GetLatestEventId \/ HandleEvent
    <3>1. cal' = cal
      BY <2>8 DEF Start, NextFile, FilesDone, NextStale, StaleDone, List, OrphansDone, Reconciled, Removed,
                  GetLatestEventId, HandleEvent
    <3> QED
      BY <3>1, <1>1
  <2>9. CASE Edit \/ Announce \/ Restart \/ UNCHANGED vars
    <3>1. cal' = cal
      BY <2>9 DEF Edit, Announce, Restart, vars
    <3> QED
      BY <3>1, <1>1
  <2> QED
    BY <2>5, <2>6, <2>7, <2>8, <2>9, <1>1 DEF Next, Bridge
<1>2. Inv /\ [Next]_vars => [\A u \in DOMAIN cal \ DOMAIN cal' :
                                clean => u \notin {o.uid : o \in Wanted} \/ Coming(u.file)]_vars
  BY <1>1
<1> QED
  BY <1>2, InvInit, InvNext, PTL DEF Spec, RemovedForGood

(* For any files and contents in which no timestamp is at midnight, a      *)
(* bridge that missed nothing and has handled every event leaves the       *)
(* calendar exactly as the files say, whatever the calendar held before,   *)
(* however often files changed, and after any restarts that found their    *)
(* state true.  A timestamp at midnight is the one thing in the way.       *)
THEOREM CalendarRight == NoMidnight => (Spec => []InSync)
<1>1. ASSUME NoMidnight, Inv PROVE InSync
  <2> SUFFICES ASSUME clean, CaughtUp
               PROVE  /\ {u \in DOMAIN cal : Ours(u)} = {o.uid : o \in Wanted}
                      /\ \A u \in {o.uid : o \in Wanted} : \E o \in Wanted : o.uid = u /\ o.ical = cal[u]
    BY DEF InSync
  <2>0. Types /\ Plan /\ pc = "loop" /\ cursor = Len(events) /\ unsaid = {}
    BY <1>1 DEF Inv, CaughtUp
  <2>1. Accounted /\ ~full /\ queue = {} /\ dels = {}
    BY <2>0, <1>1 DEF Inv, Good, Plan
  <2>2. \A f \in Files : Handled(f) /\ ~Late(f)
    <3>1. Len(events) \in Nat
      BY <2>0 DEF Types
    <3>2. cursor + 1 .. Len(events) = {}
      BY <3>1, <2>0
    <3> QED
      BY <3>2, <2>0, <2>1 DEF Handled, Late
  <2>3. \A f \in Files : Done(f)
    BY <2>1, <2>2 DEF Accounted, FilesRight
  <2>4. ASSUME NEW u \in DOMAIN cal, Ours(u) PROVE u \in {o.uid : o \in Wanted}
    <3>1. u \in DOMAIN db
      BY <2>0, <2>1, <2>4 DEF Accounted, NoStrays, Swept
    <3>2. u.file \in Files /\ u \in EntriesForFile(u.file)
      BY <3>1, <2>0 DEF Types, EntriesForFile
    <3>3. u \in Uids(u.file)
      BY <3>2, <2>3 DEF Done
    <3> QED
      BY <3>2, <3>3 DEF Uids, Wanted
  <2>5. ASSUME NEW u \in {o.uid : o \in Wanted}
        PROVE  Ours(u) /\ u \in DOMAIN cal /\ \E o \in Wanted : o.uid = u /\ o.ical = cal[u]
    <3>1. u.file \in Files /\ u \in Uids(u.file) /\ Ours(u)
      BY <2>0, WantedByFile
    <3>2. PICK o \in ToSet(ObjectsIn(u.file)) : u \in DOMAIN db /\ o.uid = u /\ o.hash = db[u].hash
      BY <3>1, <2>3 DEF Done, Recorded
    <3>3. PICK p \in AllObjects : p.uid = u /\ p.hash = db[u].hash /\ p.ical = cal[u]
      BY <3>2, <2>1 DEF Accounted, StateTrue
    <3>4. u \in DOMAIN cal
      BY <3>2, <2>1 DEF Accounted, StateTrue
    <3>5. o \in AllObjects /\ o \in Wanted
      BY <3>1, <2>0, InFiles DEF Wanted
    <3>6. o.ical = p.ical
      BY <3>2, <3>3, <3>5, <1>1, HashTells
    <3> QED
      BY <3>1, <3>2, <3>3, <3>4, <3>5, <3>6
  <2> QED
    BY <2>4, <2>5
<1>2. NoMidnight /\ Inv => InSync
  BY <1>1
<1>3. SUFFICES ASSUME NoMidnight PROVE Spec => []InSync
  OBVIOUS
<1>4. Inv => InSync
  BY <1>2, <1>3
<1> QED
  BY <1>4, InvInit, InvNext, PTL DEF Spec
=============================================================================
