--------------------------- MODULE BootstrapProofs ---------------------------
(***************************************************************************)
(* Facts about every bootstrap program there can be, of any length and for *)
(* any number of faults and edits.  A run stays inside its program.  A     *)
(* program whose steps ask first (Careful) writes over nothing a person    *)
(* has set.  A run stays inside an outline that each instruction stays     *)
(* inside (OutlineClosed), and so a program whose outline says the right   *)
(* things of single instructions (OutlineProves) converges, is quiet on a  *)
(* configured app, keeps out what must never be and implements Converge.   *)
(***************************************************************************)
EXTENDS BootstrapOutline, TLAPS

\* Between two runs nothing is remembered: mem is a Job's variables.
Forgotten == pc = 0 => \A k \in DOMAIN mem : mem[k] = None

\* A run nobody disturbs remembers of what a person set only that: this is why a
\* step inside an `if` on what was read is safe.
Remembered ==
    \A k \in Apps[app].keep : world[k] = "hand" /\ ~touched => mem[k] \in {None, "hand"}

IInv == TypeOK /\ DOMAIN mem = DOMAIN Apps[app].fresh /\ Forgotten /\ Remembered

-----------------------------------------------------------------------------
\* The instruction a run is at has the form its program's well-formedness gives it.
LEMMA StepForm ==
    ASSUME app \in DOMAIN Apps, Running
    PROVE  /\ Len(Steps) \in Nat /\ pc \in Nat
           /\ Step.skip \in Nat /\ pc + Step.skip <= Len(Steps)
           /\ Step.fails \in {"run", "warning", "task"}
<1> DEFINE P == Apps[app].steps
<1>1. /\ P \in Seq({P[i] : i \in DOMAIN P})
      /\ \A i \in DOMAIN P : /\ P[i].skip \in Nat /\ i + P[i].skip <= Len(P)
                            /\ P[i].fails \in {"run", "warning", "task"}
  BY WellFormed
<1>2. Len(P) \in Nat /\ DOMAIN P = 1..Len(P)
  BY <1>1
<1>3. pc \in DOMAIN P
  BY <1>2 DEF Running, Steps
<1> QED
  BY <1>1, <1>2, <1>3 DEF Steps, Step

\* A program's length is a number also when no run is under way.
LEMMA LengthIsNat == ASSUME app \in DOMAIN Apps PROVE Len(Steps) \in Nat
<1> DEFINE P == Apps[app].steps
<1>1. P \in Seq({P[i] : i \in DOMAIN P})
  BY WellFormed
<1> QED
  BY <1>1 DEF Steps

\* What a step writes leaves the keys of the app as they are.
LEMMA WrittenKeys == ASSUME NEW s PROVE DOMAIN Written(s) = DOMAIN world
BY DEF Written, Change

-----------------------------------------------------------------------------
\* The shape of the variables: every action leaves the run inside its program.
LEMMA InitInv == Init => IInv
<1> SUFFICES ASSUME Init PROVE IInv
  OBVIOUS
<1>1. app \in DOMAIN Apps
  BY DEF Init
<1>2. Len(Steps) \in Nat
  BY <1>1, LengthIsNat
<1>3. TypeOK
  <2>1. pc \in 0..(Len(Steps) + 1)
    BY <1>2, pc = 0 DEF Init
  <2>2. touched \in BOOLEAN /\ settled \in BOOLEAN /\ (settled => ~touched)
    BY DEF Init
  <2> QED
    BY <1>1, <2>1, <2>2 DEF Init, TypeOK
<1>4. DOMAIN mem = DOMAIN Apps[app].fresh /\ \A k \in DOMAIN mem : mem[k] = None
  BY DEF Init
<1>5. Apps[app].keep \subseteq DOMAIN Apps[app].fresh
  BY <1>1, Careful
<1> QED
  BY <1>3, <1>4, <1>5 DEF IInv, Forgotten, Remembered

\* How a step of the Job leaves the shape of the variables.
LEMMA EndKeeps ==
    ASSUME TypeOK, DOMAIN mem = DOMAIN Apps[app].fresh, NEW r \in {"ok", "failed"}, End(r),
           DOMAIN world' = DOMAIN world
    PROVE  /\ TypeOK' /\ DOMAIN mem' = DOMAIN Apps'[app'].fresh
           /\ pc' = 0 /\ \A k \in DOMAIN mem' : mem'[k] = None
<1>1. Len(Steps) \in Nat
  BY LengthIsNat DEF TypeOK
<1> QED
  BY <1>1 DEF End, TypeOK, Steps

\* Going on to the next step keeps the run inside its program.
LEMMA AdvanceKeeps ==
    ASSUME TypeOK, Running, Advance, DOMAIN world' = DOMAIN world,
           UNCHANGED <<app, result, trouble, touched, settled>>
    PROVE  TypeOK' /\ pc' # 0
<1>1. Len(Steps) \in Nat /\ pc \in Nat
  BY StepForm DEF TypeOK
<1> QED
  BY <1>1 DEF Advance, Running, TypeOK, Steps

\* So does a step whose failure is only a warning.
LEMMA ShrugKeeps ==
    ASSUME TypeOK, Running, Shrug(Step), DOMAIN world' = DOMAIN world
    PROVE  TypeOK' /\ pc' # 0 /\ UNCHANGED <<app, mem, touched>>
<1>1. /\ Len(Steps) \in Nat /\ pc \in Nat
      /\ Step.skip \in Nat /\ pc + Step.skip <= Len(Steps)
      /\ Step.fails \in {"run", "warning", "task"}
  BY StepForm DEF TypeOK
<1>2. pc' = pc + 1 + Step.skip /\ Step.fails # "run"
  BY DEF Shrug
<1>3. pc' \in 0..(Len(Steps) + 1) /\ pc' # 0
  BY <1>1, <1>2
<1>4. trouble' \in {"none", "warning", "task"}
  BY <1>1, <1>2 DEF Shrug, TypeOK
<1> QED
  BY <1>3, <1>4 DEF Shrug, TypeOK, Steps

-----------------------------------------------------------------------------
\* A step that writes: what a person set before an undisturbed run stays, and
\* nothing becomes a person's.
LEMMA PutAsks ==
    ASSUME IInv, Running, Step.op = "put", Taken(Step.when), world' = Written(Step),
           NEW k \in Apps[app].keep
    PROVE  /\ world[k] = "hand" /\ ~touched => world'[k] = "hand"
           /\ world'[k] = "hand" => world[k] = "hand"
<1>1. app \in DOMAIN Apps /\ DOMAIN world = DOMAIN Apps[app].fresh
  BY DEF IInv, TypeOK
<1>2. pc \in DOMAIN Apps[app].steps
  <2> DEFINE P == Apps[app].steps
  <2>1. P \in Seq({P[i] : i \in DOMAIN P})
    BY <1>1, WellFormed
  <2> QED
    BY <2>1 DEF Running, Steps
<1>3. Asks(Step, k) /\ Declares(Step, k) /\ k \in DOMAIN world
  BY <1>1, <1>2, Careful DEF Step, Steps
<1>4. CASE ~Needed(Step)
  BY <1>4 DEF Written
<1>5. CASE k \notin DOMAIN Step.eff
  BY <1>3, <1>5 DEF Written, Change
<1>6. CASE Needed(Step) /\ k \in DOMAIN Step.eff
  <2>1. world'[k] = Step.eff[k]
    BY <1>3, <1>6 DEF Written, Change
  <2>2. world'[k] # "hand"
    BY <1>3, <1>6, <2>1 DEF Declares
  <2>3. ASSUME world[k] = "hand", ~touched PROVE FALSE
    <3>1. mem[k] \in {None, "hand"}
      BY <2>3 DEF IInv, Remembered
    <3>2. CASE Step.key = k /\ "hand" \in Step.vals
      BY <1>6, <2>3, <3>2 DEF Needed
    <3>3. CASE k \in DOMAIN Step.when /\ "hand" \notin Step.when[k] /\ None \notin Step.when[k]
      BY <3>1, <3>3 DEF Taken, Holds
    <3> QED
      BY <1>3, <1>6, <3>2, <3>3 DEF Asks
  <2> QED
    BY <2>2, <2>3
<1> QED
  BY <1>4, <1>5, <1>6

\* A step after which the run goes on with what it had read keeps the invariant ...
LEMMA GoesOn ==
    ASSUME IInv, TypeOK', UNCHANGED <<app, mem, touched>>, pc' # 0,
           \A k \in Apps[app].keep : world'[k] = "hand" => world[k] = "hand"
    PROVE  IInv'
BY DEF IInv, Forgotten, Remembered

\* ... and so does one that ends it.
LEMMA Ends ==
    ASSUME TypeOK', DOMAIN mem' = DOMAIN Apps'[app'].fresh, pc' = 0,
           \A k \in DOMAIN mem' : mem'[k] = None
    PROVE  IInv'
<1>1. app' \in DOMAIN Apps
  BY DEF TypeOK
<1>2. Apps[app'].keep \subseteq DOMAIN Apps[app'].fresh
  BY <1>1, Careful
<1> QED
  BY <1>2 DEF IInv, Forgotten, Remembered

\* A failed step: printed and passed over, or the end of the run.
LEMMA FailKeeps ==
    ASSUME IInv, Running, Fail(Step), DOMAIN world' = DOMAIN world,
           \A k \in Apps[app].keep : world'[k] = "hand" => world[k] = "hand"
    PROVE  IInv'
<1>1. CASE Shrug(Step)
  <2>1. TypeOK' /\ pc' # 0 /\ UNCHANGED <<app, mem, touched>>
    BY <1>1, ShrugKeeps DEF IInv
  <2> QED
    BY <2>1, GoesOn
<1>2. CASE End("failed")
  <2>1. /\ TypeOK' /\ DOMAIN mem' = DOMAIN Apps'[app'].fresh
        /\ pc' = 0 /\ \A k \in DOMAIN mem' : mem'[k] = None
    BY <1>2, EndKeeps DEF IInv
  <2> QED
    BY <2>1, Ends
<1> QED
  BY <1>1, <1>2 DEF Fail

-----------------------------------------------------------------------------
\* An answered call keeps the invariant, whichever instruction it is.
LEMMA ExecuteKeeps == ASSUME IInv, Execute PROVE IInv'
<1> USE DEF IInv
<1>1. Running
  BY DEF Execute
<1>2. CASE ~Taken(Step.when) /\ Advance /\ UNCHANGED <<app, world, mem, result, trouble, touched, settled>>
  BY <1>1, <1>2, AdvanceKeeps, GoesOn
<1>3. CASE /\ mem' = [k \in DOMAIN mem |-> IF k \in Step.vals THEN world[k] ELSE mem[k]]
           /\ Advance
           /\ UNCHANGED <<app, world, result, trouble, touched, settled>>
  <2>1. TypeOK' /\ pc' # 0
    BY <1>1, <1>3, AdvanceKeeps
  <2>2. Remembered'
    <3>1. Apps[app].keep \subseteq DOMAIN mem
      BY Careful DEF TypeOK
    <3> QED
      BY <1>3, <3>1 DEF Remembered
  <2> QED
    BY <1>3, <2>1, <2>2 DEF Forgotten
<1>4. CASE UNCHANGED world /\ End("ok")
  BY <1>4, EndKeeps, Ends
<1>5. CASE UNCHANGED world /\ Advance /\ UNCHANGED <<app, mem, result, trouble, touched, settled>>
  BY <1>1, <1>5, AdvanceKeeps, GoesOn
<1>6. CASE UNCHANGED world /\ Fail(Step)
  BY <1>1, <1>6, FailKeeps
<1>7. CASE /\ Taken(Step.when) /\ Step.op = "put" /\ world' = Written(Step)
           /\ Advance /\ UNCHANGED <<app, mem, result, trouble, touched, settled>>
  <2>1. \A k \in Apps[app].keep : world'[k] = "hand" => world[k] = "hand"
    BY <1>1, <1>7, PutAsks
  <2>2. TypeOK' /\ pc' # 0
    BY <1>1, <1>7, WrittenKeys, AdvanceKeeps
  <2> QED
    BY <1>7, <2>1, <2>2, GoesOn
<1>8. CASE UNCHANGED world /\ End("failed")
  BY <1>8, EndKeeps, Ends
<1> QED
  BY <1>2, <1>3, <1>4, <1>5, <1>6, <1>7, <1>8 DEF Execute

\* Every action keeps the invariant.
LEMMA NextInv == IInv /\ [Next]_vars => IInv'
<1> SUFFICES ASSUME IInv, [Next]_vars PROVE IInv'
  OBVIOUS
<1>1. CASE StartJob
  <2>1. Len(Steps) \in Nat /\ Apps[app].keep \subseteq DOMAIN mem
    BY LengthIsNat, Careful DEF IInv, TypeOK
  <2>2. pc' = 1 /\ pc' \in 0..(Len(Steps') + 1)
    BY <1>1, <2>1 DEF StartJob, Steps
  <2>3. settled' \in BOOLEAN /\ touched' \in BOOLEAN /\ (settled' => ~touched')
    BY <1>1 DEF StartJob, Configured, Holds
  <2>4. TypeOK'
    BY <1>1, <2>2, <2>3 DEF StartJob, IInv, TypeOK
  <2>5. \A k \in Apps[app].keep : mem'[k] = None
    BY <1>1, <2>1 DEF StartJob, IInv, Forgotten
  <2> QED
    BY <1>1, <2>2, <2>4, <2>5 DEF StartJob, IInv, Forgotten, Remembered
<1>2. CASE Execute
  BY <1>2, ExecuteKeeps
<1>3. CASE Finish
  BY <1>3, EndKeeps, Ends DEF Finish, IInv
<1>4. CASE FailCall
  <2>1. Running /\ Fail(Step) /\ Taken(Step.when)
    BY <1>4 DEF FailCall
  <2>2. CASE UNCHANGED world
    BY <2>1, <2>2, FailKeeps
  <2>3. CASE Step.op = "put" /\ world' = Written(Step)
    <3>1. \A k \in Apps[app].keep : world'[k] = "hand" => world[k] = "hand"
      BY <2>1, <2>3, PutAsks
    <3> QED
      BY <2>1, <2>3, <3>1, WrittenKeys, FailKeeps
  <2> QED
    BY <1>4, <2>2, <2>3 DEF FailCall
<1>5. CASE Kill
  BY <1>5, EndKeeps, Ends DEF Kill, IInv
<1>6. CASE Edit
  <2>1. DOMAIN world' = DOMAIN world
    BY <1>6 DEF Edit, Change
  <2>2. settled' \in BOOLEAN /\ touched' \in BOOLEAN /\ touched' /\ ~settled'
    BY <1>6 DEF Edit
  <2>3. TypeOK'
    BY <1>6, <2>1, <2>2 DEF Edit, IInv, TypeOK, Steps
  <2> QED
    BY <1>6, <2>2, <2>3 DEF Edit, IInv, Forgotten, Remembered
<1>7. CASE UNCHANGED vars
  BY <1>7 DEF vars, IInv, TypeOK, Forgotten, Remembered, Steps
<1> QED
  BY <1>1, <1>2, <1>3, <1>4, <1>5, <1>6, <1>7 DEF Next, Job

\* The inductive invariant holds in every behaviour.
LEMMA Invariant == Spec => []IInv
<1> QED
  BY InitInv, NextInv, PTL DEF Spec

-----------------------------------------------------------------------------
\* Whatever fails, is killed or is changed, a run never leaves its program and the
\* variables keep their types: main.rs runs one program to its end or to its error.
THEOREM RunsStayInside == Spec => []TypeOK
<1>1. IInv => TypeOK
  BY DEF IInv
<1> QED
  BY <1>1, Invariant, PTL

\* No step of an undisturbed run changes what a person has set.
LEMMA HandStep ==
    ASSUME IInv, [Next]_vars, NEW k \in Apps[app].keep, world[k] = "hand", ~touched, ~touched'
    PROVE  world'[k] = "hand"
<1>1. CASE Execute
  <2>1. CASE UNCHANGED world
    BY <2>1
  <2>2. CASE Running /\ Taken(Step.when) /\ Step.op = "put" /\ world' = Written(Step)
    BY <2>2, PutAsks
  <2> QED
    BY <1>1, <2>1, <2>2 DEF Execute
<1>2. CASE FailCall
  <2>1. CASE UNCHANGED world
    BY <2>1
  <2>2. CASE Running /\ Taken(Step.when) /\ Step.op = "put" /\ world' = Written(Step)
    BY <2>2, PutAsks
  <2> QED
    BY <1>2, <2>1, <2>2 DEF FailCall
<1>3. CASE StartJob \/ Finish \/ Kill \/ UNCHANGED vars
  BY <1>3 DEF StartJob, Finish, Kill, vars
<1>4. CASE Edit
  BY <1>4 DEF Edit
<1> QED
  BY <1>1, <1>2, <1>3, <1>4 DEF Next, Job

\* "Every item is looked up first and only created when missing, so ... what was
\* tuned by hand stays" (sportarr.rs): for every program whose steps ask first,
\* however long, and any number of lost answers and killed Jobs.
THEOREM HandsOff == Spec => HandKept
<1>1. IInv /\ [Next]_vars =>
        [\A k \in Apps[app].keep : world[k] = "hand" /\ ~touched /\ ~touched' => world'[k] = "hand"]_vars
  BY HandStep
<1> QED
  BY <1>1, Invariant, PTL DEF Spec, HandKept

-----------------------------------------------------------------------------
(* Cells: what fits a cell fits what the cell becomes.                     *)

\* A cell that something fits is not vacant.
LEMMA NotVacant ==
    ASSUME NEW a, NEW m, NEW w, NEW c, Fits(a, m, w, c)
    PROVE  ~Vacant(a, c)
<1>1. ASSUME NEW k \in Keys(a), \A t \in c : t[1] # k PROVE FALSE
  <2>1. <<k, m[k], w[k]>> \in c
    BY DEF Fits
  <2>2. <<k, m[k], w[k]>>[1] # k
    BY <1>1, <2>1
  <2> QED
    BY <2>2
<1> QED
  BY <1>1 DEF Vacant

\* Whatever fits a covered cell fits one of the cells that cover it.
LEMMA CoveredFits ==
    ASSUME NEW a, NEW m, NEW w, NEW c, NEW S, Covered(a, c, S), Fits(a, m, w, c)
    PROVE  \E d \in S : Fits(a, m, w, d)
<1>1. ~Vacant(a, c)
  BY NotVacant
<1>2. PICK d \in S : c \subseteq d
  BY <1>1 DEF Covered
<1> QED
  BY <1>2 DEF Fits

\* A step inside an `if` that is not taken: on one of its keys it is not.
LEMMA PassedFits ==
    ASSUME NEW a, NEW m, NEW w, NEW c, NEW s, Fits(a, m, w, c), ~Holds(m, s.when)
    PROVE  \E k \in DOMAIN s.when : Fits(a, m, w, Passed(c, s, k))
<1>1. PICK k \in DOMAIN s.when : m[k] \notin s.when[k]
  BY DEF Holds
<1>2. ASSUME NEW j \in Keys(a) PROVE <<j, m[j], w[j]>> \in Passed(c, s, k)
  <2>1. <<j, m[j], w[j]>> \in c
    BY DEF Fits
  <2> QED
    BY <1>1, <2>1 DEF Passed
<1> QED
  BY <1>2 DEF Fits

\* One that is taken.
LEMMA EnteredFits ==
    ASSUME NEW a, NEW m, NEW w, NEW c, NEW s, Fits(a, m, w, c), Holds(m, s.when)
    PROVE  Fits(a, m, w, Entered(c, s))
<1>1. ASSUME NEW j \in Keys(a) PROVE <<j, m[j], w[j]>> \in Entered(c, s)
  <2>1. <<j, m[j], w[j]>> \in c
    BY DEF Fits
  <2> QED
    BY <2>1 DEF Entered, Holds
<1> QED
  BY <1>1 DEF Fits

\* A look-up that finds one of its values.
LEMMA FoundFits ==
    ASSUME NEW a, NEW m, NEW w, NEW c, NEW s, Fits(a, m, w, c), w[s.key] \in s.vals
    PROVE  Fits(a, m, w, Found(c, s))
<1>1. ASSUME NEW j \in Keys(a) PROVE <<j, m[j], w[j]>> \in Found(c, s)
  <2>1. <<j, m[j], w[j]>> \in c
    BY DEF Fits
  <2> QED
    BY <2>1 DEF Found
<1> QED
  BY <1>1 DEF Fits

\* A look-up that finds none of them.
LEMMA MissedFits ==
    ASSUME NEW a, NEW m, NEW w, NEW c, NEW s, Fits(a, m, w, c), w[s.key] \notin s.vals
    PROVE  Fits(a, m, w, Missed(c, s))
<1>1. ASSUME NEW j \in Keys(a) PROVE <<j, m[j], w[j]>> \in Missed(c, s)
  <2>1. <<j, m[j], w[j]>> \in c
    BY DEF Fits
  <2> QED
    BY <2>1 DEF Missed
<1> QED
  BY <1>1 DEF Fits

\* A write.
LEMMA PutFits ==
    ASSUME NEW a, NEW m, NEW w, NEW c, NEW eff, Fits(a, m, w, c), DOMAIN w = Keys(a)
    PROVE  Fits(a, m, Change(w, eff), Put(c, eff))
<1>1. ASSUME NEW j \in Keys(a) PROVE <<j, m[j], Change(w, eff)[j]>> \in Put(c, eff)
  <2> DEFINE t == <<j, m[j], w[j]>>
  <2>1. t \in c
    BY DEF Fits
  <2>2. <<t[1], t[2], IF t[1] \in DOMAIN eff THEN eff[t[1]] ELSE t[3]>> \in Put(c, eff)
    BY <2>1 DEF Put
  <2>3. t[1] = j /\ t[2] = m[j] /\ t[3] = w[j]
    OBVIOUS
  <2>4. Change(w, eff)[j] = IF j \in DOMAIN eff THEN eff[j] ELSE w[j]
    BY DEF Change
  <2> QED
    BY <2>2, <2>3, <2>4
<1> QED
  BY <1>1 DEF Fits

\* A read.
LEMMA NotedFits ==
    ASSUME NEW a, NEW m, NEW w, NEW c, NEW K, Fits(a, m, w, c), DOMAIN m = Keys(a)
    PROVE  Fits(a, [k \in DOMAIN m |-> IF k \in K THEN w[k] ELSE m[k]], w, Noted(c, K))
<1> DEFINE n == [k \in DOMAIN m |-> IF k \in K THEN w[k] ELSE m[k]]
<1>1. ASSUME NEW j \in Keys(a) PROVE <<j, n[j], w[j]>> \in Noted(c, K)
  <2> DEFINE t == <<j, m[j], w[j]>>
  <2>1. t \in c
    BY DEF Fits
  <2>2. <<t[1], IF t[1] \in K THEN t[3] ELSE t[2], t[3]>> \in Noted(c, K)
    BY <2>1 DEF Noted
  <2>3. t[1] = j /\ t[2] = m[j] /\ t[3] = w[j]
    OBVIOUS
  <2>4. n[j] = IF j \in K THEN w[j] ELSE m[j]
    OBVIOUS
  <2> QED
    BY <2>2, <2>3, <2>4
<1> QED
  BY <1>1 DEF Fits

\* The end of a run.
LEMMA ForgotFits ==
    ASSUME NEW a, NEW m, NEW n, NEW w, NEW c, Fits(a, m, w, c), \A k \in Keys(a) : n[k] = None
    PROVE  Fits(a, n, w, Forgot(c))
<1>1. ASSUME NEW j \in Keys(a) PROVE <<j, n[j], w[j]>> \in Forgot(c)
  <2> DEFINE t == <<j, m[j], w[j]>>
  <2>1. t \in c
    BY DEF Fits
  <2>2. <<t[1], None, t[3]>> \in Forgot(c)
    BY <2>1 DEF Forgot
  <2>3. t[1] = j /\ t[3] = w[j]
    OBVIOUS
  <2> QED
    BY <2>2, <2>3
<1> QED
  BY <1>1 DEF Fits

\* An app that is configured on the keys of K.
LEMMA TidyFits ==
    ASSUME NEW a, NEW m, NEW w, NEW c, NEW K, Fits(a, m, w, c),
           \A k \in K : w[k] \in Wanted(a, k)
    PROVE  Fits(a, m, w, Tidy(a, K, c))
<1>1. ASSUME NEW j \in Keys(a) PROVE <<j, m[j], w[j]>> \in Tidy(a, K, c)
  <2>1. <<j, m[j], w[j]>> \in c
    BY DEF Fits
  <2> QED
    BY <2>1 DEF Tidy
<1> QED
  BY <1>1 DEF Fits

\* The steps after which a run goes on, on what it remembers and what the app holds.
Answers(m, w, s, m2, w2) ==
    \/ s.op = "read" /\ m2 = [k \in DOMAIN m |-> IF k \in s.vals THEN w[k] ELSE m[k]] /\ w2 = w
    \/ s.op = "stop" /\ w[s.key] \notin s.vals /\ m2 = m /\ w2 = w
    \/ s.op = "need" /\ w[s.key] \in s.vals /\ m2 = m /\ w2 = w
    \/ s.op = "put" /\ m2 = m /\ w2 = IF w[s.key] \notin s.vals THEN Change(w, s.eff) ELSE w
    \/ s.op = "outcome" /\ m2 = m /\ w2 = w
Follows(m, w, s, m2, w2) ==
    \/ ~Holds(m, s.when) /\ m2 = m /\ w2 = w
    \/ Holds(m, s.when) /\ Answers(m, w, s, m2, w2)

\* An answered call leads to one of the cells its instruction leads to.
LEMMA AnsweredFits ==
    ASSUME NEW a, NEW m, NEW w, NEW m2, NEW w2, NEW t, NEW s, Fits(a, m, w, t),
           DOMAIN m = Keys(a), DOMAIN w = Keys(a), Answers(m, w, s, m2, w2)
    PROVE  \E d \in Answered(t, s) : Fits(a, m2, w2, d)
<1>1. CASE s.op = "read"
  <2>1. Fits(a, m2, w2, Noted(t, s.vals))
    BY <1>1, NotedFits DEF Answers
  <2>2. Noted(t, s.vals) \in Answered(t, s)
    BY <1>1 DEF Answered
  <2> QED
    BY <2>1, <2>2
<1>2. CASE s.op = "stop"
  <2>1. Fits(a, m2, w2, Missed(t, s))
    BY <1>2, MissedFits DEF Answers
  <2>2. Missed(t, s) \in Answered(t, s)
    BY <1>2 DEF Answered
  <2> QED
    BY <2>1, <2>2
<1>3. CASE s.op = "need"
  <2>1. Fits(a, m2, w2, Found(t, s))
    BY <1>3, FoundFits DEF Answers
  <2>2. Found(t, s) \in Answered(t, s)
    BY <1>3 DEF Answered
  <2> QED
    BY <2>1, <2>2
<1>4. CASE s.op = "put"
  <2>1. Answered(t, s) = {Found(t, s), Put(Missed(t, s), s.eff)}
    BY <1>4 DEF Answered
  <2>2. m2 = m /\ w2 = IF w[s.key] \notin s.vals THEN Change(w, s.eff) ELSE w
    BY <1>4 DEF Answers
  <2>3. CASE w[s.key] \in s.vals
    BY <2>1, <2>2, <2>3, FoundFits
  <2>4. CASE w[s.key] \notin s.vals
    <3>1. Fits(a, m, w, Missed(t, s))
      BY <2>4, MissedFits
    <3>2. Fits(a, m, Change(w, s.eff), Put(Missed(t, s), s.eff))
      BY <3>1, PutFits
    <3> QED
      BY <2>1, <2>2, <2>4, <3>2
  <2> QED
    BY <2>3, <2>4
<1>5. CASE s.op = "outcome"
  <2>1. Answered(t, s) = {t}
    BY <1>5 DEF Answered
  <2> QED
    BY <1>5, <2>1 DEF Answers
<1> QED
  BY <1>1, <1>2, <1>3, <1>4, <1>5 DEF Answers

\* So does a step that is not taken.
LEMMA AfterFits ==
    ASSUME NEW a, NEW m, NEW w, NEW m2, NEW w2, NEW c, NEW s, Fits(a, m, w, c),
           DOMAIN m = Keys(a), DOMAIN w = Keys(a), Follows(m, w, s, m2, w2)
    PROVE  \E d \in After(c, s) : Fits(a, m2, w2, d)
<1>1. CASE ~Holds(m, s.when) /\ m2 = m /\ w2 = w
  <2>1. PICK k \in DOMAIN s.when : Fits(a, m, w, Passed(c, s, k))
    BY <1>1, PassedFits
  <2>2. Passed(c, s, k) \in After(c, s)
    BY DEF After
  <2> QED
    BY <1>1, <2>1, <2>2
<1>2. CASE Holds(m, s.when) /\ Answers(m, w, s, m2, w2)
  <2>1. Fits(a, m, w, Entered(c, s))
    BY <1>2, EnteredFits
  <2>2. PICK d \in Answered(Entered(c, s), s) : Fits(a, m2, w2, d)
    BY <1>2, <2>1, AnsweredFits
  <2> QED
    BY <2>2 DEF After
<1> QED
  BY <1>1, <1>2 DEF Follows

-----------------------------------------------------------------------------
(* Runs stay inside the outline.                                           *)

Regimes == {"any", "clean", "settled"}

\* What the run remembers and the app holds is possible where the run is.
Inside(r) == \E c \in Outline[app][r][pc] : Fits(app, mem, world, c)
Outlined ==
    /\ Inside("any")
    /\ pc # 0 /\ ~touched /\ trouble = "none" => Inside("clean")
    /\ pc # 0 /\ settled => Inside("settled")

FInv == IInv /\ Outlined /\ Converged

\* What the assumptions say of the app at hand.
LEMMA OutlineFacts ==
    ASSUME app \in DOMAIN Apps
    PROVE  /\ Named(app) /\ Begins(app, Outline[app]) /\ Disturbed(app, Outline[app])
           /\ \A r \in Regimes : Closed(app, Outline[app], r)
           /\ EndsRight(app, Outline[app]) /\ WritesRight(app, Outline[app])
           /\ WritesSame(app, Outline[app]) /\ ShutsOut(app, Outline[app])
BY OutlineClosed, OutlineProves DEF Regimes

\* The same shape for the app's keys as for what the run remembers.
LEMMA KeysFacts ==
    ASSUME IInv
    PROVE  app \in DOMAIN Apps /\ DOMAIN mem = Keys(app) /\ DOMAIN world = Keys(app)
BY DEF IInv, TypeOK, Keys

\* The instruction a running Job is at is one of its program's.
LEMMA InProgram ==
    ASSUME app \in DOMAIN Apps, Running
    PROVE  pc \in DOMAIN Apps[app].steps /\ Step = Apps[app].steps[pc] /\ pc \in 0..(Len(Apps[app].steps) + 1)
<1> DEFINE P == Apps[app].steps
<1>1. P \in Seq({P[i] : i \in DOMAIN P})
  BY WellFormed
<1>2. Len(P) \in Nat /\ DOMAIN P = 1..Len(P)
  BY <1>1
<1> QED
  BY <1>2 DEF Running, Steps, Step

\* A step that follows from the cells of its instruction reaches those of the next,
\* in any regime ...
LEMMA FollowsInside ==
    ASSUME IInv, Running, NEW r \in Regimes, Inside(r), Follows(mem, world, Step, mem', world')
    PROVE  \E c \in Outline[app][r][pc + 1] : Fits(app, mem', world', c)
<1>1. app \in DOMAIN Apps /\ DOMAIN mem = Keys(app) /\ DOMAIN world = Keys(app)
  BY KeysFacts
<1>2. pc \in DOMAIN Apps[app].steps /\ Step = Apps[app].steps[pc]
  BY <1>1, InProgram
<1>3. PICK a : a = app
  OBVIOUS
<1>4. PICK m : m = mem
  OBVIOUS
<1>5. PICK w : w = world
  OBVIOUS
<1>6. PICK m2 : m2 = mem'
  OBVIOUS
<1>7. PICK w2 : w2 = world'
  OBVIOUS
<1>8. PICK s : s = Step
  OBVIOUS
<1>9. PICK i : i = pc
  OBVIOUS
<1>10. PICK c \in Outline[a][r][i] : Fits(a, m, w, c)
  BY <1>3, <1>4, <1>5, <1>9 DEF Inside
<1>11. DOMAIN m = Keys(a) /\ DOMAIN w = Keys(a)
  BY <1>1, <1>3, <1>4, <1>5
<1>12. Follows(m, w, s, m2, w2)
  BY <1>4, <1>5, <1>6, <1>7, <1>8
<1>13. PICK d \in After(c, s) : Fits(a, m2, w2, d)
  BY <1>10, <1>11, <1>12, AfterFits
<1>14. Closed(a, Outline[a], r)
  BY <1>1, <1>3, OutlineFacts
<1>15. i \in DOMAIN Apps[a].steps /\ s = Apps[a].steps[i]
  BY <1>2, <1>3, <1>8, <1>9
<1>16. Covered(a, d, Outline[a][r][i + 1])
  BY <1>10, <1>13, <1>14, <1>15 DEF Closed
<1>17. \E e \in Outline[a][r][i + 1] : Fits(a, m2, w2, e)
  BY <1>13, <1>16, CoveredFits
<1> QED
  BY <1>3, <1>6, <1>7, <1>9, <1>17

\* ... and one that fails and is passed over reaches those of the instruction it
\* skips to, in the regimes that allow for failures.
LEMMA ShrugInside ==
    ASSUME IInv, Running, NEW r \in {"any", "settled"}, Inside(r), Step.fails # "run", mem' = mem,
           Taken(Step.when),
           \/ world' = world
           \/ Step.op = "put" /\ world' = Written(Step)
    PROVE  \E c \in Outline[app][r][pc + 1 + Step.skip] : Fits(app, mem', world', c)
<1>1. app \in DOMAIN Apps /\ DOMAIN mem = Keys(app) /\ DOMAIN world = Keys(app)
  BY KeysFacts
<1>2. pc \in DOMAIN Apps[app].steps /\ Step = Apps[app].steps[pc]
  BY <1>1, InProgram
<1>3. PICK a : a = app
  OBVIOUS
<1>4. PICK m : m = mem
  OBVIOUS
<1>5. PICK w : w = world
  OBVIOUS
<1>7. PICK w2 : w2 = world'
  OBVIOUS
<1>8. PICK s : s = Step
  OBVIOUS
<1>9. PICK i : i = pc
  OBVIOUS
<1>10. PICK c \in Outline[a][r][i] : Fits(a, m, w, c)
  BY <1>3, <1>4, <1>5, <1>9 DEF Inside
<1>11. DOMAIN m = Keys(a) /\ DOMAIN w = Keys(a) /\ Holds(m, s.when)
  BY <1>1, <1>3, <1>4, <1>5, <1>8 DEF Taken
<1>12. Fits(a, m, w, Entered(c, s))
  BY <1>10, <1>11, EnteredFits
<1>13. \E d \in Failed(c, s) : Fits(a, m, w2, d)
  <2>1. CASE w2 = w
    <3>1. Entered(c, s) \in Failed(c, s)
      BY DEF Failed
    <3> QED
      BY <1>12, <2>1, <3>1
  <2>2. CASE s.op = "put" /\ w2 = IF w[s.key] \notin s.vals THEN Change(w, s.eff) ELSE w
    <3>1. Answers(m, w, s, m, w2)
      BY <2>2 DEF Answers
    <3>2. \E d \in Answered(Entered(c, s), s) : Fits(a, m, w2, d)
      BY <1>11, <1>12, <3>1, AnsweredFits
    <3> QED
      BY <2>2, <3>2 DEF Failed
  <2>3. Step.op = "put" /\ world' = Written(Step) =>
          s.op = "put" /\ w2 = IF w[s.key] \notin s.vals THEN Change(w, s.eff) ELSE w
    BY <1>5, <1>7, <1>8 DEF Written, Needed
  <2> QED
    BY <1>5, <1>7, <2>1, <2>2, <2>3
<1>14. PICK d \in Failed(c, s) : Fits(a, m, w2, d)
  BY <1>13
<1>15. Closed(a, Outline[a], r) /\ r # "clean"
  BY <1>1, <1>3, OutlineFacts DEF Regimes
<1>16. i \in DOMAIN Apps[a].steps /\ s = Apps[a].steps[i] /\ s.fails # "run"
  BY <1>2, <1>3, <1>8, <1>9
<1>17. Covered(a, d, Outline[a][r][i + 1 + s.skip])
  BY <1>10, <1>14, <1>15, <1>16 DEF Closed
<1>18. \E e \in Outline[a][r][i + 1 + s.skip] : Fits(a, m, w2, e)
  BY <1>14, <1>17, CoveredFits
<1> QED
  BY <1>3, <1>4, <1>7, <1>8, <1>9, <1>18

\* A write that was made although its answer was lost, in any regime.
LEMMA PutInside ==
    ASSUME IInv, Running, NEW r \in Regimes, Inside(r), Taken(Step.when), Step.op = "put",
           world' = Written(Step)
    PROVE  \E c \in Outline[app][r][pc + 1] : Fits(app, mem, world', c)
<1>1. app \in DOMAIN Apps /\ DOMAIN mem = Keys(app) /\ DOMAIN world = Keys(app)
  BY KeysFacts
<1>2. pc \in DOMAIN Apps[app].steps /\ Step = Apps[app].steps[pc]
  BY <1>1, InProgram
<1>3. PICK a : a = app
  OBVIOUS
<1>4. PICK m : m = mem
  OBVIOUS
<1>5. PICK w : w = world
  OBVIOUS
<1>6. PICK w2 : w2 = world'
  OBVIOUS
<1>7. PICK s : s = Step
  OBVIOUS
<1>8. PICK i : i = pc
  OBVIOUS
<1>9. PICK c \in Outline[a][r][i] : Fits(a, m, w, c)
  BY <1>3, <1>4, <1>5, <1>8 DEF Inside
<1>10. DOMAIN m = Keys(a) /\ DOMAIN w = Keys(a)
  BY <1>1, <1>3, <1>4, <1>5
<1>11. Holds(m, s.when) /\ s.op = "put" /\ w2 = IF w[s.key] \notin s.vals THEN Change(w, s.eff) ELSE w
  BY <1>4, <1>5, <1>6, <1>7 DEF Taken, Written, Needed
<1>12. Follows(m, w, s, m, w2)
  BY <1>11 DEF Follows, Answers
<1>13. PICK d \in After(c, s) : Fits(a, m, w2, d)
  BY <1>9, <1>10, <1>12, AfterFits
<1>14. Closed(a, Outline[a], r)
  BY <1>1, <1>3, OutlineFacts
<1>15. i \in DOMAIN Apps[a].steps /\ s = Apps[a].steps[i]
  BY <1>2, <1>3, <1>7, <1>8
<1>16. Covered(a, d, Outline[a][r][i + 1])
  BY <1>9, <1>13, <1>14, <1>15 DEF Closed
<1>17. \E e \in Outline[a][r][i + 1] : Fits(a, m, w2, e)
  BY <1>13, <1>16, CoveredFits
<1> QED
  BY <1>3, <1>4, <1>6, <1>8, <1>17

\* The end of a run leaves what is possible between runs.
LEMMA EndInside ==
    ASSUME IInv, NEW q, End(q), NEW j \in 0..(Len(Apps[app].steps) + 1),
           \E c \in Outline[app]["any"][j] : Fits(app, mem, world', c)
    PROVE  Outlined'
<1>1. app \in DOMAIN Apps /\ DOMAIN mem = Keys(app)
  BY KeysFacts
<1>2. PICK a : a = app
  OBVIOUS
<1>3. PICK m : m = mem
  OBVIOUS
<1>4. PICK w : w = world'
  OBVIOUS
<1>5. PICK n : n = mem'
  OBVIOUS
<1>6. PICK c \in Outline[a]["any"][j] : Fits(a, m, w, c)
  BY <1>2, <1>3, <1>4
<1>7. \A k \in Keys(a) : n[k] = None
  BY <1>1, <1>2, <1>5 DEF End
<1>8. Fits(a, n, w, Forgot(c))
  BY <1>6, <1>7, ForgotFits
<1>9. Disturbed(a, Outline[a]) /\ j \in 0..(Len(Apps[a].steps) + 1)
  BY <1>1, <1>2, OutlineFacts
<1>10. Covered(a, Forgot(c), Outline[a]["any"][0])
  BY <1>6, <1>9 DEF Disturbed
<1>11. \E e \in Outline[a]["any"][0] : Fits(a, n, w, e)
  BY <1>8, <1>10, CoveredFits
<1>12. pc' = 0 /\ app' = app
  BY DEF End
<1> QED
  BY <1>2, <1>4, <1>5, <1>11, <1>12 DEF Outlined, Inside

\* A cell that is right, and the app that fits it, are configured.
LEMMA RightConfigured ==
    ASSUME NEW a, NEW m, NEW w, NEW c, Fits(a, m, w, c), Right(a, c), DOMAIN Apps[a].goal \subseteq Keys(a)
    PROVE  \A k \in DOMAIN Apps[a].goal : w[k] \in Wanted(a, k)
<1>1. ~Vacant(a, c)
  BY NotVacant
<1>2. SUFFICES ASSUME NEW k \in DOMAIN Apps[a].goal PROVE w[k] \in Wanted(a, k)
  OBVIOUS
<1> DEFINE t == <<k, m[k], w[k]>>
<1>3. t \in c
  BY <1>2 DEF Fits
<1>4. t[1] \in DOMAIN Apps[a].goal => t[3] \in Wanted(a, t[1])
  BY <1>1, <1>3 DEF Right
<1> QED
  BY <1>2, <1>4

\* Configured, in the outline's words.
LEMMA ConfiguredIs ==
    Configured(world) <=> \A k \in DOMAIN Apps[app].goal : world[k] \in Wanted(app, k)
BY DEF Configured, Holds, Done, Gap, Wanted

\* A clean run that ends at a stop ends on a configured app ...
LEMMA StopConfigured ==
    ASSUME FInv, Running, Taken(Step.when), Step.op = "stop", world[Step.key] \in Step.vals,
           ~touched, trouble = "none"
    PROVE  Configured(world)
<1>1. app \in DOMAIN Apps
  BY KeysFacts DEF FInv
<1>2. pc \in DOMAIN Apps[app].steps /\ Step = Apps[app].steps[pc] /\ pc # 0
  BY <1>1, InProgram DEF Running
<1>3. PICK a : a = app
  OBVIOUS
<1>4. PICK m : m = mem
  OBVIOUS
<1>5. PICK w : w = world
  OBVIOUS
<1>6. PICK s : s = Step
  OBVIOUS
<1>7. PICK i : i = pc
  OBVIOUS
<1>8. PICK c \in Outline[a]["clean"][i] : Fits(a, m, w, c)
  BY <1>2, <1>3, <1>4, <1>5, <1>7 DEF FInv, Outlined, Inside
<1>9. Holds(m, s.when) /\ w[s.key] \in s.vals
  BY <1>4, <1>5, <1>6 DEF Taken
<1>10. Fits(a, m, w, Found(Entered(c, s), s))
  BY <1>8, <1>9, EnteredFits, FoundFits
<1>11. EndsRight(a, Outline[a]) /\ DOMAIN Apps[a].goal \subseteq Keys(a)
  BY <1>1, <1>3, OutlineFacts DEF Named
<1>12. i \in DOMAIN Apps[a].steps /\ s = Apps[a].steps[i] /\ s.op = "stop"
  BY <1>2, <1>3, <1>6, <1>7
<1>13. Right(a, Found(Entered(c, s), s))
  BY <1>8, <1>11, <1>12 DEF EndsRight
<1>14. \A k \in DOMAIN Apps[a].goal : w[k] \in Wanted(a, k)
  BY <1>10, <1>11, <1>13, RightConfigured
<1> QED
  BY <1>3, <1>5, <1>14, ConfiguredIs

\* ... and so does one that reaches its end.
LEMMA EndConfigured ==
    ASSUME FInv, pc = Len(Steps) + 1, ~touched, trouble = "none"
    PROVE  Configured(world)
<1>1. app \in DOMAIN Apps /\ Len(Steps) \in Nat
  BY KeysFacts, LengthIsNat DEF FInv
<1>2. PICK a : a = app
  OBVIOUS
<1>3. PICK m : m = mem
  OBVIOUS
<1>4. PICK w : w = world
  OBVIOUS
<1>5. PICK c \in Outline[a]["clean"][Len(Apps[a].steps) + 1] : Fits(a, m, w, c)
  <2>1. pc # 0 /\ pc = Len(Apps[a].steps) + 1
    BY <1>1, <1>2 DEF Steps
  <2> QED
    BY <1>2, <1>3, <1>4, <2>1 DEF FInv, Outlined, Inside
<1>6. EndsRight(a, Outline[a]) /\ DOMAIN Apps[a].goal \subseteq Keys(a)
  BY <1>1, <1>2, OutlineFacts DEF Named
<1>7. Right(a, c)
  BY <1>5, <1>6 DEF EndsRight
<1>8. \A k \in DOMAIN Apps[a].goal : w[k] \in Wanted(a, k)
  BY <1>5, <1>6, <1>7, RightConfigured
<1> QED
  BY <1>2, <1>4, <1>8, ConfiguredIs

-----------------------------------------------------------------------------
\* At the beginning the app is fresh.
LEMMA InitOutlined == Init => FInv
<1> SUFFICES ASSUME Init PROVE FInv
  OBVIOUS
<1>1. IInv
  BY InitInv
<1>2. app \in DOMAIN Apps /\ DOMAIN mem = Keys(app)
  BY <1>1, KeysFacts
<1>3. PICK a : a = app
  OBVIOUS
<1>4. PICK m : m = mem
  OBVIOUS
<1>5. PICK w : w = world
  OBVIOUS
<1>6. Fits(a, m, w, Start(a))
  <2>1. ASSUME NEW k \in Keys(a) PROVE m[k] = None /\ w[k] = Apps[a].fresh[k]
    BY <1>2, <1>3, <1>4, <1>5 DEF Init, Keys
  <2> QED
    BY <2>1 DEF Fits, Start
<1>7. Covered(a, Start(a), Outline[a]["any"][0])
  BY <1>2, <1>3, OutlineFacts DEF Begins
<1>8. \E e \in Outline[a]["any"][0] : Fits(a, m, w, e)
  BY <1>6, <1>7, CoveredFits
<1>9. Outlined
  BY <1>3, <1>4, <1>5, <1>8 DEF Outlined, Inside, Init
<1>10. Converged
  BY DEF Converged, Init
<1> QED
  BY <1>1, <1>9, <1>10 DEF FInv

\* A run begins inside the outline, in each regime it begins in.
LEMMA StartOutlined == ASSUME FInv, StartJob PROVE Outlined'
<1>1. app \in DOMAIN Apps
  BY KeysFacts DEF FInv
<1>2. PICK a : a = app
  OBVIOUS
<1>3. PICK m : m = mem
  OBVIOUS
<1>4. PICK w : w = world
  OBVIOUS
<1>5. pc = 0 /\ pc' = 1 /\ UNCHANGED <<app, mem, world>> /\ settled' = Configured(world)
  BY DEF StartJob
<1>6. PICK c \in Outline[a]["any"][0] : Fits(a, m, w, c)
  BY <1>2, <1>3, <1>4, <1>5 DEF FInv, Outlined, Inside
<1>7. Begins(a, Outline[a])
  BY <1>1, <1>2, OutlineFacts
<1>8. \E e \in Outline[a]["any"][1] : Fits(a, m, w, e)
  BY <1>6, <1>7, CoveredFits DEF Begins
<1>9. \E e \in Outline[a]["clean"][1] : Fits(a, m, w, e)
  BY <1>6, <1>7, CoveredFits DEF Begins
<1>10. ASSUME Configured(world) PROVE \E e \in Outline[a]["settled"][1] : Fits(a, m, w, e)
  <2>1. \A k \in DOMAIN Apps[a].goal : w[k] \in Wanted(a, k)
    BY <1>2, <1>4, <1>10, ConfiguredIs
  <2>2. Fits(a, m, w, Tidy(a, DOMAIN Apps[a].goal, c))
    BY <1>6, <2>1, TidyFits
  <2> QED
    BY <1>6, <1>7, <2>2, CoveredFits DEF Begins
<1> QED
  BY <1>2, <1>3, <1>4, <1>5, <1>8, <1>9, <1>10 DEF Outlined, Inside

\* A person's change stays inside the regime that allows for it.
LEMMA EditOutlined == ASSUME FInv, Edit PROVE Outlined'
<1>1. app \in DOMAIN Apps /\ DOMAIN world = Keys(app) /\ pc \in 0..(Len(Apps[app].steps) + 1)
  BY KeysFacts DEF FInv, IInv, TypeOK, Steps
<1>2. PICK a : a = app
  OBVIOUS
<1>3. PICK m : m = mem
  OBVIOUS
<1>4. PICK w : w = world
  OBVIOUS
<1>5. PICK i : i = pc
  OBVIOUS
<1>6. PICK e \in Apps[a].edits : (Redeclares(e) => i = 0) /\ world' = Change(w, e)
  BY <1>2, <1>4, <1>5 DEF Edit
<1>7. PICK c \in Outline[a]["any"][i] : Fits(a, m, w, c)
  BY <1>2, <1>3, <1>4, <1>5 DEF FInv, Outlined, Inside
<1>8. Fits(a, m, Change(w, e), Put(c, e))
  BY <1>1, <1>2, <1>4, <1>7, PutFits
<1>9. Disturbed(a, Outline[a]) /\ i \in 0..(Len(Apps[a].steps) + 1)
  BY <1>1, <1>2, <1>5, OutlineFacts
<1>10. Covered(a, Put(c, e), Outline[a]["any"][i])
  BY <1>6, <1>7, <1>9 DEF Disturbed
<1>11. \E d \in Outline[a]["any"][i] : Fits(a, m, Change(w, e), d)
  BY <1>8, <1>10, CoveredFits
<1>12. app' = app /\ mem' = mem /\ pc' = pc /\ touched' /\ ~settled'
  BY DEF Edit
<1> QED
  BY <1>2, <1>3, <1>5, <1>6, <1>11, <1>12 DEF Outlined, Inside

\* A step after which the run goes on.
LEMMA GoesOnOutlined ==
    ASSUME FInv, Running, Follows(mem, world, Step, mem', world'), Advance,
           UNCHANGED <<app, trouble, touched, settled>>
    PROVE  Outlined'
<1>1. pc # 0
  BY DEF Running
<1>2. ASSUME NEW r \in Regimes, Inside(r) PROVE Inside(r)'
  <2>1. \E c \in Outline[app][r][pc + 1] : Fits(app, mem', world', c)
    BY <1>2, FollowsInside DEF FInv
  <2> QED
    BY <2>1 DEF Inside, Advance
<1>3. Inside("any")'
  BY <1>2 DEF FInv, Outlined, Regimes
<1>4. ~touched /\ trouble = "none" => Inside("clean")'
  BY <1>1, <1>2 DEF FInv, Outlined, Regimes
<1>5. settled => Inside("settled")'
  BY <1>1, <1>2 DEF FInv, Outlined, Regimes
<1> QED
  BY <1>3, <1>4, <1>5 DEF Outlined

\* A failed step: printed and passed over, or the end of the run.
LEMMA FailOutlined ==
    ASSUME FInv, Running, Fail(Step), Taken(Step.when),
           \/ world' = world
           \/ Step.op = "put" /\ world' = Written(Step)
    PROVE  Outlined' /\ Converged'
<1>1. app \in DOMAIN Apps /\ pc # 0
  BY KeysFacts DEF FInv, Running
<1>2. /\ Len(Steps) \in Nat /\ pc \in Nat /\ pc + 1 <= Len(Steps) + 1
      /\ Step.skip \in Nat /\ Step.fails \in {"run", "warning", "task"}
  BY <1>1, StepForm DEF Running
<1>3. CASE Shrug(Step)
  <2>1. /\ Step.fails # "run" /\ mem' = mem /\ app' = app /\ settled' = settled
        /\ pc' = pc + 1 + Step.skip
    BY <1>3 DEF Shrug
  <2>2. trouble' # "none"
    BY <1>2, <1>3 DEF Shrug
  <2>3. ASSUME NEW r \in {"any", "settled"}, Inside(r) PROVE Inside(r)'
    <3>1. \E c \in Outline[app][r][pc + 1 + Step.skip] : Fits(app, mem', world', c)
      BY <2>1, <2>3, ShrugInside DEF FInv
    <3> QED
      BY <2>1, <3>1 DEF Inside
  <2>4. Inside("any")' /\ (settled => Inside("settled")')
    BY <1>1, <2>3 DEF FInv, Outlined
  <2> QED
    BY <2>1, <2>2, <2>4 DEF Outlined, Converged
<1>4. CASE End("failed")
  <2>1. Inside("any")
    BY DEF FInv, Outlined
  <2>2. Converged'
    BY <1>4 DEF End, Converged
  <2>3. CASE world' = world
    <3>1. \E c \in Outline[app]["any"][pc] : Fits(app, mem, world', c)
      BY <2>1, <2>3 DEF Inside
    <3>2. pc \in 0..(Len(Apps[app].steps) + 1)
      BY <1>1, InProgram
    <3>3. Outlined'
      <4>1. PICK j : j = pc
        OBVIOUS
      <4> QED
        BY <1>4, <3>1, <3>2, <4>1, EndInside DEF FInv
    <3> QED
      BY <2>2, <3>3
  <2>4. CASE Step.op = "put" /\ world' = Written(Step)
    <3>3. \E c \in Outline[app]["any"][pc + 1] : Fits(app, mem, world', c)
      BY <2>1, <2>4, PutInside DEF FInv, Regimes
    <3>4. PICK j : j = pc + 1
      OBVIOUS
    <3>5. j \in 0..(Len(Apps[app].steps) + 1)
      BY <1>2, <3>4 DEF Steps
    <3>6. Outlined'
      BY <1>4, <3>3, <3>4, <3>5, EndInside DEF FInv
    <3> QED
      BY <2>2, <3>6
  <2> QED
    BY <2>3, <2>4
<1> QED
  BY <1>3, <1>4 DEF Fail

\* A run that ends where it is.
LEMMA EndOutlined ==
    ASSUME FInv, NEW q, End(q), world' = world
    PROVE  Outlined'
<1>1. \E c \in Outline[app]["any"][pc] : Fits(app, mem, world', c)
  BY DEF FInv, Outlined, Inside
<1>2. pc \in 0..(Len(Apps[app].steps) + 1)
  BY DEF FInv, IInv, TypeOK, Steps
<1>3. PICK j : j = pc
  OBVIOUS
<1> QED
  BY <1>1, <1>2, <1>3, EndInside DEF FInv

\* An answered call stays inside the outline, whichever instruction it is, and a
\* run that ends with it ends on a configured app.
LEMMA ExecuteOutlined == ASSUME FInv, Execute PROVE Outlined' /\ Converged'
<1>1. Running /\ pc # 0
  BY DEF Execute, Running
<1>2. Advance => pc' # 0
  <2>1. pc \in Nat
    BY StepForm, <1>1, KeysFacts DEF FInv
  <2> QED
    BY <2>1 DEF Advance
<1>3. CASE /\ Follows(mem, world, Step, mem', world') /\ Advance
           /\ UNCHANGED <<app, trouble, touched, settled>>
  BY <1>1, <1>2, <1>3, GoesOnOutlined DEF Converged
<1>4. CASE Taken(Step.when) /\ Step.op = "stop" /\ world[Step.key] \in Step.vals /\ End("ok") /\ UNCHANGED world
  <2>1. Outlined'
    BY <1>4, EndOutlined
  <2>2. Converged'
    <3>1. ~touched /\ trouble = "none" => Configured(world)
      BY <1>1, <1>4, StopConfigured
    <3>2. app' = app /\ world' = world /\ touched' = touched /\ trouble' = trouble
      BY <1>4 DEF End
    <3>3. Configured(world)' <=> Configured(world)
      BY <3>2 DEF Configured, Done, Gap
    <3> QED
      BY <3>1, <3>2, <3>3 DEF Converged
  <2> QED
    BY <2>1, <2>2
<1>5. CASE Taken(Step.when) /\ UNCHANGED world /\ Fail(Step)
  BY <1>1, <1>5, FailOutlined
<1>6. CASE UNCHANGED world /\ End("failed")
  BY <1>6, EndOutlined DEF End, Converged
<1>7. \/ /\ Follows(mem, world, Step, mem', world') /\ Advance
         /\ UNCHANGED <<app, trouble, touched, settled>>
      \/ Taken(Step.when) /\ Step.op = "stop" /\ world[Step.key] \in Step.vals /\ End("ok") /\ UNCHANGED world
      \/ Taken(Step.when) /\ UNCHANGED world /\ Fail(Step)
      \/ UNCHANGED world /\ End("failed")
  <2> USE DEF Follows, Answers, Taken
  <2>1. CASE ~Taken(Step.when) /\ Advance /\ UNCHANGED <<app, world, mem, trouble, touched, settled>>
    BY <2>1
  <2>2. CASE /\ Taken(Step.when) /\ Step.op = "read"
             /\ mem' = [k \in DOMAIN mem |-> IF k \in Step.vals THEN world[k] ELSE mem[k]]
             /\ Advance /\ UNCHANGED <<app, world, trouble, touched, settled>>
    BY <2>2
  <2>3. CASE /\ Taken(Step.when) /\ Step.op = "stop" /\ UNCHANGED world
             /\ \/ world[Step.key] \in Step.vals /\ End("ok")
                \/ /\ world[Step.key] \notin Step.vals /\ Advance
                   /\ UNCHANGED <<app, mem, trouble, touched, settled>>
    BY <2>3
  <2>4. CASE /\ Taken(Step.when) /\ Step.op = "need" /\ UNCHANGED world
             /\ \/ Fail(Step)
                \/ /\ world[Step.key] \in Step.vals /\ Advance
                   /\ UNCHANGED <<app, mem, trouble, touched, settled>>
    BY <2>4
  <2>5. CASE /\ Taken(Step.when) /\ Step.op = "put" /\ world' = Written(Step) /\ Advance
             /\ UNCHANGED <<app, mem, trouble, touched, settled>>
    BY <2>5 DEF Written, Needed
  <2>6. CASE /\ Taken(Step.when) /\ Step.op = "outcome" /\ UNCHANGED world
             /\ \/ End("failed")
                \/ Advance /\ UNCHANGED <<app, mem, trouble, touched, settled>>
    BY <2>6
  <2> QED
    BY <2>1, <2>2, <2>3, <2>4, <2>5, <2>6 DEF Execute
<1> QED
  BY <1>3, <1>4, <1>5, <1>6, <1>7

\* Every action keeps the run inside the outline.
LEMMA NextOutlined == FInv /\ [Next]_vars => FInv'
<1> SUFFICES ASSUME FInv, [Next]_vars PROVE FInv'
  OBVIOUS
<1>1. IInv'
  BY NextInv DEF FInv
<1>2. CASE StartJob
  <2>1. Outlined'
    BY <1>2, StartOutlined
  <2>2. Converged'
    BY <1>2 DEF StartJob, Converged
  <2> QED
    BY <1>1, <2>1, <2>2 DEF FInv
<1>3. CASE Execute
  BY <1>1, <1>3, ExecuteOutlined DEF FInv
<1>4. CASE Finish
  <2>1. End("ok") /\ world' = world /\ pc = Len(Steps) + 1
    BY <1>4 DEF Finish
  <2>2. ~touched /\ trouble = "none" => Configured(world)
    BY <2>1, EndConfigured
  <2>3. app' = app /\ touched' = touched /\ trouble' = trouble
    BY <2>1 DEF End
  <2>4. Configured(world)' <=> Configured(world)
    BY <2>1, <2>3 DEF Configured, Done, Gap
  <2>5. Converged'
    BY <2>2, <2>3, <2>4 DEF Converged
  <2> QED
    BY <1>1, <2>1, <2>5, EndOutlined DEF FInv
<1>5. CASE FailCall
  <2>1. Running /\ Fail(Step) /\ Taken(Step.when)
        /\ (world' = world \/ (Step.op = "put" /\ world' = Written(Step)))
    BY <1>5 DEF FailCall
  <2> QED
    BY <1>1, <2>1, FailOutlined DEF FInv
<1>6. CASE Kill
  <2>1. End("failed") /\ world' = world
    BY <1>6 DEF Kill
  <2>2. Converged'
    BY <2>1 DEF End, Converged
  <2> QED
    BY <1>1, <2>1, <2>2, EndOutlined DEF FInv
<1>7. CASE Edit
  BY <1>1, <1>7, EditOutlined DEF FInv, Edit, Converged
<1>8. CASE UNCHANGED vars
  <2>1. Outlined'
    BY <1>8 DEF vars, FInv, Outlined, Inside
  <2>2. Converged'
    BY <1>8 DEF vars, FInv, Converged, Configured, Done, Gap
  <2> QED
    BY <1>1, <2>1, <2>2 DEF FInv
<1> QED
  BY <1>2, <1>3, <1>4, <1>5, <1>6, <1>7, <1>8 DEF Next, Job

\* Runs stay inside the outline in every behaviour.
LEMMA OutlineInvariant == Spec => []FInv
<1> QED
  BY InitOutlined, NextOutlined, PTL DEF Spec

-----------------------------------------------------------------------------
\* A run that ends well, printed no warning and met nobody at work leaves the app
\* configured, whatever any number of earlier runs died in the middle of (the run()
\* of every bootstrap): for every program that has an outline, and TLC finds one for
\* each of the 33.
THEOREM AlwaysConverges == Spec => []Converged
<1>1. FInv => Converged
  BY DEF FInv
<1> QED
  BY <1>1, OutlineInvariant, PTL

\* What must hold at no moment holds at none: jellyfin-bootstrap deletes a key only
\* when Maintainerr holds a newer one, however often it is interrupted.
THEOREM NothingBroken == Spec => []NeverBroken
<1>1. ASSUME FInv PROVE NeverBroken
  <2>1. app \in DOMAIN Apps /\ pc \in 0..(Len(Apps[app].steps) + 1)
    BY <1>1, KeysFacts DEF FInv, IInv, TypeOK, Steps
  <2>2. PICK a : a = app
    OBVIOUS
  <2>3. PICK m : m = mem
    OBVIOUS
  <2>4. PICK w : w = world
    OBVIOUS
  <2>5. PICK i : i = pc
    OBVIOUS
  <2>6. PICK c \in Outline[a]["any"][i] : Fits(a, m, w, c)
    BY <1>1, <2>2, <2>3, <2>4, <2>5 DEF FInv, Outlined, Inside
  <2>7. ShutsOut(a, Outline[a]) /\ Named(a) /\ i \in 0..(Len(Apps[a].steps) + 1)
    BY <2>1, <2>2, <2>5, OutlineFacts
  <2>8. ASSUME NEW bad \in NeverOf(a) PROVE ~Holds(w, bad)
    <3>1. PICK k \in DOMAIN bad : \A t \in c : t[1] = k => t[3] \notin bad[k]
      BY <2>6, <2>7, <2>8 DEF ShutsOut
    <3>2. k \in Keys(a)
      BY <2>7, <2>8, <3>1 DEF Named
    <3> DEFINE t == <<k, m[k], w[k]>>
    <3>3. t \in c /\ t[1] = k /\ t[3] = w[k]
      BY <2>6, <3>2 DEF Fits
    <3>4. w[k] \notin bad[k]
      BY <3>1, <3>3
    <3> QED
      BY <3>1, <3>4 DEF Holds
  <2>9. NeverOf(a) = Never
    BY <2>2 DEF NeverOf, Never
  <2> QED
    BY <2>4, <2>8, <2>9 DEF NeverBroken
<1> QED
  BY <1>1, OutlineInvariant, PTL

-----------------------------------------------------------------------------
\* A write in a settled run writes what is there.
LEMMA SettledWrite ==
    ASSUME FInv, Running, settled, Taken(Step.when), Step.op = "put", world' = Written(Step),
           NEW k \in DOMAIN world \ Own
    PROVE  world'[k] = world[k]
<1>1. app \in DOMAIN Apps /\ DOMAIN world = Keys(app) /\ pc # 0
  BY KeysFacts DEF FInv, Running
<1>2. pc \in DOMAIN Apps[app].steps /\ Step = Apps[app].steps[pc]
  BY <1>1, InProgram
<1>3. CASE ~Needed(Step) \/ k \notin DOMAIN Step.eff
  BY <1>3 DEF Written, Change
<1>4. CASE Needed(Step) /\ k \in DOMAIN Step.eff
  <2>1. PICK a : a = app
    OBVIOUS
  <2>2. PICK m : m = mem
    OBVIOUS
  <2>3. PICK w : w = world
    OBVIOUS
  <2>4. PICK s : s = Step
    OBVIOUS
  <2>5. PICK i : i = pc
    OBVIOUS
  <2>6. PICK c \in Outline[a]["settled"][i] : Fits(a, m, w, c)
    BY <1>1, <2>1, <2>2, <2>3, <2>5 DEF FInv, Outlined, Inside
  <2>7. Holds(m, s.when) /\ w[s.key] \notin s.vals
    BY <1>4, <2>2, <2>3, <2>4 DEF Taken, Needed
  <2>8. Fits(a, m, w, Missed(Entered(c, s), s))
    BY <2>6, <2>7, EnteredFits, MissedFits
  <2>9. i \in DOMAIN Apps[a].steps /\ s = Apps[a].steps[i] /\ s.op = "put"
    BY <1>2, <2>1, <2>4, <2>5
  <2>10. WritesSame(a, Outline[a])
    BY <1>1, <2>1, OutlineFacts
  <2>11. Same(a, Missed(Entered(c, s), s), s)
    BY <2>6, <2>9, <2>10 DEF WritesSame
  <2>12. ~Vacant(a, Missed(Entered(c, s), s))
    BY <2>8, NotVacant
  <2> DEFINE t == <<k, m[k], w[k]>>
  <2>13. t \in Missed(Entered(c, s), s) /\ t[1] = k /\ t[3] = w[k]
    BY <1>1, <2>1, <2>8 DEF Fits
  <2>14. k \in DOMAIN s.eff \ OwnOf(a)
    BY <1>4, <2>1, <2>4 DEF OwnOf, Own
  <2>15. w[k] = s.eff[k]
    BY <2>11, <2>12, <2>13, <2>14 DEF Same
  <2>16. world'[k] = Step.eff[k]
    BY <1>4 DEF Written, Change
  <2> QED
    BY <2>3, <2>4, <2>15, <2>16
<1> QED
  BY <1>3, <1>4

\* No step of a settled run changes anything.
LEMMA QuietStep ==
    ASSUME FInv, [Next]_vars, settled, settled', NEW k \in DOMAIN world \ Own
    PROVE  world'[k] = world[k]
<1>1. CASE UNCHANGED world
  BY <1>1
<1>2. CASE Running /\ Taken(Step.when) /\ Step.op = "put" /\ world' = Written(Step)
  BY <1>2, SettledWrite
<1>3. CASE Execute
  BY <1>1, <1>2, <1>3 DEF Execute
<1>4. CASE FailCall
  BY <1>1, <1>2, <1>4 DEF FailCall
<1>5. CASE StartJob \/ Finish \/ Kill \/ UNCHANGED vars
  BY <1>1, <1>5 DEF StartJob, Finish, Kill, vars
<1>6. CASE Edit
  BY <1>6 DEF Edit
<1> QED
  BY <1>3, <1>4, <1>5, <1>6 DEF Next, Job

\* main.rs: "a rerun against a configured app changes nothing", also when some of its
\* calls fail: for every program that has an outline.
THEOREM RerunsQuiet == Spec => Quiet
<1>1. FInv /\ [Next]_vars =>
        [settled /\ settled' => \A k \in DOMAIN world \ Own : world'[k] = world[k]]_vars
  BY QuietStep
<1> QED
  BY <1>1, OutlineInvariant, PTL DEF Spec, Quiet

-----------------------------------------------------------------------------
(* Every program with an outline implements Converge.                      *)

Good == \A k \in DOMAIN Done \ Own : world[k] \in Done[k] \cup Gap(k)

\* Good, in the outline's words.
LEMMA GoodIs == Good <=> \A k \in Lasting(app) : world[k] \in Wanted(app, k)
BY DEF Good, Done, Own, Gap, Lasting, OwnOf, Wanted

\* A write from a cell that declares what it writes leaves a good app good.
LEMMA GoodWrite ==
    ASSUME FInv, Running, NEW r \in Regimes, Inside(r), Taken(Step.when), Step.op = "put",
           r = "clean" \/ (r = "any" /\ Step.fails = "run"),
           world' = Written(Step), app' = app, Good
    PROVE  Good'
<1>1. app \in DOMAIN Apps /\ DOMAIN world = Keys(app)
  BY KeysFacts DEF FInv
<1>2. pc \in DOMAIN Apps[app].steps /\ Step = Apps[app].steps[pc]
  BY <1>1, InProgram
<1>3. CASE ~Needed(Step)
  BY <1>3 DEF Written, Good, Done, Own, Gap
<1>4. CASE Needed(Step)
  <2>1. PICK a : a = app
    OBVIOUS
  <2>2. PICK m : m = mem
    OBVIOUS
  <2>3. PICK w : w = world
    OBVIOUS
  <2>4. PICK s : s = Step
    OBVIOUS
  <2>5. PICK i : i = pc
    OBVIOUS
  <2>6. PICK c \in Outline[a][r][i] : Fits(a, m, w, c)
    BY <2>1, <2>2, <2>3, <2>5 DEF Inside
  <2>7. Holds(m, s.when) /\ w[s.key] \notin s.vals
    BY <1>4, <2>2, <2>3, <2>4 DEF Taken, Needed
  <2>8. Fits(a, m, w, Missed(Entered(c, s), s))
    BY <2>6, <2>7, EnteredFits, MissedFits
  <2>9. \A k \in Lasting(a) : w[k] \in Wanted(a, k)
    BY <2>1, <2>3, GoodIs
  <2>10. Fits(a, m, w, Tidy(a, Lasting(a), Missed(Entered(c, s), s)))
    BY <2>8, <2>9, TidyFits
  <2>11. ~Vacant(a, Tidy(a, Lasting(a), Missed(Entered(c, s), s)))
    BY <2>10, NotVacant
  <2>12. i \in DOMAIN Apps[a].steps /\ s = Apps[a].steps[i] /\ s.op = "put"
    BY <1>2, <2>1, <2>4, <2>5
  <2>13. WritesRight(a, Outline[a]) /\ DOMAIN Apps[a].goal \subseteq Keys(a)
    BY <1>1, <2>1, OutlineFacts DEF Named
  <2>14. Declared(a, c, s)
    BY <2>4, <2>6, <2>12, <2>13 DEF WritesRight
  <2>15. \A k \in DOMAIN s.eff \cap Lasting(a) : s.eff[k] \in Wanted(a, k)
    BY <2>11, <2>14 DEF Declared
  <2>16. world' = Change(w, s.eff) /\ DOMAIN w = Keys(a)
    BY <1>1, <1>4, <2>1, <2>3, <2>4 DEF Written
  <2>17. ASSUME NEW k \in Lasting(a) PROVE world'[k] \in Wanted(a, k)
    <3>1. k \in DOMAIN w
      BY <2>13, <2>16, <2>17 DEF Lasting
    <3>2. world'[k] = IF k \in DOMAIN s.eff THEN s.eff[k] ELSE w[k]
      BY <2>16, <3>1 DEF Change
    <3> QED
      BY <2>9, <2>15, <2>17, <3>2
  <2>18. \A k \in Lasting(app') : world'[k] \in Wanted(app', k)
    BY <2>1, <2>17
  <2> QED
    BY <2>18 DEF Good, Done, Own, Gap, Lasting, OwnOf, Wanted
<1> QED
  BY <1>3, <1>4

Doubt == touched \/ trouble # "none"

\* The actions of Converge in Bootstrap's variables: a run begins ...
LEMMA IsBegin ==
    ASSUME pc = 0, pc' # 0, ~Doubt', Good' <=> Good, result' = result
    PROVE  Abstract!Begin
BY DEF Abstract!Begin, Good, Doubt

\* ... makes the app no worse ...
LEMMA IsWork ==
    ASSUME pc # 0, pc' # 0, Good => Good', Doubt => Doubt', result' = result
    PROVE  Abstract!Work
BY DEF Abstract!Work, Good, Doubt

\* ... succeeds on a good app or in doubt ...
LEMMA IsSucceed ==
    ASSUME pc # 0, Good \/ Doubt, pc' = 0, result' = "ok", Good' <=> Good, Doubt' <=> Doubt
    PROVE  Abstract!Succeed
BY DEF Abstract!Succeed, Good, Doubt

\* ... or gives up, the call it failed on perhaps made ...
LEMMA IsGiveUp ==
    ASSUME pc # 0, pc' = 0, result' = "failed", Good => Good', Doubt' <=> Doubt
    PROVE  Abstract!GiveUp
BY DEF Abstract!GiveUp, Good, Doubt

\* ... and anything may happen to the app of a run in doubt.
LEMMA IsDisturb ==
    ASSUME Doubt', (pc' = 0) <=> (pc = 0), result' = result
    PROVE  Abstract!Disturb
BY DEF Abstract!Disturb, Good, Doubt

\* A fresh app and no run.
LEMMA IsInit == ASSUME Init PROVE Abstract!Init
BY DEF Init, Abstract!Init

\* What leaves the app alone leaves it as good as it was.
LEMMA GoodKept == ASSUME world' = world, app' = app PROVE Good' <=> Good
BY DEF Good, Done, Own, Gap

\* A run that fails gives up ...
LEMMA FailedEnd ==
    ASSUME pc # 0, End("failed"), Good => Good'
    PROVE  Abstract!Next
<1>1. pc' = 0 /\ result' = "failed" /\ (Doubt' <=> Doubt)
  BY DEF End, Doubt
<1> QED
  BY <1>1, IsGiveUp DEF Abstract!Next

\* ... and one that ends well succeeds.
LEMMA GoodEnd ==
    ASSUME pc # 0, End("ok"), world' = world, ~touched /\ trouble = "none" => Configured(world)
    PROVE  Abstract!Next
<1>1. pc' = 0 /\ result' = "ok" /\ app' = app /\ (Doubt' <=> Doubt)
  BY DEF End, Doubt
<1>2. Good \/ Doubt
  BY DEF Configured, Holds, Good, Doubt
<1> QED
  BY <1>1, <1>2, GoodKept, IsSucceed DEF Abstract!Next

\* A step after which the run goes on works, or is one of a run already in doubt.
LEMMA GoingOn ==
    ASSUME FInv, Running, Advance, UNCHANGED <<app, result, trouble, touched>>,
           \/ world' = world
           \/ Taken(Step.when) /\ Step.op = "put" /\ world' = Written(Step)
    PROVE  Abstract!Next
<1>1. pc # 0 /\ pc' # 0
  BY StepForm, KeysFacts DEF FInv, Running, Advance
<1>2. Doubt' <=> Doubt
  BY DEF Doubt
<1>3. CASE Doubt
  BY <1>1, <1>2, <1>3, IsDisturb DEF Abstract!Next
<1>4. CASE ~Doubt
  <2>1. Good => Good'
    <3>1. CASE world' = world
      BY <3>1, GoodKept
    <3>2. CASE Taken(Step.when) /\ Step.op = "put" /\ world' = Written(Step)
      <4>1. Inside("clean")
        BY <1>1, <1>4 DEF FInv, Outlined, Doubt
      <4> QED
        BY <3>2, <4>1, GoodWrite DEF Regimes
    <3> QED
      BY <3>1, <3>2
  <2> QED
    BY <1>1, <1>2, <2>1, IsWork DEF Abstract!Next
<1> QED
  BY <1>3, <1>4

\* A failed step leaves a doubt, or ends the run: then the write it failed on, if it
\* was made all the same, left a good app good even in a disturbed run.
LEMMA Failing ==
    ASSUME FInv, Running, Fail(Step), Taken(Step.when),
           \/ world' = world
           \/ Step.op = "put" /\ world' = Written(Step)
    PROVE  Abstract!Next
<1>1. app \in DOMAIN Apps /\ pc # 0
  BY KeysFacts DEF FInv, Running
<1>2. pc \in Nat /\ Step.skip \in Nat /\ Step.fails \in {"run", "warning", "task"}
  BY <1>1, StepForm
<1>3. CASE Shrug(Step)
  <2>1. pc' = pc + 1 + Step.skip /\ result' = result /\ trouble' # "none"
    BY <1>2, <1>3 DEF Shrug
  <2>2. Doubt' /\ pc' # 0
    BY <1>2, <2>1 DEF Doubt
  <2> QED
    BY <1>1, <2>1, <2>2, IsDisturb DEF Abstract!Next
<1>4. CASE Step.fails = "run" /\ End("failed")
  <2>1. app' = app
    BY <1>4 DEF End
  <2>2. CASE world' = world
    BY <1>1, <1>4, <2>1, <2>2, GoodKept, FailedEnd
  <2>3. CASE Step.op = "put" /\ world' = Written(Step)
    <3>1. Inside("any")
      BY DEF FInv, Outlined
    <3>2. Good => Good'
      BY <1>4, <2>1, <2>3, <3>1, GoodWrite DEF Regimes
    <3> QED
      BY <1>1, <1>4, <3>2, FailedEnd
  <2> QED
    BY <2>2, <2>3
<1> QED
  BY <1>3, <1>4 DEF Fail

\* An answered call, whichever instruction it is.
LEMMA Executing == ASSUME FInv, Execute PROVE Abstract!Next
<1>1. Running /\ pc # 0
  BY DEF Execute, Running
<1>2. CASE Advance /\ UNCHANGED <<app, world, result, trouble, touched>>
  BY <1>1, <1>2, GoingOn
<1>3. CASE /\ Taken(Step.when) /\ Step.op = "stop" /\ UNCHANGED world
           /\ world[Step.key] \in Step.vals /\ End("ok")
  BY <1>1, <1>3, StopConfigured, GoodEnd
<1>4. CASE Taken(Step.when) /\ UNCHANGED world /\ Fail(Step)
  BY <1>1, <1>4, Failing
<1>5. CASE /\ Taken(Step.when) /\ Step.op = "put" /\ world' = Written(Step) /\ Advance
           /\ UNCHANGED <<app, result, trouble, touched>>
  BY <1>1, <1>5, GoingOn
<1>6. CASE UNCHANGED world /\ End("failed")
  <2>1. app' = app
    BY <1>6 DEF End
  <2> QED
    BY <1>1, <1>6, <2>1, GoodKept, FailedEnd
<1> QED
  BY <1>2, <1>3, <1>4, <1>5, <1>6 DEF Execute

\* Every step of Bootstrap is a step of Converge, or none.
LEMMA StepRefines == FInv /\ [Next]_vars => [Abstract!Next]_(Abstract!vars)
<1> SUFFICES ASSUME FInv, [Next]_vars PROVE Abstract!Next \/ UNCHANGED Abstract!vars
  OBVIOUS
<1>1. CASE StartJob
  <2>1. pc = 0 /\ pc' # 0 /\ ~Doubt' /\ result' = result /\ world' = world /\ app' = app
    BY <1>1 DEF StartJob, Doubt
  <2> QED
    BY <2>1, GoodKept, IsBegin DEF Abstract!Next
<1>2. CASE Execute
  BY <1>2, Executing
<1>3. CASE Finish
  <2>1. End("ok") /\ world' = world /\ pc = Len(Steps) + 1
    BY <1>3 DEF Finish
  <2>2. pc # 0
    BY <2>1, LengthIsNat, KeysFacts DEF FInv
  <2> QED
    BY <2>1, <2>2, EndConfigured, GoodEnd
<1>4. CASE FailCall
  <2>1. Running /\ Fail(Step) /\ Taken(Step.when)
        /\ (world' = world \/ (Step.op = "put" /\ world' = Written(Step)))
    BY <1>4 DEF FailCall
  <2> QED
    BY <2>1, Failing
<1>5. CASE Kill
  <2>1. pc # 0 /\ End("failed") /\ world' = world /\ app' = app
    BY <1>5 DEF Kill, End
  <2> QED
    BY <2>1, GoodKept, FailedEnd
<1>6. CASE Edit
  <2>1. Doubt' /\ pc' = pc /\ result' = result
    BY <1>6 DEF Edit, Doubt
  <2> QED
    BY <2>1, IsDisturb DEF Abstract!Next
<1>7. CASE UNCHANGED vars
  BY <1>7 DEF vars, Abstract!vars, Done, Own, Gap
<1> QED
  BY <1>1, <1>2, <1>3, <1>4, <1>5, <1>6, <1>7 DEF Next, Job

\* Every bootstrap that has an outline keeps the promise of Converge: no step of a run
\* puts a configured app wrong, not even for a moment, and success is reported only
\* for an app that is right.
THEOREM KeepsPromise == Spec => Implements
<1>1. Init => Abstract!Init
  BY IsInit
<1> QED
  BY <1>1, OutlineInvariant, StepRefines, PTL DEF Spec, Implements, Abstract!Spec
=============================================================================
