-------------------------- MODULE BootstrapOutline --------------------------
(***************************************************************************)
(* What can be known of an app at each instruction of its bootstrap.       *)
(*                                                                         *)
(* An outline of a program gives a set of cells for each instruction; a    *)
(* cell is the set of the <<key, what the run remembers of it, what the    *)
(* app holds>> that are possible there together.  There is an outline for  *)
(* each of three regimes:                                                  *)
(*   any      at any moment, whatever failed and whoever is at work;       *)
(*   clean    in a run that printed no warning and that nobody disturbed;  *)
(*   settled  in a run that began on a configured app, whatever failed.    *)
(* Here each instruction is looked at on its own, and no run of a program: *)
(* that a run stays inside an outline when every instruction does is what  *)
(* BootstrapProofs proves.                                                 *)
(***************************************************************************)
EXTENDS Bootstrap

CONSTANT Outline   \* app -> regime -> 0..(length + 1) -> set of cells; 0: no run

-----------------------------------------------------------------------------
(* Cells.                                                                  *)

Keys(a) == DOMAIN Apps[a].fresh
Fits(a, m, w, c) == \A k \in Keys(a) : <<k, m[k], w[k]>> \in c
Vacant(a, c) == \E k \in Keys(a) : \A t \in c : t[1] # k
Covered(a, c, S) == (\E d \in S : c \subseteq d) \/ Vacant(a, c)

\* What a program takes for done, for good or only while it runs (Bootstrap's Done,
\* Gap and Own).
Wanted(a, k) ==
    Apps[a].goal[k] \cup
        IF "gap" \in DOMAIN Apps[a] /\ k \in DOMAIN Apps[a].gap THEN Apps[a].gap[k] ELSE {}
OwnOf(a) == IF "own" \in DOMAIN Apps[a] THEN Apps[a].own ELSE {}
NeverOf(a) == IF "never" \in DOMAIN Apps[a] THEN Apps[a].never ELSE {}
Lasting(a) == DOMAIN Apps[a].goal \ OwnOf(a)
Tidy(a, K, c) == {t \in c : t[1] \in K => t[3] \in Wanted(a, t[1])}

\* The step is inside an `if` on k and is not taken; it is taken.
Passed(c, s, k) == {t \in c : t[1] = k => t[2] \notin s.when[k]}
Entered(c, s) == {t \in c : t[1] \in DOMAIN s.when => t[2] \in s.when[t[1]]}
\* The look-up finds one of the values; it does not.
Found(c, s) == {t \in c : t[1] = s.key => t[3] \in s.vals}
Missed(c, s) == {t \in c : t[1] = s.key => t[3] \notin s.vals}
\* A write, a read, the end of a run.
Put(c, eff) == {<<t[1], t[2], IF t[1] \in DOMAIN eff THEN eff[t[1]] ELSE t[3]>> : t \in c}
Noted(c, K) == {<<t[1], IF t[1] \in K THEN t[3] ELSE t[2], t[3]>> : t \in c}
Forgot(c) == {<<t[1], None, t[3]>> : t \in c}

\* What an instruction leads to when the run goes on, and when its call fails.
Answered(t, s) ==
    CASE s.op = "read" -> {Noted(t, s.vals)}
      [] s.op = "stop" -> {Missed(t, s)}
      [] s.op = "need" -> {Found(t, s)}
      [] s.op = "put"  -> {Found(t, s), Put(Missed(t, s), s.eff)}
      [] OTHER         -> {t}
After(c, s) == {Passed(c, s, k) : k \in DOMAIN s.when} \cup Answered(Entered(c, s), s)
Failed(c, s) == {Entered(c, s)} \cup IF s.op = "put" THEN Answered(Entered(c, s), s) ELSE {}

-----------------------------------------------------------------------------
(* An outline is closed: each instruction leads from its cells to cells of *)
(* the next one, or of the one a failure skips to.                         *)

Start(a) == {<<k, None, Apps[a].fresh[k]>> : k \in Keys(a)}

Closed(a, O, r) ==
    LET P == Apps[a].steps
    IN  \A i \in DOMAIN P : \A c \in O[r][i] :
           /\ \A d \in After(c, P[i]) : Covered(a, d, O[r][i + 1])
           /\ r # "clean" /\ P[i].fails # "run" =>
                \A d \in Failed(c, P[i]) : Covered(a, d, O[r][i + 1 + P[i].skip])

\* A run begins on whatever there is; a settled one on a configured app.
Begins(a, O) ==
    /\ Covered(a, Start(a), O.any[0])
    /\ \A c \in O.any[0] :
          /\ Covered(a, c, O.any[1])
          /\ Covered(a, c, O.clean[1])
          /\ Covered(a, Tidy(a, DOMAIN Apps[a].goal, c), O.settled[1])

\* At any moment a run may end, and somebody may change the app.
Disturbed(a, O) ==
    \A i \in 0..(Len(Apps[a].steps) + 1) : \A c \in O.any[i] :
        /\ Covered(a, Forgot(c), O.any[0])
        /\ \A e \in Apps[a].edits : (Redeclares(e) => i = 0) => Covered(a, Put(c, e), O.any[i])

\* The keys a program names are keys of its app.
Named(a) ==
    /\ DOMAIN Apps[a].goal \subseteq Keys(a)
    /\ \A bad \in NeverOf(a) : DOMAIN bad \subseteq Keys(a)
    /\ \A i \in DOMAIN Apps[a].steps :
          LET s == Apps[a].steps[i]
          IN  DOMAIN s.when \subseteq Keys(a) /\ (s.op \in {"stop", "need", "put"} => s.key \in Keys(a))

ASSUME OutlineClosed ==
    \A a \in DOMAIN Apps :
        LET O == Outline[a]
        IN  /\ Named(a) /\ Begins(a, O) /\ Disturbed(a, O)
            /\ Closed(a, O, "any") /\ Closed(a, O, "clean") /\ Closed(a, O, "settled")

-----------------------------------------------------------------------------
(* What the outline says of single instructions.                           *)

Right(a, c) == Vacant(a, c) \/ \A t \in c : t[1] \in DOMAIN Apps[a].goal => t[3] \in Wanted(a, t[1])

\* A clean run ends, behind its last instruction or at a stop, on a configured app.
EndsRight(a, O) ==
    LET P == Apps[a].steps
    IN  /\ \A c \in O.clean[Len(P) + 1] : Right(a, c)
        /\ \A i \in DOMAIN P : P[i].op = "stop" => \A c \in O.clean[i] : Right(a, Found(Entered(c, P[i]), P[i]))

\* What is written on a configured app is what is declared: in a clean run, and in
\* every run that ends with the write's failure.
Declared(a, c, s) ==
    \/ Vacant(a, Tidy(a, Lasting(a), Missed(Entered(c, s), s)))
    \/ \A k \in DOMAIN s.eff \cap Lasting(a) : s.eff[k] \in Wanted(a, k)
WritesRight(a, O) ==
    LET P == Apps[a].steps
    IN  \A i \in DOMAIN P : P[i].op = "put" =>
           /\ \A c \in O.clean[i] : Declared(a, c, P[i])
           /\ P[i].fails = "run" => \A c \in O.any[i] : Declared(a, c, P[i])

\* What is written in a settled run is what is there.
Same(a, c, s) ==
    \/ Vacant(a, c)
    \/ \A t \in c : t[1] \in DOMAIN s.eff \ OwnOf(a) => t[3] = s.eff[t[1]]
WritesSame(a, O) ==
    LET P == Apps[a].steps
    IN  \A i \in DOMAIN P : P[i].op = "put" =>
           \A c \in O.settled[i] : Same(a, Missed(Entered(c, P[i]), P[i]), P[i])

\* What must hold at no moment is possible in no cell.
ShutsOut(a, O) ==
    \A i \in 0..(Len(Apps[a].steps) + 1) : \A c \in O.any[i] : \A bad \in NeverOf(a) :
        \E k \in DOMAIN bad : \A t \in c : t[1] = k => t[3] \notin bad[k]

ASSUME OutlineProves ==
    \A a \in DOMAIN Apps :
        LET O == Outline[a]
        IN  EndsRight(a, O) /\ WritesRight(a, O) /\ WritesSame(a, O) /\ ShutsOut(a, O)
=============================================================================
