------------------------------ MODULE Bootstrap ------------------------------
(***************************************************************************)
(* The bootstrap Jobs of src/apps/app-bootstrap and                        *)
(* src/apps/jellyfin-bootstrap.  A bootstrap is a program run by an ArgoCD *)
(* PostSync Job against an app: a sequence of calls, each of which looks   *)
(* at the app and may change it.  Any call may fail and the Job may be     *)
(* killed between any two; it is then run again from the start, against    *)
(* whatever the earlier run left behind.  In between people use the app,   *)
(* and the declaration it is configured from changes.                      *)
(*                                                                         *)
(* A world is what the app (and the Secrets the Job writes) holds: a value *)
(* for each key, where a value is only as fine as the program tells apart: *)
(* "absent", "seed" (the app's default), "hand" (a person's), "old" (an    *)
(* earlier declaration's), "ok" (the declared one), and a few of an app's  *)
(* own.  BootstrapSteps gives the instructions their form.                 *)
(***************************************************************************)
EXTENDS Naturals, Sequences

CONSTANTS Apps,       \* the bootstraps: name -> [fresh, edits, steps, goal, keep, stuck]
          None,
          MaxFaults,  \* bound: failed calls and killed Jobs
          MaxEdits    \* bound: changes people make

\* A program is a sequence of instructions that skips no further than its end.
ASSUME WellFormed ==
    \A a \in DOMAIN Apps :
        LET P == Apps[a].steps
        IN  /\ P \in Seq({P[i] : i \in DOMAIN P})
            /\ \A i \in DOMAIN P : /\ P[i].skip \in Nat /\ i + P[i].skip <= Len(P)
                                  /\ P[i].fails \in {"run", "warning", "task"}

\* A step that can write k asks first: it looks k up and leaves a person's value
\* alone, or is inside an `if` that a person's value does not pass.
Asks(s, k) ==
    s.op = "put" /\ k \in DOMAIN s.eff =>
        \/ s.key = k /\ "hand" \in s.vals
        \/ k \in DOMAIN s.when /\ "hand" \notin s.when[k] /\ None \notin s.when[k]
\* A program writes declared values, never a person's.
Declares(s, k) == s.op = "put" /\ k \in DOMAIN s.eff => s.eff[k] # "hand"
\* Every step asks for whatever its program promises to leave alone.
ASSUME Careful ==
    \A a \in DOMAIN Apps :
        /\ Apps[a].keep \subseteq DOMAIN Apps[a].fresh
        /\ \A i \in DOMAIN Apps[a].steps : \A k \in Apps[a].keep :
              Asks(Apps[a].steps[i], k) /\ Declares(Apps[a].steps[i], k)

VARIABLES app,     \* which bootstrap this is
          world,   \* what the app holds
          mem,     \* what the run has read into its variables
          pc,      \* the run's next instruction; 0: no Job is running
          result,  \* the last run's: "none", "ok", "failed"
          trouble, \* the run's: "none", "warning" (a step was skipped), "task" (a task failed)
          touched, \* somebody changed the app since the run began
          settled, \* the run began on a configured app nobody touched since
          faults, edits

vars == <<app, world, mem, pc, result, trouble, touched, settled, faults, edits>>

Steps == Apps[app].steps
Step == Steps[pc]
Running == pc \in 1..Len(Steps)

Change(w, eff) == [k \in DOMAIN w |-> IF k \in DOMAIN eff THEN eff[k] ELSE w[k]]
Holds(w, conds) == \A k \in DOMAIN conds : w[k] \in conds[k]
\* What the program takes for done although it is not.
Gap(k) == IF "gap" \in DOMAIN Apps[app] /\ k \in DOMAIN Apps[app].gap THEN Apps[app].gap[k] ELSE {}
Done == Apps[app].goal
\* What must hold at no moment, not even half-way.
Never == IF "never" \in DOMAIN Apps[app] THEN Apps[app].never ELSE {}
\* What a run makes and removes again.
Own == IF "own" \in DOMAIN Apps[app] THEN Apps[app].own ELSE {}
Configured(w) == Holds(w, [k \in DOMAIN Done |-> Done[k] \cup Gap(k)])

End(r) ==
    /\ pc' = 0
    /\ result' = r
    /\ mem' = [k \in DOMAIN mem |-> None]
    /\ UNCHANGED <<app, trouble, touched, settled>>

-----------------------------------------------------------------------------
(* The Job.                                                                *)

StartJob ==
    /\ pc = 0
    /\ pc' = 1
    /\ trouble' = "none"
    /\ touched' = FALSE
    /\ settled' = Configured(world)
    /\ UNCHANGED <<app, world, mem, result, faults, edits>>

\* A step inside an `if` on what was read before.
Taken(conds) == Holds(mem, conds)

Advance == pc' = pc + 1

ShrugTwice(s) ==                                                     \* mutant
    /\ s.fails # "run"
    /\ pc' = pc + 2 + s.skip
    /\ trouble' = IF trouble = "task" THEN "task" ELSE s.fails
    /\ UNCHANGED <<app, mem, result, touched, settled>>
\* A step that may fail does: the run goes on behind it, or behind its task.
Shrug(s) ==
    /\ s.fails # "run"
    /\ pc' = pc + 1 + s.skip
    /\ trouble' = IF trouble = "task" THEN "task" ELSE s.fails
    /\ UNCHANGED <<app, mem, result, touched, settled>>

Warned(s) ==                                                         \* mutant
    /\ pc' = pc + 1 + s.skip
    /\ trouble' = IF trouble = "task" THEN "task" ELSE "warning"
    /\ UNCHANGED <<app, mem, result, touched, settled>>
WriteWarned(s) == Shrug(s) \/ (s.fails = "run" /\ IF s.op = "put" THEN Warned(s) ELSE End("failed")) \* mutant
Ignore(s) == Advance /\ UNCHANGED <<app, mem, result, trouble, touched, settled>> \* mutant
Fail(s) == Shrug(s) \/ (s.fails = "run" /\ End("failed"))

Overwrite(s) == TRUE                                                 \* mutant
Rewrite(s) == world[s.key] \notin s.vals \ {"ok"}                    \* mutant
\* Does the look-up find nothing to do?
Needed(s) == world[s.key] \notin s.vals
Written(s) == IF Needed(s) THEN Change(world, s.eff) ELSE world

\* The next instruction, its call answered:
\*   read     the values are read into variables;
\*   stop     the run ends well when the value is one of these;
\*   need     the step fails unless the value is one of these;
\*   put      unless the value is one of these, the effect is written;
\*   outcome  the run ends with the error its task ended with.
Execute ==
    /\ Running
    /\ LET s == Step IN
       \/ /\ ~Taken(s.when)
          /\ Advance
          /\ UNCHANGED <<app, world, mem, result, trouble, touched, settled>>
       \/ /\ Taken(s.when) /\ s.op = "read"
          /\ mem' = [k \in DOMAIN mem |-> IF k \in s.vals THEN world[k] ELSE mem[k]]
          /\ Advance
          /\ UNCHANGED <<app, world, result, trouble, touched, settled>>
       \/ /\ Taken(s.when) /\ s.op = "stop"
          /\ \/ /\ world[s.key] \in s.vals
                /\ End("ok")
             \/ /\ world[s.key] \notin s.vals
                /\ Advance
                /\ UNCHANGED <<app, mem, result, trouble, touched, settled>>
          /\ UNCHANGED world
       \/ /\ Taken(s.when) /\ s.op = "need"
          /\ \/ /\ world[s.key] \notin s.vals
                /\ Fail(s)
             \/ /\ world[s.key] \in s.vals
                /\ Advance
                /\ UNCHANGED <<app, mem, result, trouble, touched, settled>>
          /\ UNCHANGED world
       \/ /\ Taken(s.when) /\ s.op = "put"
          /\ world' = Written(s)
          /\ Advance
          /\ UNCHANGED <<app, mem, result, trouble, touched, settled>>
       \/ /\ Taken(s.when) /\ s.op = "outcome"
          /\ \/ /\ trouble = "task"
                /\ End("failed")
             \/ /\ trouble # "task"
                /\ Advance
                /\ UNCHANGED <<app, mem, result, trouble, touched, settled>>
          /\ UNCHANGED world
    /\ UNCHANGED <<faults, edits>>

Finish ==
    /\ pc = Len(Steps) + 1
    /\ End("ok")
    /\ UNCHANGED <<world, faults, edits>>

\* A call fails for good (`retry` has given up).  A write whose answer is lost
\* may have been made all the same.  A step that is not taken makes no call.
FailCall ==
    /\ Running /\ faults < MaxFaults
    /\ Taken(Step.when) /\ Step.op # "outcome"
    /\ \/ UNCHANGED world
       \/ Step.op = "put" /\ world' = Written(Step)
    /\ Fail(Step)
    /\ faults' = faults + 1
    /\ UNCHANGED edits

Kill ==
    /\ pc # 0 /\ faults < MaxFaults
    /\ End("failed")
    /\ faults' = faults + 1
    /\ UNCHANGED <<world, edits>>

\* Somebody changes the app, or what is declared; the latter comes with a sync,
\* which waits for the Job of the one before.
Redeclares(e) == \E k \in DOMAIN e : e[k] = "old"
Edit ==
    /\ edits < MaxEdits
    /\ \E e \in Apps[app].edits :
          /\ Redeclares(e) => pc = 0
          /\ world' = Change(world, e)
    /\ edits' = edits + 1
    /\ touched' = TRUE
    /\ settled' = FALSE
    /\ UNCHANGED <<app, mem, pc, result, trouble, faults>>

-----------------------------------------------------------------------------
Init ==
    /\ app \in DOMAIN Apps
    /\ world = Apps[app].fresh
    /\ mem = [k \in DOMAIN world |-> None]
    /\ pc = 0
    /\ result = "none"
    /\ trouble = "none" /\ touched = FALSE /\ settled = FALSE
    /\ faults = 0 /\ edits = 0

Job == StartJob \/ Execute \/ Finish

Next == Job \/ FailCall \/ Kill \/ Edit

\* Kubernetes runs the Job, and again when it failed; the program advances.
Spec == Init /\ [][Next]_vars /\ WF_vars(Job)

-----------------------------------------------------------------------------
(* Properties.                                                             *)

\* Every variable keeps its type: whatever a step skips, the run stays inside its
\* program, and a run that found the app configured is one nobody disturbed.
TypeOK ==
    /\ app \in DOMAIN Apps
    /\ DOMAIN world = DOMAIN Apps[app].fresh
    /\ pc \in 0..(Len(Steps) + 1)
    /\ result \in {"none", "ok", "failed"}
    /\ trouble \in {"none", "warning", "task"} /\ touched \in BOOLEAN /\ settled \in BOOLEAN
    /\ settled => ~touched

\* A run that ends well, printed no warning and met nobody at work leaves the
\* app configured, whatever earlier runs died in the middle of.
Converged ==
    result = "ok" /\ pc = 0 /\ trouble = "none" /\ ~touched => Configured(world)

\* sportarr.rs promises "the whole league, every team in it, monitored".  A run that
\* ends well leaves nothing that an earlier run began and did not finish.
NothingHalfDone ==
    result = "ok" /\ pc = 0 /\ trouble = "none" /\ ~touched => Holds(world, Done)

\* jellyfin-bootstrap: "Keys of an older generation are deleted once Maintainerr
\* holds the new one".  What must not happen happens at no moment, however a run is
\* interrupted and run again: the key another app holds is there.
NeverBroken == \A bad \in Never : ~Holds(world, bad)

\* Every bootstrap keeps the promise of Converge: no step of a run puts a
\* configured app wrong, not even for a moment.
Abstract ==
    INSTANCE Converge WITH
        good <- \A k \in DOMAIN Done \ Own : world[k] \in Done[k] \cup Gap(k),
        busy <- pc # 0, report <- result, doubt <- touched \/ trouble # "none"
Implements == Abstract!Spec

\* main.rs: "a rerun against a configured app changes nothing".
Quiet == [][settled /\ settled' => \A k \in DOMAIN world \ Own : world'[k] = world[k]]_vars

\* What a bootstrap promises to leave alone once a person has set it is written
\* over by no run that began after that.
HandKept ==
    [][\A k \in Apps[app].keep : world[k] = "hand" /\ ~touched /\ ~touched' => world'[k] = "hand"]_vars

\* No crash wedges a bootstrap: sooner or later a run succeeds, unless somebody
\* has taken over what it signs in with.
Recovers ==
    []<>(result = "ok") \/ <>[](\E k \in DOMAIN Apps[app].stuck : world[k] \in Apps[app].stuck[k])
=============================================================================
