--------------------------- MODULE BootstrapSteps ---------------------------
(***************************************************************************)
(* The instructions the bootstrap programs are made of; Bootstrap says     *)
(* what each does.                                                         *)
(***************************************************************************)
EXTENDS Naturals, Sequences, TLC

NoKeys == [k \in {} |-> {}]
Instr(op, k, V, eff) ==
    [op |-> op, key |-> k, vals |-> V, eff |-> eff, fails |-> "run", skip |-> 0, when |-> NoKeys]

\* One answer that holds all the keys of K.
ReadAll(K) == Instr("read", "", K, NoKeys)
Read(k) == ReadAll({k})
Stop(k, V) == Instr("stop", k, V, NoKeys)
Need(k, V) == Instr("need", k, V, NoKeys)
Write(k, V, eff) == Instr("put", k, V, eff)

\* Every value of a key that IfIs is used on.
Vals == {"absent", "seed", "hand", "old", "ok", "bare", "made", "sent", "again", "twice", "followed", "kept",
         "off", "running", "none", "open", "extra", "pending", "privileged"}
Present == {"seed", "hand", "old", "ok"}
NotOk == {"absent", "seed", "hand", "old"}

\* Create what is not there, and leave what is there alone.
IfMissing(k) == Write(k, {"seed", "hand", "old", "ok"}, k :> "ok")
\* Set what differs from the declaration.
IfDiffers(k) == Write(k, {"ok"}, k :> "ok")
\* Update what is there when it differs; leave it out when it is not there.
IfStale(k) == Write(k, {"ok", "absent"}, k :> "ok")
\* Set what is still the app's default.
IfSeed(k) == Write(k, {"absent", "hand", "old", "ok"}, k :> "ok")
\* Change one value into another.
IfIs(k, v, to) == Write(k, Vals \ {v}, k :> to)
\* Written on every run: the app masks what it holds.
EveryRun(k) == Write(k, {}, k :> "ok")

\* The step's error is printed and the run goes on.
Soft(s) == [s EXCEPT !.fails = "warning"]
\* The same, and what hangs on the step is left out.
SoftBefore(s, n) == [Soft(s) EXCEPT !.skip = n]
\* The first error ends these steps, not the run: what follows them tidies up,
\* and then Outcome ends the run with the error.
Task(steps) == [i \in 1..Len(steps) |-> [steps[i] EXCEPT !.fails = "task", !.skip = Len(steps) - i]]
Outcome == Instr("outcome", "", {}, NoKeys)
\* The step is inside an `if` on what was read.
When(k, V, s) == [s EXCEPT !.when = (k :> V) @@ s.when]
Under(k, V, steps) == [i \in 1..Len(steps) |-> When(k, V, steps[i])]

\* A token is shown only when it is made: one that is stored and works ("ok") is
\* kept; otherwise the app's is deleted, made again ("made") and stored.
StoredToken(t) ==
    LET lost == Vals \ {"ok"}
    IN  <<Read(t),
          When(t, lost, Write(t, {"absent"}, t :> "absent")),
          When(t, lost, IfIs(t, "absent", "made")),
          When(t, lost, IfIs(t, "made", "ok"))>>

\* jellyfin.rs: the API key named after the app, made when Jellyfin has none and
\* read back.
JellyfinKey == <<Need("jellyfin", {"ok"}), IfMissing("key"), Need("key", Present)>>
=============================================================================
