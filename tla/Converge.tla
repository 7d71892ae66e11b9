------------------------------ MODULE Converge ------------------------------
(***************************************************************************)
(* What a bootstrap Job promises, whatever app it is for: a run may put an *)
(* app right and never puts it wrong, and it reports success only for an   *)
(* app that is right, unless it met somebody at work or printed a warning. *)
(***************************************************************************)
VARIABLES good,    \* the app is configured
          busy,    \* a run is under way
          report,  \* the last run's: "none", "ok", "failed"
          doubt    \* the run was disturbed, or printed a warning

vars == <<good, busy, report, doubt>>

Init == good \in BOOLEAN /\ busy = FALSE /\ report = "none" /\ doubt = FALSE

Begin == ~busy /\ busy' = TRUE /\ doubt' = FALSE /\ UNCHANGED <<good, report>>

Work ==
    /\ busy
    /\ good' \in {good, TRUE}
    /\ doubt' \in {doubt, TRUE}
    /\ UNCHANGED <<busy, report>>

Succeed == busy /\ (good \/ doubt) /\ busy' = FALSE /\ report' = "ok" /\ UNCHANGED <<good, doubt>>

\* The call it fails on may have been made.
GiveUp == busy /\ busy' = FALSE /\ report' = "failed" /\ good' \in {good, TRUE} /\ UNCHANGED doubt

Disturb == good' \in BOOLEAN /\ doubt' = TRUE /\ UNCHANGED <<busy, report>>

Next == Begin \/ Work \/ Succeed \/ GiveUp \/ Disturb

Spec == Init /\ [][Next]_vars
=============================================================================
