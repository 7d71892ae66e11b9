----------------------------- MODULE MCBootstrap -----------------------------
(* The bootstraps of the repository, for TLC, with an outline of each. *)
EXTENDS BootstrapOutline, BootstrapAccounts, BootstrapMedia, BootstrapServices, BootstrapLibrary

AllApps ==
    [atuin |-> atuin, ggrequestz |-> ggrequestz, shoko |-> shoko, komga |-> komga,
     mealie |-> mealie, forgejo |-> forgejo, romm |-> romm, openviking |-> openviking,
     navidrome |-> navidrome, streamystats |-> streamystats, tracearr |-> tracearr,
     keycloak_invite |-> keycloak_invite,
     kapowarr |-> kapowarr, lingarr |-> lingarr, autobrr |-> autobrr, arr |-> arr, seerr |-> seerr,
     actual |-> actual, immich |-> immich, miniflux |-> miniflux, contextforge |-> contextforge,
     sportarr |-> sportarr, audiobookshelf |-> audiobookshelf, kavita |-> kavita, syncthing |-> syncthing,
     homarr |-> homarr, cleanuparr |-> cleanuparr, ryot |-> ryot, ryot_trakt |-> ryot_trakt,
     maintainerr |-> maintainerr, bazarr |-> bazarr, ombi |-> ombi, jellyfin |-> jellyfin]

\* The one whose half-done work outlives it most visibly.
SportarrOnly == [sportarr |-> sportarr]

-----------------------------------------------------------------------------
(* The outlines: the least closed ones whose cells differ in the keys to   *)
(* be told apart.                                                          *)

\* The keys whose pairs are told apart, because other keys depend on them.
Apart(a) ==
    CASE a = "lingarr"     -> {"age"}
      [] a = "arr"         -> {"tag", "token"}
      [] a = "seerr"       -> {"libraries"}
      [] a = "maintainerr" -> {"connection"}
      [] a = "bazarr"      -> {"profile"}
      [] a = "ombi"        -> {"server"}
      [] a = "jellyfin"    -> {"holds", "repository"}
      [] OTHER             -> {}

\* Cells that agree on those keys become one.
Joined(a, S) ==
    LET Key(c) == {t \in c : t[1] \in Apart(a)}
    IN  {UNION {d \in S : Key(d) = q} : q \in {Key(c) : c \in S}}
\* The outline with more cells at instruction j.
Add(a, O, j, new) ==
    LET more == {c \in new : ~Covered(a, c, O[j])}
    IN  IF more = {} THEN O ELSE (j :> Joined(a, O[j] \cup more)) @@ O

\* What the cells of instruction i lead to: the step's success, its failure,
\* and, at any moment, a change by a person, the run's end, the next run.
Succeeded(a, O, i) ==
    IF i \in DOMAIN Apps[a].steps
    THEN Add(a, O, i + 1, UNION {After(c, Apps[a].steps[i]) : c \in O[i]})
    ELSE O
Shrugged(a, O, i) ==
    IF i \in DOMAIN Apps[a].steps /\ Apps[a].steps[i].fails # "run"
    THEN Add(a, O, i + 1 + Apps[a].steps[i].skip, UNION {Failed(c, Apps[a].steps[i]) : c \in O[i]})
    ELSE O
Edited(a, O, i) ==
    Add(a, O, i, {Put(c, e) : c \in O[i], e \in {x \in Apps[a].edits : Redeclares(x) => i = 0}})
Ended(a, O, i) == Add(a, O, 0, {Forgot(c) : c \in O[i]})
Begun(a, O, i) == IF i = 0 THEN Add(a, O, 1, O[0]) ELSE O

Grown(a, r, O, i) ==
    CASE r = "clean"   -> Succeeded(a, O, i)
      [] r = "settled" -> Shrugged(a, Succeeded(a, O, i), i)
      [] r = "any"     -> Begun(a, Ended(a, Shrugged(a, Succeeded(a, Edited(a, O, i), i), i), i), i)

RECURSIVE Sweep(_, _, _, _)
Sweep(a, r, O, i) == IF i \in DOMAIN O THEN Sweep(a, r, Grown(a, r, O, i), i + 1) ELSE O
RECURSIVE Least(_, _, _)
Least(a, r, O) == LET more == Sweep(a, r, O, 0) IN IF more = O THEN O ELSE Least(a, r, more)

From(a, i, S) == Add(a, [j \in 0..(Len(Apps[a].steps) + 1) |-> {}], i, S)
OutlineOf(a) ==
    LET any == Least(a, "any", From(a, 0, {Start(a)}))
    IN  [any     |-> any,
         clean   |-> Least(a, "clean", From(a, 1, any[0])),
         settled |-> Least(a, "settled", From(a, 1, {Tidy(a, DOMAIN Apps[a].goal, c) : c \in any[0]}))]
Outlines == [a \in DOMAIN Apps |-> OutlineOf(a)]
=============================================================================
