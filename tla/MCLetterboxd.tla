--------------------------- MODULE MCLetterboxd ---------------------------
(* Five plays: two at the same moment, a film seen twice, one without an id. *)
EXTENDS Letterboxd

MCWatchedAt == [p \in Plays |-> <<1, 2, 2, 3, 4>>[p - 10]]
MCFilm == [p \in Plays |-> <<"heat", "ronin", "heat", NoTmdb, "ronin">>[p - 10]]
===========================================================================
