------------------------------- MODULE DvdJobs -------------------------------
(***************************************************************************)
(* The pods of the encode and publish Jobs (job.rs), down to what they     *)
(* read from the Disc and do to the work dir and the libraries.  Where the *)
(* files of one disc go is the Publish module's subject; here publishing   *)
(* is: the ISO, the movies, the record in the status, the clean-up.        *)
(***************************************************************************)
EXTENDS DvdState

At(d, id, pc) == job[d][id].pc = pc
JobGoto(d, id, pc) == SetJob(d, id, [job[d][id] EXCEPT !.pc = pc])

(* The pod is gone; only the outcome remains. *)
End(d, id, outcome) == SetJob(d, id, [NoJob EXCEPT !.pc = outcome])

(* encode_cmd(): the Disc is read once; the master is the work dir's, or   *)
(* the published ISO.  Encodes made under other encode fields are dropped, *)
(* if an encode was recorded at all.                                       *)
StartEncoding(d, n) ==
    LET id == <<"e", n>>
        o == disc[d]
        src == IF work[d].master # 0 THEN work[d].master
               ELSE IF o.published THEN lib[d].iso ELSE 0
    IN /\ At(d, id, "pending")
       /\ IF src = 0
          THEN End(d, id, "failed") /\ UNCHANGED work
          ELSE /\ SetJob(d, id, [job[d][id] EXCEPT !.pc = "encode", !.ekey = o.ekey, !.src = src])
               /\ work' = IF o.encKey # None /\ o.encKey # o.ekey
                          THEN [work EXCEPT ![d] = [@ EXCEPT !.enc = 0]] ELSE work
       /\ UNCHANGED <<disc, seen, ctl, task, leak, tray, lib, made, left>>

(* run_encode(): encodes already there are kept, so that a retry resumes,  *)
(* unless the main feature fails: then all are removed and made again by   *)
(* way of a remux.                                                         *)
Redone(d, id) == [work EXCEPT ![d] = [@ EXCEPT !.enc = job[d][id].src, !.ekey = job[d][id].ekey]]
Encoded(d, id) == IF work[d].enc # 0 THEN work ELSE Redone(d, id)
Encode(d, n) ==
    /\ At(d, <<"e", n>>, "encode")
    /\ work' \in {Encoded(d, <<"e", n>>), Redone(d, <<"e", n>>)}
    /\ JobGoto(d, <<"e", n>>, "titles")
    /\ UNCHANGED <<disc, seen, ctl, task, leak, tray, lib, made, left>>

(* The main feature failed both ways.  What is left are encodes of other   *)
(* titles, or none after the removal in between.                           *)
EncodeFailsCleaning(d, n) ==                                            \* mutant
    /\ At(d, <<"e", n>>, "encode")
    /\ work' = [work EXCEPT ![d] = [@ EXCEPT !.master = 0, !.enc = 0]]
    /\ End(d, <<"e", n>>, "failed")
    /\ UNCHANGED <<disc, seen, ctl, task, leak, tray, lib, made, left>>
EncodeFails(d, n) ==
    /\ At(d, <<"e", n>>, "encode")
    /\ work' \in {work, Redone(d, <<"e", n>>), [work EXCEPT ![d] = [@ EXCEPT !.enc = 0]]}
    /\ End(d, <<"e", n>>, "failed")
    /\ UNCHANGED <<disc, seen, ctl, task, leak, tray, lib, made, left>>

(* titles, summary and warnings are patched into the status; the Job ends. *)
RecordTitles(d, n) ==
    /\ At(d, <<"e", n>>, "titles")
    /\ \/ End(d, <<"e", n>>, "succeeded") /\ UNCHANGED left
       \/ End(d, <<"e", n>>, "failed") /\ Fault("job")
    /\ UNCHANGED <<disc, seen, ctl, task, leak, tray, work, lib, made>>

-----------------------------------------------------------------------------
(* publish_cmd(): the Disc is read once. *)
StartPublishing(d, n) ==
    /\ At(d, <<"p", n>>, "pending")
    /\ SetJob(d, <<"p", n>>, [job[d][<<"p", n>>] EXCEPT
                 !.pc = "iso", !.lkey = disc[d].lkey, !.backup = disc[d].backup,
                 !.published = disc[d].published])
    /\ UNCHANGED <<disc, seen, ctl, task, leak, tray, work, lib, made, left>>

(* A master in the work dir must read as the sha256 the backup recorded;   *)
(* without one the ISO must have been published before.                    *)
CopyIso(d, n) ==
    LET id == <<"p", n>>
        j == job[d][id]
        master == work[d].master
    IN /\ At(d, id, "iso")
       /\ \/ /\ master # 0 /\ j.backup \in {0, master}
             /\ SetJob(d, id, [j EXCEPT !.pc = "place", !.src = master])
          \/ /\ master = 0 /\ j.published /\ lib[d].iso # 0
             /\ JobGoto(d, id, "movies")
          \/ /\ IF master # 0 THEN j.backup \notin {0, master} ELSE ~(j.published /\ lib[d].iso # 0)
             /\ End(d, id, "failed")
       /\ UNCHANGED <<disc, seen, ctl, task, leak, tray, work, lib, made, left>>

(* The verified copy is renamed over the ISO. *)
PlaceIsoAfterRemoving(d, n) ==                                          \* mutant
    /\ At(d, <<"p", n>>, "place")
    /\ IF lib[d].iso # 0
       THEN lib' = [lib EXCEPT ![d].iso = 0] /\ UNCHANGED job
       ELSE lib' = [lib EXCEPT ![d].iso = job[d][<<"p", n>>].src] /\ JobGoto(d, <<"p", n>>, "movies")
    /\ UNCHANGED <<disc, seen, ctl, task, leak, tray, work, made, left>>
PlaceIso(d, n) ==
    /\ At(d, <<"p", n>>, "place")
    /\ lib' = [lib EXCEPT ![d] = [@ EXCEPT !.iso = job[d][<<"p", n>>].src]]
    /\ JobGoto(d, <<"p", n>>, "movies")
    /\ UNCHANGED <<disc, seen, ctl, task, leak, tray, work, made, left>>

(* Fresh encodes are copied over what the disc published; without them the *)
(* published files are moved to where the layout wants them.               *)
PlaceMovies(d, n) ==
    LET id == <<"p", n>>
        j == job[d][id]
    IN /\ At(d, id, "movies")
       /\ \/ /\ work[d].enc # 0
             /\ lib' = [lib EXCEPT ![d] = [@ EXCEPT !.mkv = work[d].enc, !.ekey = work[d].ekey,
                                                    !.lkey = j.lkey]]
             /\ JobGoto(d, id, "record")
          \/ /\ work[d].enc = 0 /\ j.published /\ lib[d].mkv # 0
             /\ lib' = [lib EXCEPT ![d] = [@ EXCEPT !.lkey = j.lkey]]
             /\ JobGoto(d, id, "record")
          \/ /\ work[d].enc = 0 /\ ~(j.published /\ lib[d].mkv # 0)
             /\ End(d, id, "failed")
             /\ UNCHANGED lib
       /\ UNCHANGED <<disc, seen, ctl, task, leak, tray, work, made, left>>

RecordPublished(d, n) ==
    /\ At(d, <<"p", n>>, "record")
    /\ \/ /\ disc' = [disc EXCEPT ![d] = [@ EXCEPT !.published = TRUE]]
          /\ JobGoto(d, <<"p", n>>, "finish")
          /\ UNCHANGED left
       \/ End(d, <<"p", n>>, "failed") /\ Fault("job") /\ UNCHANGED disc
    /\ UNCHANGED <<seen, ctl, task, leak, tray, work, lib, made>>

(* finish(): the published encodes and the master leave the work dir. *)
Finish(d, n) ==
    /\ At(d, <<"p", n>>, "finish")
    /\ work' = [work EXCEPT ![d] = [@ EXCEPT !.master = 0, !.enc = 0]]
    /\ End(d, <<"p", n>>, "succeeded")
    /\ UNCHANGED <<disc, seen, ctl, task, leak, tray, lib, made, left>>

-----------------------------------------------------------------------------
(* The pod was evicted or its node died: backoffLimit 0, the Job fails. *)
KillJob(d, id) ==
    /\ JobState(job[d][id]) = "Running"
    /\ Fault("job")
    /\ End(d, id, "failed")
    /\ UNCHANGED <<disc, seen, ctl, task, leak, tray, work, lib, made>>

(* ttlSecondsAfterFinished: a finished Job is removed after a day. *)
ExpireJob(d, id) ==
    /\ JobState(job[d][id]) \in {"Succeeded", "Failed"}
    /\ Fault("expire")
    /\ SetJob(d, id, NoJob)
    /\ UNCHANGED <<disc, seen, ctl, task, leak, tray, work, lib, made>>

JobStep(d, n) ==
    \/ StartEncoding(d, n) \/ Encode(d, n) \/ EncodeFails(d, n) \/ RecordTitles(d, n)
    \/ StartPublishing(d, n) \/ CopyIso(d, n) \/ PlaceIso(d, n) \/ PlaceMovies(d, n)
    \/ RecordPublished(d, n) \/ Finish(d, n)
=============================================================================
