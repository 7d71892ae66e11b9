# The programs of the home cluster, modelled and checked in TLA+

The repository is the code and configuration of a home cluster. Most of it is data (nix,
nixidy, manifests); the programs in it look after things that cannot be made again
cheaply: a movie collection read from scratched discs, a calendar, a diary without undo,
firmware of boards nobody wants to unscrew, and the configuration of some thirty
services. This directory models those programs, checks the models with TLC and proves
some of what matters with TLAPS. `PROJECT.json` maps every definition to its lines,
lists the hazards of the code and says which property is about which.

## Inventory

| component | state it keeps | operations | hard behaviour | what makes it correct |
|---|---|---|---|---|
| **dvdrip** `apps/dvdrip`: agent, controller, encode and publish Jobs | Disc objects in the API server, the work volume, two libraries, a journal | detect, claim, back up, upload, record; decide, start Jobs; encode; copy, move, remove, record, clean up | several processes writing one object without a version check, a lagging watch cache, pods dying between two file operations, leases, people | a backed up disc is never lost; the library holds what the spec asks for; others' files are left alone; no disc is forgotten |
| **bootstraps** `apps/app-bootstrap`, `apps/jellyfin-bootstrap` | none of their own: the apps', and Secrets | 33 programs that look at an app and put right what differs | killed anywhere and run again; answers lost; people using the app meanwhile | success means configured; a rerun changes nothing; what people set stays; no crash wedges it |
| **org-bridge** `org-bridge` | a SQLite table of exported entries, an event cursor | full reconciliation, sweep, event loop | events before the cursor, failed requests, restarts with and without the table | the calendar is what the files say; others' objects stay |
| **OTA** `embedded/shared/ota` | two slots, the otadata sector | poll, download, activate, trial, confirm, roll back | power loss between any two flash writes | the chip always boots; a bad image is given up |
| **letterboxd-sync** `apps/letterboxd-sync` | `state.json`: cursor, ids, pending batch | baseline, backfill, daily batch, settle | a click that may or may not have been taken | nothing twice, nothing dropped |
| **seerr-sso** `apps/seerr-sso` | cached identities and sessions, a lock | identify, find or make the user, permissions, login, forward | concurrent requests, cancelled at any await | one user per person; only one's own session; revoked rights end |
| sso-token, dependency updater, backup-verify, secret sync, e2e tests, configuration | | | | not modelled, see below |

The components do not call each other's code. They meet in services: a bootstrap makes
the Jellyfin libraries dvdrip publishes to, and moves Seerr's user 1 out of the way of
seerr-sso (the user `Glass` of `SeerrSso`).

## Modules

    DvdState                    constants, variables, types, Init, leases, faults
      DvdAgent                  agent.rs
      DvdController             controller.rs
      DvdJobs                   job.rs, and publish.rs as one disc's image and movies
        DvdRip                  composition, people, Next, fairness, properties
          MCDvdRip
          DvdRipProofs          theorems: types, no backup is lost
            DvdPipelineProofs   theorems: one encode at a time, the latest image stays,
                                what a Done disc is, rescued or not
    Publish, MCPublish          publish.rs file by file
                                PublishProofs (theorems)

    Bootstrap                   the machine that runs a program; properties
      BootstrapOutline          what can be known at each instruction of a program
        BootstrapProofs         theorems for every program that has an outline
    Converge                    what a bootstrap promises (abstract)
    BootstrapSteps              the instructions
      BootstrapAccounts, BootstrapMedia, BootstrapServices, BootstrapLibrary
                                the 33 programs
        MCBootstrap             ... and an outline of each

    OrgFormat, OrgBridge, MCOrgBridge
                                OrgProofs (theorems)
    Ota                         OtaProofs (theorems)
    Letterboxd, MCLetterboxd    LetterboxdProofs (theorems)
    SeerrSso, MCSeerrSso        SeerrProofs (theorems)

### dvdrip

* `disc[d]` is the Disc object: `exists`, `st` (has a status), and the spec and status
  fields by name. The fields an encode depends on (`encode_key`) are reduced to the number
  of edits made to them, `ekey`; those of the layout to `lkey`; `encKey` and `pubKey` are
  what the status recorded of them.
* A master image is the number of the backup that wrote it (0: none), so that "older" and
  "newer" mean something; encodes and movies carry the number they were made from.
* `heartbeat` and `since` are `none`, `fresh` or `stale` against the lease of five
  minutes; `Elapse` makes them stale when nobody renews; `Renew` is the lease task, and
  `leak[v]` are discs whose lease task outlived an aborted drive task.
* `task[v]` stops between two API calls or file operations of `handle()` and
  `backup_and_upload()`; `ctl[d]` between the count, the Job and the patch of a start;
  `job[d][<<stage, attempt>>]` is a Job and its pod with what the pod read.
* `seen[d]` is the watch cache. With `LaggingCache` a reconcile works on it.
* A retry keeps the encodes it finds, unless the main feature fails: then `run_encode`
  removes all of them and encodes once more by way of MakeMKV (`Redone`), and may fail
  after that too.
* In `Publish`, `dvd` and `movies` map paths to contents (nothing, somebody else's file, an
  image, an encode of a title with its version). A look at a path and the rename that
  follows it are two steps. People add files at any moment wherever nothing is; the model
  tells a `Stranger`, put where the disc claims nothing, from a `Guest`, put at a path of
  its record, of its journal, or of the pod that is at work (`Claims`).
* One step in the model, several calls in the code: a reconcile that only patches (read,
  decide, patch; `LaggingCache` is what shows a read that is out of date by then), the look
  at a starved Job's pod and its deletion, the removals of `finish()`. An API call of the
  agent that fails changed nothing; one carried out whose answer is lost is not modelled.
* Abstracted: names, labels, messages, metrics; the backup chain (a read is complete,
  damaged or failed); encoding is one step for all titles; `.part` files, the damage NFO,
  `retitle`; paused, disabled and full drives, discs that are not DVDs, deletion of a
  Disc, `housekeeping`.

### Bootstraps

A program is a sequence of instructions, each one call or a group of calls that stand or
fall together: `read` answers into variables, `stop` when there is nothing to do, `need`
(or fail), `put` unless the look-up finds the value, `outcome` of a task whose clean-up
follows. An instruction may be inside an `if` on what was read (`when`), may print a
warning instead of failing the run (`Soft`), and may take what hangs on it along (`skip`).
`Bootstrap` runs one: `StartJob`, `Execute`, `Finish`, `FailCall` (a call that has used up
its retries; a write may have been made all the same), `Kill`, and `Edit` by people or by
a changed declaration.

A world holds a value per key, only as fine as the program tells apart: `absent`, `seed`
(the app's default), `hand` (a person's), `old` (an earlier declaration's), `ok`, and a
few of an app's own (`bare`: created and not completed). Each program says what it
is for (`goal`), what it takes for done although it is not (`gap`), what it leaves alone
once a person has set it (`keep`), what somebody else may have taken over so that no run
can succeed (`stuck`), what must hold at no moment (`never`) and what it makes and removes
itself (`own`). `goal`, `gap` and `keep` come from the look-ups in the code and its header
comments; a `gap` is a weakness of the program that the properties would find otherwise,
and is listed under `hazards`.

Options are set as the repository's configuration sets them. A list (indexers, libraries,
tiles, users) is stood for by one or two members, since its members are handled alike and
one after the other. Request bodies, HTTP statuses and the waiting for a server
are left out.

### org-bridge, OTA, letterboxd-sync, seerr-sso

* `OrgFormat` is the pure part of org-bridge: the headings kept, heading paths, UIDs,
  hashes and calendar objects, as operators on documents. A hash is the tuple of the
  fields hashed, which makes "changed but same hash" visible. `OrgBridge` has a step per
  CalDAV request; `db` is the table, which survives a container restart and not a new pod.
  A request that went well and the table's update after it are one step: a restart in
  between leaves what a request leaves that was carried out and whose answer was lost.
  Syncthing numbers the events of each subscription on its own; the bridge compares the
  ids of two (syncthing.rs:32, 61), and the model takes that for sound.
* `Ota` has a step per flash write. The bootloader's choice of a slot and the otadata
  checks are external, modelled as the code and its comments use them. An image of
  `Hanging` may stop doing anything (`Hang`), as one does that hangs or that was built
  without Wi-Fi or an update URL and never calls `run()`; only a reset ends that.
* `Letterboxd`: the click is one step that the site takes or not; the job sees or misses
  the text that follows. `landed`, `skipped` and `late` are history variables. That the
  page says "imported" or "queued" only when it took the batch is assumed: the code takes
  any such text on the page, from before the click too (browser.rs:44-45, 228-229).
* `SeerrSso`: awaits are step boundaries, except that the calls of one purpose made under
  the lock (the two listings, permissions read and set, login with a password reset) are
  one step each. A failed call and a client that goes away end a request alike
  (`Abandon`); its call was carried out before the lock is freed, or never. In the code
  Seerr may carry out a POST whose sender was cancelled after another request took the
  lock; that is outside the model. User 1 starts with anybody's email, a person's too.
  Times are what the code compares them with.

## Runs

`tlc -config <run>.cfg <module>`; each takes from seconds to about two minutes.

| run | checks | instance |
|---|---|---|
| `lagging` | `LatestKept` | one undamaged disc, one drive, a cache that lags arbitrarily, people who act at any moment, one fault of any kind but a lost Job deletion, a retry, two insertions |
| `rescue` | `TypeOK`, `BackupKept`, `OneEncode`, `DoneMatchesBackup`, `DoneMatchesSpec`, `IsoGrows` | a damaged disc, two reads, two encode slots, one edit of each kind at rest, a fault of API, eject, controller, Jobs or expiry |
| `live` | `PipelineEnds`, `LeaseEnds` | fairness, one retry, any one fault but an unplugged drive |
| `publish` | `TypeOK`, `ImageKept`, `RecordTrue`, `StrangersKept` | two titles, three names, two ISO paths, two edits, a re-encode, a crash, a file people add at any moment, a deleted file |
| `bootstrap` | `TypeOK`, `Converged`, `NeverBroken`, `Implements`, `Quiet`, `HandKept`, `Recovers` | all 33 programs, two faults, two edits each |
| `org` | `TypeOK`, `InSync`, `OthersKept`, `RemovedForGood`, `CatchesUp` | two files, two contents each or none, two edits, a failed request or read, a restart |
| `ota` | `TypeOK`, `OnlyTrustedRun`, `RollbackReady`, `Recoverable`, `TrialEnds`, `Settles` | a first, a sound, a broken (it may hang) and an unloadable version, four publishes, two power losses |
| `letterboxd` | `NeverTwice`, `NoneDropped`, `RewatchTrue`, `AllSent` | five plays (two at one moment, a rewatch, one without an id), batches of two, three failures |
| `seerr` | `OneUser`, `OwnSession`, `RightPowers`, `Revoked`, `LockFreed` | one person, two concurrent requests, two events among group changes, failures, disconnects, a restart, a wiped store |
| `v_half`, `v_midnight`, `v_refused` | one statement each | the program or document concerned, see below |

**Bounds.** In dvdrip the properties are about one disc (discs meet only in the encode
limit). Two reads are the least that tells old from new; the attempt bound lets a whole
second pass fit. One fault at any point of any schedule gives every "between two steps"
case. In `publish` three names let two titles move past each other with a third name
free; names and ISO paths are interchangeable, hence the symmetry. In `bootstrap` two
faults let a run die in what the run after a dead one does, and two edits let a person
undo what an earlier one did. In `ota` two power losses hit an update and its rollback;
`TornActivation` leaves out one window, named under `hazards`. In `letterboxd` five plays
make two full batches with a tie across their boundary. In `seerr` two requests are the
least that race for the lock; other people exist as Seerr users (`Glass`, `Other`), not
as requests; what one person's requests could do to another's session is proved.
Deadlock is checked in `bootstrap`, `seerr` and `ota`; the other systems
come to rest when the bounded people and faults have done what they may.

**Fairness.** dvdrip (`live`): weak fairness of a drive task, of a pod's restart
(DaemonSet), of the lease task, of time, of watch events, of reconciles (the controller
requeues every disc) and of each Job's pod. Bootstraps: weak fairness of the Job, which
Kubernetes runs again after a failure. org-bridge: its process and Syncthing's
announcements. OTA: the chip and time weakly, an image that hangs excepted: `TrialEnds`
and `Settles` say that the chip gets there or hangs for good;
a poll or download that is tried again and again
succeeds some time (strong), since the network is not down for ever. letterboxd-sync: the daily Job,
the owner's answer about a pending batch, and strongly a click that is tried again and
again. seerr-sso: a request's own steps, the expiry of caches, and strongly the lock
(tokio's mutex is fair). People and faults are never fair.

### Refinement

`Converge` says what any bootstrap promises: a run may put an app right and never puts
it wrong, and reports success only for an app that is right, unless somebody was at work
or it printed a warning. `Implements` (`Abstract!Spec`) maps "right" to the goal of the
program at hand, without what the run makes and removes itself. It forbids a program that
passes through a broken state on an app that was configured, which `Converged` does not
see: a bootstrap that toggled Audiobookshelf's OIDC on every run would be one. The mutant
writes again what is as declared already.

### Where the code and what it says of itself part

Three runs check one statement each and TLC finds it violated; `findings` in
`PROJECT.json` quotes the statement.

* `v_half`: a Sportarr run dies between adding a league and switching it on. The next run
  finds the league in the library, leaves it alone and ends well; it is never monitored.
  The same shape, as a `gap` of their programs: autobrr's filters without an action,
  Cleanuparr's rule without the switch, Homarr's app without a tile.
* `v_midnight`: an org heading moved from all day to 00:00 keeps its UID and its hash, so
  the calendar keeps the all-day event.
* `v_refused`: a download cut off in a slot whose otadata entry is still marked bad makes
  the new version the refused one.

The dvdrip models show more, described at their lines under `hazards`. The passing runs
leave out exactly these circumstances, with `Damaged`, `TwoCopies`, `BusyPeople`,
`LaggingCache`, `HandOver` and `FaultKinds`, so what holds under them is a statement about
the rest of the system; changing the switch in the `.cfg` brings the counterexample back.

* A drive unplugged during a backup: its task is aborted, the lease task it spawned is
  not, and keeps the disc `BackingUp` (`live` with `"unplug"`: `LeaseEnds`).
* An edit made while the publish Job runs is recorded as published (`rescue` with
  `BusyPeople`: `DoneMatchesSpec`), and so is what a Job left behind by a lost deletion
  did (`"delete"`).
* An agent that restarts with a damaged disc in the tray swaps the master under a running
  Job (`rescue` with `"agent"`: `DoneMatchesBackup`; `lagging` with `Damaged`: `LatestKept`).
* With a lagging cache and a second encode slot (the default) a disc can have two encode
  Jobs in one work directory: a retry writes the cached `BackedUp` back over `Encoding`,
  or a cached phase finds the Job that a GPU fallback deleted missing and starts the
  attempt after the one that runs (`rescue` with `LaggingCache`: `OneEncode`).
* An edit that gives a title another title's path: publish moves or removes the file it
  wrote a moment ago (`publish` with `HandOver`: `RecordTrue`).
* A file people put where the disc's own was and is gone, or where a pod has looked and is
  about to write, is overwritten, moved or removed: `mine` and `ours` are about paths, and
  a rename does not look again (publish.rs:136, 191, 237). publish.rs:3-5 says "Files the
  disc did not publish itself are never overwritten or removed", and docs/dvd-rip.md:20 and
  180 say the same. `StrangersKept` is the part of the promise that is kept, for files put
  where the disc claimed nothing; said of a `Guest` too, it fails within one run. A `Guest`
  can also be recorded as the disc's own movie (`RecordTrue` says so).
* A lagging cache: a retry decided on a stale Disc can write `Detected` over one backed up
  since (`live` with `LaggingCache`: `PipelineEnds`).
* Without a property: a pod that gets its GPU while the controller deletes its Job encodes
  beside the CPU attempt until it is gone (not represented);
  the status update after an upload is not repeated; an attempt after
  a crash inherits the old heartbeat and can be failed under the drive reading the disc;
  a publish pod that dies between a rename and its journal entry refuses its own file
  later; two drives can claim one disc; concurrent reconciles can start more than
  `maxEncodes` encodes.

OTA: an image that hangs on trial is not rolled back (docs/iot-ota.md:78-79 names the
watchdog that is missing), one that polls successfully after the 120 s is confirmed all the
same, and an unloadable version is downloaded again after every boot that rejects it,
although docs/iot-ota.md:75-76 says never. Bootstraps: Kavita's OIDC secret is compared by
its length, so a rotated one of the same length is not written (the `gap` of `kavita`); an
invitation can be sent twice when a run dies before its ledger entry, although
keycloak.rs:135 says once (the goal of `keycloak_invite` allows it).

Likewise `Recoverable` fails with `TornActivation`, and `InSync` without its history
variable `clean` (an event before the cursor is read, a failed delete). In seerr-sso a
person whose permissions were set and whose session was then not made (`torn`) keeps them
until the cached session ages; `RightPowers` leaves that window out, `Revoked` does not.

## Proofs

`tlapm DvdRipProofs.tla`, for every set of discs and drives, all bounds and all settings
of the switches (lagging cache, two copies, busy people, every fault):

* `TypeCorrect`: `Spec => []TypeOK`. `TypeOK` alone is not inductive: a task writes
  `disc[task[v].disc]`, which is a Disc only when the task handles one. `TaskHasDisc` is
  added; `Typed` is the conjunction, `InitTyped` and `NextTyped` the two steps.
* `BackupNeverLost`: `Spec => []BackupKept`. Not inductive either: the agent records after
  it uploaded, and `finish()` removes the master without looking at the library.
  `BackupInv` adds `TasksSafe` (a task that uploads or later holds a real image, and past
  the upload the disc has one) and `JobsSafe` (a publish pod past the copy of the ISO has
  an image to place, and past the placing the library has an ISO). `ImagesStay`: an image
  is only taken away by a pod that has put the ISO in the library.

`tlapm DvdPipelineProofs.tla`, for every set of discs and drives, every number of insertions, edits, retries and faults. These results need
circumstances, as hypotheses on the switches; each of them is one the counterexamples above
make necessary. There are two regimes. *Read once* is `~TwoCopies /\ ~Damaged`: a disc has
no copy in a second drive and reads without errors; people, agents and the cache are free.
*Orderly* is `~TwoCopies`, `~BusyPeople` (people edit a disc at rest), `~LaggingCache` and
no fault `"agent"`, `"unplug"` or `"delete"`; a disc may be damaged and be rescued any
number of times, and API calls, ejects, the controller, Jobs and expiries may fail.
`lagging.cfg` is an instance of the first, `rescue.cfg` of the second.

* `LatestStays` (read once) and `LatestStaysRescued` (orderly): `Spec => []LatestKept`. For
  a disc read once the invariant `OnceInv` says that no task reads a disc that has a
  backup (`ReadsOnce`), that nothing is derived from a disc before its backup is recorded,
  in the lagging cache neither (`RecordedFirst`), and so that every image there is of it is
  the recorded one (`OneImage`).
* `OneEncodeOnly`: `Spec => []OneEncode`, in either regime with a cache that keeps up and
  deletions that succeed. `EncodeInv` ties the number of a live encode Job to the Disc's
  attempts (`Numbered`), also while the controller is between creating it and recording
  it (`StartingNext`). Drives write the same fields, so the proof needs that they do so
  only for a disc without Jobs (`DrivesAlone`): in the first regime because a recorded disc
  is not read again, in the second because a disc that lies in a tray is at rest and
  nothing is due for it (`OrderlyInv`).
* `DoneFromBackup`, `DoneAsSpecified` (orderly): `Spec => []DoneMatchesBackup`,
  `[]DoneMatchesSpec`. What a Done disc is follows from what every Job and every task knew
  on the way, so `PipelineInv` says that of each: what a drive that reads a disc knows
  (`Knows`), which image is where (`Recorded`), that encodes are of that image and under
  the present spec (`EncodesFit`, `EncodeJobsFit`), what a publish pod has done at each of
  its steps (`PublishJobsFit`), what the library has in each phase (`LibraryFits`), and
  which numbers the Jobs have (`JobNumbers`): without the last an old Job that succeeded
  would be taken for the present one.
* `IsoNeverOlder` (either regime): `Spec => IsoGrows`.

Assumptions of the two modules: `BoundsAssumption`, `SwitchAssumption`, `NoneAssumption`.

`tlapm BootstrapProofs.tla`, for any programs, not only the 33, and any number of faults
and edits:

* `RunsStayInside`: `Spec => []TypeOK`. A run never leaves its program, whatever a failing
  step skips.
* `HandsOff`: `Spec => HandKept`. What a program promises to leave alone once a person has
  set it is written over by no run that began after that. The inductive invariant is
  `TypeOK`, `Forgotten` (between runs nothing is remembered) and `Remembered` (a run
  nobody disturbs remembers of a person's value only that it is one): a step inside an
  `if` decides on what was read earlier, and that must not be from before the person came.

* `AlwaysConverges`, `NothingBroken`, `RerunsQuiet`: `Spec => []Converged`,
  `[]NeverBroken`, `Quiet`. `KeepsPromise`: `Spec => Implements`, the refinement of
  `Converge`, with one lemma for each of its actions.

The last four depend on what a program says, and are proved as one proves a program by
hand: from an outline (`BootstrapOutline`). It gives for each instruction the cells that
are possible there, a cell being the triples of a key, what the run remembers of it and
what the app holds, and it does so for three regimes: at any moment (`any`), in a run
without a warning that nobody disturbed (`clean`), in a run that began on a configured app
(`settled`). `OutlineClosed` looks at each instruction, each failure, each edit and each
end of a run on its own and says that it leads from cells to cells; `OutlineProves` says of
single instructions what is wanted: a clean run ends in cells that are configured, a write
on a configured app writes what is declared, one in a settled run writes what is there, and
what must never be is in no cell. What is proved is that this suffices for every run there
is, with any number of faults and edits: `Outlined` (the run is inside its outline in every
regime it is in) is inductive together with the invariant above and `Converged`; the lemmas
`PutFits`, `FoundFits`, `AnsweredFits`, ... say that what fits a cell fits what an
instruction makes of it, and `FollowsInside`, `ShrugInside`, `EndInside` carry that to the
cells of the instruction the run goes to.

Assumptions: `WellFormed` (skips end inside the program), `Careful` (a step that can
write a kept key looks it up first or is inside an `if` a person's value does not pass),
`OutlineClosed` and `OutlineProves`. TLC evaluates them for the 33 programs, so the theorems
are about them: `MCBootstrap` computes each outline, the least closed one in which the cells
of an instruction differ in the keys of `Apart` (one or two keys of seven programs whose
other keys depend on them, none of the rest). The bounds `MaxFaults` and `MaxEdits` of the
run then only matter for `Recovers`.

`tlapm PublishProofs.tla`, for any number of titles, any names and paths, edits, crashes,
re-encodes and files of other people:

* `TypeCorrect`: `Spec => []TypeOK`. Added to it are `TitleOK` and `Checked`: what
  a pod looked at before it moves or copies is still so, but for what people put there.
* `ImageSafe`: `Spec => []ImageKept`. Not inductive: `finish()` removes the master without
  looking. `ImageInv` adds that a pod past the ISO's copy has it in its place.
* `StrangersSafe`: `Spec => StrangersKept`, people at work at every moment included.
  `StrangerInv` says that nothing the disc claims is a stranger's; `OursInv`, that what a
  pod read of record and journal when it started is still claimed, so that nobody can have
  put a stranger's file there since.
* `RecordSafe`: `~HandOver => (Spec => []RecordTrue)`. `RecordInv` adds that
  no title is given another's recorded path, that an encode is the latest or published and
  that the titles a pod has done are in place.

Assumptions: `PublishAssumption`, `PathAssumption`.

`tlapm OtaProofs.tla`, for any versions, publishes and power losses:

* `TypeCorrect`: `Spec => []TypeOK`.
* `NeverBricked`: `Spec => []Boots`, with `TornActivation` too: even when power is lost
  between the two otadata writes of an activation, the bootloader finds an image that
  loads.
* `BootsConfirmed`, `RollbackAlways`, `TrustedRun`: `~TornActivation => (Spec =>
  []Recoverable)`, and likewise `RollbackReady` and `OnlyTrustedRun`. The inductive
  invariant `IInv` relates the sequence numbers of the two entries (`Alternate`, so that
  they are about different slots), says that a safe image is selected or can be fallen back
  to (`Stored`), and what the chip knows at each point of `boot()` and `run()`. `Trusted`
  is the confirmed images, or with `TornActivation` those that reach the server: one
  invariant serves all five theorems.

Assumptions: `VersionAssumption`, `BoundAssumption`.

`tlapm LetterboxdProofs.tla`, for any history, any cap on a batch, any START_AT, any number
of days, killed jobs and answers missed:

* `TypeCorrect`: `Spec => []TypeOK`.
* `SentOnce`, `NothingForgotten`, `RewatchRight`: `Spec => []NeverTwice`, `[]NoneDropped`,
  `[]RewatchTrue`. None is inductive. While a batch is pending two states are on file, and
  which of them describes the diary depends on whether the click was taken; `SavedRight`
  and `PendingRight` say of the right one that its cursor is past exactly what was handled
  and that it knows the films of the diary and of the time before the baseline. `Fetched`
  says that a batch has nothing that was handled and that nothing older was left out of it,
  although plays go on reaching Trakt. The lemmas on the way are about the operators:
  `Places` (counting the earlier plays numbers any finite set of plays), `SortedHas`,
  `CappedHas`, `NewestHas`, `BuildHas`.

Assumption: `PlayAssumption`. The owner's `ack` or `discard` is taken to be true: a
`PENDING_ACTION` that stays set and so answers a later batch unseen is outside the model.

`tlapm SeerrProofs.tla`, for any number of people and of concurrent requests and any number
of failures, disconnects, restarts and wiped stores:

* `TypeCorrect`: `Spec => []TypeOK`.
* `NoSecondUser`: `Spec => []OneUser`. Between the search for a user and its creation other
  requests run; `Locked` says the request between the two holds the lock, and `AllFit`
  that what it found, or did not find, is still so.
* `NobodyElse`: `Spec => []OwnSession`. A session id travels from the login through the
  request to the cache, and from there to the requests of the next minutes, while others
  sign old sessions out. `AllFit` adds what a request knows at each point (whose user it
  found, whose session it holds, that a session just made or being signed out is not in
  the cache), `Apart` that no two people share a cached session, `Cached` that a session
  the store has lost stays lost: its id is not given out while somebody holds it.
  `NewSidIsNew` counts the ids that can be held, so that a login always finds a new one.
* `PowersMatch`: `Spec => []RightPowers`. Permissions are set under the lock by a request
  that then caches its own session or leaves the person `torn`; `Powers` says what the
  request in between knows of them (`MakerFits`).

Assumption: `PeopleAssumption` (people and requests are finitely many; `None` and the two
emails of others are nobody's).

`tlapm OrgProofs.tla`, for any finite set of files, any contents, and any number of edits,
failed requests, restarts and new pods:

* `TypeCorrect`: `Spec => []TypeOK`.
* `OthersSafe`: `Spec => OthersKept`. `StandingKept`: `Spec => RemovedForGood`.
* `CalendarRight`: `NoMidnight => (Spec => []InSync)`. The hypothesis, that no timestamp is
  or ends at 00:00, is the counterexample of `v_midnight` and nothing more: `HashTells`
  shows that without it a UID and a hash determine the calendar object, which is all that
  `needs_update` relies on. The invariant is `Types`, `Plan` (what the bridge has listed,
  read and is about to write or delete is what the file it is at asks for) and `Good`,
  which says while nothing was missed that every file handled is in the calendar or will be
  looked at again (`FilesRight`, `FileRight`), that a file a full sync did not find in its
  listing has no events or a change that is still to be announced (`UnseenEmpty`), that the table tells what the calendar
  holds (`StateTrue`) and that nothing of the bridge's own is in the calendar without being
  in the table or among the deletions (`NoStrays`).
* On the way there the operators of `OrgFormat`: which headings, timestamps and UIDs a
  document has, and that the UID of every object is the bridge's own and names the file the
  object is from. `FlattenSeq` is a recursive function, and what it returns is proved with a
  least counterexample in place of induction (`Joins`, `Prefixed`, `FlattenIs`,
  `Flattened`). `Passing(s, Test)` selects from a sequence by flattening; the library's
  `SelectSeq` is built into the provers without a definition and could not be used.

Assumptions: `BoundAssumption`, `StrangerAssumption`, `FilesAssumption`, `TextAssumption`.

Every invariant, every action property and the refinement that a run checks is proved; the
circumstances each needs are hypotheses of its theorem. Only model-checked: all liveness
(`PipelineEnds`, `LeaseEnds`, `Recovers`, `CatchesUp`, `TrialEnds`, `Settles`, `AllSent`,
`Revoked`, `LockFreed`), which is out of the prover's reach; that the 33 programs have the
outlines they have, which is evaluated; and the three violations.

## Not modelled

* dvdrip's backup chain, encoding title by title, layout names and classification:
  they drive external tools and parse their output; import is a batch tool run by hand;
  web, metrics, review and notifications are output.
* `alert_digest.rs`, `profile.rs`, `trace.rs` of app-bootstrap: wording, data, telemetry.
* sso-token: a token cache on disk, one sequential process. The dependency updater: a
  batch tool around nix and git. backup-verify, secret sync, the superseded bash pipeline: shell around external
  commands. e2e tests. The declarative configuration has no transitions.

## Plan

1. `BackupChain`: the methods of `backup.rs` over staging and the work volume, refined into
   the agent's `BackUp`; Disc deletion, re-rip of imported discs, the pause and space paths.
2. sso-token's cache and the updater's gates.
