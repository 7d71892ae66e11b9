-------------------------------- MODULE Ota --------------------------------
(***************************************************************************)
(* A/B firmware updates of the ESP boards (embedded/shared/ota): two app   *)
(* slots, the otadata sector that says which one boots, a trial boot for   *)
(* every new image and a rollback when it is not confirmed.  Every flash   *)
(* write is a step of its own and the chip may be reset between any two.   *)
(***************************************************************************)
EXTENDS Naturals, FiniteSets

CONSTANTS
    Versions,       \* the firmware versions people publish
    First,          \* the one flashed over USB into ota_0
    Loadable,       \* the versions whose image the bootloader can load
    Healthy,        \* those of them that reach the update server once they run
    Hanging,        \* those whose executor can hang, or that never call run()
    None,           \* no version
    MaxPublishes,   \* bound on what the server offers after First
    MaxResets,      \* bound on power losses
    TornActivation  \* whether power may be lost between the two otadata writes of an update

ASSUME VersionAssumption ==
    /\ First \in Healthy /\ Healthy \subseteq Loadable /\ Loadable \subseteq Versions
    /\ Hanging \subseteq Versions \ Healthy
    /\ None \notin Versions
ASSUME BoundAssumption ==
    MaxPublishes \in Nat /\ MaxResets \in Nat /\ TornActivation \in BOOLEAN

VARIABLES
    entry,      \* the two entries of otadata
    image,      \* what the slots hold: the version of the app descriptor, and if all of it
    pc,         \* where the chip is
    booted, trial, bad,     \* the fields of struct Ota
    late,       \* TRIAL_TIMEOUT has passed since run() started
    want,       \* the version of the manifest being installed
    offer,      \* the version the server's manifest names
    good,       \* history: versions whose trial was confirmed, and First
    rolled,     \* history: versions that were given up
    left        \* what the environment may still do

vars == <<entry, image, pc, booted, trial, bad, late, want, offer, good, rolled, left>>
flash == <<entry, image>>
ram == <<booted, trial, bad, late, want>>
history == <<good, rolled>>

Slot == {0, 1}
State == {"Undefined", "New", "PendingVerify", "Valid", "Invalid", "Aborted"}
Blank == [seq |-> 0, st |-> "Undefined"]
Pc == {"off", "boot", "adopt", "adopt2", "adopt3", "giveup", "run", "poll", "download", "select", "mark",
       "hung"}

(* Every variable has its shape. *)
TypeOK ==
    /\ entry \in [Slot -> [seq : Nat, st : State]]
    /\ image \in [Slot -> [ver : Versions \cup {None}, whole : BOOLEAN]]
    /\ pc \in Pc
    /\ booted \in Slot /\ trial \in BOOLEAN /\ bad \in Versions \cup {None}
    /\ late \in BOOLEAN /\ want \in Versions \cup {None} /\ offer \in Versions
    /\ good \subseteq Versions /\ rolled \subseteq Versions
    /\ left \in [publish : 0 .. MaxPublishes, reset : 0 .. MaxResets]

(* Flashed over USB: the image in ota_0, otadata erased. *)
Init ==
    /\ entry = [e \in Slot |-> Blank]
    /\ image = [s \in Slot |-> IF s = 0 THEN [ver |-> First, whole |-> TRUE]
                                        ELSE [ver |-> None, whole |-> FALSE]]
    /\ pc = "off" /\ booted = 0 /\ trial = FALSE /\ bad = None /\ late = FALSE
    /\ want = None /\ offer = First
    /\ good = {First} /\ rolled = {}
    /\ left = [publish |-> MaxPublishes, reset |-> MaxResets]

-----------------------------------------------------------------------------
(* otadata, as esp-bootloader-esp-idf and the bootloader read it: the      *)
(* entry with the highest sequence number is the current one, whatever its *)
(* state; the number's parity names the slot; 0 is an erased entry.        *)
IsBlank == entry[0].seq = 0 /\ entry[1].seq = 0
Current == IF entry[1].seq > entry[0].seq THEN 1 ELSE 0
SlotOf(e) == (entry[e].seq + 1) % 2
Selected == SlotOf(Current)
IsBad(e) == entry[e].seq # 0 /\ entry[e].st \in {"Invalid", "Aborted"}

SetCurrentOtaState(st) == entry' = [entry EXCEPT ![Current].st = st]

(* set_current_app_partition(): nothing if the slot is selected already;   *)
(* otherwise the next sequence number that stands for it goes into the     *)
(* other entry, whose state stays what it was or is erased.                *)
SetCurrentAppPartition(s) ==
    IF ~IsBlank /\ Selected = s THEN UNCHANGED entry
    ELSE LET e == IF IsBlank THEN 0 ELSE 1 - Current
             seq == IF IsBlank THEN s + 1 ELSE entry[Current].seq + 1
         IN \E st \in {entry[e].st, "Undefined"} : entry' = [entry EXCEPT ![e] = [seq |-> seq, st |-> st]]

(* The bootloader skips entries marked Invalid or Aborted, takes the       *)
(* highest of the others, and tries the other slot if the image there does *)
(* not load.                                                               *)
Loads(s) == image[s].whole /\ image[s].ver \in Loadable
Usable == {e \in Slot : entry[e].seq # 0 /\ ~IsBad(e)}
Preferred ==
    IF Usable = {} THEN 0
    ELSE SlotOf(CHOOSE e \in Usable : \A f \in Usable : entry[f].seq <= entry[e].seq)
BootSlot == IF Loads(Preferred) THEN Preferred ELSE 1 - Preferred

PowerOn ==
    /\ pc = "off"
    /\ Loads(BootSlot)
    /\ booted' = BootSlot
    /\ pc' = "boot"
    /\ UNCHANGED <<flash, trial, bad, late, want, offer, history, left>>

Running == image[booted].ver
Off == pc' = "off" /\ trial' = FALSE /\ late' = FALSE /\ want' = None

-----------------------------------------------------------------------------
(* read_bad_version(): the descriptor in the slot of an entry marked bad,  *)
(* the second entry's if both are.                                         *)
BadSlot == IF IsBad(1) THEN SlotOf(1) ELSE IF IsBad(0) THEN SlotOf(0) ELSE None  \* mutant
BadVersion ==
    IF IsBad(1) THEN image[SlotOf(1)].ver
    ELSE IF IsBad(0) THEN image[SlotOf(0)].ver ELSE None

(* Ota::boot().  The bad version is read before the match below marks one. *)
BootWithoutTrial ==                                                     \* mutant
    /\ pc = "boot"
    /\ bad' = BadVersion /\ trial' = FALSE
    /\ pc' = IF IsBlank THEN "adopt" ELSE "run"
    /\ SetCurrentOtaState(IF entry[Current].st = "New" THEN "Valid" ELSE entry[Current].st)
    /\ UNCHANGED <<image, booted, late, want, offer, history, left>>
Boot ==
    /\ pc = "boot"
    /\ bad' = BadVersion
    /\ \/ /\ IsBlank
          /\ pc' = "adopt"
          /\ UNCHANGED <<entry, trial, rolled>>
       \/ /\ ~IsBlank /\ Selected # booted
          /\ SetCurrentOtaState("Invalid")
          /\ rolled' = IF IsBad(Current) THEN rolled ELSE rolled \cup {image[Selected].ver}
          /\ pc' = "run"
          /\ UNCHANGED trial
       \/ /\ ~IsBlank /\ Selected = booted
          /\ CASE entry[Current].st = "New" ->
                    SetCurrentOtaState("PendingVerify") /\ trial' = TRUE /\ pc' = "run"
               [] entry[Current].st = "PendingVerify" ->
                    pc' = "giveup" /\ UNCHANGED <<entry, trial>>
               [] OTHER -> pc' = "run" /\ UNCHANGED <<entry, trial>>
          /\ UNCHANGED rolled
    /\ UNCHANGED <<image, booted, late, want, offer, good, left>>

(* Erased otadata: adopt the running slot as Valid, by way of ota_0. *)
Adopt ==
    /\ pc = "adopt" /\ SetCurrentAppPartition(0) /\ pc' = "adopt2"
    /\ UNCHANGED <<image, ram, offer, history, left>>
Adopt2 ==
    /\ pc = "adopt2" /\ SetCurrentAppPartition(booted) /\ pc' = "adopt3"
    /\ UNCHANGED <<image, ram, offer, history, left>>
Adopt3 ==
    /\ pc = "adopt3" /\ SetCurrentOtaState("Valid") /\ pc' = "run"
    /\ UNCHANGED <<image, ram, offer, history, left>>

(* The trial is over without a confirmation: mark it and reset. *)
GiveUp ==
    /\ pc = "giveup"
    /\ SetCurrentOtaState("Aborted")
    /\ rolled' = rolled \cup {Running}
    /\ Off
    /\ UNCHANGED <<image, booted, bad, offer, good, left>>

-----------------------------------------------------------------------------
(* run(): the timeout is looked at between two polls only. *)
LoopForever ==                                                          \* mutant
    pc = "run" /\ pc' = "poll" /\ UNCHANGED <<flash, ram, offer, history, left>>
Loop ==
    /\ pc = "run"
    /\ pc' = IF trial /\ late THEN "giveup" ELSE "poll"
    /\ UNCHANGED <<flash, ram, offer, history, left>>

(* confirm() after a poll that went well. *)
Confirmed ==
    /\ pc' = "run"
    /\ IF trial
       THEN SetCurrentOtaState("Valid") /\ trial' = FALSE /\ good' = good \cup {Running}
       ELSE UNCHANGED <<entry, trial, good>>

(* poll() read the manifest: nothing to do, or a version to download. *)
UpToDate == offer = Running \/ offer = bad                               \* mutant
NothingToDo == offer = Running \/ offer = bad \/ trial
PollOk ==
    /\ pc = "poll" /\ Running \in Healthy
    /\ NothingToDo
    /\ Confirmed
    /\ UNCHANGED <<image, booted, bad, late, want, offer, rolled, left>>
PollNew ==
    /\ pc = "poll" /\ Running \in Healthy
    /\ ~NothingToDo
    /\ want' = offer
    /\ pc' = "download"
    /\ UNCHANGED <<flash, booted, trial, bad, late, offer, history, left>>

(* No network, no answer, a bad manifest, or 180 s gone. *)
PollFails ==
    /\ pc = "poll"
    /\ pc' = "run"
    /\ UNCHANGED <<flash, ram, offer, history, left>>

(* write_slot() overwrites the slot the chip does not run from. *)
Target == 1 - booted
Write(v) ==
    /\ pc = "download"
    /\ image[Target] # [ver |-> v, whole |-> FALSE]
    /\ image' = [image EXCEPT ![Target] = [ver |-> v, whole |-> FALSE]]
    /\ UNCHANGED <<entry, pc, ram, offer, history, left>>

(* All of it arrived and its SHA-256 is the manifest's. *)
DigestDiffers ==                                                        \* mutant
    /\ pc = "download"
    /\ pc' = "run" /\ want' = None
    /\ UNCHANGED <<flash, booted, trial, bad, late, offer, history, left>>
WriteDone ==
    /\ pc = "download"
    /\ image' = [image EXCEPT ![Target] = [ver |-> want, whole |-> TRUE]]
    /\ pc' = "select"
    /\ UNCHANGED <<entry, ram, offer, history, left>>

(* Too big, short, corrupt or cut off: not activated, polled again. *)
WriteFails ==
    /\ pc = "download"
    /\ pc' = "run" /\ want' = None
    /\ UNCHANGED <<flash, booted, trial, bad, late, offer, history, left>>

Select ==
    /\ pc = "select" /\ SetCurrentAppPartition(Target) /\ pc' = "mark"
    /\ UNCHANGED <<image, ram, offer, history, left>>
MarkValid ==                                                            \* mutant
    /\ pc = "mark" /\ SetCurrentOtaState("Valid") /\ Off
    /\ UNCHANGED <<image, booted, bad, offer, history, left>>
Mark ==
    /\ pc = "mark" /\ SetCurrentOtaState("New") /\ Off
    /\ UNCHANGED <<image, booted, bad, offer, history, left>>

-----------------------------------------------------------------------------
(* Power is lost; a broken image panics, which resets the chip. *)
Reset ==
    /\ pc # "off" /\ left.reset > 0
    /\ TornActivation \/ pc # "mark"
    /\ left' = [left EXCEPT !.reset = @ - 1]
    /\ Off
    /\ UNCHANGED <<flash, booted, bad, offer, history>>
Panic ==
    /\ pc \in {"run", "poll"} /\ Running \notin Healthy
    /\ Off
    /\ UNCHANGED <<flash, booted, bad, offer, history, left>>

(* The image hangs, or is one built without Wi-Fi or an update URL, which  *)
(* greets and never calls run() (main.rs:82-89): there is no watchdog, and *)
(* it goes on until somebody resets it.                                    *)
Hang ==
    /\ pc \in {"run", "poll", "hung"} /\ Running \in Hanging
    /\ pc' = "hung"
    /\ UNCHANGED <<flash, ram, offer, history, left>>

(* Two minutes of a trial pass. *)
TimePasses ==
    /\ trial /\ ~late
    /\ late' = TRUE
    /\ UNCHANGED <<flash, pc, booted, trial, bad, want, offer, history, left>>

Publish(v) ==
    /\ left.publish > 0 /\ v # offer
    /\ offer' = v
    /\ left' = [left EXCEPT !.publish = @ - 1]
    /\ UNCHANGED <<flash, pc, ram, history>>

Chip == PowerOn \/ Boot \/ Adopt \/ Adopt2 \/ Adopt3 \/ GiveUp \/ Loop \/ PollFails
        \/ WriteFails \/ Select \/ Mark
Next ==
    \/ Chip \/ PollOk \/ PollNew \/ WriteDone
    \/ \E v \in {None, want} : Write(v)
    \/ Reset \/ Panic \/ Hang \/ TimePasses
    \/ \E v \in Versions : Publish(v)

Spec == Init /\ [][Next]_vars

(* A chip that does not hang runs, time passes, and the network is there   *)
(* again and again.  Nobody is assumed to cut the power of one that hangs. *)
Fairness ==
    /\ WF_vars(Chip) /\ WF_vars(TimePasses)
    /\ SF_vars(PollOk) /\ SF_vars(PollNew) /\ SF_vars(WriteDone)
FairSpec == Spec /\ Fairness

-----------------------------------------------------------------------------
(* The chip never bricks itself: whenever power is lost, the bootloader    *)
(* finds a complete image, and unless a trial or an activation is under    *)
(* way it is one that was confirmed before.                                *)
Boots == Loads(BootSlot)
Recoverable ==
    /\ Boots
    /\ \/ image[BootSlot].ver \in good
       \/ pc = "mark"
       \/ ~IsBlank /\ entry[Current].st \in {"New", "PendingVerify"}

(* While an unconfirmed image is tried, the other slot keeps an image that *)
(* was confirmed, and giving the trial up boots that one.                  *)
RollbackReady ==
    entry[Current].st \in {"New", "PendingVerify"} /\ ~IsBlank =>
        /\ image[1 - Selected].whole /\ image[1 - Selected].ver \in good
        /\ ~IsBad(1 - Current)

(* Outside a trial only confirmed images run the update loop. *)
OnlyTrustedRun == pc \in {"run", "poll", "download", "select", "mark"} /\ ~trial => Running \in good

(* No trial lasts: it is confirmed, given up, or ends in a reset, unless   *)
(* its image hangs for good.  run() itself looks at TRIAL_TIMEOUT, so a    *)
(* hung one keeps the chip (iot-ota.md:78: a watchdog is "missing [...] so *)
(* a hung executor also rolls back"); a power cycle ends it like any other. *)
TrialEnds == trial ~> (~trial \/ [](pc = "hung"))

(* A sound version that stays on offer is installed and confirmed, or was  *)
(* given up, or is refused as the bad version: the chip never just keeps   *)
(* downloading it, unless it hangs in the trial of another.                *)
Settles ==
    \A v \in Healthy :
        <>[](offer = v) => <>[](v \in good \/ v \in rolled \/ bad = v) \/ <>[](pc = "hung")

(* "A version whose slot is ABORTED/INVALID is ... never re-downloaded",   *)
(* and only such a version: what the chip refuses it has tried.            *)
RefusedWasTried == bad # None => bad \in rolled
=============================================================================
