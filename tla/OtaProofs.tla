------------------------------ MODULE OtaProofs ------------------------------
(***************************************************************************)
(* Over any sequence of published versions, power losses and broken        *)
(* images, the chip keeps an image to boot and to fall back to.            *)
(***************************************************************************)
EXTENDS Ota, TLAPS

\* The images the chip may be left with: the confirmed ones.  With power lost
\* between the two otadata writes of an update an image runs that was never on
\* trial, and then all that is known of a fallback is that it reaches the server.
Trusted == IF TornActivation THEN Healthy ELSE good
Safe(s) == image[s].whole /\ image[s].ver \in Trusted

\* otadata is erased, or its two sequence numbers follow each other, so that the
\* two entries are about different slots.
Alternate ==
    IsBlank \/ entry[1].seq = entry[0].seq + 1 \/ entry[0].seq = entry[1].seq + 1

OnTrial == entry[Current].st \in {"New", "PendingVerify"}

\* The bootloader can fall back from the current entry to the other one.
Fallback ==
    /\ Safe(1 - Selected)
    /\ entry[1 - Current].seq # 0 /\ ~IsBad(1 - Current)

\* What otadata and the slots hold, wherever the chip is: an image to rely on is
\* current, or the bootloader can fall back on one.
Settled == Safe(Selected) /\ ~IsBad(Current) /\ ~OnTrial
Unsettled ==
    /\ Fallback
    /\ IsBad(Current) \/ image[Selected].whole
    /\ OnTrial \/ IsBad(Current) \/ TornActivation \/ pc = "mark"
Stored == IF IsBlank THEN Safe(0) /\ entry[0] = Blank ELSE Settled \/ Unsettled

\* What the chip knows at each point of boot() and run().
AtBoot ==
    pc = "boot" =>
        /\ Loads(booted)
        /\ IF IsBlank THEN booted = 0
           ELSE IF Selected = booted THEN ~IsBad(Current) ELSE Fallback
AtAdopt ==
    /\ pc = "adopt" => IsBlank
    /\ pc \in {"adopt", "adopt2", "adopt3"} => Safe(0) /\ booted = 0 /\ ~trial
    /\ pc \in {"adopt2", "adopt3"} => ~IsBlank /\ Selected = 0 /\ ~OnTrial /\ ~IsBad(Current)
AtTrial ==
    /\ trial => pc \in {"run", "poll", "giveup", "hung"}
    /\ trial \/ pc = "giveup" => ~IsBlank /\ Selected = booted /\ entry[Current].st = "PendingVerify"
AtRun ==
    pc \in {"run", "poll", "download", "select"} /\ ~trial =>
        /\ ~IsBlank
        /\ Safe(booted) \/ (TornActivation /\ Running \notin Healthy /\ pc \in {"run", "poll"})
        /\ IF Selected = booted THEN ~OnTrial /\ ~IsBad(Current) ELSE Fallback /\ IsBad(Current)
AtMark ==
    /\ pc \in {"download", "select", "mark"} => Running \in Healthy
    /\ pc \in {"download", "select"} => want # None
    /\ pc = "mark" => ~IsBlank /\ Selected = Target /\ image[Target].whole /\ Fallback
    /\ pc = "select" => image[Target].whole

\* A complete image has a version.
Named == \A s \in Slot : image[s].whole => image[s].ver # None

IInv ==
    /\ TypeOK /\ good \subseteq Healthy /\ Alternate /\ Stored /\ Named
    /\ AtBoot /\ AtAdopt /\ AtTrial /\ AtRun /\ AtMark

-----------------------------------------------------------------------------
\* Slots and entries are numbered 0 and 1.
LEMMA TwoSlots == \A s \in Slot : 1 - s \in Slot /\ 1 - (1 - s) = s /\ 1 - s # s
BY DEF Slot

\* Consecutive sequence numbers name the two slots in turn.
LEMMA Parity ==
    \A n \in Nat : (n + 1) % 2 \in {0, 1} /\ (n + 2) % 2 = 1 - ((n + 1) % 2)
OBVIOUS

\* otadata's current entry and the other one are about different slots.
LEMMA CurrentIsHighest ==
    ASSUME TypeOK, Alternate, ~IsBlank
    PROVE  /\ Current \in Slot /\ 1 - Current \in Slot /\ Selected \in Slot
           /\ entry[Current].seq # 0 /\ entry[Current].seq = entry[1 - Current].seq + 1
           /\ SlotOf(1 - Current) = 1 - Selected
<1>1. /\ entry[0].seq \in Nat /\ entry[1].seq \in Nat
      /\ entry \in [Slot -> [seq : Nat, st : State]] /\ 0 \in Slot /\ 1 \in Slot
  BY DEF TypeOK, Slot
<1>2. CASE entry[1].seq = entry[0].seq + 1
  <2>1. Current = 1
    BY <1>1, <1>2 DEF Current
  <2> QED
    BY <1>1, <1>2, <2>1, Parity DEF Selected, SlotOf, Slot
<1>3. CASE entry[0].seq = entry[1].seq + 1
  <2>1. Current = 0
    BY <1>1, <1>3 DEF Current
  <2> QED
    BY <1>1, <1>3, <2>1, Parity DEF Selected, SlotOf, Slot
<1> QED
  BY <1>2, <1>3 DEF Alternate

\* Which slot the bootloader prefers.
LEMMA PrefersCurrent ==
    ASSUME TypeOK, Alternate, ~IsBlank, ~IsBad(Current)
    PROVE  Preferred = Selected
<1>1. /\ Current \in Slot /\ entry[Current].seq # 0 /\ entry[Current].seq = entry[1 - Current].seq + 1
      /\ \A e \in Slot : e = Current \/ e = 1 - Current
  BY CurrentIsHighest DEF Slot, Current
<1>2. entry[1 - Current].seq \in Nat /\ entry[Current].seq \in Nat
  BY <1>1, TwoSlots DEF TypeOK
<1>3. Current \in Usable
  BY <1>1 DEF Usable
<1>4. \A e \in Usable : (\A f \in Usable : entry[f].seq <= entry[e].seq) <=> e = Current
  BY <1>1, <1>2, <1>3 DEF Usable
<1>5. (CHOOSE e \in Usable : \A f \in Usable : entry[f].seq <= entry[e].seq) = Current
  BY <1>3, <1>4
<1> QED
  BY <1>3, <1>5 DEF Preferred, Selected

\* With its current entry marked bad, otadata makes the bootloader prefer the other slot.
LEMMA PrefersOther ==
    ASSUME TypeOK, Alternate, ~IsBlank, IsBad(Current), Fallback
    PROVE  Preferred = 1 - Selected
<1>1. /\ Current \in Slot /\ 1 - Current \in Slot /\ SlotOf(1 - Current) = 1 - Selected
      /\ \A e \in Slot : e = Current \/ e = 1 - Current
  BY CurrentIsHighest DEF Slot, Current
<1>2. Usable = {1 - Current}
  BY <1>1 DEF Usable, Fallback
<1>3. entry[1 - Current].seq \in Nat
  BY <1>1 DEF TypeOK
<1>4. (CHOOSE e \in Usable : \A f \in Usable : entry[f].seq <= entry[e].seq) = 1 - Current
  BY <1>2, <1>3
<1> QED
  BY <1>1, <1>2, <1>4 DEF Preferred

\* A trusted image loads.
LEMMA SafeLoads == ASSUME good \subseteq Healthy, NEW s, Safe(s) PROVE Loads(s) /\ image[s].ver \in Healthy
BY VersionAssumption DEF Safe, Trusted, Loads

\* The bootloader finds an image, and which.
LEMMA BootsSomething ==
    ASSUME TypeOK, good \subseteq Healthy, Alternate, Stored
    PROVE  /\ Loads(BootSlot) /\ BootSlot \in Slot
           /\ IF IsBlank THEN BootSlot = 0 /\ Safe(0)
              ELSE IF Selected = BootSlot THEN ~IsBad(Current)
              ELSE BootSlot = 1 - Selected /\ Fallback
<1>1. CASE IsBlank
  <2>1. Usable = {}
    BY <1>1 DEF Usable, IsBlank, Slot
  <2>2. Preferred = 0 /\ Safe(0)
    BY <1>1, <2>1 DEF Preferred, Stored
  <2> QED
    BY <1>1, <2>2, SafeLoads DEF BootSlot, Slot
<1>2. CASE ~IsBlank /\ ~IsBad(Current)
  <2>1. Preferred = Selected /\ Selected \in Slot
    BY <1>2, PrefersCurrent, CurrentIsHighest
  <2>2. Loads(Selected) \/ Fallback
    BY <1>2, SafeLoads DEF Stored, Settled, Unsettled
  <2>3. Fallback => Loads(1 - Selected)
    BY SafeLoads DEF Fallback
  <2> QED
    BY <1>2, <2>1, <2>2, <2>3, TwoSlots DEF BootSlot
<1>3. CASE ~IsBlank /\ IsBad(Current)
  <2>1. Fallback
    BY <1>3 DEF Stored, Settled, Unsettled
  <2>2. Preferred = 1 - Selected /\ Selected \in Slot
    BY <1>3, <2>1, PrefersOther, CurrentIsHighest
  <2>3. Loads(1 - Selected)
    BY <2>1, SafeLoads DEF Fallback
  <2> QED
    BY <1>3, <2>1, <2>2, <2>3, TwoSlots DEF BootSlot
<1> QED
  BY <1>1, <1>2, <1>3

\* Only the state of the current entry is written.
LEMMA StateWritten ==
    ASSUME TypeOK, NEW st \in State, SetCurrentOtaState(st)
    PROVE  /\ entry' \in [Slot -> [seq : Nat, st : State]]
           /\ Current \in Slot /\ Current' = Current /\ Selected' = Selected /\ IsBlank' = IsBlank
           /\ \A e \in Slot : entry'[e].seq = entry[e].seq
           /\ entry'[Current].st = st
           /\ entry'[1 - Current] = entry[1 - Current]
           /\ Alternate' = Alternate
<1>1. Current \in Slot /\ 1 - Current \in Slot /\ 1 - Current # Current /\ 0 \in Slot /\ 1 \in Slot
  BY DEF Current, Slot
<1> DEFINE x == [entry[Current] EXCEPT !.st = st]
<1>2. entry' = [entry EXCEPT ![Current] = x]
  BY <1>1 DEF SetCurrentOtaState, TypeOK
<1>3. x \in [seq : Nat, st : State] /\ x.seq = entry[Current].seq /\ x.st = st
  BY <1>1 DEF TypeOK
<1> HIDE DEF x
<1>4. /\ entry' \in [Slot -> [seq : Nat, st : State]]
      /\ \A e \in Slot : entry'[e].seq = entry[e].seq
      /\ entry'[Current].st = st /\ entry'[1 - Current] = entry[1 - Current]
  BY <1>1, <1>2, <1>3 DEF TypeOK
<1>5. Current' = Current
  BY <1>1, <1>4 DEF Current
<1>6. Selected' = Selected
  BY <1>1, <1>4, <1>5 DEF Selected, SlotOf
<1> QED
  BY <1>1, <1>4, <1>5, <1>6 DEF IsBlank, Alternate

-----------------------------------------------------------------------------
\* A step that leaves flash and the confirmed versions alone leaves all that is
\* read from them.
LEMMA SameFlash ==
    ASSUME UNCHANGED <<entry, image, good>>
    PROVE  /\ IsBlank' = IsBlank /\ Current' = Current /\ Selected' = Selected
           /\ Alternate' = Alternate /\ OnTrial' = OnTrial /\ IsBad(Current)' = IsBad(Current)
           /\ Settled' = Settled /\ Fallback' = Fallback
           /\ \A s : Safe(s)' = Safe(s) /\ Loads(s)' = Loads(s)
<1>1. IsBlank' = IsBlank /\ Current' = Current /\ Alternate' = Alternate
  BY DEF IsBlank, Current, Alternate
<1>2. Selected' = Selected /\ OnTrial' = OnTrial
  BY <1>1 DEF Selected, SlotOf, OnTrial
<1>3. \A s : Safe(s)' = Safe(s) /\ Loads(s)' = Loads(s)
  BY DEF Safe, Trusted, Loads
<1>4. \A e : IsBad(e)' = IsBad(e)
  BY DEF IsBad
<1> QED
  BY <1>1, <1>2, <1>3, <1>4 DEF Settled, Fallback, Safe, Trusted, IsBad

\* PowerOn, Loop, PollFails, PollNew, WriteFails, Reset, Panic, Hang,
\* TimePasses and Publish write no flash.
LEMMA PowerOnKeeps == ASSUME IInv, PowerOn PROVE IInv'
<1>1. UNCHANGED <<entry, image, good>> /\ pc = "off" /\ pc' = "boot" /\ booted' = BootSlot
      /\ ~trial /\ ~trial'
  BY DEF PowerOn, flash, history, IInv, AtTrial
<1>2. /\ Loads(BootSlot) /\ BootSlot \in Slot
      /\ IF IsBlank THEN BootSlot = 0 /\ Safe(0)
         ELSE IF Selected = BootSlot THEN ~IsBad(Current)
         ELSE BootSlot = 1 - Selected /\ Fallback
  BY BootsSomething DEF IInv
<1>3. TypeOK' /\ (good \subseteq Healthy)'
  BY <1>1, <1>2 DEF PowerOn, flash, history, IInv, TypeOK, Pc
<1>4. Alternate' /\ Stored' /\ Named'
  BY <1>1, SameFlash DEF IInv, Stored, Unsettled, Named
<1>5. AtBoot'
  BY <1>1, <1>2, SameFlash DEF AtBoot
<1> QED
  BY <1>1, <1>3, <1>4, <1>5 DEF IInv, AtAdopt, AtTrial, AtRun, AtMark

\* The chip goes off: nothing but flash counts.
LEMMA OffKeeps ==
    ASSUME IInv, Off, UNCHANGED <<flash, booted, bad, offer, history>>,
           TornActivation \/ pc # "mark",
           left' \in [publish : 0 .. MaxPublishes, reset : 0 .. MaxResets]
    PROVE  IInv'
<1>1. UNCHANGED <<entry, image, good>> /\ pc' = "off" /\ ~trial'
  BY DEF Off, flash, history
<1>2. TypeOK' /\ (good \subseteq Healthy)'
  BY DEF Off, flash, history, IInv, TypeOK, Pc
<1>3. Alternate' /\ Stored' /\ Named'
  BY <1>1, SameFlash DEF IInv, Stored, Unsettled, Named
<1> QED
  BY <1>1, <1>2, <1>3 DEF IInv, AtBoot, AtAdopt, AtTrial, AtRun, AtMark

\* A power loss or a panic.
LEMMA ResetKeeps == ASSUME IInv, Reset \/ Panic PROVE IInv'
<1>1. left' \in [publish : 0 .. MaxPublishes, reset : 0 .. MaxResets]
  BY BoundAssumption DEF Reset, Panic, IInv, TypeOK
<1> QED
  BY <1>1, OffKeeps DEF Reset, Panic

\* Time and what the server offers say nothing about flash.
LEMMA WorldKeeps == ASSUME IInv, TimePasses \/ \E v \in Versions : Publish(v) PROVE IInv'
<1>1. UNCHANGED <<entry, image, good, pc, booted, trial, want>>
  BY DEF TimePasses, Publish, flash, history, ram
<1>2. TypeOK' /\ (good \subseteq Healthy)'
  <2>1. left' \in [publish : 0 .. MaxPublishes, reset : 0 .. MaxResets]
    BY BoundAssumption DEF TimePasses, Publish, IInv, TypeOK
  <2> QED
    BY <2>1 DEF TimePasses, Publish, flash, history, ram, IInv, TypeOK
<1>3. Alternate' /\ Stored' /\ Named' /\ AtBoot' /\ AtAdopt' /\ AtTrial'
  BY <1>1, SameFlash DEF IInv, Stored, Unsettled, Named, AtBoot, AtAdopt, AtTrial
<1>4. AtRun' /\ AtMark'
  BY <1>1, SameFlash DEF IInv, AtRun, AtMark, Running, Target
<1> QED
  BY <1>2, <1>3, <1>4 DEF IInv

\* The loop's own steps between polls and downloads.
LEMMA LoopKeeps == ASSUME IInv, Loop \/ PollFails \/ PollNew \/ WriteFails \/ Hang PROVE IInv'
<1>1. UNCHANGED <<entry, image, good, booted, trial>> /\ pc' \in {"run", "poll", "giveup", "download", "hung"}
      /\ pc \in {"run", "poll", "download", "hung"} /\ (pc = "hung" => pc' = "hung")
      /\ (pc' = "giveup" => trial)
      /\ (pc' = "download" => ~trial /\ Running \in Healthy /\ want' # None /\ pc = "poll")
      /\ (trial => pc' \in {"run", "poll", "giveup", "hung"})
  BY VersionAssumption
     DEF Loop, PollFails, PollNew, WriteFails, Hang, NothingToDo, flash, history, ram, IInv, TypeOK, AtTrial
<1>2. TypeOK' /\ (good \subseteq Healthy)'
  BY DEF Loop, PollFails, PollNew, WriteFails, Hang, flash, history, ram, IInv, TypeOK, Pc
<1>3. Alternate' /\ Stored' /\ Named' /\ AtBoot' /\ AtAdopt'
  BY <1>1, SameFlash DEF IInv, Stored, Unsettled, Named, AtBoot, AtAdopt
<1>4. AtTrial' /\ AtMark'
  BY <1>1, SameFlash DEF IInv, AtTrial, AtMark, Running
<1>5. AtRun'
  BY <1>1, SameFlash DEF IInv, AtRun, Running
<1> QED
  BY <1>2, <1>3, <1>4, <1>5 DEF IInv

-----------------------------------------------------------------------------
\* write_slot() writes the slot the chip does not run from: what the chip relies on
\* is the running one, and the written one is current only when it is marked bad.
LEMMA TargetWritten ==
    ASSUME IInv, pc = "download", pc' \in {"download", "select"},
           NEW i \in [ver : Versions \cup {None}, whole : BOOLEAN],
           image' = [image EXCEPT ![Target] = i], pc' = "select" => i.whole, i.whole => i.ver # None,
           UNCHANGED <<entry, ram, offer, history, left>>
    PROVE  IInv'
<1>1. UNCHANGED <<entry, good, rolled, booted, trial, want, bad, late>>
  BY DEF ram, history
<1>2. booted \in Slot /\ Target \in Slot /\ Target # booted /\ 1 - Target = booted /\ Target' = Target
  BY <1>1, TwoSlots DEF IInv, TypeOK, Target
<1>3. image' \in [Slot -> [ver : Versions \cup {None}, whole : BOOLEAN]]
      /\ image'[Target] = i /\ image'[booted] = image[booted]
  BY <1>2 DEF IInv, TypeOK
<1>4. /\ IsBlank' = IsBlank /\ Current' = Current /\ Selected' = Selected /\ Alternate' = Alternate
      /\ OnTrial' = OnTrial /\ IsBad(Current)' = IsBad(Current)
  <2>1. IsBlank' = IsBlank /\ Current' = Current /\ Alternate' = Alternate
    BY <1>1 DEF IsBlank, Current, Alternate
  <2> QED
    BY <1>1, <2>1 DEF Selected, SlotOf, OnTrial, IsBad
<1>5. ~trial /\ ~IsBlank /\ Safe(booted) /\ Running \in Healthy /\ want # None
      /\ IF Selected = booted THEN ~OnTrial /\ ~IsBad(Current) ELSE Fallback /\ IsBad(Current)
  BY DEF IInv, AtTrial, AtRun, AtMark
<1>6. Safe(booted)'
  BY <1>1, <1>3, <1>5 DEF Safe, Trusted
<1>7. Selected \in Slot /\ (Selected # booted => 1 - Selected = booted)
  BY <1>2, <1>5, CurrentIsHighest DEF IInv, Slot
<1>8. Selected # booted => Fallback'
  BY <1>1, <1>4, <1>5, <1>6, <1>7 DEF Fallback, IsBad
<1>9. TypeOK' /\ (good \subseteq Healthy)'
  BY <1>1, <1>3 DEF IInv, TypeOK, Pc
<1>10. Stored' /\ Named'
  <2>1. Stored'
    BY <1>1, <1>4, <1>5, <1>6, <1>8 DEF Stored, Settled, Unsettled, OnTrial, IsBad
  <2>2. \A s \in Slot : s = Target \/ s = booted
    BY <1>2 DEF Slot
  <2> QED
    BY <1>3, <2>1, <2>2 DEF Named, IInv
<1>11. AtRun' /\ AtMark'
  BY <1>1, <1>2, <1>3, <1>4, <1>5, <1>6, <1>8 DEF AtRun, AtMark, Running
<1> QED
  BY <1>1, <1>4, <1>5, <1>9, <1>10, <1>11 DEF IInv, AtBoot, AtAdopt, AtTrial

\* A download that begins or is cut off writes the slot nobody runs.
LEMMA WriteKeeps == ASSUME IInv, NEW v \in {None, want}, Write(v) PROVE IInv'
<1>1. [ver |-> v, whole |-> FALSE] \in [ver : Versions \cup {None}, whole : BOOLEAN]
  BY DEF IInv, TypeOK
<1> QED
  BY <1>1, TargetWritten DEF Write

\* A download that is complete.
LEMMA WriteDoneKeeps == ASSUME IInv, WriteDone PROVE IInv'
<1> DEFINE i == [ver |-> want, whole |-> TRUE]
<1>1. i \in [ver : Versions \cup {None}, whole : BOOLEAN] /\ i.whole /\ i.ver # None
  BY DEF IInv, TypeOK, WriteDone, AtMark
<1>2. image' = [image EXCEPT ![Target] = i]
  BY DEF WriteDone
<1> HIDE DEF i
<1> QED
  BY <1>1, <1>2, TargetWritten DEF WriteDone

\* The new slot becomes current; the running one is what the bootloader falls back on.
LEMMA SelectKeeps == ASSUME IInv, Select PROVE IInv'
<1>1. UNCHANGED <<image, good, rolled, booted, trial, want, bad, late, offer, left>>
      /\ pc = "select" /\ pc' = "mark" /\ SetCurrentAppPartition(Target)
  BY DEF Select, ram, history
<1>2. ~trial /\ ~IsBlank /\ Safe(booted) /\ Running \in Healthy /\ image[Target].whole
      /\ IF Selected = booted THEN ~OnTrial /\ ~IsBad(Current) ELSE Fallback /\ IsBad(Current)
  BY <1>1 DEF IInv, AtTrial, AtRun, AtMark
<1>3. booted \in Slot /\ Target \in Slot /\ Target # booted /\ 1 - Target = booted /\ Target' = Target
  BY <1>1, TwoSlots DEF IInv, TypeOK, Target
<1>4. /\ Current \in Slot /\ 1 - Current \in Slot /\ Selected \in Slot
      /\ entry[Current].seq # 0 /\ entry[Current].seq = entry[1 - Current].seq + 1
      /\ SlotOf(1 - Current) = 1 - Selected
  BY <1>2, CurrentIsHighest DEF IInv
<1>5. \A s : Safe(s)' = Safe(s)
  BY <1>1 DEF Safe, Trusted
<1>6. /\ entry' \in [Slot -> [seq : Nat, st : State]]
      /\ Alternate' /\ ~IsBlank' /\ Selected' = Target /\ Fallback'
  <2>1. CASE Selected = Target
    <3>1. UNCHANGED entry
      BY <1>1, <1>2, <2>1 DEF SetCurrentAppPartition
    <3>2. UNCHANGED <<entry, image, good>> /\ Fallback
      BY <1>1, <1>2, <1>3, <2>1, <3>1
    <3> QED
      BY <3>2, <1>2, <2>1, SameFlash DEF IInv, TypeOK
  <2>2. CASE Selected # Target
    <3>1. PICK c \in Slot, n \in Nat, st \in State :
             /\ c = Current /\ n = entry[Current].seq + 1
             /\ entry' = [entry EXCEPT ![1 - c] = [seq |-> n, st |-> st]]
      <4>1. entry[1 - Current].st \in State /\ entry[Current].seq + 1 \in Nat
        BY <1>4 DEF IInv, TypeOK
      <4>2. PICK st \in {entry[1 - Current].st, "Undefined"} :
               entry' = [entry EXCEPT ![1 - Current] = [seq |-> entry[Current].seq + 1, st |-> st]]
        BY <1>1, <1>2, <2>2 DEF SetCurrentAppPartition
      <4>3. st \in State
        BY <4>1 DEF State
      <4> QED
        BY <1>4, <4>1, <4>2, <4>3
    <3>2. /\ entry' \in [Slot -> [seq : Nat, st : State]]
          /\ entry'[c] = entry[c] /\ entry'[1 - c].seq = n /\ n = entry[c].seq + 1 /\ n > entry[c].seq
          /\ c \in Slot /\ 1 - c \in Slot /\ entry[c].seq \in Nat /\ entry[c].seq # 0
      BY <3>1, <1>4, TwoSlots DEF IInv, TypeOK
    <3>3. Current' = 1 - c /\ ~IsBlank' /\ Alternate'
      BY <3>2 DEF Current, IsBlank, Alternate, Slot
    <3>4. Selected' = 1 - Selected
      <4>1. Selected' = (n + 1) % 2
        BY <3>2, <3>3 DEF Selected, SlotOf
      <4>2. Selected = (entry[c].seq + 1) % 2
        BY <3>1 DEF Selected, SlotOf
      <4>3. (n + 1) % 2 = 1 - ((entry[c].seq + 1) % 2)
        BY <3>2, Parity
      <4> QED
        BY <1>4, <4>1, <4>2, <4>3
    <3>5. Selected = booted /\ Selected' = Target /\ 1 - Selected' = booted /\ 1 - Current' = c
      BY <2>2, <3>2, <3>3, <3>4, <1>3, <1>4 DEF Slot, Target
    <3>6. ~IsBad(c)'
      BY <3>1, <3>2, <3>5, <1>2 DEF IsBad
    <3>7. Fallback'
      BY <1>2, <1>5, <3>2, <3>5, <3>6 DEF Fallback, IsBad, Safe, Trusted
    <3> QED
      BY <3>2, <3>3, <3>5, <3>7
  <2> QED
    BY <2>1, <2>2
<1>7. TypeOK' /\ (good \subseteq Healthy)'
  BY <1>1, <1>6 DEF IInv, TypeOK, Pc
<1>8. Stored' /\ Named'
  BY <1>1, <1>2, <1>3, <1>6 DEF Stored, Unsettled, Named, IInv
<1>9. AtMark'
  BY <1>1, <1>2, <1>3, <1>6 DEF AtMark, Running
<1> QED
  BY <1>1, <1>2, <1>6, <1>7, <1>8, <1>9 DEF IInv, AtBoot, AtAdopt, AtTrial, AtRun

\* What a written state leaves of everything else.
LEMMA StateOnly ==
    ASSUME IInv, ~IsBlank, NEW st \in State, SetCurrentOtaState(st), UNCHANGED image,
           good \subseteq good'
    PROVE  /\ entry' \in [Slot -> [seq : Nat, st : State]] /\ Alternate' /\ ~IsBlank'
           /\ Selected' = Selected /\ Selected \in Slot
           /\ OnTrial' <=> st \in {"New", "PendingVerify"}
           /\ IsBad(Current)' <=> st \in {"Invalid", "Aborted"}
           /\ entry[Current].st' = st
           /\ Fallback => Fallback'
           /\ \A s : Safe(s) => Safe(s)'
<1>1. /\ entry' \in [Slot -> [seq : Nat, st : State]]
      /\ Current \in Slot /\ Current' = Current /\ Selected' = Selected /\ IsBlank' = IsBlank
      /\ \A e \in Slot : entry'[e].seq = entry[e].seq
      /\ entry'[Current].st = st
      /\ entry'[1 - Current] = entry[1 - Current]
      /\ Alternate' = Alternate
  BY StateWritten DEF IInv
<1>2. \A s : Safe(s) => Safe(s)'
  BY DEF Safe, Trusted
<1>3. entry[Current].seq # 0 /\ Selected \in Slot
  BY CurrentIsHighest DEF IInv
<1>4. Fallback => Fallback'
  BY <1>1, <1>2 DEF Fallback, IsBad, Safe, Trusted
<1> QED
  BY <1>1, <1>2, <1>3, <1>4 DEF IInv, OnTrial, IsBad

\* The new entry is marked for a trial.
LEMMA MarkKeeps == ASSUME IInv, Mark PROVE IInv'
<1>1. /\ pc = "mark" /\ pc' = "off" /\ ~trial' /\ SetCurrentOtaState("New")
      /\ UNCHANGED <<image, good>> /\ "New" \in State
  BY DEF Mark, Off, history, State
<1>2. ~IsBlank /\ Selected = Target /\ image[Target].whole /\ Fallback
  BY <1>1 DEF IInv, AtMark
<1>3. /\ entry' \in [Slot -> [seq : Nat, st : State]] /\ Alternate' /\ ~IsBlank'
      /\ Selected' = Selected /\ OnTrial' /\ Fallback'
  BY <1>1, <1>2, StateOnly
<1>4. TypeOK' /\ (good \subseteq Healthy)'
  BY <1>1, <1>3 DEF Mark, Off, history, IInv, TypeOK, Pc
<1>5. Stored' /\ Named'
  BY <1>1, <1>2, <1>3 DEF Stored, Unsettled, Named, IInv
<1> QED
  BY <1>1, <1>3, <1>4, <1>5 DEF IInv, AtBoot, AtAdopt, AtTrial, AtRun, AtMark

\* A trial that is given up.
LEMMA GiveUpKeeps == ASSUME IInv, GiveUp PROVE IInv'
<1>1. /\ pc = "giveup" /\ pc' = "off" /\ ~trial' /\ SetCurrentOtaState("Aborted")
      /\ UNCHANGED <<image, good>> /\ "Aborted" \in State
  BY DEF GiveUp, Off, State
<1>2. ~IsBlank /\ OnTrial
  BY <1>1 DEF IInv, AtTrial, OnTrial
<1>3. Fallback
  BY <1>2 DEF IInv, Stored, Settled, Unsettled
<1>4. /\ entry' \in [Slot -> [seq : Nat, st : State]] /\ Alternate' /\ ~IsBlank'
      /\ ~OnTrial' /\ IsBad(Current)' /\ Fallback'
  BY <1>1, <1>2, <1>3, StateOnly
<1>5. Running \in Versions
  <2>1. booted = Selected /\ Selected \in Slot /\ image[Selected].whole
    BY <1>1, <1>2, CurrentIsHighest DEF IInv, AtTrial, Stored, Settled, Unsettled, OnTrial, IsBad
  <2> QED
    BY <2>1 DEF IInv, TypeOK, Named, Running
<1>6. TypeOK' /\ (good \subseteq Healthy)'
  BY <1>1, <1>4, <1>5 DEF GiveUp, Off, IInv, TypeOK, Pc
<1>7. Stored' /\ Named'
  BY <1>1, <1>4 DEF Stored, Unsettled, Named, IInv
<1> QED
  BY <1>1, <1>4, <1>6, <1>7 DEF IInv, AtBoot, AtAdopt, AtTrial, AtRun, AtMark

\* A poll that succeeds confirms the trial.
LEMMA PollOkKeeps == ASSUME IInv, PollOk PROVE IInv'
<1>1. /\ pc = "poll" /\ pc' = "run" /\ Running \in Healthy
      /\ UNCHANGED <<image, booted, bad, late, want, offer, rolled, left>>
  BY DEF PollOk, Confirmed
<1>2. CASE trial
  <2>1. SetCurrentOtaState("Valid") /\ trial' = FALSE /\ good' = good \cup {Running} /\ "Valid" \in State
    BY <1>2 DEF PollOk, Confirmed, State
  <2>2. ~IsBlank /\ OnTrial /\ Selected = booted /\ booted \in Slot /\ ~IsBad(Current)
    BY <1>2 DEF IInv, TypeOK, AtTrial, OnTrial, IsBad
  <2>3. image[Selected].whole
    BY <2>2 DEF IInv, Stored, Settled, Unsettled
  <2>4. /\ entry' \in [Slot -> [seq : Nat, st : State]] /\ Alternate' /\ ~IsBlank'
        /\ Selected' = Selected /\ ~OnTrial' /\ ~IsBad(Current)'
    BY <1>1, <2>1, <2>2, StateOnly
  <2>5. Safe(booted)' /\ (good \subseteq Healthy)'
    <3>1. (good \subseteq Healthy)'
      BY <1>1, <2>1 DEF IInv
    <3>2. image'[booted'].whole /\ image'[booted'].ver = Running /\ Running \in good'
      BY <1>1, <2>1, <2>2, <2>3 DEF Running
    <3> QED
      BY <1>1, <3>1, <3>2 DEF Safe, Trusted
  <2>6. TypeOK'
    BY <1>1, <2>1, <2>4, VersionAssumption DEF IInv, TypeOK, Pc
  <2>7. Stored' /\ Named'
    BY <1>1, <2>2, <2>4, <2>5 DEF Stored, Settled, Named, IInv, Safe, Trusted
  <2>8. AtRun'
    BY <1>1, <2>1, <2>2, <2>4, <2>5 DEF AtRun, Safe, Trusted
  <2> QED
    BY <1>1, <2>1, <2>4, <2>5, <2>6, <2>7, <2>8 DEF IInv, AtBoot, AtAdopt, AtTrial, AtMark
<1>3. CASE ~trial
  <2>1. UNCHANGED <<entry, image, good, trial, booted>>
    BY <1>1, <1>3 DEF PollOk, Confirmed
  <2>2. TypeOK' /\ (good \subseteq Healthy)'
    BY <1>1, <2>1 DEF IInv, TypeOK, Pc
  <2>3. Alternate' /\ Stored' /\ Named'
    BY <1>1, <2>1, SameFlash DEF IInv, Stored, Unsettled, Named
  <2>4. AtRun'
    BY <1>1, <1>3, <2>1, SameFlash DEF IInv, AtRun, Running
  <2> QED
    BY <1>1, <1>3, <2>1, <2>2, <2>3, <2>4 DEF IInv, AtBoot, AtAdopt, AtTrial, AtMark
<1> QED
  BY <1>2, <1>3

\* Ota::boot(): whatever the bootloader found, the image that runs is trusted, on
\* trial, or to be given up.
LEMMA BootKeeps == ASSUME IInv, Boot PROVE IInv'
<1>1. /\ pc = "boot" /\ ~trial /\ bad' = BadVersion
      /\ UNCHANGED <<image, booted, late, want, offer, good, left>>
  BY DEF Boot, IInv, AtTrial
<1>2. Loads(booted) /\ booted \in Slot /\ Running \in Versions
  BY <1>1, VersionAssumption DEF IInv, AtBoot, TypeOK, Loads, Running
<1>3. bad' \in Versions \cup {None}
  <2>1. \A e \in Slot : SlotOf(e) \in Slot
    BY Parity DEF IInv, TypeOK, SlotOf, Slot
  <2> QED
    BY <1>1, <2>1 DEF IInv, TypeOK, BadVersion, Slot
<1>4. CASE IsBlank /\ pc' = "adopt" /\ UNCHANGED <<entry, trial, rolled>>
  <2>1. Safe(0) /\ booted = 0
    BY <1>1, <1>4 DEF IInv, Stored, AtBoot
  <2>2. UNCHANGED <<entry, image, good>>
    BY <1>1, <1>4
  <2>3. TypeOK' /\ (good \subseteq Healthy)'
    BY <1>1, <1>3, <1>4 DEF IInv, TypeOK, Pc
  <2>4. Alternate' /\ Stored' /\ Named'
    BY <1>1, <1>4, <2>2, SameFlash DEF IInv, Stored, Unsettled, Named
  <2>5. AtAdopt'
    BY <1>1, <1>4, <2>1, <2>2, SameFlash DEF AtAdopt
  <2> QED
    BY <1>1, <1>4, <2>3, <2>4, <2>5 DEF IInv, AtBoot, AtTrial, AtRun, AtMark
<1>5. CASE /\ ~IsBlank /\ Selected # booted
           /\ SetCurrentOtaState("Invalid")
           /\ rolled' = IF IsBad(Current) THEN rolled ELSE rolled \cup {image[Selected].ver}
           /\ pc' = "run"
           /\ UNCHANGED trial
  <2>1. Fallback /\ "Invalid" \in State
    BY <1>1, <1>5 DEF IInv, AtBoot, State
  <2>2. /\ entry' \in [Slot -> [seq : Nat, st : State]] /\ Alternate' /\ ~IsBlank'
        /\ Selected' = Selected /\ Selected \in Slot /\ ~OnTrial' /\ IsBad(Current)' /\ Fallback'
        /\ \A s : Safe(s) => Safe(s)'
    BY <1>1, <1>5, <2>1, StateOnly
  <2>3. 1 - Selected = booted
    BY <1>2, <1>5, <2>2 DEF Slot
  <2>4. Safe(booted) /\ Safe(booted)'
    BY <2>1, <2>2, <2>3, <1>1 DEF Fallback, Safe, Trusted
  <2>5. IsBad(Current) \/ image[Selected].ver \in Versions
    BY <1>5, <2>2 DEF IInv, Stored, Settled, Unsettled, Safe, Named, TypeOK
  <2>6. TypeOK' /\ (good \subseteq Healthy)'
    BY <1>1, <1>3, <1>5, <2>2, <2>5 DEF IInv, TypeOK, Pc
  <2>7. Stored' /\ Named'
    BY <1>1, <2>2 DEF Stored, Unsettled, Named, IInv
  <2>8. AtRun'
    BY <1>1, <1>5, <2>2, <2>4 DEF AtRun
  <2> QED
    BY <1>1, <1>5, <2>2, <2>6, <2>7, <2>8 DEF IInv, AtBoot, AtAdopt, AtTrial, AtMark
<1>6. CASE ~IsBlank /\ Selected = booted
  <2>1. ~IsBad(Current)
    BY <1>1, <1>6 DEF IInv, AtBoot
  <2>2. CASE entry[Current].st = "New"
    <3>1. SetCurrentOtaState("PendingVerify") /\ trial' /\ pc' = "run" /\ UNCHANGED rolled
      BY <1>6, <2>2 DEF Boot
    <3>2. Fallback /\ image[Selected].whole /\ "PendingVerify" \in State
      BY <1>6, <2>1, <2>2 DEF IInv, Stored, Settled, Unsettled, OnTrial, State
    <3>3. /\ entry' \in [Slot -> [seq : Nat, st : State]] /\ Alternate' /\ ~IsBlank'
          /\ Selected' = Selected /\ OnTrial' /\ entry[Current].st' = "PendingVerify" /\ Fallback'
      BY <1>1, <1>6, <3>1, <3>2, StateOnly
    <3>4. TypeOK' /\ (good \subseteq Healthy)'
      BY <1>1, <1>3, <3>1, <3>3 DEF IInv, TypeOK, Pc, Boot
    <3>5. Stored' /\ Named'
      BY <1>1, <3>2, <3>3 DEF Stored, Unsettled, Named, IInv
    <3> QED
      BY <1>1, <1>6, <3>1, <3>3, <3>4, <3>5 DEF IInv, AtBoot, AtAdopt, AtTrial, AtRun, AtMark
  <2>3. CASE entry[Current].st # "New"
    <3>1. UNCHANGED <<entry, image, good, trial, rolled, booted>>
          /\ pc' = IF entry[Current].st = "PendingVerify" THEN "giveup" ELSE "run"
      BY <1>1, <1>6, <2>3 DEF Boot
    <3>2. TypeOK' /\ (good \subseteq Healthy)'
      BY <1>1, <1>3, <3>1 DEF IInv, TypeOK, Pc
    <3>3. Alternate' /\ Stored' /\ Named'
      BY <1>1, <3>1, SameFlash DEF IInv, Stored, Unsettled, Named
    <3>4. AtTrial'
      BY <1>1, <1>6, <3>1, SameFlash DEF AtTrial
    <3>5. AtRun'
      <4>1. pc' = "run" => ~OnTrial
        BY <2>3, <3>1 DEF OnTrial
      <4>2. pc' = "run" => Safe(booted) \/ (TornActivation /\ Running \notin Healthy)
        BY <1>2, <1>1, <1>6, <2>1, <4>1 DEF IInv, Stored, Settled, Unsettled, Safe, Trusted, Loads, Running
      <4> QED
        BY <1>1, <1>6, <2>1, <3>1, <4>1, <4>2, SameFlash DEF AtRun, Running
    <3> QED
      BY <1>1, <3>1, <3>2, <3>3, <3>4, <3>5 DEF IInv, AtBoot, AtAdopt, AtMark
  <2> QED
    BY <2>2, <2>3
<1> QED
  BY <1>4, <1>5, <1>6 DEF Boot

\* Erased otadata: slot 0 holds the image that was flashed, and it is adopted.
LEMMA AdoptKeeps == ASSUME IInv, Adopt PROVE IInv'
<1>1. /\ pc = "adopt" /\ pc' = "adopt2" /\ SetCurrentAppPartition(0)
      /\ UNCHANGED <<image, good, rolled, booted, trial, want, bad, late, offer, left>>
      /\ IsBlank /\ Safe(0) /\ booted = 0 /\ ~trial /\ entry[0] = Blank
  BY DEF Adopt, ram, history, IInv, AtAdopt, Stored
<1>2. entry' = [entry EXCEPT ![0] = [seq |-> 1, st |-> "Undefined"]]
  <2>1. PICK st \in {entry[0].st, "Undefined"} : entry' = [entry EXCEPT ![0] = [seq |-> 0 + 1, st |-> st]]
    BY <1>1 DEF SetCurrentAppPartition
  <2>2. st = "Undefined"
    BY <1>1 DEF Blank
  <2> QED
    BY <2>1, <2>2
<1>3. /\ entry' \in [Slot -> [seq : Nat, st : State]]
      /\ entry'[0].seq = 1 /\ entry'[0].st = "Undefined" /\ entry'[1].seq = 0
  BY <1>1, <1>2 DEF IInv, TypeOK, Slot, State, IsBlank
<1>4. Current' = 0 /\ Selected' = 0 /\ ~IsBlank' /\ Alternate' /\ ~OnTrial' /\ ~IsBad(Current)'
  BY <1>3 DEF Current, Selected, SlotOf, IsBlank, Alternate, OnTrial, IsBad
<1>5. Safe(0)'
  BY <1>1 DEF Safe, Trusted
<1>6. TypeOK' /\ (good \subseteq Healthy)'
  BY <1>1, <1>3 DEF IInv, TypeOK, Pc
<1>7. Stored' /\ Named'
  BY <1>1, <1>4, <1>5 DEF Stored, Settled, Named, IInv, Safe, Trusted
<1>8. AtAdopt'
  BY <1>1, <1>4, <1>5 DEF AtAdopt
<1> QED
  BY <1>1, <1>4, <1>6, <1>7, <1>8 DEF IInv, AtBoot, AtTrial, AtRun, AtMark

\* Blank otadata is filled in: the second write.
LEMMA Adopt2Keeps == ASSUME IInv, Adopt2 PROVE IInv'
<1>1. /\ pc = "adopt2" /\ pc' = "adopt3" /\ SetCurrentAppPartition(booted)
      /\ UNCHANGED <<image, good, rolled, booted, trial, want, bad, late, offer, left>>
      /\ ~IsBlank /\ Selected = 0 /\ Safe(0) /\ booted = 0 /\ ~trial /\ ~OnTrial /\ ~IsBad(Current)
  BY DEF Adopt2, ram, history, IInv, AtAdopt
<1>2. UNCHANGED <<entry, image, good>>
  BY <1>1 DEF SetCurrentAppPartition
<1>3. TypeOK' /\ (good \subseteq Healthy)'
  BY <1>1, <1>2 DEF IInv, TypeOK, Pc
<1>4. Alternate' /\ Stored' /\ Named' /\ AtAdopt'
  BY <1>1, <1>2, SameFlash DEF IInv, Stored, Unsettled, Named, AtAdopt
<1> QED
  BY <1>1, <1>3, <1>4 DEF IInv, AtBoot, AtTrial, AtRun, AtMark

\* Blank otadata is filled in: the third write.
LEMMA Adopt3Keeps == ASSUME IInv, Adopt3 PROVE IInv'
<1>1. /\ pc = "adopt3" /\ pc' = "run" /\ SetCurrentOtaState("Valid") /\ "Valid" \in State
      /\ UNCHANGED <<image, good, rolled, booted, trial, want, bad, late, offer, left>>
      /\ ~IsBlank /\ Selected = 0 /\ Safe(0) /\ booted = 0 /\ ~trial
  BY DEF Adopt3, ram, history, IInv, AtAdopt, State
<1>2. /\ entry' \in [Slot -> [seq : Nat, st : State]] /\ Alternate' /\ ~IsBlank'
      /\ Selected' = Selected /\ ~OnTrial' /\ ~IsBad(Current)'
  BY <1>1, StateOnly
<1>3. Safe(0)'
  BY <1>1 DEF Safe, Trusted
<1>4. TypeOK' /\ (good \subseteq Healthy)'
  BY <1>1, <1>2 DEF IInv, TypeOK, Pc
<1>5. Stored' /\ Named'
  BY <1>1, <1>2, <1>3 DEF Stored, Settled, Named, IInv, Safe, Trusted
<1>6. AtRun'
  BY <1>1, <1>2, <1>3 DEF AtRun, Safe, Trusted
<1> QED
  BY <1>1, <1>2, <1>4, <1>5, <1>6 DEF IInv, AtBoot, AtAdopt, AtTrial, AtMark

-----------------------------------------------------------------------------
\* A board as it is flashed first.
LEMMA InitHolds == Init => IInv
<1> SUFFICES ASSUME Init PROVE IInv
  OBVIOUS
<1>1. entry[0] = Blank /\ entry[1] = Blank /\ IsBlank
  BY DEF Init, Slot, IsBlank, Blank
<1>2. TypeOK
  <2>1. entry \in [Slot -> [seq : Nat, st : State]]
    BY DEF Init, Blank, State
  <2>2. image \in [Slot -> [ver : Versions \cup {None}, whole : BOOLEAN]]
    BY VersionAssumption DEF Init
  <2>3. left \in [publish : 0 .. MaxPublishes, reset : 0 .. MaxResets]
    BY BoundAssumption DEF Init
  <2> QED
    BY <2>1, <2>2, <2>3, VersionAssumption DEF Init, TypeOK, Slot, Pc
<1>3. good \subseteq Healthy /\ Safe(0)
  BY VersionAssumption DEF Init, Safe, Trusted, Slot
<1>4. Stored /\ Named /\ Alternate
  BY <1>1, <1>3, VersionAssumption DEF Stored, Named, Alternate, Init, Slot
<1> QED
  BY <1>2, <1>3, <1>4 DEF Init, IInv, AtBoot, AtAdopt, AtTrial, AtRun, AtMark

\* Every step keeps the invariant.
LEMMA NextHolds == IInv /\ [Next]_vars => IInv'
<1> SUFFICES ASSUME IInv, [Next]_vars PROVE IInv'
  OBVIOUS
<1>1. CASE UNCHANGED vars
  <2>1. UNCHANGED <<entry, image, good, pc, booted, trial, want>>
    BY <1>1 DEF vars
  <2>2. TypeOK' /\ (good \subseteq Healthy)'
    BY <1>1 DEF vars, IInv, TypeOK
  <2>3. Alternate' /\ Stored' /\ Named' /\ AtBoot' /\ AtAdopt' /\ AtTrial'
    BY <2>1, SameFlash DEF IInv, Stored, Unsettled, Named, AtBoot, AtAdopt, AtTrial
  <2>4. AtRun' /\ AtMark'
    BY <2>1, SameFlash DEF IInv, AtRun, AtMark, Running, Target
  <2> QED
    BY <2>2, <2>3, <2>4 DEF IInv
<1>2. CASE Chip
  BY <1>2, PowerOnKeeps, BootKeeps, AdoptKeeps, Adopt2Keeps, Adopt3Keeps, GiveUpKeeps, LoopKeeps,
     SelectKeeps, MarkKeeps DEF Chip
<1>3. CASE PollOk \/ PollNew \/ WriteDone
  BY <1>3, PollOkKeeps, LoopKeeps, WriteDoneKeeps
<1>4. CASE \E v \in {None, want} : Write(v)
  BY <1>4, WriteKeeps
<1>5. CASE Reset \/ Panic \/ Hang \/ TimePasses \/ \E v \in Versions : Publish(v)
  BY <1>5, ResetKeeps, LoopKeeps, WorldKeeps
<1> QED
  BY <1>1, <1>2, <1>3, <1>4, <1>5 DEF Next

\* Every variable keeps its type.
THEOREM TypeCorrect == Spec => []TypeOK
<1>1. IInv => TypeOK
  BY DEF IInv
<1> QED
  BY <1>1, InitHolds, NextHolds, PTL DEF Spec

\* No sequence of updates, broken images and power losses bricks the chip, the
\* window between the two otadata writes of an update included: the bootloader
\* always finds an image that loads.
THEOREM NeverBricked == Spec => []Boots
<1>1. IInv => Boots
  BY BootsSomething DEF IInv, Boots
<1> QED
  BY <1>1, InitHolds, NextHolds, PTL DEF Spec

\* When power is not lost between those two writes, what boots was confirmed before
\* unless it is on trial.
THEOREM BootsConfirmed == ~TornActivation => (Spec => []Recoverable)
<1> SUFFICES ASSUME ~TornActivation PROVE Spec => []Recoverable
  OBVIOUS
<1>1. IInv => Recoverable
  <2> SUFFICES ASSUME IInv, pc # "mark", IsBlank \/ ~OnTrial PROVE image[BootSlot].ver \in good
    BY BootsSomething DEF IInv, Recoverable, Boots, OnTrial
  <2>1. /\ Loads(BootSlot) /\ BootSlot \in Slot
        /\ IF IsBlank THEN BootSlot = 0 /\ Safe(0)
           ELSE IF Selected = BootSlot THEN ~IsBad(Current)
           ELSE BootSlot = 1 - Selected /\ Fallback
    BY BootsSomething DEF IInv
  <2> QED
    BY <2>1 DEF IInv, Stored, Settled, Unsettled, Fallback, Safe, Trusted
<1> QED
  BY <1>1, InitHolds, NextHolds, PTL DEF Spec

\* Likewise, a trial never costs the image it may have to go back to.
THEOREM RollbackAlways == ~TornActivation => (Spec => []RollbackReady)
<1> SUFFICES ASSUME ~TornActivation PROVE Spec => []RollbackReady
  OBVIOUS
<1>1. IInv => RollbackReady
  BY DEF IInv, Stored, Settled, Unsettled, Fallback, Safe, Trusted, OnTrial, RollbackReady
<1> QED
  BY <1>1, InitHolds, NextHolds, PTL DEF Spec

\* And outside a trial only confirmed images run the update loop.
THEOREM TrustedRun == ~TornActivation => (Spec => []OnlyTrustedRun)
<1> SUFFICES ASSUME ~TornActivation PROVE Spec => []OnlyTrustedRun
  OBVIOUS
<1>1. IInv => OnlyTrustedRun
  <2> SUFFICES ASSUME IInv, pc \in {"run", "poll", "download", "select", "mark"}, ~trial
               PROVE  Running \in good
    BY DEF OnlyTrustedRun
  <2>1. CASE pc # "mark"
    BY <2>1 DEF IInv, AtRun, Safe, Trusted, Running
  <2>2. CASE pc = "mark"
    <3>1. 1 - Selected = booted /\ Fallback
      BY <2>2 DEF IInv, AtMark, Target, TypeOK, Slot
    <3> QED
      BY <3>1 DEF Fallback, Safe, Trusted, Running
  <2> QED
    BY <2>1, <2>2
<1> QED
  BY <1>1, InitHolds, NextHolds, PTL DEF Spec
=============================================================================
