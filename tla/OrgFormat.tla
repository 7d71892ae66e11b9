----------------------------- MODULE OrgFormat -----------------------------
(***************************************************************************)
(* What org-bridge makes of an org file: the headings it keeps, the UIDs,  *)
(* change hashes and calendar objects of each (org-bridge/src/orgparse.rs, *)
(* bridge.rs, caldav.rs).  A hash is the tuple of the fields hashed, an    *)
(* iCalendar object the record of the properties written.                  *)
(***************************************************************************)
EXTENDS Naturals, Sequences, FiniteSets, SequencesExt, FiniteSetsExt, Functions

CONSTANTS
    NoTime,         \* a timestamp without a time of day, or without an end
    Keywords        \* ORG_TODO_KEYWORDS: the active states, "|", the done states

(* Without a "|" the last keyword is the done one. *)
DoneStates ==
    LET bars == {i \in DOMAIN Keywords : Keywords[i] = "|"}
    IN IF bars = {} THEN {Keywords[Len(Keywords)]}
       ELSE {Keywords[i] : i \in {k \in DOMAIN Keywords : k > Min(bars)}}

Timestamp(day, at, end) == [day |-> day, at |-> at, end |-> end]
OrZero(t) == IF t = NoTime THEN 0 ELSE t

-----------------------------------------------------------------------------
(* orgparse.rs.  A heading is [level, title, todo, info, scheduled,        *)
(* deadline]: info is its priority and tags, the last two are sequences of *)
(* at most one timestamp, todo is "" without a keyword.                    *)

Stamps == [day : Nat, at : Nat \cup {NoTime}, end : Nat \cup {NoTime}]
Headings == [level : Nat, title : STRING, todo : STRING, info : STRING,
             scheduled : Seq(Stamps), deadline : Seq(Stamps)]

Timestamps(h) == h.scheduled \o h.deadline

(* The elements that pass the test, in their order: SelectSeq, in a form that can be proved about. *)
Passing(s, Test(_)) == FlattenSeq([i \in DOMAIN s |-> IF Test(s[i]) THEN <<s[i]>> ELSE <<>>])

(* The nearest earlier heading of every smaller level, the heading itself last. *)
IsAncestor(doc, j, i) == j < i /\ \A k \in j + 1 .. i : doc[k].level > doc[j].level
BuildHeadingPath(doc, i) ==
    LET path == Passing([j \in 1 .. i |-> j], LAMBDA j : IsAncestor(doc, j, i) \/ j = i)
    IN [k \in DOMAIN path |-> doc[path[k]].title]

(* Headings with a title and something to export. *)
Exported(h) == h.title # "" /\ (Timestamps(h) # <<>> \/ h.todo # "")
ParseOrgContent(doc) ==
    Passing([i \in DOMAIN doc |-> [heading |-> doc[i], path |-> BuildHeadingPath(doc, i)]],
            LAMBDA e : Exported(e.heading))

-----------------------------------------------------------------------------
(* bridge.rs.  The end of the range is not part of the UID. *)
MakeUid(f, path, ts) == [kind |-> "org-", file |-> f, path |-> path, day |-> ts.day, at |-> OrZero(ts.at)]
MakeTodoUid(f, path) == [kind |-> "org-todo-", file |-> f, path |-> path]
Ours(uid) == uid.kind \in {"org-", "org-todo-"}

HashEntryTimestamp(e, ts) ==
    <<e.heading.title, e.path, e.heading.todo, e.heading.info, ts.day, OrZero(ts.at), OrZero(ts.end)>>
HashTodo(e) ==
    <<e.heading.title, e.path, e.heading.todo, e.heading.info, e.heading.scheduled, e.heading.deadline>>

-----------------------------------------------------------------------------
(* caldav.rs *)
Status(todo, otherwise) ==
    IF todo = "" THEN otherwise ELSE IF todo \in DoneStates THEN "COMPLETED" ELSE "NEEDS-ACTION"

(* A date, or a date and a time in minutes. *)
FormatIcalDatetime(ts) == <<ts.day, ts.at>>

(* The end given, else an hour later, not past 23; an all-day event has none. *)
FormatIcalDtend(ts) ==
    IF ts.end # NoTime THEN <<ts.day, ts.end>>
    ELSE IF ts.at = NoTime THEN <<>>
    ELSE LET hour == ts.at \div 60 IN <<ts.day, (IF hour + 1 > 23 THEN 23 ELSE hour + 1) * 60 + (ts.at % 60)>>

GenerateVevent(e, ts) ==
    [start |-> FormatIcalDatetime(ts), end |-> FormatIcalDtend(ts), summary |-> e.heading.title,
     path |-> e.path, info |-> e.heading.info, status |-> Status(e.heading.todo, "CONFIRMED")]

(* The deadline goes out as a second DTSTART. *)
GenerateVtodo(e) ==
    [start |-> [i \in DOMAIN Timestamps(e.heading) |-> FormatIcalDatetime(Timestamps(e.heading)[i])],
     summary |-> e.heading.title, path |-> e.path, info |-> e.heading.info,
     status |-> Status(e.heading.todo, "NEEDS-ACTION")]

-----------------------------------------------------------------------------
(* The objects a file's content asks for, in the order reconcile_file()    *)
(* meets them.                                                             *)
EventOf(f, e, ts) ==
    [uid |-> MakeUid(f, e.path, ts), hash |-> HashEntryTimestamp(e, ts), ical |-> GenerateVevent(e, ts)]
TodoOf(f, e) == [uid |-> MakeTodoUid(f, e.path), hash |-> HashTodo(e), ical |-> GenerateVtodo(e)]
ObjectsOf(f, e) ==
    [i \in DOMAIN Timestamps(e.heading) |-> EventOf(f, e, Timestamps(e.heading)[i])]
        \o (IF e.heading.todo = "" THEN <<>> ELSE <<TodoOf(f, e)>>)
Objects(f, doc) ==
    LET entries == ParseOrgContent(doc)
    IN FlattenSeq([k \in DOMAIN entries |-> ObjectsOf(f, entries[k])])
=============================================================================
