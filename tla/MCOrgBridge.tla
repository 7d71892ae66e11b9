---------------------------- MODULE MCOrgBridge ----------------------------
(***************************************************************************)
(* org-bridge on two files with a task that is open or done, and with the  *)
(* latter a heading that is there twice; and a heading that was moved from *)
(* all day to midnight.                                                    *)
(***************************************************************************)
EXTENDS OrgBridge

MCKeywords == <<"TODO", "|", "DONE">>
MCStranger == [kind |-> "theirs"]
Heading(level, title, todo, scheduled, deadline) ==
    [level |-> level, title |-> title, todo |-> todo, info |-> "A", scheduled |-> scheduled, deadline |-> deadline]

Task(state) == Heading(1, "task", state, <<>>, <<>>)
Note == Heading(1, "note", "", <<>>, <<>>)
Sub(end) == Heading(2, "sub", "", <<>>, <<Timestamp(2, 1410, end)>>)
AllDay(at) == Heading(1, "task", "", <<Timestamp(1, at, NoTime)>>, <<>>)
MCText ==
    [open |-> <<Task("TODO")>>,
     done |-> <<Task("DONE"), Note, Sub(NoTime), Sub(1420)>>,
     allday |-> <<AllDay(NoTime)>>,
     midnight |-> <<AllDay(0)>>]
=============================================================================
