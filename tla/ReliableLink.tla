------------------------------- MODULE ReliableLink -------------------------------
(***************************************************************************)
(* What an acknowledged bearer promises: the SDUs given to it come out     *)
(* complete, once each, in the order they were given, and all of them do   *)
(* (all but the last few, if Backlog is positive).                         *)
(***************************************************************************)
EXTENDS Integers, Sequences

CONSTANTS
    Message(_),    \* the k-th message given to the link, k = 0, 1, ...
    Backlog        \* messages the link may sit on until more are given

VARIABLES given, got   \* number of messages given; messages that came out

Init == given = 0 /\ got = <<>>

Give == given' = given + 1 /\ UNCHANGED got

\* One or more messages come out together.
Deliver ==
    \E n \in Len(got) + 1 .. given :
      /\ got' = [i \in 1 .. n |-> Message(i - 1)]
      /\ UNCHANGED given

Next == Give \/ Deliver

Overdue == given > Len(got) + Backlog

Spec == Init /\ [][Next]_<<given, got>> /\ WF_<<given, got>>(Overdue /\ Deliver)
=============================================================================
