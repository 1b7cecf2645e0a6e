------------------------------ MODULE EventTail -------------------------------
(***************************************************************************)
(* What tailing an event log promises.  A copy starts from a snapshot and  *)
(* a position, and from there takes the events of the log one by one, in   *)
(* order: none is skipped, none is applied twice and nothing else changes  *)
(* the copy, until it starts again from another snapshot.                  *)
(***************************************************************************)
EXTENDS Naturals, Sequences

CONSTANTS
    Copies,             \* what the copy may be
    Applied(_, _)       \* Applied(copy, row): the copy after the row

VARIABLES log, copy, cursor, starts

Init ==
    /\ log = << >>
    /\ copy \in Copies
    /\ cursor = 0
    /\ starts = 0

Grow ==
    /\ Len(log') = Len(log) + 1
    /\ SubSeq(log', 1, Len(log)) = log
    /\ UNCHANGED <<copy, cursor, starts>>

Take ==
    /\ cursor < Len(log)
    /\ copy' = Applied(copy, log[cursor + 1])
    /\ cursor' = cursor + 1
    /\ UNCHANGED <<log, starts>>

Start ==
    /\ copy' \in Copies
    /\ cursor' \in 0..Len(log)
    /\ starts' = starts + 1
    /\ UNCHANGED log

Next == Grow \/ Take \/ Start

Spec == Init /\ [][Next]_<<log, copy, cursor, starts>>
=============================================================================
