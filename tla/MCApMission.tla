---------------------------- MODULE MCApMission ----------------------------
(***************************************************************************)
(* Instances of ApMission for TLC.                                         *)
(***************************************************************************)
EXTENDS ApMission

Nav == [id |-> "nav", target |-> 0, num_times |-> 0]
Do == [id |-> "do", target |-> 0, num_times |-> 0]
Jump(target, num_times) == [id |-> "jump", target |-> target, num_times |-> num_times]

\* A waypoint, a "do" command, and jumps to the first two commands.
MCCmd == {Nav, Do, Jump(1, 1), Jump(2, 1), Jump(1, REPEAT_FOREVER)}

\* Enough for a "do" command in an endless loop.
MCLoop == {Nav, Do, Jump(1, REPEAT_FOREVER)}
=============================================================================
