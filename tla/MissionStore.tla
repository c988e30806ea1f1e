---------------------------- MODULE MissionStore ----------------------------
(***************************************************************************)
(* The command list AP_Mission keeps in storage, as the sequence of its    *)
(* _cmd_total commands: the command with index i is element i + 1.         *)
(* Command 0 is home, which is read from the AHRS and never from storage.  *)
(* What storage holds past _cmd_total is never read.                       *)
(***************************************************************************)
EXTENDS Integers, Sequences

CONSTANTS MaxCmds,   \* num_commands_max()
          Home       \* command 0, a navigation command

\* Mutant: the range check of write_cmd_to_storage lets one command too many in.
HasSpace_OneMore(list) == Len(list) <= MaxCmds

\* The range check of write_cmd_to_storage for a command added at the end.
HasSpace(list) == Len(list) < MaxCmds

Readable(list, index) == index < Len(list) \/ index = 0
read_cmd_from_storage(list, index) == IF index = 0 THEN Home ELSE list[index + 1]

truncate(list, index) == IF Len(list) > index THEN SubSeq(list, 1, index) ELSE list
add_cmd(list, cmd) == IF HasSpace(list) THEN Append(list, cmd) ELSE list
replace_cmd(list, index, cmd) ==
    IF index < Len(list) THEN [list EXCEPT ![index + 1] = cmd] ELSE list
=============================================================================
