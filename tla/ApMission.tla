----------------------------- MODULE ApMission -----------------------------
(***************************************************************************)
(* AP_Mission: steps a vehicle through the stored command list.  One       *)
(* navigation command is current at a time, the "do" commands in front of  *)
(* it run beside it, and do-jump commands are followed by the search for   *)
(* the next command.  All calls come from the main loop; a call that       *)
(* searches the list takes one action for each command the search reads,   *)
(* so that a search that does not end is a behaviour.  Between two calls   *)
(* the ground station may edit the list and the vehicle may stop, resume   *)
(* or restart the mission.                                                 *)
(***************************************************************************)
EXTENDS MissionStore, FiniteSets

CONSTANTS Cmd,        \* commands a ground station stores
          JumpSlots,  \* AP_MISSION_MAX_NUM_DO_JUMP_COMMANDS
          JumpLoops,  \* max_loops of get_next_cmd
          DoLoops,    \* max_loops of advance_current_nav_cmd
          MaxCalls    \* bound on the calls other than update()

NONE == 65535              \* AP_MISSION_CMD_INDEX_NONE
FIRST_REAL_COMMAND == 1
REPEAT_FOREVER == -1
JUMP_TIMES_MAX == 32767

Command == [id : {"nav", "do", "jump"}, target : Nat, num_times : Int]

ASSUME CmdAssumption ==
    /\ Cmd \subseteq Command
    /\ Home \in Cmd /\ Home.id = "nav"
    /\ \A c \in Cmd : c.num_times <= JUMP_TIMES_MAX
ASSUME LimitAssumption ==
    /\ {JumpSlots, JumpLoops, DoLoops, MaxCalls} \subseteq Nat
    /\ MaxCmds \in 1 .. NONE - 2

VARIABLES mission,        \* the stored command list
          flags,          \* _flags
          nav_cmd,        \* _nav_cmd
          do_cmd,         \* _do_cmd
          jump_tracking,  \* the used part of _jump_tracking
          call,           \* the call in progress and the locals of its search
          calls,          \* calls made so far, other than update()
          started,        \* history: commands given to _cmd_start_fn by the last step
          edited          \* history: the list changed since init_jump_tracking

object == <<flags, nav_cmd, do_cmd, jump_tracking>>
vars == <<mission, object, call, calls, started, edited>>

-----------------------------------------------------------------------------

\* A loaded command: its position, and its content as it was read.
Loaded(index, cmd) == [index |-> index, cmd |-> cmd]
NoCmd == Loaded(NONE, Home)

\* What _cmd_start_fn was called with, and which command it is to the mission.
Started(as, loaded) == [as |-> as, index |-> loaded.index, cmd |-> loaded.cmd]

Idle == [fn |-> "none", index |-> NONE, jump_index |-> NONE, max_loops |-> 0, outer |-> 0]

\* get_next_cmd(index) on behalf of fn; outer is fn's own loop variable.
Search(fn, index, outer) ==
    call' = [fn |-> fn, index |-> index, jump_index |-> NONE, max_loops |-> JumpLoops,
             outer |-> outer]

\* The rest of update() once the navigation command is dealt with.
DoPart == call' = [Idle EXCEPT !.fn = "do_part"]
Return == call' = Idle

Running == flags.state = "RUNNING"
Reset == [flags EXCEPT !.nav_cmd_loaded = FALSE, !.do_cmd_loaded = FALSE,
                       !.do_cmd_all_done = FALSE]

Init ==
    /\ mission \in {<<>>} \cup {<<Home>> \o cmds : cmds \in UNION {[1 .. n -> Cmd] : n \in 0 .. MaxCmds - 1}}
    /\ flags = [state |-> "STOPPED", nav_cmd_loaded |-> FALSE, do_cmd_loaded |-> FALSE,
                do_cmd_all_done |-> FALSE]
    /\ nav_cmd = NoCmd /\ do_cmd = NoCmd
    /\ jump_tracking = <<>>
    /\ call = Idle /\ calls = 0
    /\ started = {} /\ edited = FALSE

-----------------------------------------------------------------------------
(* The vehicle's calls.                                                    *)

Call == call = Idle /\ calls < MaxCalls /\ calls' = calls + 1

\* reset(), which also forgets how often each jump was run.
ResetMission(state) ==
    /\ flags' = [Reset EXCEPT !.state = state]
    /\ nav_cmd' = NoCmd /\ do_cmd' = NoCmd
    /\ jump_tracking' = <<>> /\ edited' = FALSE

StartMission ==
    /\ ResetMission("RUNNING")
    /\ Search("start", FIRST_REAL_COMMAND, DoLoops)
    /\ started' = {}

Start == Call /\ StartMission /\ UNCHANGED mission

ResetCall == Call /\ ResetMission(flags.state) /\ started' = {} /\ UNCHANGED <<mission, call>>

Stop ==
    /\ Call
    /\ flags' = [flags EXCEPT !.state = "STOPPED"]
    /\ started' = {}
    /\ UNCHANGED <<mission, nav_cmd, do_cmd, jump_tracking, call, edited>>

\* The navigation command is read again, the "do" command is not.  Starting a
\* navigation command may take the vehicle out of AUTO, which stops the mission.
Restart(nav) ==
    /\ nav_cmd' = nav
    /\ started' =
         (IF flags.nav_cmd_loaded THEN {Started("nav", nav)} ELSE {})
         \cup (IF flags.do_cmd_loaded /\ do_cmd.index # NONE THEN {Started("restart", do_cmd)} ELSE {})
    /\ \E state \in {"RUNNING"} \cup (IF flags.nav_cmd_loaded THEN {"STOPPED"} ELSE {}) :
          flags' = [flags EXCEPT !.state = state]
    /\ UNCHANGED <<do_cmd, jump_tracking, call, edited>>

\* Mutant: the cached navigation command is trusted.
Resume_Cached ==
    /\ Call
    /\ IF flags.state = "COMPLETE" \/ nav_cmd.index = NONE THEN StartMission ELSE Restart(nav_cmd)
    /\ UNCHANGED mission

\* An index of NONE is never readable.
Resume ==
    /\ Call
    /\ IF flags.state = "COMPLETE" \/ ~Readable(mission, nav_cmd.index)
       THEN StartMission
       ELSE Restart(Loaded(nav_cmd.index, read_cmd_from_storage(mission, nav_cmd.index)))
    /\ UNCHANGED mission

\* A complete mission, or index 0, starts over with the jumps.
SetCurrentCmd(index) ==
    /\ Call
    /\ index < Len(mission) /\ Len(mission) # 1
    /\ flags' = Reset
    /\ do_cmd' = NoCmd
    /\ LET restart == index = 0 \/ flags.state = "COMPLETE"
       IN /\ jump_tracking' = IF restart THEN <<>> ELSE jump_tracking
          /\ edited' = (edited /\ ~restart)
    /\ Search("set_current", IF index = 0 THEN 1 ELSE index, 0)
    /\ started' = {}
    /\ UNCHANGED <<mission, nav_cmd>>

\* get_next_nav_cmd: nothing is loaded, but jumps may be given a slot.
GetNextNavCmd(start_index) ==
    /\ Call
    /\ start_index < Len(mission)
    /\ Search("get_next_nav", start_index, start_index)
    /\ started' = {}
    /\ UNCHANGED <<mission, object, edited>>

-----------------------------------------------------------------------------
(* Edits of the list, by the ground station's messages.                    *)

Edit(list) == mission' = list /\ edited' = TRUE /\ started' = {}

\* Mutant: the navigation command stays loaded.
Clear_StillLoaded ==
    /\ Call /\ ~Running
    /\ Edit(<<>>)
    /\ nav_cmd' = NoCmd /\ do_cmd' = NoCmd
    /\ flags' = [flags EXCEPT !.do_cmd_loaded = FALSE]
    /\ UNCHANGED <<jump_tracking, call>>

Clear ==
    /\ Call /\ ~Running
    /\ Edit(<<>>)
    /\ nav_cmd' = NoCmd /\ do_cmd' = NoCmd
    /\ flags' = [flags EXCEPT !.nav_cmd_loaded = FALSE, !.do_cmd_loaded = FALSE]
    /\ UNCHANGED <<jump_tracking, call>>

Truncate(index) == Call /\ Edit(truncate(mission, index)) /\ UNCHANGED <<object, call>>
AddCmd(cmd) == Call /\ Edit(add_cmd(mission, cmd)) /\ UNCHANGED <<object, call>>
ReplaceCmd(index, cmd) ==
    /\ Call
    /\ index < Len(mission)
    /\ Edit(replace_cmd(mission, index, cmd))
    /\ UNCHANGED <<object, call>>

-----------------------------------------------------------------------------
(* update(): the current commands are verified, and advanced when done.    *)

\* Mutant: the search starts one command late.
NextIndex_Late(index) == IF index = NONE THEN FIRST_REAL_COMMAND ELSE index + 2

NextIndex(index) == IF index = NONE THEN FIRST_REAL_COMMAND ELSE index + 1

\* A loaded navigation command has an index (LoadedHasIndex), so update() never
\* finds one that is loaded and has none.
UpdateNav(nav_done) ==
    /\ call = Idle /\ Running /\ mission # <<>>
    /\ IF flags.nav_cmd_loaded /\ ~nav_done
       THEN DoPart /\ UNCHANGED <<flags, do_cmd>>
       ELSE /\ flags' = Reset
            /\ do_cmd' = NoCmd
            /\ Search("update", NextIndex(nav_cmd.index), DoLoops)
    /\ started' = {}
    /\ UNCHANGED <<mission, nav_cmd, jump_tracking, calls, edited>>

UpdateDo(do_done) ==
    /\ call.fn = "do_part"
    /\ \/ /\ flags.do_cmd_loaded
          /\ flags' = [flags EXCEPT !.do_cmd_loaded = ~do_done]
          /\ Return
       \/ /\ ~flags.do_cmd_loaded
          /\ ~Running \/ flags.do_cmd_all_done
          /\ Return
          /\ UNCHANGED flags
       \/ /\ ~flags.do_cmd_loaded /\ Running /\ ~flags.do_cmd_all_done
          /\ IF NextIndex(do_cmd.index) >= Len(mission)
             THEN flags' = [flags EXCEPT !.do_cmd_all_done = TRUE] /\ Return
             ELSE Search("do", NextIndex(do_cmd.index), 0) /\ UNCHANGED flags
    /\ started' = {}
    /\ UNCHANGED <<mission, nav_cmd, do_cmd, jump_tracking, calls, edited>>

-----------------------------------------------------------------------------
(* get_next_cmd: one step for each command it reads.                       *)

Searching == call.fn \in {"start", "update", "set_current", "do", "get_next_nav"}

\* increment_jump_num_times_if_found: the search is for the current nav command.
ForNav == call.fn \in {"start", "update", "set_current"}

\* set_current_cmd of a mission that is not running starts nothing.
Starting == ForNav /\ Running

InList == call.index < Len(mission)
read == read_cmd_from_storage(mission, call.index)

\* get_jump_times_run gives a jump it does not know a slot, while there are any.
Tracks(table, index) == \E k \in DOMAIN table : table[k].index = index

WithSlot(table, index) ==
    IF ~Tracks(table, index) /\ Len(table) < JumpSlots
    THEN Append(table, [index |-> index, num_times_run |-> 0])
    ELSE table

TimesRun(table, index) ==
    IF Tracks(table, index)
    THEN table[CHOOSE k \in DOMAIN table : table[k].index = index].num_times_run
    ELSE JUMP_TIMES_MAX

\* Mutant: the count is not kept.
Incremented_Not(table, index) == table

Incremented(table, index) ==
    [k \in DOMAIN table |-> IF table[k].index = index
                            THEN [table[k] EXCEPT !.num_times_run = @ + 1]
                            ELSE table[k]]

\* Mutant: one jump too many.
JumpTaken_OnceMore(table) ==
    \/ read.num_times = REPEAT_FOREVER
    \/ TimesRun(table, call.index) <= read.num_times

JumpRefused ==
    \/ call.max_loops = 0
    \/ read.target >= Len(mission) \/ read.target = 0
    \/ ~ForNav /\ call.jump_index = call.index

JumpTaken(table) ==
    \/ read.num_times = REPEAT_FOREVER
    \/ TimesRun(table, call.index) < read.num_times

\* Mutant: the jumps of a search are not counted.
LoopsLeft_Same(max_loops) == max_loops

LoopsLeft(max_loops) == max_loops - 1

FollowJump ==
    /\ Searching /\ InList
    /\ read.id = "jump" /\ ~JumpRefused
    /\ LET forever == read.num_times = REPEAT_FOREVER
           table == IF forever THEN jump_tracking ELSE WithSlot(jump_tracking, call.index)
       IN /\ jump_tracking' = IF ForNav /\ ~forever /\ JumpTaken(table)
                              THEN Incremented(table, call.index)
                              ELSE table
          /\ call' = [call EXCEPT
                !.index = IF JumpTaken(table) THEN read.target ELSE @ + 1,
                !.jump_index = IF @ = NONE THEN call.index ELSE @,
                !.max_loops = LoopsLeft(@)]
    /\ started' = {}
    /\ UNCHANGED <<mission, flags, nav_cmd, do_cmd, calls, edited>>

Complete == flags' = [flags EXCEPT !.state = "COMPLETE"] /\ Return

\* The end of the list, or a jump that get_next_cmd refuses.
NotFound ==
    /\ Searching
    /\ InList => read.id = "jump" /\ JumpRefused
    /\ \/ Starting /\ Complete /\ UNCHANGED nav_cmd
       \/ ForNav /\ ~Running /\ nav_cmd' = NoCmd /\ Return /\ UNCHANGED flags
       \/ /\ call.fn = "do"
          /\ flags' = [flags EXCEPT !.do_cmd_all_done = TRUE]
          /\ Return /\ UNCHANGED nav_cmd
       \/ call.fn = "get_next_nav" /\ Return /\ UNCHANGED <<flags, nav_cmd>>
    /\ started' = {}
    /\ UNCHANGED <<mission, do_cmd, jump_tracking, calls, edited>>

here == Loaded(call.index, read)

\* set_current_cmd leaves a mission that is not running stopped; a command that is
\* started may take the vehicle out of AUTO, which stops the mission.
LoadNav ==
    /\ ForNav
    /\ nav_cmd' = here
    /\ started' = IF Running THEN {Started("nav", here)} ELSE {}
    /\ \E state \in {"STOPPED"} \cup (IF Running THEN {"RUNNING"} ELSE {}) :
          flags' = [flags EXCEPT !.state = state, !.nav_cmd_loaded = TRUE,
                                 !.do_cmd_all_done = @ \/ ~flags.do_cmd_loaded]
    /\ IF call.fn = "update" THEN DoPart ELSE Return

FoundNav ==
    /\ Searching /\ InList
    /\ read.id = "nav"
    /\ \/ LoadNav
       \/ /\ call.fn = "do"
          /\ flags' = [flags EXCEPT !.do_cmd_all_done = TRUE]
          /\ started' = {} /\ Return /\ UNCHANGED nav_cmd
       \/ call.fn = "get_next_nav" /\ started' = {} /\ Return /\ UNCHANGED <<flags, nav_cmd>>
    /\ UNCHANGED <<mission, do_cmd, jump_tracking, calls, edited>>

LoadDo ==
    /\ do_cmd' = here
    /\ flags' = [flags EXCEPT !.do_cmd_loaded = TRUE]
    /\ started' = IF Running THEN {Started("do", here)} ELSE {}

\* The first "do" command before the navigation command is loaded, the others are
\* passed; only advance_current_nav_cmd bounds how many.
PassDo ==
    /\ \/ call.fn = "set_current" /\ Search(call.fn, call.index + 1, 0) /\ UNCHANGED flags
       \/ /\ call.fn # "set_current" /\ call.outer > 0
          /\ Search(call.fn, call.index + 1, call.outer - 1) /\ UNCHANGED flags
       \/ call.fn # "set_current" /\ call.outer = 0 /\ Complete
    /\ started' = {} /\ UNCHANGED do_cmd

\* get_next_nav_cmd goes on from its own index, not from that of the command found.
FoundDo ==
    /\ Searching /\ InList
    /\ read.id = "do"
    /\ \/ ForNav /\ ~flags.do_cmd_loaded /\ LoadDo /\ Search(call.fn, call.index + 1, call.outer)
       \/ ForNav /\ flags.do_cmd_loaded /\ PassDo
       \/ call.fn = "do" /\ LoadDo /\ Return
       \/ /\ call.fn = "get_next_nav"
          /\ Search(call.fn, call.outer + 1, call.outer + 1)
          /\ started' = {} /\ UNCHANGED <<flags, do_cmd>>
    /\ UNCHANGED <<mission, nav_cmd, jump_tracking, calls, edited>>

-----------------------------------------------------------------------------

SearchStep == FollowJump \/ NotFound \/ FoundNav \/ FoundDo
Index == 0 .. MaxCmds

Next ==
    \/ Start \/ ResetCall \/ Stop \/ Resume \/ Clear
    \/ \E index \in Index : SetCurrentCmd(index) \/ GetNextNavCmd(index) \/ Truncate(index)
    \/ \E cmd \in Cmd : AddCmd(cmd)
    \/ \E index \in Index, cmd \in Cmd : ReplaceCmd(index, cmd)
    \/ \E done \in BOOLEAN : UpdateNav(done) \/ UpdateDo(done)
    \/ SearchStep

\* A call runs on to its end, and every navigation command the vehicle flies is
\* verified as complete in the end.
Fairness ==
    /\ WF_vars(SearchStep)
    /\ WF_vars(\E done \in BOOLEAN : UpdateDo(done))
    /\ SF_vars(UpdateNav(TRUE))

Spec == Init /\ [][Next]_vars /\ Fairness

-----------------------------------------------------------------------------
(* Properties.                                                             *)

Position == 0 .. MaxCmds \cup {NONE}

\* The state is of its type: the list fits in storage, loaded commands are commands
\* of the list's kinds, and there is never a slot too many in _jump_tracking.
TypeOK ==
    /\ mission \in Seq(Cmd) /\ Len(mission) <= MaxCmds
    /\ flags \in [state : {"STOPPED", "RUNNING", "COMPLETE"}, nav_cmd_loaded : BOOLEAN,
                  do_cmd_loaded : BOOLEAN, do_cmd_all_done : BOOLEAN]
    /\ nav_cmd \in [index : Position, cmd : Cmd]
    /\ do_cmd \in [index : Position, cmd : Cmd]
    /\ jump_tracking \in Seq([index : 0 .. MaxCmds, num_times_run : Nat])
    /\ Len(jump_tracking) <= JumpSlots
    /\ call \in [fn : {"none", "do_part", "start", "update", "set_current", "do", "get_next_nav"},
                 index : Nat, jump_index : Nat, max_loops : 0 .. JumpLoops, outer : Nat]
    /\ calls \in 0 .. MaxCalls
    /\ edited \in BOOLEAN

\* A command that counts as loaded is at an index: update() takes the branch that
\* verifies it, and never completes the mission because advance_current_nav_cmd
\* finds a command still loaded.
LoadedHasIndex ==
    /\ flags.nav_cmd_loaded => nav_cmd.index # NONE
    /\ flags.do_cmd_loaded => do_cmd.index # NONE

\* A command is started only as the stored list has it at that moment, whatever was
\* edited since it was loaded: resume() reads the navigation command again.  Only the
\* "do" command that resume() starts again may be an old one.
StartsStored ==
    \A s \in started : s.as # "restart" =>
        s.index < Len(mission) /\ s.cmd = read_cmd_from_storage(mission, s.index)

\* A jump has one counter: two would let it be taken twice as often.
OneSlotPerJump ==
    \A j, k \in DOMAIN jump_tracking :
        jump_tracking[j].index = jump_tracking[k].index => j = k

\* As long as the list is not edited, no jump is taken more often than it says,
\* across stops, resumes, changes of the current command and queries.
JumpsWithinBudget ==
    ~edited => \A k \in DOMAIN jump_tracking :
        /\ jump_tracking[k].index < Len(mission)
        /\ LET jump == mission[jump_tracking[k].index + 1]
           IN /\ jump.id = "jump"
              /\ jump_tracking[k].num_times_run <= (IF jump.num_times > 0 THEN jump.num_times ELSE 0)

\* The first command behind the current one, when only a bounded number of "do"
\* commands lie between: the navigation command the vehicle has to fly next.
Behind(index) ==
    LET from == IF index = NONE THEN FIRST_REAL_COMMAND ELSE index + 1 IN
    {i \in from .. Len(mission) - 1 :
        /\ mission[i + 1].id = "nav"
        /\ \A j \in from .. i - 1 : mission[j + 1].id = "do"
        /\ i - from <= DoLoops + 1}

\* No navigation command is skipped: when update() or start() ends its search, it
\* has loaded the command that follows in the list, if no jump lies in between.
NoNavSkipped ==
    [][call.fn \in {"start", "update"} /\ call'.fn # call.fn =>
         \A i \in Behind(nav_cmd.index) : nav_cmd'.index = i /\ flags'.nav_cmd_loaded]_vars

RepeatsForever == \E i \in 2 .. Len(mission) : mission[i].num_times = REPEAT_FOREVER

\* Every call returns: get_next_cmd bounds the jumps it follows,
\* advance_current_nav_cmd the "do" commands it passes.  set_current_cmd has no
\* bound of its own, and returns when no jump repeats forever.
CallReturns ==
    (Searching /\ (call.fn = "set_current" => ~RepeatsForever)) ~> ~Searching

\* Once nobody calls any more, a mission without endless jumps comes to its end;
\* a running mission whose list was truncated to nothing is the exception.
MissionEnds ==
    <>[](~Running \/ RepeatsForever \/ mission = <<>>)

\* set_current_cmd returns, like every other call.
SetCurrentReturns == call.fn = "set_current" ~> call.fn # "set_current"
=============================================================================
