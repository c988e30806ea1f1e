-------------------------- MODULE ApMissionProofs --------------------------
(***************************************************************************)
(* For every list of commands and every order of calls: a loaded command   *)
(* has an index, a command is started only as it is stored, and no jump is *)
(* taken more often than it says while the list is not edited.             *)
(***************************************************************************)
EXTENDS ApMission, SequenceTheorems, TLAPS

States == {"STOPPED", "RUNNING", "COMPLETE"}
Flags == [state : States, nav_cmd_loaded : BOOLEAN, do_cmd_loaded : BOOLEAN, do_cmd_all_done : BOOLEAN]
LoadedCmd == [index : Position, cmd : Cmd]
Fn == {"none", "do_part", "start", "update", "set_current", "do", "get_next_nav"}
CallRec == [fn : Fn, index : Nat, jump_index : Nat, max_loops : 0 .. JumpLoops, outer : Nat]
Track == [index : 0 .. MaxCmds, num_times_run : Nat]

\* While the search for a navigation command is on, none is loaded, and neither the
\* search nor the current command is at home.
SearchInv ==
    /\ ForNav => ~flags.nav_cmd_loaded /\ call.index # 0
    /\ nav_cmd.index # 0

MissionInv ==
    /\ TypeOK
    /\ SearchInv /\ LoadedHasIndex
    /\ StartsStored
    /\ OneSlotPerJump /\ JumpsWithinBudget

-----------------------------------------------------------------------------
(* The constants and the records.                                          *)

\* What the assumptions say of each constant.
LEMMA Constants ==
    /\ MaxCmds \in Nat /\ MaxCmds >= 1 /\ MaxCmds < NONE /\ NONE \in Nat /\ NONE = 65535
    /\ JumpSlots \in Nat /\ JumpLoops \in Nat /\ DoLoops \in Nat /\ MaxCalls \in Nat
    /\ Home \in Cmd /\ Home.id = "nav"
    /\ \A c \in Cmd : /\ c.id \in {"nav", "do", "jump"} /\ c.target \in Nat /\ c.num_times \in Int
                      /\ c.num_times <= JUMP_TIMES_MAX
<1>1. NONE = 65535 /\ NONE \in Nat
  BY DEF NONE
<1>2. \A c \in Cmd : c.id \in {"nav", "do", "jump"} /\ c.target \in Nat /\ c.num_times \in Int
  BY CmdAssumption DEF Command
<1>3. MaxCmds \in Nat /\ MaxCmds >= 1 /\ MaxCmds < NONE
  BY <1>1, LimitAssumption
<1>4. JumpSlots \in Nat /\ JumpLoops \in Nat /\ DoLoops \in Nat /\ MaxCalls \in Nat
  BY LimitAssumption
<1>5. Home \in Cmd /\ Home.id = "nav" /\ \A c \in Cmd : c.num_times <= JUMP_TIMES_MAX
  BY CmdAssumption
<1> QED
  BY <1>1, <1>2, <1>3, <1>4, <1>5

\* TypeOK in terms of the sets above.
LEMMA Types ==
    TypeOK <=> /\ mission \in Seq(Cmd) /\ Len(mission) <= MaxCmds
               /\ flags \in Flags /\ nav_cmd \in LoadedCmd /\ do_cmd \in LoadedCmd
               /\ jump_tracking \in Seq(Track) /\ Len(jump_tracking) <= JumpSlots
               /\ call \in CallRec /\ calls \in 0 .. MaxCalls /\ edited \in BOOLEAN
BY DEF TypeOK, Flags, States, LoadedCmd, CallRec, Fn, Track

\* No command is loaded at NONE.
LEMMA NoCmdType == NoCmd \in LoadedCmd /\ NoCmd.index = NONE /\ NONE # 0
BY Constants DEF NoCmd, Loaded, LoadedCmd, Position

\* The records of a call that has returned and of the rest of update().
LEMMA IdleType == Idle \in CallRec /\ Idle.fn = "none" /\ [Idle EXCEPT !.fn = "do_part"] \in CallRec
                  /\ [Idle EXCEPT !.fn = "do_part"].fn = "do_part"
BY Constants DEF Idle, CallRec, Fn

\* reset() and set_current_cmd() unload both commands.
LEMMA ResetFlags ==
    ASSUME flags \in Flags
    PROVE  /\ Reset \in Flags
           /\ Reset.state = flags.state
           /\ Reset.nav_cmd_loaded = FALSE /\ Reset.do_cmd_loaded = FALSE
BY DEF Flags, Reset

\* A new search is typed.
LEMMA SearchType ==
    ASSUME NEW fn \in Fn, NEW index \in Nat, NEW outer \in Nat, Search(fn, index, outer)
    PROVE  /\ call' \in CallRec /\ call'.fn = fn /\ call'.index = index
BY Constants DEF Search, CallRec

\* What a search has read.
LEMMA ReadType ==
    ASSUME TypeOK, InList
    PROVE  /\ call.index \in 0 .. MaxCmds /\ call.index < Len(mission) /\ call.index # NONE
           /\ read \in Cmd
           /\ read.id # "nav" => call.index # 0
           /\ call.index # 0 => read = mission[call.index + 1]
           /\ here \in LoadedCmd /\ here.index = call.index /\ here.cmd = read
<1>1. mission \in Seq(Cmd) /\ Len(mission) <= MaxCmds /\ Len(mission) \in Nat /\ call.index \in Nat
  BY Types, LenProperties DEF CallRec
<1>2. call.index < Len(mission) /\ call.index \in 0 .. MaxCmds /\ call.index # NONE
  BY <1>1, Constants DEF InList
<1>3. mission[call.index + 1] \in Cmd
  BY <1>1, <1>2, ElementOfSeq
<1>4. read \in Cmd /\ (read.id # "nav" => call.index # 0) /\ (call.index # 0 => read = mission[call.index + 1])
  BY <1>3, Constants DEF read, read_cmd_from_storage
<1>5. here \in LoadedCmd /\ here.index = call.index /\ here.cmd = read
  BY <1>2, <1>4 DEF here, Loaded, LoadedCmd, Position
<1> QED
  BY <1>2, <1>4, <1>5

-----------------------------------------------------------------------------
(* The list.                                                               *)

\* The edits keep the list a list that fits.
LEMMA EditType ==
    ASSUME NEW list \in Seq(Cmd), Len(list) <= MaxCmds, NEW index \in Nat, NEW cmd \in Cmd
    PROVE  /\ truncate(list, index) \in Seq(Cmd) /\ Len(truncate(list, index)) <= MaxCmds
           /\ add_cmd(list, cmd) \in Seq(Cmd) /\ Len(add_cmd(list, cmd)) <= MaxCmds
           /\ replace_cmd(list, index, cmd) \in Seq(Cmd) /\ Len(replace_cmd(list, index, cmd)) <= MaxCmds
<1>1. Len(list) \in Nat /\ \A i \in 1 .. Len(list) : list[i] \in Cmd
  BY LenProperties, ElementOfSeq
<1>2. truncate(list, index) \in Seq(Cmd) /\ Len(truncate(list, index)) <= MaxCmds
  <2>1. CASE Len(list) > index
    <3>1. \A i \in 1 .. index : list[i] \in Cmd
      BY <1>1, <2>1
    <3>2. /\ SubSeq(list, 1, index) \in Seq(Cmd)
          /\ Len(SubSeq(list, 1, index)) = IF 1 <= index THEN index - 1 + 1 ELSE 0
      BY <3>1, SubSeqProperties
    <3> QED
      BY <1>1, <2>1, <3>2, Constants DEF truncate
  <2>2. CASE ~(Len(list) > index)
    BY <2>2 DEF truncate
  <2> QED
    BY <2>1, <2>2
<1>3. replace_cmd(list, index, cmd) \in Seq(Cmd) /\ Len(replace_cmd(list, index, cmd)) <= MaxCmds
  <2>1. CASE index < Len(list)
    <3>1. index + 1 \in 1 .. Len(list)
      BY <1>1, <2>1
    <3> QED
      BY <2>1, <3>1, ExceptSeq DEF replace_cmd
  <2>2. CASE ~(index < Len(list))
    BY <2>2 DEF replace_cmd
  <2> QED
    BY <2>1, <2>2
<1>4. add_cmd(list, cmd) \in Seq(Cmd) /\ Len(add_cmd(list, cmd)) <= MaxCmds
  <2>1. CASE HasSpace(list)
    <3>1. Append(list, cmd) \in Seq(Cmd) /\ Len(Append(list, cmd)) = Len(list) + 1
      BY AppendProperties
    <3> QED
      BY <1>1, <2>1, <3>1, Constants DEF add_cmd, HasSpace
  <2>2. CASE ~HasSpace(list)
    BY <2>2 DEF add_cmd
  <2> QED
    BY <2>1, <2>2
<1> QED
  BY <1>2, <1>3, <1>4

\* The list a boot finds fits.
LEMMA InitType ==
    ASSUME Init
    PROVE  mission \in Seq(Cmd) /\ Len(mission) <= MaxCmds
<1>1. CASE mission = <<>>
  BY <1>1, EmptySeq, Constants
<1>2. CASE mission # <<>>
  <2>1. PICK n \in 0 .. MaxCmds - 1 : \E cmds \in [1 .. n -> Cmd] : mission = <<Home>> \o cmds
    BY <1>2 DEF Init
  <2> PICK cmds \in [1 .. n -> Cmd] : mission = <<Home>> \o cmds
    BY <2>1
  <2>2. cmds \in Seq(Cmd) /\ Len(cmds) = n
    BY <2>1, Constants
  <2>3. <<Home>> \in Seq(Cmd) /\ Len(<<Home>>) = 1
    BY Constants
  <2>4. <<Home>> \o cmds \in Seq(Cmd) /\ Len(<<Home>> \o cmds) = 1 + n
    BY <2>2, <2>3, ConcatProperties
  <2> QED
    BY <2>4, Constants
<1> QED
  BY <1>1, <1>2

-----------------------------------------------------------------------------
(* The slots of the jumps.                                                 *)

\* A slot is added at the end, and only for a jump that has none.
LEMMA SlotFacts ==
    ASSUME NEW table \in Seq(Track), Len(table) <= JumpSlots, NEW index \in 0 .. MaxCmds
    PROVE  LET with == WithSlot(table, index) IN
           /\ with \in Seq(Track) /\ Len(with) <= JumpSlots
           /\ Len(table) <= Len(with)
           /\ \A k \in DOMAIN table : with[k] = table[k]
           /\ \A k \in DOMAIN with : k \notin DOMAIN table =>
                /\ with[k] = [index |-> index, num_times_run |-> 0]
                /\ k = Len(table) + 1 /\ ~Tracks(table, index)
<1>1. Len(table) \in Nat /\ DOMAIN table = 1 .. Len(table)
  BY LenProperties
<1>2. CASE ~Tracks(table, index) /\ Len(table) < JumpSlots
  <2> DEFINE slot == [index |-> index, num_times_run |-> 0]
  <2>1. slot \in Track
    BY DEF Track
  <2>2. /\ Append(table, slot) \in Seq(Track) /\ Len(Append(table, slot)) = Len(table) + 1
        /\ \A k \in 1 .. Len(table) : Append(table, slot)[k] = table[k]
        /\ Append(table, slot)[Len(table) + 1] = slot
    BY <2>1, AppendProperties
  <2>3. DOMAIN Append(table, slot) = 1 .. Len(table) + 1
    BY <2>2, LenProperties
  <2>4. WithSlot(table, index) = Append(table, slot)
    BY <1>2 DEF WithSlot
  <2> HIDE DEF slot
  <2>5. /\ WithSlot(table, index) \in Seq(Track) /\ Len(WithSlot(table, index)) <= JumpSlots
        /\ Len(table) <= Len(WithSlot(table, index))
    BY <1>1, <1>2, <2>2, <2>4, Constants
  <2>6. \A k \in DOMAIN table : WithSlot(table, index)[k] = table[k]
    BY <1>1, <2>2, <2>4
  <2>7. \A k \in DOMAIN WithSlot(table, index) : k \notin DOMAIN table =>
           WithSlot(table, index)[k] = slot /\ k = Len(table) + 1
    BY <1>1, <2>2, <2>3, <2>4
  <2> QED
    BY <1>2, <2>5, <2>6, <2>7 DEF slot
<1>3. CASE ~(~Tracks(table, index) /\ Len(table) < JumpSlots)
  BY <1>1, <1>3 DEF WithSlot
<1> QED
  BY <1>2, <1>3

\* Counting a jump changes only the count of its own slot.
LEMMA CountFacts ==
    ASSUME NEW table \in Seq(Track), NEW index \in 0 .. MaxCmds
    PROVE  LET counted == Incremented(table, index) IN
           /\ counted \in Seq(Track) /\ Len(counted) = Len(table)
           /\ DOMAIN counted = DOMAIN table
           /\ \A k \in DOMAIN table :
                /\ counted[k].index = table[k].index
                /\ counted[k].num_times_run =
                     IF table[k].index = index THEN table[k].num_times_run + 1 ELSE table[k].num_times_run
<1>1. Len(table) \in Nat /\ DOMAIN table = 1 .. Len(table)
  BY LenProperties
<1>2. \A k \in 1 .. Len(table) : table[k] \in Track
  BY ElementOfSeq
<1>3. ASSUME NEW k \in 1 .. Len(table)
      PROVE  /\ Incremented(table, index)[k] \in Track
             /\ Incremented(table, index)[k].index = table[k].index
             /\ Incremented(table, index)[k].num_times_run =
                  IF table[k].index = index THEN table[k].num_times_run + 1 ELSE table[k].num_times_run
  BY <1>1, <1>2 DEF Incremented, Track
<1>4. Incremented(table, index) = [k \in 1 .. Len(table) |-> Incremented(table, index)[k]]
  BY <1>1 DEF Incremented
<1>5. Incremented(table, index) \in [1 .. Len(table) -> Track]
  BY <1>3, <1>4
<1>6. Incremented(table, index) \in Seq(Track) /\ Len(Incremented(table, index)) = Len(table)
  BY <1>1, <1>5
<1> QED
  BY <1>1, <1>3, <1>5, <1>6

-----------------------------------------------------------------------------
(* The type invariant.                                                     *)

\* The next command has an index of its own.
LEMMA NextIndexType ==
    ASSUME NEW index \in Position
    PROVE  NextIndex(index) \in Nat /\ NextIndex(index) # 0
BY Constants DEF NextIndex, Position, FIRST_REAL_COMMAND

\* start() and the calls that reset keep the types.
LEMMA StartTypes ==
    ASSUME TypeOK, StartMission, UNCHANGED mission, calls' \in 0 .. MaxCalls
    PROVE  TypeOK'
<1>1. flags' \in Flags
  BY Types, ResetFlags DEF StartMission, ResetMission, Reset, Flags, States
<1>2. call' \in CallRec
  BY SearchType, Constants DEF StartMission, Fn, FIRST_REAL_COMMAND
<1>3. jump_tracking' = <<>> /\ nav_cmd' = NoCmd /\ do_cmd' = NoCmd /\ edited' = FALSE
  BY DEF StartMission, ResetMission
<1>4. jump_tracking' \in Seq(Track) /\ Len(jump_tracking') <= JumpSlots
  BY <1>3, Constants, EmptySeq
<1> QED
  BY <1>1, <1>2, <1>3, <1>4, NoCmdType, Types
     DEF TypeOK, Flags, States, LoadedCmd, CallRec, Fn, Track

\* The calls of the vehicle keep the types.
LEMMA CallTypes ==
    ASSUME TypeOK,
           \/ Start \/ ResetCall \/ Stop \/ Resume
           \/ \E index \in Index : SetCurrentCmd(index) \/ GetNextNavCmd(index)
    PROVE  TypeOK'
<1> USE DEF TypeOK, Flags, States, LoadedCmd, CallRec, Fn, Track
<1>1. Call => calls' \in 0 .. MaxCalls
  BY Constants DEF Call
<1>2. CASE Start
  BY <1>1, <1>2, StartTypes DEF Start
<1>3. CASE ResetCall
  <2>1. flags' \in Flags
    BY <1>3, ResetFlags DEF ResetCall, ResetMission, Reset
  <2>2. jump_tracking' = <<>> /\ jump_tracking' \in Seq(Track) /\ Len(jump_tracking') <= JumpSlots
    BY <1>3, Constants, EmptySeq DEF ResetCall, ResetMission
  <2> QED
    BY <1>1, <1>3, <2>1, <2>2, NoCmdType DEF ResetCall, ResetMission
<1>4. CASE Stop
  BY <1>1, <1>4 DEF Stop
<1>5. CASE Resume
  <2>1. CASE flags.state = "COMPLETE" \/ ~Readable(mission, nav_cmd.index)
    BY <1>1, <1>5, <2>1, StartTypes DEF Resume
  <2>2. CASE ~(flags.state = "COMPLETE" \/ ~Readable(mission, nav_cmd.index))
    <3> DEFINE nav == Loaded(nav_cmd.index, read_cmd_from_storage(mission, nav_cmd.index))
    <3>1. Restart(nav) /\ UNCHANGED mission /\ Call
      BY <1>5, <2>2 DEF Resume
    <3>2. nav_cmd.index \in Nat /\ Len(mission) \in Nat
      BY Constants, LenProperties DEF Position
    <3>3. nav_cmd.index # 0 => mission[nav_cmd.index + 1] \in Cmd
      BY <2>2, <3>2, ElementOfSeq DEF Readable
    <3>4. nav \in LoadedCmd
      BY <3>3, Constants DEF Loaded, read_cmd_from_storage
    <3>5. flags' \in Flags
      BY <3>1 DEF Restart
    <3> QED
      BY <1>1, <3>1, <3>4, <3>5 DEF Restart
  <2> QED
    BY <2>1, <2>2
<1>6. ASSUME NEW index \in Index, SetCurrentCmd(index)
      PROVE  TypeOK'
  <2>1. flags' \in Flags
    BY <1>6, ResetFlags DEF SetCurrentCmd
  <2>2. call' \in CallRec
    BY <1>6, SearchType, Constants DEF SetCurrentCmd, Index
  <2>3. jump_tracking' \in Seq(Track) /\ Len(jump_tracking') <= JumpSlots /\ edited' \in BOOLEAN
    BY <1>6, Constants, EmptySeq DEF SetCurrentCmd
  <2> QED
    BY <1>1, <1>6, <2>1, <2>2, <2>3, NoCmdType DEF SetCurrentCmd
<1>7. ASSUME NEW index \in Index, GetNextNavCmd(index)
      PROVE  TypeOK'
  <2>1. call' \in CallRec
    BY <1>7, SearchType, Constants DEF GetNextNavCmd, Index
  <2> QED
    BY <1>1, <1>7, <2>1 DEF GetNextNavCmd, object
<1> QED
  BY <1>2, <1>3, <1>4, <1>5, <1>6, <1>7

\* The edits and update() keep the types.
LEMMA UpdateTypes ==
    ASSUME TypeOK,
           \/ Clear \/ \E index \in Index : Truncate(index)
           \/ \E cmd \in Cmd : AddCmd(cmd)
           \/ \E index \in Index, cmd \in Cmd : ReplaceCmd(index, cmd)
           \/ \E done \in BOOLEAN : UpdateNav(done) \/ UpdateDo(done)
    PROVE  TypeOK'
<1> USE DEF TypeOK, Flags, States, LoadedCmd, CallRec, Fn, Track
<1>1. Call => calls' \in 0 .. MaxCalls
  BY Constants DEF Call
<1>2. CASE Clear
  <2>1. mission' \in Seq(Cmd) /\ Len(mission') <= MaxCmds
    BY <1>2, Constants, EmptySeq DEF Clear, Edit
  <2>2. flags' \in Flags
    BY <1>2 DEF Clear
  <2> QED
    BY <1>1, <1>2, <2>1, <2>2, NoCmdType DEF Clear, Edit
<1>3. ASSUME NEW index \in Index, Truncate(index)
      PROVE  TypeOK'
  <2>1. mission' \in Seq(Cmd) /\ Len(mission') <= MaxCmds
    BY <1>3, EditType, Constants DEF Truncate, Edit, Index
  <2> QED
    BY <1>1, <1>3, <2>1 DEF Truncate, Edit, object
<1>4. ASSUME NEW cmd \in Cmd, AddCmd(cmd)
      PROVE  TypeOK'
  <2>1. mission' \in Seq(Cmd) /\ Len(mission') <= MaxCmds
    <3>1. 0 \in Nat
      OBVIOUS
    <3>2. add_cmd(mission, cmd) \in Seq(Cmd) /\ Len(add_cmd(mission, cmd)) <= MaxCmds
      BY <3>1, EditType
    <3> QED
      BY <1>4, <3>2 DEF AddCmd, Edit
  <2> QED
    BY <1>1, <1>4, <2>1 DEF AddCmd, Edit, object
<1>5. ASSUME NEW index \in Index, NEW cmd \in Cmd, ReplaceCmd(index, cmd)
      PROVE  TypeOK'
  <2>1. mission' \in Seq(Cmd) /\ Len(mission') <= MaxCmds
    <3>1. index \in Nat
      BY Constants DEF Index
    <3>2. /\ replace_cmd(mission, index, cmd) \in Seq(Cmd)
          /\ Len(replace_cmd(mission, index, cmd)) <= MaxCmds
      BY <3>1, EditType
    <3> QED
      BY <1>5, <3>2 DEF ReplaceCmd, Edit
  <2> QED
    BY <1>1, <1>5, <2>1 DEF ReplaceCmd, Edit, object
<1>6. ASSUME NEW done \in BOOLEAN, UpdateNav(done)
      PROVE  TypeOK'
  <2>1. flags' \in Flags
    BY <1>6, ResetFlags DEF UpdateNav
  <2>2. call' \in CallRec
    <3>1. NextIndex(nav_cmd.index) \in Nat
      BY NextIndexType
    <3>2. Search("update", NextIndex(nav_cmd.index), DoLoops) => call' \in CallRec
      BY <3>1, SearchType, Constants
    <3> QED
      BY <1>6, <3>2, IdleType DEF UpdateNav, DoPart
  <2>3. do_cmd' \in LoadedCmd
    BY <1>6, NoCmdType DEF UpdateNav
  <2> QED
    BY <1>6, <2>1, <2>2, <2>3 DEF UpdateNav
<1>7. ASSUME NEW done \in BOOLEAN, UpdateDo(done)
      PROVE  TypeOK'
  <2>1. flags' \in Flags
    BY <1>7 DEF UpdateDo
  <2>2. call' \in CallRec
    BY <1>7, SearchType, IdleType, NextIndexType DEF UpdateDo, Return
  <2> QED
    BY <1>7, <2>1, <2>2 DEF UpdateDo
<1> QED
  BY <1>2, <1>3, <1>4, <1>5, <1>6, <1>7

\* The steps of a search keep the types.
LEMMA SearchTypes ==
    ASSUME TypeOK, SearchStep
    PROVE  TypeOK'
<1> USE DEF TypeOK, Flags, States, LoadedCmd, CallRec, Fn, Track
<1>1. CASE FollowJump
  <2>1. /\ call.index \in 0 .. MaxCmds /\ read \in Cmd /\ read.target \in Nat
    BY <1>1, ReadType, Constants DEF FollowJump
  <2> DEFINE table == IF read.num_times = REPEAT_FOREVER THEN jump_tracking
                      ELSE WithSlot(jump_tracking, call.index)
  <2>2. table \in Seq(Track) /\ Len(table) <= JumpSlots
    BY <2>1, SlotFacts
  <2>3. Incremented(table, call.index) \in Seq(Track) /\ Len(Incremented(table, call.index)) <= JumpSlots
    BY <2>1, <2>2, CountFacts
  <2>4. jump_tracking' \in Seq(Track) /\ Len(jump_tracking') <= JumpSlots
    BY <1>1, <2>2, <2>3 DEF FollowJump
  <2>5. LoopsLeft(call.max_loops) \in 0 .. JumpLoops
    BY <1>1, Constants DEF FollowJump, JumpRefused, LoopsLeft
  <2> HIDE DEF table
  <2>6. call' = [call EXCEPT !.index = IF JumpTaken(table) THEN read.target ELSE @ + 1,
                             !.jump_index = IF @ = NONE THEN call.index ELSE @,
                             !.max_loops = LoopsLeft(@)]
    BY <1>1 DEF FollowJump, table
  <2>7. call' \in CallRec
    <3>1. (IF JumpTaken(table) THEN read.target ELSE call.index + 1) \in Nat
      BY <2>1
    <3>2. (IF call.jump_index = NONE THEN call.index ELSE call.jump_index) \in Nat
      BY <2>1
    <3> QED
      BY <2>5, <2>6, <3>1, <3>2
  <2> QED
    BY <1>1, <2>4, <2>7 DEF FollowJump
<1>2. CASE NotFound
  <2>1. flags' \in Flags /\ nav_cmd' \in LoadedCmd
    BY <1>2, NoCmdType DEF NotFound, Complete
  <2>2. call' \in CallRec
    BY <1>2, IdleType DEF NotFound, Complete, Return
  <2> QED
    BY <1>2, <2>1, <2>2 DEF NotFound
<1>3. CASE FoundNav
  <2>1. nav_cmd' \in LoadedCmd
    BY <1>3, ReadType DEF FoundNav, LoadNav
  <2>2. flags' \in Flags
    BY <1>3 DEF FoundNav, LoadNav
  <2>3. call' \in CallRec
    BY <1>3, IdleType DEF FoundNav, LoadNav, DoPart, Return
  <2> QED
    BY <1>3, <2>1, <2>2, <2>3 DEF FoundNav
<1>4. CASE FoundDo
  <2>1. do_cmd' \in LoadedCmd
    BY <1>4, ReadType DEF FoundDo, LoadDo, PassDo
  <2>2. flags' \in Flags
    BY <1>4 DEF FoundDo, LoadDo, PassDo, Complete
  <2>3. call' \in CallRec
    <3>1. \A index, outer \in Nat : Search(call.fn, index, outer) => call' \in CallRec
      BY SearchType
    <3>2. /\ call.index + 1 \in Nat /\ call.outer \in Nat /\ call.outer + 1 \in Nat /\ 0 \in Nat
          /\ call.outer > 0 => call.outer - 1 \in Nat
      OBVIOUS
    <3>3. PassDo => call' \in CallRec
      BY <3>1, <3>2, IdleType DEF PassDo, Complete, Return
    <3> QED
      BY <1>4, <3>1, <3>2, <3>3, IdleType DEF FoundDo, Return
  <2> QED
    BY <1>4, <2>1, <2>2, <2>3 DEF FoundDo
<1> QED
  BY <1>1, <1>2, <1>3, <1>4 DEF SearchStep

\* Every step keeps the types.
LEMMA TypeStep ==
    ASSUME TypeOK, [Next]_vars
    PROVE  TypeOK'
<1>1. CASE UNCHANGED vars
  BY <1>1 DEF vars, object, TypeOK
<1> QED
  BY <1>1, CallTypes, UpdateTypes, SearchTypes DEF Next

-----------------------------------------------------------------------------
(* A loaded command has an index, and what is started is what is stored.   *)

\* Neither Idle nor the rest of update() is a search.
LEMMA NoSearch == (Return \/ DoPart) => ~ForNav'
BY IdleType DEF Return, DoPart, ForNav

\* start() and its like leave nothing loaded.
LEMMA StartSearch ==
    ASSUME TypeOK, StartMission
    PROVE  SearchInv' /\ LoadedHasIndex'
<1>1. flags' \in Flags /\ ~flags'.nav_cmd_loaded /\ ~flags'.do_cmd_loaded
  BY Types, ResetFlags DEF StartMission, ResetMission, Reset, Flags, States
<1>2. nav_cmd'.index # 0
  BY NoCmdType DEF StartMission, ResetMission
<1>3. call'.index # 0
  BY SearchType, Constants DEF StartMission, Fn, FIRST_REAL_COMMAND
<1> QED
  BY <1>1, <1>2, <1>3 DEF SearchInv, LoadedHasIndex

\* The calls of the vehicle keep SearchInv and LoadedHasIndex.
LEMMA CallSearch ==
    ASSUME TypeOK, SearchInv, LoadedHasIndex,
           \/ Start \/ ResetCall \/ Stop \/ Resume \/ Clear
           \/ \E index \in Index : SetCurrentCmd(index) \/ GetNextNavCmd(index) \/ Truncate(index)
           \/ \E cmd \in Cmd : AddCmd(cmd)
           \/ \E index \in Index, cmd \in Cmd : ReplaceCmd(index, cmd)
    PROVE  SearchInv' /\ LoadedHasIndex'
<1> USE DEF SearchInv, LoadedHasIndex
<1>0. flags \in Flags /\ call \in CallRec
  BY Types
<1>1. call = Idle => ~ForNav
  BY IdleType DEF ForNav
<1>2. CASE Start
  BY <1>2, StartSearch DEF Start
<1>3. CASE ResetCall
  <2>1. ~flags'.nav_cmd_loaded /\ ~flags'.do_cmd_loaded
    BY <1>0, <1>3, ResetFlags DEF ResetCall, ResetMission, Reset, Flags
  <2> QED
    BY <1>1, <1>3, <2>1, NoCmdType DEF ResetCall, ResetMission, Call, ForNav
<1>4. CASE Stop
  BY <1>0, <1>1, <1>4 DEF Stop, Call, ForNav, Flags
<1>5. CASE Resume
  <2>1. CASE StartMission
    BY <2>1, StartSearch
  <2>2. ASSUME NEW nav, Restart(nav), nav.index = nav_cmd.index
        PROVE  SearchInv' /\ LoadedHasIndex'
    BY <1>0, <1>1, <1>5, <2>2 DEF Restart, Resume, Call, ForNav, Flags
  <2> QED
    BY <1>5, <2>1, <2>2 DEF Resume, Loaded
<1>6. CASE Clear
  <2>1. ~flags'.nav_cmd_loaded /\ ~flags'.do_cmd_loaded
    BY <1>0, <1>6 DEF Clear, Flags
  <2> QED
    BY <1>1, <1>6, <2>1, NoCmdType DEF Clear, Call, ForNav
<1>7. ASSUME NEW index \in Index, SetCurrentCmd(index)
      PROVE  SearchInv' /\ LoadedHasIndex'
  <2>1. ~flags'.nav_cmd_loaded /\ ~flags'.do_cmd_loaded
    BY <1>0, <1>7, ResetFlags DEF SetCurrentCmd
  <2>2. call'.index # 0
    BY <1>7, SearchType, Constants DEF SetCurrentCmd, Index, Fn
  <2> QED
    BY <1>7, <2>1, <2>2 DEF SetCurrentCmd
<1>8. ASSUME NEW index \in Index, GetNextNavCmd(index)
      PROVE  SearchInv' /\ LoadedHasIndex'
  <2>1. ~ForNav'
    BY <1>8, SearchType, Constants DEF GetNextNavCmd, Index, Fn, ForNav
  <2> QED
    BY <1>8, <2>1 DEF GetNextNavCmd, object
<1>9. ASSUME UNCHANGED <<object, call>>, call = Idle
      PROVE  SearchInv' /\ LoadedHasIndex'
  BY <1>1, <1>9 DEF object, ForNav
<1> QED
  BY <1>2, <1>3, <1>4, <1>5, <1>6, <1>7, <1>8, <1>9 DEF Truncate, AddCmd, ReplaceCmd, Call

\* update() and the steps of a search keep them too.
LEMMA StepSearch ==
    ASSUME TypeOK, SearchInv, LoadedHasIndex,
           SearchStep \/ \E done \in BOOLEAN : UpdateNav(done) \/ UpdateDo(done)
    PROVE  SearchInv' /\ LoadedHasIndex'
<1> USE DEF SearchInv, LoadedHasIndex
<1>0. /\ flags \in Flags /\ call \in CallRec /\ call.fn \in Fn /\ call.index \in Nat /\ call.outer \in Nat
      /\ nav_cmd.index \in Position /\ do_cmd.index \in Position
  BY Types DEF CallRec, LoadedCmd
<1>1. ASSUME NEW done \in BOOLEAN, UpdateNav(done)
      PROVE  SearchInv' /\ LoadedHasIndex'
  <2>1. CASE flags.nav_cmd_loaded /\ ~done
    BY <1>1, <2>1, NoSearch DEF UpdateNav
  <2>2. CASE ~(flags.nav_cmd_loaded /\ ~done)
    <3>1. flags' = Reset /\ Search("update", NextIndex(nav_cmd.index), DoLoops) /\ UNCHANGED nav_cmd
      BY <1>1, <2>2 DEF UpdateNav
    <3>2. ~flags'.nav_cmd_loaded /\ ~flags'.do_cmd_loaded
      BY <1>0, <3>1, ResetFlags
    <3>3. call'.index # 0
      BY <1>0, <3>1, NextIndexType, SearchType, Constants DEF Fn
    <3> QED
      BY <3>1, <3>2, <3>3
  <2> QED
    BY <2>1, <2>2
<1>2. ASSUME NEW done \in BOOLEAN, UpdateDo(done)
      PROVE  SearchInv' /\ LoadedHasIndex'
  <2>1. ~ForNav'
    <3>1. Search("do", NextIndex(do_cmd.index), 0) => ~ForNav'
      BY <1>0, NextIndexType, SearchType DEF Fn, ForNav
    <3> QED
      BY <1>2, <3>1, NoSearch DEF UpdateDo
  <2>2. /\ flags'.nav_cmd_loaded = flags.nav_cmd_loaded
        /\ flags'.do_cmd_loaded => flags.do_cmd_loaded
    BY <1>0, <1>2 DEF UpdateDo, Flags
  <2> QED
    BY <1>2, <2>1, <2>2 DEF UpdateDo
<1>3. CASE FollowJump
  <2>1. call'.fn = call.fn
    BY <1>0, <1>3 DEF FollowJump, CallRec
  <2>2. call'.index = read.target \/ call'.index = call.index + 1
    BY <1>0, <1>3 DEF FollowJump, CallRec
  <2>3. call'.index # 0
    BY <1>0, <1>3, <2>2 DEF FollowJump, JumpRefused
  <2> QED
    BY <1>3, <2>1, <2>3 DEF FollowJump, ForNav
<1>4. CASE NotFound
  <2>1. /\ flags'.nav_cmd_loaded = flags.nav_cmd_loaded
        /\ flags'.do_cmd_loaded = flags.do_cmd_loaded
    BY <1>0, <1>4 DEF NotFound, Complete, Flags
  <2>2. ~ForNav'
    BY <1>4, NoSearch DEF NotFound, Complete
  <2>3. nav_cmd' = nav_cmd \/ (nav_cmd' = NoCmd /\ ForNav)
    BY <1>4 DEF NotFound
  <2> QED
    BY <1>4, <2>1, <2>2, <2>3, NoCmdType DEF NotFound
<1>5. CASE FoundNav
  <2>1. ~ForNav'
    BY <1>5, NoSearch DEF FoundNav, LoadNav
  <2>2. flags'.do_cmd_loaded = flags.do_cmd_loaded
    BY <1>0, <1>5 DEF FoundNav, LoadNav, Flags
  <2>3. CASE LoadNav
    <3>1. nav_cmd'.index = call.index /\ call.index # NONE /\ call.index # 0
      BY <1>5, <2>3, ReadType DEF LoadNav, FoundNav
    <3> QED
      BY <1>5, <2>1, <2>2, <3>1 DEF FoundNav
  <2>4. CASE ~LoadNav
    <3>1. UNCHANGED nav_cmd /\ flags'.nav_cmd_loaded = flags.nav_cmd_loaded
      BY <1>0, <1>5, <2>4 DEF FoundNav, Flags
    <3> QED
      BY <1>5, <2>1, <2>2, <3>1 DEF FoundNav
  <2> QED
    BY <2>3, <2>4
<1>6. CASE FoundDo
  <2>1. flags'.nav_cmd_loaded = flags.nav_cmd_loaded
    BY <1>0, <1>6 DEF FoundDo, LoadDo, PassDo, Complete, Flags
  <2>2. flags'.do_cmd_loaded => do_cmd'.index # NONE
    <3>1. LoadDo => do_cmd'.index = call.index /\ call.index # NONE
      BY <1>6, ReadType DEF LoadDo, FoundDo
    <3>2. ~LoadDo => UNCHANGED do_cmd /\ flags'.do_cmd_loaded = flags.do_cmd_loaded
      BY <1>0, <1>6 DEF FoundDo, PassDo, Complete, Flags
    <3> QED
      BY <3>1, <3>2
  <2>3. ForNav' => ForNav /\ call'.index # 0
    <3>1. ASSUME NEW outer \in Nat, Search(call.fn, call.index + 1, outer)
          PROVE  call'.fn = call.fn /\ call'.index # 0
      BY <1>0, <3>1 DEF Search, CallRec
    <3>2. CASE ForNav /\ ~flags.do_cmd_loaded /\ Search(call.fn, call.index + 1, call.outer)
      BY <1>0, <3>1, <3>2
    <3>3. CASE ForNav /\ PassDo
      <4>1. CASE Search(call.fn, call.index + 1, 0)
        BY <3>1, <3>3, <4>1
      <4>2. CASE call.outer > 0 /\ Search(call.fn, call.index + 1, call.outer - 1)
        BY <1>0, <3>1, <3>3, <4>2
      <4> QED
        BY <3>3, <4>1, <4>2, NoSearch DEF PassDo, Complete
    <3>4. CASE call.fn = "get_next_nav" /\ Search(call.fn, call.outer + 1, call.outer + 1)
      BY <3>4 DEF Search, ForNav
    <3> QED
      BY <1>6, <3>2, <3>3, <3>4, NoSearch DEF FoundDo
  <2> QED
    BY <1>6, <2>1, <2>2, <2>3 DEF FoundDo
<1> QED
  BY <1>1, <1>2, <1>3, <1>4, <1>5, <1>6 DEF SearchStep

\* Every step keeps both.
LEMMA SearchInvStep ==
    ASSUME TypeOK, SearchInv, LoadedHasIndex, [Next]_vars
    PROVE  SearchInv' /\ LoadedHasIndex'
<1>1. CASE UNCHANGED vars
  BY <1>1 DEF vars, object, SearchInv, LoadedHasIndex, ForNav
<1> QED
  BY <1>1, CallSearch, StepSearch DEF Next

\* Only LoadNav, LoadDo and resume() start a command, each with what it has read.
LEMMA StartedStep ==
    ASSUME TypeOK, SearchInv, StartsStored, [Next]_vars
    PROVE  StartsStored'
<1> USE DEF StartsStored
<1>1. CASE UNCHANGED vars
  BY <1>1 DEF vars
<1>2. CASE started' = {}
  BY <1>2
<1>3. ASSUME InList, UNCHANGED mission, NEW as, started' = {Started(as, here)}
      PROVE  StartsStored'
  <2>1. here.index < Len(mission) /\ here.cmd = read_cmd_from_storage(mission, here.index)
    BY <1>3, ReadType DEF read
  <2> QED
    BY <1>3, <2>1 DEF Started
<1>4. CASE FoundNav
  BY <1>2, <1>3, <1>4 DEF FoundNav, LoadNav
<1>5. CASE FoundDo
  BY <1>2, <1>3, <1>5 DEF FoundDo, LoadDo, PassDo
<1>6. CASE Resume
  <2>1. CASE StartMission
    BY <1>2, <2>1 DEF StartMission
  <2>2. CASE ~StartMission
    <3> DEFINE nav == Loaded(nav_cmd.index, read_cmd_from_storage(mission, nav_cmd.index))
    <3>1. Restart(nav) /\ UNCHANGED mission /\ Readable(mission, nav_cmd.index)
      BY <1>6, <2>2 DEF Resume
    <3>2. nav.index < Len(mission) /\ nav.cmd = read_cmd_from_storage(mission, nav.index)
      BY <3>1 DEF Readable, SearchInv, Loaded
    <3> HIDE DEF nav
    <3>3. ASSUME NEW s \in started', s.as # "restart"
          PROVE  s.index < Len(mission) /\ s.cmd = read_cmd_from_storage(mission, s.index)
      <4>1. s = Started("nav", nav)
        BY <3>1, <3>3 DEF Restart, Started
      <4> QED
        BY <3>2, <4>1 DEF Started
    <3> QED
      BY <3>1, <3>3
  <2> QED
    BY <2>1, <2>2
<1>7. CASE Start \/ ResetCall \/ Stop \/ Clear \/ FollowJump \/ NotFound
  BY <1>2, <1>7 DEF Start, StartMission, ResetCall, Stop, Clear, Edit, FollowJump, NotFound
<1>8. CASE \E index \in Index : SetCurrentCmd(index) \/ GetNextNavCmd(index) \/ Truncate(index)
  BY <1>2, <1>8 DEF SetCurrentCmd, GetNextNavCmd, Truncate, Edit
<1>9. CASE \/ \E cmd \in Cmd : AddCmd(cmd)
           \/ \E index \in Index, cmd \in Cmd : ReplaceCmd(index, cmd)
           \/ \E done \in BOOLEAN : UpdateNav(done) \/ UpdateDo(done)
  BY <1>2, <1>9 DEF AddCmd, ReplaceCmd, Edit, UpdateNav, UpdateDo
<1> QED
  BY <1>1, <1>4, <1>5, <1>6, <1>7, <1>8, <1>9 DEF Next, SearchStep

-----------------------------------------------------------------------------
(* No jump is taken more often than it says.                               *)

\* How often the jump command at index may be taken.
Budget(index) == IF mission[index + 1].num_times > 0 THEN mission[index + 1].num_times ELSE 0

\* What the two invariants say of a table.
Distinct(table) == \A j, k \in DOMAIN table : table[j].index = table[k].index => j = k
Within(table) ==
    \A k \in DOMAIN table :
        /\ table[k].index < Len(mission)
        /\ mission[table[k].index + 1].id = "jump"
        /\ table[k].num_times_run <= Budget(table[k].index)

\* The invariants are Distinct and Within of _jump_tracking.
LEMMA TableInvs == /\ OneSlotPerJump <=> Distinct(jump_tracking)
                   /\ JumpsWithinBudget <=> (~edited => Within(jump_tracking))
BY DEF OneSlotPerJump, JumpsWithinBudget, Distinct, Within, Budget

\* A slot for the jump the search has read changes neither.
LEMMA SlotKeeps ==
    ASSUME TypeOK, NEW table \in Seq(Track), Len(table) <= JumpSlots, Distinct(table),
           InList, read.id = "jump"
    PROVE  /\ Distinct(WithSlot(table, call.index))
           /\ Within(table) => Within(WithSlot(table, call.index))
<1> DEFINE with == WithSlot(table, call.index)
<1>1. call.index \in 0 .. MaxCmds /\ call.index < Len(mission) /\ read = mission[call.index + 1] /\ read \in Cmd
  BY ReadType
<1>2. /\ \A k \in DOMAIN table : with[k] = table[k]
      /\ \A k \in DOMAIN with : k \notin DOMAIN table =>
           /\ with[k] = [index |-> call.index, num_times_run |-> 0]
           /\ k = Len(table) + 1 /\ ~Tracks(table, call.index)
  BY <1>1, SlotFacts
<1> HIDE DEF with
<1>3. \A k \in DOMAIN with : k \notin DOMAIN table =>
         /\ with[k].index = call.index /\ with[k].num_times_run = 0
         /\ k = Len(table) + 1 /\ ~Tracks(table, call.index)
  BY <1>2
<1>4. Distinct(with)
  <2> SUFFICES ASSUME NEW j \in DOMAIN with, NEW k \in DOMAIN with, with[j].index = with[k].index
               PROVE  j = k
    BY DEF Distinct
  <2>1. CASE j \in DOMAIN table /\ k \in DOMAIN table
    BY <1>2, <2>1 DEF Distinct
  <2>2. CASE j \notin DOMAIN table /\ k \notin DOMAIN table
    BY <1>3, <2>2
  <2>3. CASE j \in DOMAIN table /\ k \notin DOMAIN table
    BY <1>2, <1>3, <2>3 DEF Tracks
  <2>4. CASE j \notin DOMAIN table /\ k \in DOMAIN table
    BY <1>2, <1>3, <2>4 DEF Tracks
  <2> QED
    BY <2>1, <2>2, <2>3, <2>4
<1>5. ASSUME Within(table)
      PROVE  Within(with)
  <2> SUFFICES ASSUME NEW k \in DOMAIN with
               PROVE  /\ with[k].index < Len(mission)
                      /\ mission[with[k].index + 1].id = "jump"
                      /\ with[k].num_times_run <= Budget(with[k].index)
    BY DEF Within
  <2>1. CASE k \in DOMAIN table
    BY <1>2, <1>5, <2>1 DEF Within
  <2>2. CASE k \notin DOMAIN table
    <3>1. 0 <= Budget(call.index)
      BY <1>1, Constants DEF Budget
    <3> QED
      BY <1>1, <1>3, <2>2, <3>1
  <2> QED
    BY <2>1, <2>2
<1> QED
  BY <1>4, <1>5 DEF with

\* A jump that is taken because of its count has some of its budget left.
LEMMA CountKeeps ==
    ASSUME TypeOK, NEW table \in Seq(Track), Distinct(table),
           InList, read.id = "jump", TimesRun(table, call.index) < read.num_times
    PROVE  /\ Distinct(Incremented(table, call.index))
           /\ Within(table) => Within(Incremented(table, call.index))
<1> DEFINE counted == Incremented(table, call.index)
<1>1. call.index \in 0 .. MaxCmds /\ read = mission[call.index + 1] /\ read \in Cmd /\ read.num_times \in Int
  BY ReadType, Constants
<1>2. /\ DOMAIN counted = DOMAIN table
      /\ \A k \in DOMAIN table :
           /\ counted[k].index = table[k].index
           /\ counted[k].num_times_run =
                IF table[k].index = call.index THEN table[k].num_times_run + 1 ELSE table[k].num_times_run
  BY <1>1, CountFacts
<1> HIDE DEF counted
<1>3. Distinct(counted)
  BY <1>2 DEF Distinct
<1>4. ASSUME Within(table)
      PROVE  Within(counted)
  <2> SUFFICES ASSUME NEW k \in DOMAIN counted
               PROVE  /\ counted[k].index < Len(mission)
                      /\ mission[counted[k].index + 1].id = "jump"
                      /\ counted[k].num_times_run <= Budget(counted[k].index)
    BY DEF Within
  <2>1. k \in DOMAIN table
    BY <1>2
  <2>2. /\ table[k].index < Len(mission)
        /\ mission[table[k].index + 1].id = "jump"
        /\ table[k].num_times_run <= Budget(table[k].index)
    BY <1>4, <2>1 DEF Within
  <2>3. table[k].num_times_run \in Nat
    <3>1. k \in 1 .. Len(table)
      BY <2>1, LenProperties
    <3>2. table[k] \in Track
      BY <3>1, ElementOfSeq
    <3> QED
      BY <3>2 DEF Track
  <2>4. CASE table[k].index # call.index
    BY <1>2, <2>1, <2>2, <2>4
  <2>5. CASE table[k].index = call.index
    <3>1. Tracks(table, call.index)
      BY <2>1, <2>5 DEF Tracks
    <3> DEFINE c == CHOOSE i \in DOMAIN table : table[i].index = call.index
    <3>2. c \in DOMAIN table /\ table[c].index = call.index
      BY <2>1, <2>5
    <3>3. TimesRun(table, call.index) = table[c].num_times_run
      BY <3>1 DEF TimesRun
    <3> HIDE DEF c
    <3>4. c = k
      BY <2>1, <2>5, <3>2 DEF Distinct
    <3>5. table[k].num_times_run + 1 <= Budget(call.index)
      BY <1>1, <2>3, <3>3, <3>4 DEF Budget
    <3> QED
      BY <1>2, <2>1, <2>2, <2>5, <3>5
  <2> QED
    BY <2>4, <2>5
<1> QED
  BY <1>3, <1>4 DEF counted

\* An empty table, and one that is left alone while the list is, keep the invariants.
LEMMA TableKept ==
    ASSUME OneSlotPerJump, JumpsWithinBudget,
           \/ jump_tracking' = <<>>
           \/ UNCHANGED <<jump_tracking, mission, edited>>
           \/ UNCHANGED jump_tracking /\ edited' = TRUE
    PROVE  OneSlotPerJump' /\ JumpsWithinBudget'
<1>1. CASE jump_tracking' = <<>>
  BY <1>1 DEF OneSlotPerJump, JumpsWithinBudget
<1>2. CASE UNCHANGED <<jump_tracking, mission, edited>>
  BY <1>2 DEF OneSlotPerJump, JumpsWithinBudget
<1>3. CASE UNCHANGED jump_tracking /\ edited' = TRUE
  BY <1>3 DEF OneSlotPerJump, JumpsWithinBudget
<1> QED
  BY <1>1, <1>2, <1>3

\* FollowJump is the only step that adds a slot or counts a jump.
LEMMA FollowJumpTable ==
    ASSUME TypeOK, OneSlotPerJump, JumpsWithinBudget, FollowJump
    PROVE  OneSlotPerJump' /\ JumpsWithinBudget'
<1>1. InList /\ read.id = "jump" /\ UNCHANGED <<mission, edited>>
  BY DEF FollowJump
<1>2. CASE read.num_times = REPEAT_FOREVER
  <2>1. UNCHANGED jump_tracking
    BY <1>2 DEF FollowJump
  <2> QED
    BY <1>1, <2>1, TableKept
<1>3. CASE read.num_times # REPEAT_FOREVER
  <2> DEFINE table == WithSlot(jump_tracking, call.index)
  <2>1. jump_tracking \in Seq(Track) /\ Len(jump_tracking) <= JumpSlots /\ call.index \in 0 .. MaxCmds
    BY <1>1, Types, ReadType
  <2>2. table \in Seq(Track) /\ Distinct(table) /\ (~edited => Within(table))
    BY <1>1, <2>1, SlotFacts, SlotKeeps, TableInvs
  <2>3. \/ jump_tracking' = table
        \/ jump_tracking' = Incremented(table, call.index) /\ JumpTaken(table)
    BY <1>3 DEF FollowJump
  <2> HIDE DEF table
  <2>4. JumpTaken(table) => TimesRun(table, call.index) < read.num_times
    BY <1>3 DEF JumpTaken
  <2>5. Distinct(jump_tracking') /\ (~edited => Within(jump_tracking'))
    BY <1>1, <2>2, <2>3, <2>4, CountKeeps
  <2> QED
    BY <1>1, <2>5 DEF OneSlotPerJump, JumpsWithinBudget, Distinct, Within, Budget
<1> QED
  BY <1>2, <1>3

\* Every step keeps one slot for each jump, and every jump in its budget.
LEMMA TableStep ==
    ASSUME TypeOK, OneSlotPerJump, JumpsWithinBudget, [Next]_vars
    PROVE  OneSlotPerJump' /\ JumpsWithinBudget'
<1>1. CASE UNCHANGED vars
  BY <1>1, TableKept DEF vars, object
<1>2. CASE Start \/ ResetCall
  BY <1>2, TableKept DEF Start, StartMission, ResetCall, ResetMission
<1>3. CASE Stop \/ Clear \/ NotFound \/ FoundNav \/ FoundDo
  BY <1>3, TableKept DEF Stop, Clear, Edit, NotFound, FoundNav, FoundDo
<1>4. CASE Resume
  BY <1>4, TableKept DEF Resume, StartMission, ResetMission, Restart
<1>5. ASSUME NEW index \in Index, SetCurrentCmd(index)
      PROVE  OneSlotPerJump' /\ JumpsWithinBudget'
  <2>1. CASE index = 0 \/ flags.state = "COMPLETE"
    BY <1>5, <2>1, TableKept DEF SetCurrentCmd
  <2>2. CASE ~(index = 0 \/ flags.state = "COMPLETE")
    <3>1. edited' = edited
      BY <1>5, <2>2 DEF SetCurrentCmd, TypeOK
    <3> QED
      BY <1>5, <2>2, <3>1, TableKept DEF SetCurrentCmd
  <2> QED
    BY <2>1, <2>2
<1>6. CASE \E index \in Index : GetNextNavCmd(index) \/ Truncate(index)
  BY <1>6, TableKept DEF GetNextNavCmd, Truncate, Edit, object
<1>7. CASE \/ \E cmd \in Cmd : AddCmd(cmd)
           \/ \E index \in Index, cmd \in Cmd : ReplaceCmd(index, cmd)
           \/ \E done \in BOOLEAN : UpdateNav(done) \/ UpdateDo(done)
  BY <1>7, TableKept DEF AddCmd, ReplaceCmd, Edit, object, UpdateNav, UpdateDo
<1> QED
  BY <1>1, <1>2, <1>3, <1>4, <1>5, <1>6, <1>7, FollowJumpTable DEF Next, SearchStep

-----------------------------------------------------------------------------
(* The theorems.                                                           *)

\* The inductive invariant holds at boot.
LEMMA MissionInit == Init => MissionInv
<1> SUFFICES ASSUME Init
             PROVE  MissionInv
  OBVIOUS
<1>1. mission \in Seq(Cmd) /\ Len(mission) <= MaxCmds
  BY InitType
<1>2. flags \in Flags /\ ~flags.nav_cmd_loaded /\ ~flags.do_cmd_loaded
  BY DEF Init, Flags, States
<1>3. jump_tracking \in Seq(Track) /\ Len(jump_tracking) <= JumpSlots /\ DOMAIN jump_tracking = {}
  BY EmptySeq, Constants DEF Init
<1>4. /\ nav_cmd = NoCmd /\ do_cmd = NoCmd /\ call = Idle /\ calls = 0
      /\ edited \in BOOLEAN /\ started = {}
  BY DEF Init
<1>5. calls \in 0 .. MaxCalls
  BY <1>4, Constants
<1>6. TypeOK
  BY <1>1, <1>2, <1>3, <1>4, <1>5, NoCmdType, IdleType, Types
<1>7. SearchInv /\ LoadedHasIndex
  BY <1>2, <1>4, NoCmdType, IdleType DEF SearchInv, LoadedHasIndex, ForNav
<1> QED
  BY <1>3, <1>4, <1>6, <1>7 DEF MissionInv, StartsStored, OneSlotPerJump, JumpsWithinBudget

\* It is inductive.
LEMMA MissionStep == MissionInv /\ [Next]_vars => MissionInv'
BY TypeStep, SearchInvStep, StartedStep, TableStep DEF MissionInv

\* So it always holds.
THEOREM MissionInvariant == Spec => []MissionInv
<1>1. Spec => Init /\ [][Next]_vars
  BY DEF Spec
<1> QED
  BY <1>1, MissionInit, MissionStep, PTL

\* The list always fits in storage, the loaded commands are commands, and
\* _jump_tracking never overruns its slots, for every list and every order of calls.
THEOREM MissionTypeCorrect == Spec => []TypeOK
<1>1. MissionInv => TypeOK
  BY DEF MissionInv
<1> QED
  BY <1>1, MissionInvariant, PTL

\* A command that counts as loaded has an index, so update() never completes a
\* mission because of a command left over by an edit or by set_current_cmd.
THEOREM MissionLoadedHasIndex == Spec => []LoadedHasIndex
<1>1. MissionInv => LoadedHasIndex
  BY DEF MissionInv
<1> QED
  BY <1>1, MissionInvariant, PTL

\* Whatever is edited while commands are loaded, a command is started only as the
\* list has it at that moment.
THEOREM MissionStartsStored == Spec => []StartsStored
<1>1. MissionInv => StartsStored
  BY DEF MissionInv
<1> QED
  BY <1>1, MissionInvariant, PTL

\* No jump ever has two counters in _jump_tracking.
THEOREM MissionOneSlotPerJump == Spec => []OneSlotPerJump
<1>1. MissionInv => OneSlotPerJump
  BY DEF MissionInv
<1> QED
  BY <1>1, MissionInvariant, PTL

\* No do-jump is taken more often than it says while the list is not edited, for
\* every number of slots and every limit of the search.
THEOREM MissionJumpsWithinBudget == Spec => []JumpsWithinBudget
<1>1. MissionInv => JumpsWithinBudget
  BY DEF MissionInv
<1> QED
  BY <1>1, MissionInvariant, PTL
=============================================================================
