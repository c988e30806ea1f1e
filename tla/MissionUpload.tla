--------------------------- MODULE MissionUpload ---------------------------
(***************************************************************************)
(* The mission protocol of GCS_MAVLINK on one channel: a ground station    *)
(* sends a list of commands, the vehicle requests and stores them one by   *)
(* one, requests again what does not arrive and gives up after a timeout.  *)
(* The link keeps messages in order and may lose them.  The ground station *)
(* is not part of the repository: it is modelled by the messages the       *)
(* handlers expect.  One action is one message handler, or the part of     *)
(* update() behind the parser.                                             *)
(***************************************************************************)
EXTENDS MissionStore

CONSTANTS Item,      \* commands a ground station sends
          Plans,     \* the lists it uploads
          RecvTime,  \* wp_recv_time, in ticks
          Timeout,   \* waypoint_receive_timeout, in ticks
          Patient,   \* the ground station lets an upload end before it starts another
          LinkCap,   \* messages in flight each way; more are lost
          MaxLoss,   \* bound on the messages the link loses otherwise
          MaxOps     \* bound on what the ground station does unasked

ASSUME ItemAssumption ==
    /\ Item \subseteq [id : {"nav", "jump", "unsupported"}, target : Nat, tag : Nat]
    /\ Home \in Item
    /\ Plans \subseteq Seq(Item)
ASSUME UploadBounds ==
    /\ {MaxCmds, RecvTime, Timeout, LinkCap, MaxLoss, MaxOps} \subseteq Nat
    /\ Patient \in BOOLEAN

VARIABLES mission,  \* the stored command list
          wp,       \* the waypoint_ members of the GCS_MAVLINK object
          up,       \* link to the vehicle
          down,     \* link to the ground station
          gcs,      \* the ground station
          ops,      \* what it did unasked so far
          losses,   \* messages lost so far
          slow      \* messages may take longer than a tick

vehicle == <<mission, wp>>
vars == <<vehicle, up, down, gcs, ops, losses, slow>>

-----------------------------------------------------------------------------

\* since_receive and since_request count up to the first tick that is too late.
MaxReceive == RecvTime + Timeout + 1
MaxRequest == RecvTime + 1

Send(link, msgs) == IF Len(link) + Len(msgs) <= LinkCap THEN link \o msgs ELSE link

Ack(result) == [type |-> "ACK", result |-> result]
Request(seq) == [type |-> "REQUEST", seq |-> seq]
ItemMsg(seq, cmd) == [type |-> "ITEM", seq |-> seq, cmd |-> cmd]
Count(n) == [type |-> "COUNT", count |-> n]

\* queued_waypoint_send: it sends what is due when it runs, or nothing.
NextRequest(w) ==
    IF w.receiving /\ w.request_i <= w.request_last THEN <<Request(w.request_i)>> ELSE <<>>

Supported(plan) ==
    /\ Len(plan) <= MaxCmds
    /\ \A i \in DOMAIN plan : /\ plan[i].id # "unsupported"
                              /\ plan[i].id = "jump" => plan[i].target \in 1 .. Len(plan) - 1

Init ==
    /\ mission \in {plan \in Plans : Supported(plan)} \cup {<<>>}
    /\ wp = [receiving |-> FALSE, request_i |-> 0, request_last |-> 0,
             since_receive |-> 0, since_request |-> 0, deferred |-> FALSE]
    /\ up = <<>> /\ down = <<>>
    /\ gcs = [phase |-> "idle", plan |-> <<>>, full |-> TRUE, first |-> 0, last |-> 0]
    /\ ops = 0 /\ losses = 0
    /\ slow \in BOOLEAN

-----------------------------------------------------------------------------
(* The vehicle.                                                            *)

Receive(type) == up # <<>> /\ Head(up).type = type /\ up' = Tail(up)
msg == Head(up)
Reply(msgs) == down' = Send(down, msgs)

\* waypoint_timelast_request = 0: the first request goes out with the next update().
StartReceiving(first, last) ==
    wp' = [wp EXCEPT !.receiving = TRUE, !.request_i = first, !.request_last = last,
                     !.since_receive = 0, !.since_request = MaxRequest]

\* Mutant: a longer list is not cut to the announced length.
handle_mission_count_NoTruncate ==
    /\ Receive("COUNT")
    /\ IF msg.count > MaxCmds
       THEN Reply(<<Ack("NO_SPACE")>>) /\ UNCHANGED vehicle
       ELSE StartReceiving(0, msg.count) /\ UNCHANGED <<mission, down>>
    /\ UNCHANGED <<gcs, ops, losses, slow>>

handle_mission_count ==
    /\ Receive("COUNT")
    /\ IF msg.count > MaxCmds
       THEN Reply(<<Ack("NO_SPACE")>>) /\ UNCHANGED vehicle
       ELSE /\ mission' = truncate(mission, msg.count)
            /\ StartReceiving(0, msg.count)
            /\ UNCHANGED down
    /\ UNCHANGED <<gcs, ops, losses, slow>>

handle_mission_write_partial_list ==
    /\ Receive("PARTIAL")
    /\ IF msg.first > Len(mission) \/ msg.last > Len(mission) \/ msg.last < msg.first
       THEN UNCHANGED wp
       ELSE StartReceiving(msg.first, msg.last)
    /\ UNCHANGED <<mission, down, gcs, ops, losses, slow>>

\* clear() refuses while the mission is running.
handle_mission_clear_all ==
    /\ Receive("CLEAR_ALL")
    /\ \/ mission' = <<>> /\ Reply(<<Ack("ACCEPTED")>>)
       \/ Reply(<<Ack("ERROR")>>) /\ UNCHANGED mission
    /\ UNCHANGED <<wp, gcs, ops, losses, slow>>

handle_mission_request_list ==
    /\ Receive("REQUEST_LIST")
    /\ Reply(<<Count(Len(mission))>>)
    /\ wp' = [wp EXCEPT !.receiving = FALSE]
    /\ UNCHANGED <<mission, gcs, ops, losses, slow>>

\* A MISSION_REQUEST_INT behind the end is not told the length of the list.
handle_mission_request ==
    /\ Receive("REQUEST")
    /\ IF Readable(mission, msg.seq)
       THEN Reply(<<ItemMsg(msg.seq, read_cmd_from_storage(mission, msg.seq))>>)
       ELSE \E count \in {<<Count(Len(mission))>>, <<>>} : Reply(count \o <<Ack("ERROR")>>)
    /\ UNCHANGED <<vehicle, gcs, ops, losses, slow>>

\* Mutant: a jump may lead anywhere.
JumpOutside_Never(cmd) == FALSE

\* A jump has to lead to a command of the list or of the upload.
JumpOutside(cmd) ==
    cmd.id = "jump" /\ (cmd.target = 0 \/ (cmd.target >= Len(mission) /\ cmd.target >= wp.request_last))

\* Neither replace_cmd nor add_cmd can store a command there.
NoPlace(seq) == seq > Len(mission) \/ (seq = Len(mission) /\ ~HasSpace(mission))

\* The first check that fails decides.
ItemResult(seq, cmd) ==
    IF cmd.id = "unsupported" THEN "UNSUPPORTED"
    ELSE IF ~wp.receiving THEN "ERROR"
    ELSE IF seq # wp.request_i THEN "INVALID_SEQUENCE"
    ELSE IF JumpOutside(cmd) \/ NoPlace(seq) THEN "ERROR"
    ELSE "ACCEPTED"

Store(seq, cmd) ==
    mission' = IF seq < Len(mission) THEN replace_cmd(mission, seq, cmd) ELSE add_cmd(mission, cmd)

LastItem(seq) == seq + 1 >= wp.request_last

\* The next request goes out at once, or is deferred when there is no room for it.
AcceptItem(seq, cmd) ==
    /\ Store(seq, cmd)
    /\ LET w == [wp EXCEPT !.request_i = @ + 1, !.since_receive = 0]
           next == [w EXCEPT !.since_request = 0]
       IN \/ LastItem(seq) /\ wp' = [w EXCEPT !.receiving = FALSE] /\ Reply(<<Ack("ACCEPTED")>>)
          \/ ~LastItem(seq) /\ wp' = next /\ Reply(NextRequest(next))
          \/ ~LastItem(seq) /\ wp' = [next EXCEPT !.deferred = TRUE] /\ UNCHANGED down

handle_mission_item ==
    /\ Receive("ITEM")
    /\ IF ItemResult(msg.seq, msg.cmd) = "ACCEPTED"
       THEN AcceptItem(msg.seq, msg.cmd)
       ELSE Reply(<<Ack(ItemResult(msg.seq, msg.cmd))>>) /\ UNCHANGED vehicle
    /\ UNCHANGED <<gcs, ops, losses, slow>>

\* MSG_NEXT_WAYPOINT leaves the queue of deferred messages.
push_deferred_messages ==
    /\ wp.deferred
    /\ wp' = [wp EXCEPT !.deferred = FALSE]
    /\ Reply(NextRequest(wp))
    /\ UNCHANGED <<mission, up, gcs, ops, losses, slow>>

\* Mutant: the upload never times out.
TimedOut_Never == FALSE

TimedOut == wp.since_receive > RecvTime + Timeout
RequestDue == wp.receiving /\ (TimedOut \/ wp.since_request > RecvTime)

\* Mutant: nothing is requested again.
update_NoRetry ==
    /\ RequestDue
    /\ IF TimedOut
       THEN wp' = [wp EXCEPT !.receiving = FALSE] /\ UNCHANGED down
       ELSE /\ wp' = [wp EXCEPT !.since_request = 0]
            /\ IF wp.since_receive = 0 THEN Reply(NextRequest(wp)) ELSE UNCHANGED down
    /\ UNCHANGED <<mission, up, gcs, ops, losses, slow>>

update ==
    /\ RequestDue
    /\ \/ TimedOut /\ wp' = [wp EXCEPT !.receiving = FALSE] /\ UNCHANGED down
       \/ ~TimedOut /\ wp' = [wp EXCEPT !.since_request = 0] /\ Reply(NextRequest(wp))
       \/ ~TimedOut /\ wp' = [wp EXCEPT !.since_request = 0, !.deferred = TRUE] /\ UNCHANGED down
    /\ UNCHANGED <<mission, up, gcs, ops, losses, slow>>

-----------------------------------------------------------------------------
(* The ground station.                                                     *)

Unasked == ops < MaxOps /\ ops' = ops + 1

\* It waits until the vehicle has given up and nothing is in flight.
Settled == ~Patient \/ (~wp.receiving /\ ~wp.deferred /\ up = <<>> /\ down = <<>>)

Begin(plan, full, first, last, message) ==
    /\ Unasked /\ gcs.phase # "upload" /\ Settled
    /\ gcs' = [phase |-> "upload", plan |-> plan, full |-> full, first |-> first, last |-> last]
    /\ up' = Send(up, <<message>>)
    /\ UNCHANGED <<vehicle, down, losses, slow>>

BeginUpload(plan) == Begin(plan, TRUE, 0, Len(plan), Count(Len(plan)))
BeginClear == Begin(<<>>, TRUE, 0, 0, [type |-> "CLEAR_ALL"])

\* The commands from first on, up to but not including last, or just first.
BeginPartial(plan, first, last) ==
    Begin(plan, FALSE, first, last, [type |-> "PARTIAL", first |-> first, last |-> last])

\* The announcement of a list is sent again when no request came.
ResendCount ==
    /\ Unasked /\ gcs.phase = "upload" /\ gcs.full /\ gcs.plan # <<>>
    /\ up' = Send(up, <<Count(Len(gcs.plan))>>)
    /\ UNCHANGED <<vehicle, down, gcs, losses, slow>>

\* Asking for the stored list, or for one command of it, ends an upload.
Download(message) ==
    /\ Unasked
    /\ gcs' = [gcs EXCEPT !.phase = "idle"]
    /\ up' = Send(up, <<message>>)
    /\ UNCHANGED <<vehicle, down, losses, slow>>

AnswerRequest ==
    /\ down # <<>> /\ Head(down).type = "REQUEST"
    /\ down' = Tail(down)
    /\ up' = IF gcs.phase = "upload" /\ Head(down).seq + 1 \in DOMAIN gcs.plan
             THEN Send(up, <<ItemMsg(Head(down).seq, gcs.plan[Head(down).seq + 1])>>)
             ELSE up
    /\ UNCHANGED <<vehicle, gcs, ops, losses, slow>>

TakeReply ==
    /\ down # <<>> /\ Head(down).type # "REQUEST"
    /\ down' = Tail(down)
    /\ gcs' = IF Head(down).type = "ACK" /\ gcs.phase = "upload"
              THEN [gcs EXCEPT !.phase = IF Head(down).result = "ACCEPTED" THEN "accepted" ELSE "failed"]
              ELSE gcs
    /\ UNCHANGED <<vehicle, up, ops, losses, slow>>

-----------------------------------------------------------------------------
(* The link and the clock.                                                 *)

Lose ==
    /\ losses < MaxLoss /\ losses' = losses + 1
    /\ \/ up # <<>> /\ up' = Tail(up) /\ UNCHANGED down
       \/ down # <<>> /\ down' = Tail(down) /\ UNCHANGED up
    /\ UNCHANGED <<vehicle, gcs, ops, slow>>

\* update() runs many times in a tick, and reads the times only while receiving.
Tick ==
    /\ ~RequestDue
    /\ slow \/ (up = <<>> /\ down = <<>> /\ ~wp.deferred)
    /\ wp' = IF wp.receiving
             THEN [wp EXCEPT !.since_receive = IF @ < MaxReceive THEN @ + 1 ELSE @,
                             !.since_request = IF @ < MaxRequest THEN @ + 1 ELSE @]
             ELSE wp
    /\ UNCHANGED <<mission, up, down, gcs, ops, losses, slow>>

-----------------------------------------------------------------------------

Handle ==
    \/ handle_mission_count \/ handle_mission_write_partial_list \/ handle_mission_clear_all
    \/ handle_mission_request_list \/ handle_mission_request \/ handle_mission_item
GroundStation == AnswerRequest \/ TakeReply

Next ==
    \/ Handle \/ push_deferred_messages \/ update
    \/ GroundStation
    \/ \E plan \in Plans : BeginUpload(plan)
    \/ \E plan \in Plans, first, last \in 0 .. MaxCmds :
           first <= last /\ first < Len(plan) /\ last <= Len(plan) /\ BeginPartial(plan, first, last)
    \/ BeginClear \/ ResendCount
    \/ Download([type |-> "REQUEST_LIST"])
    \/ \E seq \in 0 .. MaxCmds : Download(Request(seq))
    \/ Lose \/ Tick

\* The main loop runs, the clock runs, and the ground station reads its link.
Fairness ==
    /\ WF_vars(Handle) /\ WF_vars(push_deferred_messages) /\ WF_vars(update)
    /\ WF_vars(GroundStation)
    /\ WF_vars(Tick)

Spec == Init /\ [][Next]_vars /\ Fairness

-----------------------------------------------------------------------------
(* Properties.                                                             *)

Message ==
    [type : {"COUNT"}, count : Nat] \cup [type : {"REQUEST"}, seq : Nat]
    \cup [type : {"ITEM"}, seq : Nat, cmd : Item] \cup [type : {"PARTIAL"}, first : Nat, last : Nat]
    \cup [type : {"CLEAR_ALL", "REQUEST_LIST"}]
    \cup [type : {"ACK"}, result : {"ACCEPTED", "ERROR", "NO_SPACE", "INVALID_SEQUENCE", "UNSUPPORTED"}]

\* The state is of its type, the stored list fits in storage, and the next command
\* requested is never more than one behind the last one announced.
TypeOK ==
    /\ mission \in Seq(Item) /\ Len(mission) <= MaxCmds
    /\ wp \in [receiving : BOOLEAN, request_i : Nat, request_last : Nat,
               since_receive : 0 .. MaxReceive, since_request : 0 .. MaxRequest, deferred : BOOLEAN]
    /\ wp.request_i <= wp.request_last + 1
    /\ up \in Seq(Message) /\ down \in Seq(Message)
    /\ gcs \in [phase : {"idle", "upload", "accepted", "failed"}, plan : Seq(Item),
                full : BOOLEAN, first : Nat, last : Nat]

\* What an upload of the ground station covers.
Covered == {i \in DOMAIN gcs.plan : i > gcs.first /\ (i <= gcs.last \/ i = gcs.first + 1)}

\* When the ground station has been told that its list was accepted, the vehicle
\* stores that list: no command of an older one, none missing, none twice, whatever
\* was lost, sent again or late.
AcceptedIsStored ==
    gcs.phase = "accepted" =>
        /\ gcs.full => mission = gcs.plan
        /\ \A i \in Covered : i <= Len(mission) /\ mission[i] = gcs.plan[i]

\* A jump of an accepted list leads to a command of the list, so the mission does not
\* end at it.
AcceptedJumpsResolve ==
    gcs.phase = "accepted" /\ gcs.full =>
        \A i \in DOMAIN mission : mission[i].id = "jump" => mission[i].target \in 1 .. Len(mission) - 1

\* The vehicle stops waiting for commands: an upload that nobody finishes does not
\* leave the channel receiving.
ReceivingEnds == wp.receiving ~> ~wp.receiving

\* Requests that are sent again make up for a loss: once the vehicle receives a
\* list, it stores all of it, if messages are faster than the retry timer and the
\* ground station does not turn to something else.
LossesAreMadeUp ==
    (~slow /\ wp.receiving /\ gcs.phase = "upload" /\ gcs.full /\ Supported(gcs.plan))
        ~> (mission = gcs.plan \/ gcs.phase # "upload")
=============================================================================
