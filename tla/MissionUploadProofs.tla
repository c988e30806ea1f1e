------------------------ MODULE MissionUploadProofs ------------------------
(***************************************************************************)
(* Proofs about MissionUpload for every list, every timeout, every number  *)
(* of messages in flight and every number of losses.                       *)
(***************************************************************************)
EXTENDS MissionUpload, SequenceTheorems, TLAPS

-----------------------------------------------------------------------------
(* The inductive invariant.                                                *)

\* The vehicle never waits for a command behind the last one announced.
RequestInv == wp.receiving => wp.request_i <= wp.request_last

\* What of the upload is done: the vehicle stores what it covers, and the jumps of
\* a whole list were checked.
Resolves(cmd) == cmd.id = "jump" => cmd.target \in 1 .. Len(gcs.plan) - 1
Stored ==
    /\ gcs.full => mission = gcs.plan
    /\ \A i \in Covered : i <= Len(mission) /\ mission[i] = gcs.plan[i]
Done == Stored /\ (gcs.full => \A i \in DOMAIN gcs.plan : Resolves(gcs.plan[i]))

\* What of it is done while the vehicle receives: all commands before the next one
\* it requests.
Progress ==
    /\ wp.request_last = gcs.last /\ gcs.first <= wp.request_i
    /\ gcs.full => Len(mission) <= Len(gcs.plan)
    /\ \A i \in gcs.first + 1 .. wp.request_i :
           /\ i \in DOMAIN gcs.plan /\ i <= Len(mission) /\ mission[i] = gcs.plan[i]
           /\ gcs.full => Resolves(gcs.plan[i])

\* What the ground station sends belongs to its last upload, and it is told that a
\* list was accepted only when that upload is done.
Sent == {m \in Message :
    /\ m.type = "COUNT" => gcs.full /\ m.count = Len(gcs.plan)
    /\ m.type = "PARTIAL" => ~gcs.full /\ m.first = gcs.first /\ m.last = gcs.last
    /\ m.type = "CLEAR_ALL" => gcs.full /\ gcs.plan = <<>>
    /\ m.type = "ITEM" => m.seq + 1 \in DOMAIN gcs.plan /\ m.cmd = gcs.plan[m.seq + 1]}
Told == {m \in Message : m.type = "ACK" /\ m.result = "ACCEPTED" => Done}

\* A full upload covers its list.
FullInv == gcs.full => gcs.first = 0 /\ gcs.last = Len(gcs.plan)

UploadInv ==
    /\ FullInv
    /\ up \in Seq(Sent) /\ down \in Seq(Told)
    /\ wp.receiving => Progress
    /\ gcs.phase = "accepted" => Done

TypeInv == TypeOK /\ RequestInv
Inv == TypeInv /\ (Patient => UploadInv)

-----------------------------------------------------------------------------
(* Messages and links.                                                     *)

Results == {"ACCEPTED", "ERROR", "NO_SPACE", "INVALID_SEQUENCE", "UNSUPPORTED"}

\* The fields of a message of each type.
LEMMA MessageFields ==
    ASSUME NEW m \in Message
    PROVE  /\ m.type = "COUNT" => m.count \in Nat
           /\ m.type = "REQUEST" => m.seq \in Nat
           /\ m.type = "ITEM" => m.seq \in Nat /\ m.cmd \in Item
           /\ m.type = "PARTIAL" => m.first \in Nat /\ m.last \in Nat
BY DEF Message

\* The messages the handlers and the ground station build.
LEMMA MessageTypes ==
    /\ \A n \in Nat : Count(n) \in Message /\ Count(n).type = "COUNT" /\ Count(n).count = n
    /\ \A n \in Nat : Request(n) \in Message /\ Request(n).type = "REQUEST" /\ Request(n).seq = n
    /\ \A n \in Nat, c \in Item : /\ ItemMsg(n, c) \in Message /\ ItemMsg(n, c).type = "ITEM"
                                  /\ ItemMsg(n, c).seq = n /\ ItemMsg(n, c).cmd = c
    /\ \A r \in Results : Ack(r) \in Message /\ Ack(r).type = "ACK" /\ Ack(r).result = r
BY DEF Message, Count, Request, ItemMsg, Ack, Results

\* The messages that announce something other than a list.
LEMMA AnnounceTypes ==
    /\ [type |-> "CLEAR_ALL"] \in Message /\ [type |-> "REQUEST_LIST"] \in Message
    /\ \A a, b \in Nat : [type |-> "PARTIAL", first |-> a, last |-> b] \in Message
BY DEF Message

\* A link carries what is put on it, or loses it.
LEMMA SendIn ==
    ASSUME NEW S, NEW link \in Seq(S), NEW msgs \in Seq(S)
    PROVE  Send(link, msgs) \in Seq(S)
BY ConcatProperties DEF Send

\* Taking the first message off a link.
LEMMA TakeFrom ==
    ASSUME NEW S, NEW link \in Seq(S), link # <<>>
    PROVE  Head(link) \in S /\ Tail(link) \in Seq(S)
BY HeadTailProperties

\* A link of one kind of messages is a link of any wider kind.
LEMMA LinkWider ==
    ASSUME NEW S, NEW T, S \subseteq T, NEW link \in Seq(S)
    PROVE  link \in Seq(T)
<1>1. /\ Len(link) \in Nat /\ DOMAIN link = 1 .. Len(link)
      /\ \A i \in 1 .. Len(link) : link[i] \in S
  BY LenProperties, ElementOfSeq
<1>2. link = [i \in 1 .. Len(link) |-> link[i]]
  BY LenProperties
<1>3. [i \in 1 .. Len(link) |-> link[i]] \in [1 .. Len(link) -> T]
  BY <1>1
<1> QED
  BY <1>1, <1>2, <1>3

\* The sequences of none and of one message.
LEMMA OneMessage ==
    ASSUME NEW S, NEW m \in S
    PROVE  <<m>> \in Seq(S) /\ <<>> \in Seq(S)
OBVIOUS

-----------------------------------------------------------------------------
(* Types.                                                                  *)

Waypoint == [receiving : BOOLEAN, request_i : Nat, request_last : Nat,
             since_receive : 0 .. MaxReceive, since_request : 0 .. MaxRequest, deferred : BOOLEAN]
Station == [phase : {"idle", "upload", "accepted", "failed"}, plan : Seq(Item),
            full : BOOLEAN, first : Nat, last : Nat]
Missions == {list \in Seq(Item) : Len(list) <= MaxCmds}

\* What an upload may ask next.
RequestOK(w) == /\ w.request_i <= w.request_last + 1
                /\ w.receiving => w.request_i <= w.request_last

\* The type invariant, part by part.
LEMMA Types ==
    TypeInv <=> /\ mission \in Missions /\ wp \in Waypoint /\ RequestOK(wp)
                /\ up \in Seq(Message) /\ down \in Seq(Message) /\ gcs \in Station
BY DEF TypeInv, TypeOK, RequestInv, Missions, Waypoint, RequestOK, Station

\* The same of the next state.
LEMMA TypesPrime ==
    TypeInv' <=> /\ mission' \in Missions /\ wp' \in Waypoint /\ RequestOK(wp')
                 /\ up' \in Seq(Message) /\ down' \in Seq(Message) /\ gcs' \in Station
BY DEF TypeInv, TypeOK, RequestInv, Missions, Waypoint, RequestOK, Station

\* The list of commands that is stored.
LEMMA MissionOps ==
    ASSUME NEW list \in Missions, NEW n \in Nat, NEW c \in Item
    PROVE  /\ truncate(list, n) \in Missions
           /\ add_cmd(list, c) \in Missions
           /\ replace_cmd(list, n, c) \in Missions
           /\ <<>> \in Missions
<1>1. list \in Seq(Item) /\ Len(list) \in Nat /\ Len(list) <= MaxCmds /\ MaxCmds \in Nat
  BY UploadBounds DEF Missions
<1>2. truncate(list, n) \in Missions
  <2>1. CASE Len(list) > n
    <3>1. SubSeq(list, 1, n) \in Seq(Item) /\ Len(SubSeq(list, 1, n)) = n
      BY <1>1, <2>1, SubSeqProperties
    <3> QED
      BY <1>1, <2>1, <3>1 DEF truncate, Missions
  <2> QED
    BY <2>1 DEF truncate
<1>3. add_cmd(list, c) \in Missions
  <2>1. CASE HasSpace(list)
    BY <1>1, <2>1, AppendProperties DEF add_cmd, HasSpace, Missions
  <2> QED
    BY <2>1 DEF add_cmd
<1>4. replace_cmd(list, n, c) \in Missions
  <2>1. CASE n < Len(list)
    <3>1. [list EXCEPT ![n + 1] = c] \in Seq(Item) /\ Len([list EXCEPT ![n + 1] = c]) = Len(list)
      BY <1>1, <2>1, ExceptSeq
    <3> QED
      BY <1>1, <2>1, <3>1 DEF replace_cmd, Missions
  <2> QED
    BY <2>1 DEF replace_cmd
<1>5. <<>> \in Missions
  BY <1>1, EmptySeq DEF Missions
<1> QED
  BY <1>2, <1>3, <1>4, <1>5

\* A command that is read is a command.
LEMMA ReadType ==
    ASSUME NEW list \in Missions, NEW n \in Nat, Readable(list, n)
    PROVE  read_cmd_from_storage(list, n) \in Item
<1>1. CASE n = 0
  BY <1>1, ItemAssumption DEF read_cmd_from_storage
<1>2. CASE n # 0
  <2>1. n + 1 \in 1 .. Len(list)
    BY <1>2 DEF Readable, Missions
  <2> QED
    BY <1>2, <2>1, ElementOfSeq DEF read_cmd_from_storage, Missions
<1> QED
  BY <1>1, <1>2

\* A step that takes a message off the link to the vehicle.
LEMMA ReceiveFacts ==
    ASSUME TypeInv, NEW type, Receive(type)
    PROVE  msg \in Message /\ msg.type = type /\ up' \in Seq(Message)
BY Types, TakeFrom DEF Receive, msg

\* A reply of the vehicle's.
LEMMA ReplyType ==
    ASSUME TypeInv, NEW msgs \in Seq(Message), Reply(msgs)
    PROVE  down' \in Seq(Message)
BY Types, SendIn DEF Reply

\* What the vehicle requests next.
LEMMA NextRequestType ==
    ASSUME NEW w \in Waypoint
    PROVE  NextRequest(w) \in Seq(Message)
<1>1. w.request_i \in Nat
  BY DEF Waypoint
<1>2. Request(w.request_i) \in Message
  BY <1>1, MessageTypes
<1> QED
  BY <1>2, OneMessage DEF NextRequest

\* The start of an upload.
LEMMA StartType ==
    ASSUME TypeInv, NEW first \in Nat, NEW last \in Nat, first <= last, StartReceiving(first, last)
    PROVE  wp' \in Waypoint /\ RequestOK(wp')
<1>1. wp \in Waypoint /\ 0 \in 0 .. MaxReceive /\ MaxRequest \in 0 .. MaxRequest
  BY Types, UploadBounds DEF MaxReceive, MaxRequest
<1>2. wp' \in Waypoint /\ wp'.request_i = first /\ wp'.request_last = last
  BY <1>1 DEF StartReceiving, Waypoint
<1> QED
  BY <1>2 DEF RequestOK

\* What accepting a command does to the upload, and what it replies.
LEMMA AcceptSteps ==
    ASSUME TypeInv, NEW seq \in Nat, NEW cmd \in Item, wp.receiving, seq = wp.request_i,
           AcceptItem(seq, cmd)
    PROVE  /\ mission' \in Missions /\ wp' \in Waypoint /\ RequestOK(wp') /\ down' \in Seq(Message)
           /\ wp'.request_i = seq + 1 /\ wp'.request_last = wp.request_last
           /\ \/ LastItem(seq) /\ ~wp'.receiving /\ Reply(<<Ack("ACCEPTED")>>)
              \/ ~LastItem(seq) /\ wp'.receiving /\ Reply(NextRequest(wp'))
              \/ ~LastItem(seq) /\ wp'.receiving /\ UNCHANGED down
<1> DEFINE w == [wp EXCEPT !.request_i = @ + 1, !.since_receive = 0]
           next == [w EXCEPT !.since_request = 0]
<1>1. /\ wp \in Waypoint /\ RequestOK(wp) /\ mission \in Missions /\ down \in Seq(Message)
      /\ wp.request_i \in Nat /\ wp.request_last \in Nat
  BY Types DEF Waypoint
<1>2. mission' \in Missions
  BY <1>1, MissionOps DEF AcceptItem, Store
<1>3. 0 \in 0 .. MaxReceive /\ 0 \in 0 .. MaxRequest /\ seq + 1 \in Nat
  BY UploadBounds DEF MaxReceive, MaxRequest
<1>4. w \in Waypoint /\ w.request_i = seq + 1 /\ w.request_last = wp.request_last /\ w.receiving
  BY <1>1, <1>3 DEF Waypoint
<1>5. next \in Waypoint /\ next.request_i = seq + 1 /\ next.request_last = wp.request_last /\ next.receiving
  BY <1>3, <1>4 DEF Waypoint
<1>6. seq <= wp.request_last
  BY <1>1 DEF RequestOK
<1>7. \/ LastItem(seq) /\ wp' = [w EXCEPT !.receiving = FALSE] /\ Reply(<<Ack("ACCEPTED")>>)
      \/ ~LastItem(seq) /\ wp' = next /\ Reply(NextRequest(next))
      \/ ~LastItem(seq) /\ wp' = [next EXCEPT !.deferred = TRUE] /\ UNCHANGED down
  BY DEF AcceptItem
<1> HIDE DEF w, next
<1>8. CASE LastItem(seq) /\ wp' = [w EXCEPT !.receiving = FALSE] /\ Reply(<<Ack("ACCEPTED")>>)
  <2>1. /\ wp' \in Waypoint /\ wp'.request_i = seq + 1 /\ wp'.request_last = wp.request_last
        /\ ~wp'.receiving
    BY <1>4, <1>8 DEF Waypoint
  <2>2. RequestOK(wp')
    BY <1>1, <1>6, <2>1 DEF RequestOK
  <2>3. <<Ack("ACCEPTED")>> \in Seq(Message)
    BY MessageTypes DEF Results
  <2>4. down' \in Seq(Message)
    BY <1>8, <2>3, ReplyType
  <2> QED
    BY <1>2, <1>8, <2>1, <2>2, <2>4
<1>9. CASE ~LastItem(seq) /\ wp' = next /\ Reply(NextRequest(next))
  <2>1. RequestOK(wp')
    BY <1>1, <1>5, <1>9 DEF RequestOK, LastItem
  <2>2. down' \in Seq(Message)
    BY <1>5, <1>9, NextRequestType, ReplyType
  <2> QED
    BY <1>2, <1>5, <1>9, <2>1, <2>2
<1>10. CASE ~LastItem(seq) /\ wp' = [next EXCEPT !.deferred = TRUE] /\ UNCHANGED down
  <2>1. /\ wp' \in Waypoint /\ wp'.request_i = seq + 1 /\ wp'.request_last = wp.request_last
        /\ wp'.receiving
    BY <1>5, <1>10 DEF Waypoint
  <2>2. RequestOK(wp')
    BY <1>1, <1>10, <2>1 DEF RequestOK, LastItem
  <2> QED
    BY <1>1, <1>2, <1>10, <2>1, <2>2
<1> QED
  BY <1>7, <1>8, <1>9, <1>10

\* The results of a refused command are results; an accepted one is the next one
\* requested of a vehicle that receives, and has a place.
LEMMA ItemResults ==
    ASSUME NEW seq, NEW cmd
    PROVE  /\ ItemResult(seq, cmd) \in Results
           /\ ItemResult(seq, cmd) = "ACCEPTED" =>
                  wp.receiving /\ seq = wp.request_i /\ ~JumpOutside(cmd) /\ ~NoPlace(seq)
BY DEF ItemResult, Results

\* A step of the ground station that starts an upload.
LEMMA BeginType ==
    ASSUME TypeInv, NEW plan \in Seq(Item), NEW full \in BOOLEAN, NEW first \in Nat, NEW last \in Nat,
           NEW message \in Message, Begin(plan, full, first, last, message)
    PROVE  TypeInv'
<1>1. up' \in Seq(Message)
  BY Types, OneMessage, SendIn DEF Begin
<1>2. gcs' \in Station
  BY DEF Begin, Station
<1> QED
  BY <1>1, <1>2, Types, TypesPrime DEF Begin, vehicle

\* A download leaves the upload, if there was one.
LEMMA DownloadType ==
    ASSUME TypeInv, NEW message \in Message, Download(message)
    PROVE  TypeInv'
<1>1. up' \in Seq(Message)
  BY Types, OneMessage, SendIn DEF Download
<1>2. gcs' \in Station
  BY Types DEF Download, Station
<1> QED
  BY <1>1, <1>2, Types, TypesPrime DEF Download, vehicle

\* Every handler keeps the types.
LEMMA HandleType ==
    ASSUME TypeInv, Handle
    PROVE  TypeInv'
<1>1. /\ mission \in Missions /\ wp \in Waypoint /\ RequestOK(wp)
      /\ up \in Seq(Message) /\ down \in Seq(Message) /\ gcs \in Station
  BY Types
<1>2. \A r \in Results : <<Ack(r)>> \in Seq(Message)
  BY MessageTypes, OneMessage
<1>3. Len(mission) \in Nat
  BY <1>1 DEF Missions
<1>4. CASE handle_mission_count
  <2>1. msg.count \in Nat /\ up' \in Seq(Message)
    BY <1>4, ReceiveFacts, MessageFields DEF handle_mission_count
  <2>2. CASE msg.count > MaxCmds
    <3>1. Reply(<<Ack("NO_SPACE")>>) /\ UNCHANGED <<mission, wp, gcs>>
      BY <1>4, <2>2 DEF handle_mission_count, vehicle
    <3>2. down' \in Seq(Message)
      BY <1>2, <3>1, ReplyType DEF Results
    <3> QED
      BY <1>1, <2>1, <3>1, <3>2, TypesPrime
  <2>3. CASE ~(msg.count > MaxCmds)
    <3>1. mission' = truncate(mission, msg.count) /\ StartReceiving(0, msg.count) /\ UNCHANGED <<down, gcs>>
      BY <1>4, <2>3 DEF handle_mission_count
    <3>2. wp' \in Waypoint /\ RequestOK(wp')
      BY <2>1, <3>1, StartType
    <3>3. mission' \in Missions
      BY <1>1, <2>1, <3>1, MissionOps, ItemAssumption
    <3> QED
      BY <1>1, <2>1, <3>1, <3>2, <3>3, TypesPrime
  <2> QED
    BY <2>2, <2>3
<1>5. CASE handle_mission_write_partial_list
  <2>1. msg.first \in Nat /\ msg.last \in Nat /\ up' \in Seq(Message)
    BY <1>5, ReceiveFacts, MessageFields DEF handle_mission_write_partial_list
  <2>2. wp' \in Waypoint /\ RequestOK(wp')
    <3>1. CASE wp' = wp
      BY <1>1, <3>1
    <3>2. CASE ~(msg.last < msg.first) /\ StartReceiving(msg.first, msg.last)
      BY <2>1, <3>2, StartType
    <3> QED
      BY <1>5, <3>1, <3>2 DEF handle_mission_write_partial_list
  <2> QED
    BY <1>1, <1>5, <2>1, <2>2, TypesPrime DEF handle_mission_write_partial_list
<1>6. CASE handle_mission_clear_all
  <2>1. up' \in Seq(Message)
    BY <1>6, ReceiveFacts DEF handle_mission_clear_all
  <2>2. mission' \in Missions
    BY <1>1, <1>6, MissionOps, ItemAssumption DEF handle_mission_clear_all
  <2>3. down' \in Seq(Message)
    BY <1>2, <1>6, ReplyType DEF handle_mission_clear_all, Results
  <2> QED
    BY <1>1, <1>6, <2>1, <2>2, <2>3, TypesPrime DEF handle_mission_clear_all
<1>7. CASE handle_mission_request_list
  <2>1. up' \in Seq(Message)
    BY <1>7, ReceiveFacts DEF handle_mission_request_list
  <2>2. wp' \in Waypoint /\ RequestOK(wp')
    <3>1. wp' = [wp EXCEPT !.receiving = FALSE]
      BY <1>7 DEF handle_mission_request_list
    <3>2. /\ wp' \in Waypoint /\ wp'.request_i = wp.request_i /\ wp'.request_last = wp.request_last
          /\ ~wp'.receiving
      BY <1>1, <3>1 DEF Waypoint
    <3> QED
      BY <1>1, <3>2 DEF RequestOK
  <2>3. <<Count(Len(mission))>> \in Seq(Message)
    BY <1>3, MessageTypes, OneMessage
  <2>4. down' \in Seq(Message)
    BY <1>7, <2>3, ReplyType DEF handle_mission_request_list
  <2> QED
    BY <1>1, <1>7, <2>1, <2>2, <2>4, TypesPrime DEF handle_mission_request_list
<1>8. CASE handle_mission_request
  <2>1. msg.seq \in Nat /\ up' \in Seq(Message)
    BY <1>8, ReceiveFacts, MessageFields DEF handle_mission_request
  <2>2. CASE Readable(mission, msg.seq)
    <3>1. read_cmd_from_storage(mission, msg.seq) \in Item
      BY <1>1, <2>1, <2>2, ReadType
    <3>2. <<ItemMsg(msg.seq, read_cmd_from_storage(mission, msg.seq))>> \in Seq(Message)
      BY <2>1, <3>1, MessageTypes, OneMessage
    <3>3. down' \in Seq(Message)
      BY <1>8, <2>2, <3>2, ReplyType DEF handle_mission_request
    <3> QED
      BY <1>1, <1>8, <2>1, <3>3, TypesPrime DEF handle_mission_request, vehicle
  <2>3. CASE ~Readable(mission, msg.seq)
    <3>1. PICK count \in {<<Count(Len(mission))>>, <<>>} : Reply(count \o <<Ack("ERROR")>>)
      BY <1>8, <2>3 DEF handle_mission_request
    <3>2. count \in Seq(Message)
      <4>1. Count(Len(mission)) \in Message
        BY <1>3, MessageTypes
      <4>2. <<Count(Len(mission))>> \in Seq(Message) /\ <<>> \in Seq(Message)
        BY <4>1, OneMessage
      <4> QED
        BY <4>2
    <3>3. count \o <<Ack("ERROR")>> \in Seq(Message)
      BY <1>2, <3>2, ConcatProperties DEF Results
    <3>4. down' \in Seq(Message)
      BY <3>1, <3>3, ReplyType
    <3> QED
      BY <1>1, <1>8, <2>1, <3>4, TypesPrime DEF handle_mission_request, vehicle
  <2> QED
    BY <2>2, <2>3
<1>9. CASE handle_mission_item
  <2>1. msg.seq \in Nat /\ msg.cmd \in Item /\ up' \in Seq(Message) /\ UNCHANGED gcs
    BY <1>9, ReceiveFacts, MessageFields DEF handle_mission_item
  <2>2. CASE ItemResult(msg.seq, msg.cmd) = "ACCEPTED"
    <3>1. AcceptItem(msg.seq, msg.cmd) /\ wp.receiving /\ msg.seq = wp.request_i
      BY <1>9, <2>2, ItemResults DEF handle_mission_item
    <3>2. mission' \in Missions /\ wp' \in Waypoint /\ RequestOK(wp') /\ down' \in Seq(Message)
      BY <2>1, <3>1, AcceptSteps
    <3> QED
      BY <1>1, <2>1, <3>2, TypesPrime
  <2>3. CASE ItemResult(msg.seq, msg.cmd) # "ACCEPTED"
    <3>1. Reply(<<Ack(ItemResult(msg.seq, msg.cmd))>>) /\ UNCHANGED <<mission, wp>>
      BY <1>9, <2>3 DEF handle_mission_item, vehicle
    <3>2. down' \in Seq(Message)
      BY <1>2, <3>1, ItemResults, ReplyType
    <3> QED
      BY <1>1, <2>1, <3>1, <3>2, TypesPrime
  <2> QED
    BY <2>2, <2>3
<1> QED
  BY <1>4, <1>5, <1>6, <1>7, <1>8, <1>9 DEF Handle

\* The two flags and the two clocks of an upload.
LEMMA ClockType ==
    ASSUME TypeInv, push_deferred_messages \/ update \/ Tick
    PROVE  /\ TypeInv' /\ UNCHANGED <<mission, up, gcs>>
           /\ wp'.request_i = wp.request_i /\ wp'.request_last = wp.request_last
           /\ wp'.receiving => wp.receiving
           /\ down' = down \/ Reply(NextRequest(wp))
<1>1. /\ mission \in Missions /\ wp \in Waypoint /\ RequestOK(wp)
      /\ up \in Seq(Message) /\ down \in Seq(Message) /\ gcs \in Station
  BY Types
<1>2. 0 \in 0 .. MaxRequest
  BY UploadBounds DEF MaxRequest
<1>3. /\ wp' \in Waypoint /\ wp'.request_i = wp.request_i /\ wp'.request_last = wp.request_last
      /\ wp'.receiving => wp.receiving
  <2>1. CASE push_deferred_messages
    BY <1>1, <2>1 DEF push_deferred_messages, Waypoint
  <2>2. CASE update
    BY <1>1, <1>2, <2>2 DEF update, Waypoint
  <2>3. CASE Tick
    <3> DEFINE a == IF wp.since_receive < MaxReceive THEN wp.since_receive + 1 ELSE wp.since_receive
               b == IF wp.since_request < MaxRequest THEN wp.since_request + 1 ELSE wp.since_request
    <3>1. MaxReceive \in Nat /\ MaxRequest \in Nat
      BY UploadBounds DEF MaxReceive, MaxRequest
    <3>2. wp.since_receive \in 0 .. MaxReceive /\ wp.since_request \in 0 .. MaxRequest
      BY <1>1 DEF Waypoint
    <3>3. a \in 0 .. MaxReceive /\ b \in 0 .. MaxRequest
      BY <3>1, <3>2
    <3>4. wp' = wp \/ wp' = [wp EXCEPT !.since_receive = a, !.since_request = b]
      BY <2>3 DEF Tick
    <3> HIDE DEF a, b
    <3> QED
      BY <1>1, <3>3, <3>4 DEF Waypoint
  <2> QED
    BY <2>1, <2>2, <2>3
<1>4. RequestOK(wp')
  BY <1>1, <1>3 DEF RequestOK
<1>5. /\ UNCHANGED <<mission, up, gcs>>
      /\ down' = down \/ Reply(NextRequest(wp))
  BY DEF push_deferred_messages, update, Tick
<1>6. down' \in Seq(Message)
  BY <1>1, <1>5, NextRequestType, ReplyType
<1>7. TypeInv'
  BY <1>1, <1>3, <1>4, <1>5, <1>6, TypesPrime
<1> QED
  BY <1>3, <1>5, <1>7

\* The ground station's answers.
LEMMA StationType ==
    ASSUME TypeInv, GroundStation
    PROVE  TypeInv'
<1>1. /\ mission \in Missions /\ wp \in Waypoint /\ RequestOK(wp)
      /\ up \in Seq(Message) /\ down \in Seq(Message) /\ gcs \in Station
  BY Types
<1>2. down # <<>> /\ down' = Tail(down) /\ UNCHANGED <<mission, wp>>
  BY DEF GroundStation, AnswerRequest, TakeReply, vehicle
<1>3. down' \in Seq(Message) /\ Head(down) \in Message
  BY <1>1, <1>2, TakeFrom
<1>4. CASE AnswerRequest
  <2>1. Head(down).seq \in Nat
    BY <1>3, <1>4, MessageFields DEF AnswerRequest
  <2>2. gcs.plan \in Seq(Item)
    BY <1>1 DEF Station
  <2>3. Head(down).seq + 1 \in DOMAIN gcs.plan =>
            <<ItemMsg(Head(down).seq, gcs.plan[Head(down).seq + 1])>> \in Seq(Message)
    BY <2>1, <2>2, MessageTypes, OneMessage, ElementOfSeq, LenProperties
  <2>4. up' \in Seq(Message)
    BY <1>1, <1>4, <2>3, SendIn DEF AnswerRequest
  <2> QED
    BY <1>1, <1>2, <1>3, <1>4, <2>4, TypesPrime DEF AnswerRequest
<1>5. CASE TakeReply
  <2>1. gcs' \in Station
    BY <1>1, <1>5 DEF TakeReply, Station
  <2> QED
    BY <1>1, <1>2, <1>3, <1>5, <2>1, TypesPrime DEF TakeReply
<1> QED
  BY <1>4, <1>5 DEF GroundStation

\* A lost message.
LEMMA LoseType ==
    ASSUME TypeInv, Lose
    PROVE  TypeInv'
<1>1. up' \in Seq(Message) /\ down' \in Seq(Message)
  BY Types, TakeFrom DEF Lose
<1> QED
  BY <1>1, Types, TypesPrime DEF Lose, vehicle

\* Every step keeps the types.
LEMMA TypeStep == TypeInv /\ [Next]_vars => TypeInv'
<1> SUFFICES ASSUME TypeInv, [Next]_vars PROVE TypeInv'
  OBVIOUS
<1>1. CASE UNCHANGED vars
  BY <1>1, Types, TypesPrime DEF vars, vehicle
<1>2. ASSUME NEW plan \in Plans, BeginUpload(plan) PROVE TypeInv'
  <2>1. plan \in Seq(Item) /\ Len(plan) \in Nat
    BY ItemAssumption
  <2>2. Count(Len(plan)) \in Message /\ 0 \in Nat /\ TRUE \in BOOLEAN
    BY <2>1, MessageTypes
  <2> QED
    BY <1>2, <2>1, <2>2, BeginType DEF BeginUpload
<1>3. ASSUME NEW plan \in Plans, NEW first \in 0 .. MaxCmds, NEW last \in 0 .. MaxCmds,
             BeginPartial(plan, first, last)
      PROVE  TypeInv'
  <2>1. plan \in Seq(Item) /\ first \in Nat /\ last \in Nat /\ FALSE \in BOOLEAN
    BY ItemAssumption, UploadBounds
  <2>2. [type |-> "PARTIAL", first |-> first, last |-> last] \in Message
    BY <2>1, AnnounceTypes
  <2> QED
    BY <1>3, <2>1, <2>2, BeginType DEF BeginPartial
<1>4. CASE BeginClear
  <2>1. <<>> \in Seq(Item) /\ 0 \in Nat /\ TRUE \in BOOLEAN
    OBVIOUS
  <2> QED
    BY <1>4, <2>1, AnnounceTypes, BeginType DEF BeginClear
<1>5. CASE ResendCount
  <2>1. Len(gcs.plan) \in Nat
    BY Types DEF Station
  <2>2. up' \in Seq(Message)
    BY <1>5, <2>1, Types, MessageTypes, OneMessage, SendIn DEF ResendCount
  <2> QED
    BY <1>5, <2>2, Types, TypesPrime DEF ResendCount, vehicle
<1>6. CASE Download([type |-> "REQUEST_LIST"])
  BY <1>6, AnnounceTypes, DownloadType
<1>7. ASSUME NEW seq \in 0 .. MaxCmds, Download(Request(seq)) PROVE TypeInv'
  <2>1. seq \in Nat
    BY UploadBounds
  <2> QED
    BY <1>7, <2>1, MessageTypes, DownloadType
<1> QED
  BY <1>1, <1>2, <1>3, <1>4, <1>5, <1>6, <1>7, HandleType, ClockType, StationType, LoseType DEF Next

-----------------------------------------------------------------------------
(* The messages in flight belong to the last upload.                       *)

\* Replies that do not tell the ground station that its list was accepted.
Plain == {m \in Message : ~(m.type = "ACK" /\ m.result = "ACCEPTED")}

\* Both ends of the link, and the types the steps below need.
LEMMA UploadFacts ==
    ASSUME TypeInv
    PROVE  /\ mission \in Seq(Item) /\ Len(mission) \in Nat /\ DOMAIN mission = 1 .. Len(mission)
           /\ gcs.plan \in Seq(Item) /\ Len(gcs.plan) \in Nat
           /\ DOMAIN gcs.plan = 1 .. Len(gcs.plan)
           /\ gcs.first \in Nat /\ gcs.last \in Nat /\ gcs.full \in BOOLEAN
           /\ wp.request_i \in Nat /\ wp.request_last \in Nat
<1>1. mission \in Seq(Item) /\ gcs.plan \in Seq(Item)
  BY Types DEF Missions, Station
<1>2. /\ gcs.first \in Nat /\ gcs.last \in Nat /\ gcs.full \in BOOLEAN
      /\ wp.request_i \in Nat /\ wp.request_last \in Nat
  BY Types DEF Station, Waypoint
<1> QED
  BY <1>1, <1>2, LenProperties

\* A reply that is true of the next state joins replies that stay true.
LEMMA ToldReply ==
    ASSUME down \in Seq(Told), Done => Done', NEW msgs \in Seq(Told'), Reply(msgs)
    PROVE  down' \in Seq(Told')
<1>1. Told \subseteq Told'
  BY DEF Told
<1>2. down \in Seq(Told')
  BY <1>1, LinkWider
<1> QED
  BY <1>2, SendIn DEF Reply

\* The same of a step that sends nothing.
LEMMA ToldKept ==
    ASSUME down \in Seq(Told), Done => Done', UNCHANGED down
    PROVE  down' \in Seq(Told')
<1>1. Told \subseteq Told'
  BY DEF Told
<1> QED
  BY <1>1, LinkWider

\* Plain replies are always true.
LEMMA PlainReply ==
    ASSUME down \in Seq(Told), Done => Done', NEW msgs \in Seq(Plain), Reply(msgs)
    PROVE  down' \in Seq(Told')
<1>1. Plain \subseteq Told'
  BY DEF Told, Plain
<1>2. msgs \in Seq(Told')
  BY <1>1, LinkWider
<1> QED
  BY <1>2, ToldReply

\* The plain replies.
LEMMA PlainTypes ==
    /\ \A n \in Nat : Count(n) \in Plain /\ Request(n) \in Plain
    /\ \A n \in Nat, c \in Item : ItemMsg(n, c) \in Plain
    /\ \A r \in Results \ {"ACCEPTED"} : Ack(r) \in Plain
    /\ \A w \in Waypoint : NextRequest(w) \in Seq(Plain)
<1>1. \A n \in Nat : Count(n) \in Plain /\ Request(n) \in Plain
  BY MessageTypes DEF Plain
<1>2. \A n \in Nat, c \in Item : ItemMsg(n, c) \in Plain
  BY MessageTypes DEF Plain
<1>3. \A r \in Results \ {"ACCEPTED"} : Ack(r) \in Plain
  BY MessageTypes DEF Plain
<1>4. ASSUME NEW w \in Waypoint PROVE NextRequest(w) \in Seq(Plain)
  <2>1. Request(w.request_i) \in Plain
    BY <1>1 DEF Waypoint
  <2> QED
    BY <2>1, OneMessage DEF NextRequest
<1> QED
  BY <1>1, <1>2, <1>3, <1>4

\* A step of the vehicle's keeps the upload invariant if what is done stays done.
LEMMA VehicleStep ==
    ASSUME UploadInv, UNCHANGED gcs, up' \in Seq(Sent), Done => Done',
           down' \in Seq(Told'), wp'.receiving => Progress'
    PROVE  UploadInv'
<1>1. Sent' = Sent
  BY DEF Sent
<1> QED
  BY <1>1 DEF UploadInv, FullInv

\* The message a handler works on belongs to the last upload.
LEMMA ReceiveSent ==
    ASSUME TypeInv, UploadInv, NEW type, Receive(type)
    PROVE  msg \in Sent /\ msg \in Message /\ msg.type = type /\ up' \in Seq(Sent)
<1>1. up \in Seq(Sent) /\ up # <<>> /\ Head(up).type = type /\ up' = Tail(up)
  BY DEF UploadInv, Receive
<1>2. Head(up) \in Sent /\ Tail(up) \in Seq(Sent)
  BY <1>1, TakeFrom
<1> QED
  BY <1>1, <1>2 DEF Sent, msg

\* What is done depends on the list and on the upload only.
LEMMA DoneKept ==
    ASSUME UNCHANGED <<mission, gcs>>
    PROVE  (Done' <=> Done)
BY DEF Done, Stored, Covered, Resolves

-----------------------------------------------------------------------------
(* Accepting a command.                                                    *)

\* What storing a command leaves in the list.
LEMMA StoreFacts ==
    ASSUME TypeInv, NEW seq \in Nat, NEW cmd \in Item, ~NoPlace(seq), Store(seq, cmd)
    PROVE  /\ mission' \in Seq(Item) /\ seq <= Len(mission)
           /\ Len(mission') = IF seq < Len(mission) THEN Len(mission) ELSE seq + 1
           /\ \A i \in 1 .. Len(mission') : mission'[i] = IF i = seq + 1 THEN cmd ELSE mission[i]
<1>1. mission \in Seq(Item) /\ Len(mission) \in Nat /\ DOMAIN mission = 1 .. Len(mission)
  BY UploadFacts
<1>2. CASE seq < Len(mission)
  <2>1. mission' = [mission EXCEPT ![seq + 1] = cmd]
    BY <1>2 DEF Store, replace_cmd
  <2>2. seq + 1 \in 1 .. Len(mission)
    BY <1>1, <1>2
  <2>3. mission' \in Seq(Item) /\ Len(mission') = Len(mission)
    BY <1>1, <2>1, <2>2, ExceptSeq
  <2>4. \A i \in 1 .. Len(mission) : mission'[i] = IF i = seq + 1 THEN cmd ELSE mission[i]
    BY <1>1, <2>1
  <2> QED
    BY <1>1, <1>2, <2>3, <2>4
<1>3. CASE ~(seq < Len(mission))
  <2>1. seq = Len(mission) /\ HasSpace(mission)
    <3>1. ~(seq > Len(mission)) /\ ~(seq = Len(mission) /\ ~HasSpace(mission))
      BY Zenon DEF NoPlace
    <3>2. seq = Len(mission)
      <4> DEFINE n == Len(mission)
      <4>1. n \in Nat /\ ~(seq < n) /\ ~(seq > n)
        BY <1>1, <1>3, <3>1
      <4> HIDE DEF n
      <4>2. seq = n
        BY <4>1
      <4> QED
        BY <4>2 DEF n
    <3> QED
      BY <3>1, <3>2, Zenon
  <2>2. mission' = Append(mission, cmd)
    BY <1>3, <2>1 DEF Store, add_cmd
  <2>3. /\ mission' \in Seq(Item) /\ Len(mission') = Len(mission) + 1
        /\ \A i \in 1 .. Len(mission) : mission'[i] = mission[i]
        /\ mission'[Len(mission) + 1] = cmd
    BY <1>1, <2>2, AppendProperties
  <2>4. ASSUME NEW i \in 1 .. Len(mission')
        PROVE  mission'[i] = IF i = seq + 1 THEN cmd ELSE mission[i]
    <3>1. CASE i = seq + 1
      BY <2>1, <2>3, <3>1
    <3>2. CASE i # seq + 1
      <4>1. i \in 1 .. Len(mission)
        BY <1>1, <2>1, <2>3, <3>2
      <4> QED
        BY <2>3, <3>2, <4>1
    <3> QED
      BY <3>1, <3>2
  <2> QED
    BY <1>1, <1>3, <2>1, <2>3, <2>4
<1> QED
  BY <1>2, <1>3

\* A command of the upload, stored in its place, leaves done what was done.
LEMMA StoreKeepsDone ==
    ASSUME TypeInv, UploadInv, Done, UNCHANGED gcs, NEW seq \in Nat, seq + 1 \in DOMAIN gcs.plan,
           ~NoPlace(seq), Store(seq, gcs.plan[seq + 1])
    PROVE  Done'
<1>1. /\ mission \in Seq(Item) /\ Len(mission) \in Nat /\ DOMAIN mission = 1 .. Len(mission)
      /\ gcs.plan \in Seq(Item) /\ Len(gcs.plan) \in Nat /\ DOMAIN gcs.plan = 1 .. Len(gcs.plan)
  BY UploadFacts
<1>2. gcs.plan[seq + 1] \in Item
  BY <1>1, ElementOfSeq
<1>3. /\ mission' \in Seq(Item) /\ seq <= Len(mission)
      /\ Len(mission') = IF seq < Len(mission) THEN Len(mission) ELSE seq + 1
      /\ \A i \in 1 .. Len(mission') : mission'[i] = IF i = seq + 1 THEN gcs.plan[seq + 1] ELSE mission[i]
  BY <1>2, StoreFacts
<1>4. gcs.full => mission' = gcs.plan
  <2>1. SUFFICES ASSUME gcs.full PROVE mission' = gcs.plan
    OBVIOUS
  <2>2. mission = gcs.plan
    BY <2>1 DEF Done, Stored
  <2>3. seq < Len(mission)
    BY <1>1, <2>2
  <2>4. mission' = [mission EXCEPT ![seq + 1] = mission[seq + 1]]
    BY <2>2, <2>3 DEF Store, replace_cmd
  <2> QED
    BY <1>1, <2>2, <2>4
<1>5. ASSUME NEW i \in Covered PROVE i <= Len(mission') /\ mission'[i] = gcs.plan[i]
  <2>1. i \in 1 .. Len(gcs.plan) /\ i <= Len(mission) /\ mission[i] = gcs.plan[i]
    BY <1>1, <1>5 DEF Done, Stored, Covered
  <2>2. i \in 1 .. Len(mission')
    BY <1>1, <1>3, <2>1
  <2> QED
    BY <1>3, <2>1, <2>2
<1>6. Covered' = Covered
  BY DEF Covered
<1>7. Stored'
  BY <1>4, <1>5, <1>6 DEF Stored
<1> QED
  BY <1>7 DEF Done, Resolves

\* After a command was stored, all commands up to it are.
LEMMA StoreProgress ==
    ASSUME TypeInv, UploadInv, UNCHANGED gcs, wp.receiving, NEW seq \in Nat, seq = wp.request_i,
           seq + 1 \in DOMAIN gcs.plan, ~NoPlace(seq), ~JumpOutside(gcs.plan[seq + 1]),
           Store(seq, gcs.plan[seq + 1])
    PROVE  /\ wp.request_last = gcs.last /\ gcs.first <= seq
           /\ gcs.full => Len(mission') <= Len(gcs.plan)
           /\ \A i \in gcs.first + 1 .. seq + 1 :
                  /\ i \in DOMAIN gcs.plan /\ i <= Len(mission') /\ mission'[i] = gcs.plan[i]
                  /\ gcs.full => Resolves(gcs.plan[i])
<1>1. /\ mission \in Seq(Item) /\ Len(mission) \in Nat /\ DOMAIN mission = 1 .. Len(mission)
      /\ gcs.plan \in Seq(Item) /\ Len(gcs.plan) \in Nat /\ DOMAIN gcs.plan = 1 .. Len(gcs.plan)
      /\ gcs.first \in Nat /\ gcs.last \in Nat /\ wp.request_last \in Nat
  BY UploadFacts
<1>2. gcs.plan[seq + 1] \in Item
  BY <1>1, ElementOfSeq
<1>3. /\ mission' \in Seq(Item) /\ seq <= Len(mission)
      /\ Len(mission') = IF seq < Len(mission) THEN Len(mission) ELSE seq + 1
      /\ \A i \in 1 .. Len(mission') : mission'[i] = IF i = seq + 1 THEN gcs.plan[seq + 1] ELSE mission[i]
  BY <1>2, StoreFacts
<1>4. Progress /\ FullInv
  BY DEF UploadInv
<1>5. wp.request_last = gcs.last /\ gcs.first <= seq
  BY <1>4 DEF Progress
<1>6. gcs.full => Len(mission') <= Len(gcs.plan)
  BY <1>1, <1>3, <1>4 DEF Progress
<1>7. ASSUME NEW i \in gcs.first + 1 .. seq + 1
      PROVE  /\ i \in DOMAIN gcs.plan /\ i <= Len(mission') /\ mission'[i] = gcs.plan[i]
             /\ gcs.full => Resolves(gcs.plan[i])
  <2>1. CASE i = seq + 1
    <3>1. i \in DOMAIN gcs.plan /\ i \in 1 .. Len(mission')
      BY <1>1, <1>3, <2>1
    <3>2. mission'[i] = gcs.plan[i]
      BY <1>3, <2>1, <3>1
    <3>3. ASSUME gcs.full PROVE Resolves(gcs.plan[i])
      <4> DEFINE c == gcs.plan[i]
      <4>1. c.target \in Nat
        BY <1>2, <2>1, ItemAssumption
      <4>2. c.id = "jump" => c.target # 0 /\ (c.target < Len(mission) \/ c.target < wp.request_last)
        BY <1>1, <2>1, <4>1 DEF JumpOutside
      <4>3. Len(mission) <= Len(gcs.plan) /\ wp.request_last = Len(gcs.plan)
        BY <1>4, <3>3 DEF Progress, FullInv
      <4>4. c.id = "jump" => c.target \in 1 .. Len(gcs.plan) - 1
        <5> HIDE DEF c
        <5> QED
          BY <1>1, <4>1, <4>2, <4>3
      <4> QED
        BY <4>4 DEF Resolves
    <3> QED
      BY <1>1, <1>3, <3>1, <3>2, <3>3
  <2>2. CASE i # seq + 1
    <3>1. i \in gcs.first + 1 .. wp.request_i /\ i \in Nat
      BY <1>1, <2>2
    <3>2. /\ i \in DOMAIN gcs.plan /\ i <= Len(mission) /\ mission[i] = gcs.plan[i]
          /\ gcs.full => Resolves(gcs.plan[i])
      BY <1>4, <3>1 DEF Progress
    <3>3. i \in 1 .. Len(mission')
      BY <1>1, <1>3, <3>2
    <3> QED
      BY <1>1, <1>3, <2>2, <3>2, <3>3
  <2> QED
    BY <2>1, <2>2
<1> QED
  BY <1>5, <1>6, <1>7

\* The last command of an upload completes it.
LEMMA LastCompletes ==
    ASSUME TypeInv, UploadInv, UNCHANGED gcs, wp.receiving, NEW seq \in Nat, seq = wp.request_i,
           seq + 1 \in DOMAIN gcs.plan, ~NoPlace(seq), ~JumpOutside(gcs.plan[seq + 1]),
           Store(seq, gcs.plan[seq + 1]), LastItem(seq)
    PROVE  Done'
<1>1. /\ mission \in Seq(Item) /\ Len(mission) \in Nat
      /\ gcs.plan \in Seq(Item) /\ Len(gcs.plan) \in Nat /\ DOMAIN gcs.plan = 1 .. Len(gcs.plan)
      /\ gcs.first \in Nat /\ gcs.last \in Nat /\ wp.request_last \in Nat
  BY UploadFacts
<1>2. gcs.plan[seq + 1] \in Item
  BY <1>1, ElementOfSeq
<1>3. /\ mission' \in Seq(Item) /\ seq <= Len(mission)
      /\ Len(mission') = IF seq < Len(mission) THEN Len(mission) ELSE seq + 1
  BY <1>2, StoreFacts
<1>4. /\ wp.request_last = gcs.last /\ gcs.first <= seq
      /\ gcs.full => Len(mission') <= Len(gcs.plan)
      /\ \A i \in gcs.first + 1 .. seq + 1 :
             /\ i \in DOMAIN gcs.plan /\ i <= Len(mission') /\ mission'[i] = gcs.plan[i]
             /\ gcs.full => Resolves(gcs.plan[i])
  BY StoreProgress
<1>5. seq + 1 >= gcs.last
  BY <1>4 DEF LastItem
<1>6. ASSUME gcs.full
      PROVE  mission' = gcs.plan /\ \A i \in DOMAIN gcs.plan : Resolves(gcs.plan[i])
  <2>1. gcs.first = 0 /\ gcs.last = Len(gcs.plan)
    BY <1>6 DEF UploadInv, FullInv
  <2>2. Len(mission') = Len(gcs.plan) /\ gcs.first + 1 = 1 /\ seq + 1 = Len(gcs.plan)
    BY <1>1, <1>3, <1>4, <1>5, <1>6, <2>1
  <2>3. \A i \in 1 .. Len(gcs.plan) : mission'[i] = gcs.plan[i] /\ Resolves(gcs.plan[i])
    BY <1>4, <1>6, <2>2
  <2>4. mission' = gcs.plan
    BY <1>1, <1>3, <2>2, <2>3, SeqEqual
  <2> QED
    BY <1>1, <2>3, <2>4
<1>7. ASSUME NEW i \in Covered PROVE i <= Len(mission') /\ mission'[i] = gcs.plan[i]
  <2>1. i \in 1 .. Len(gcs.plan) /\ i > gcs.first /\ (i <= gcs.last \/ i = gcs.first + 1)
    BY <1>1, <1>7 DEF Covered
  <2>2. i \in gcs.first + 1 .. seq + 1
    BY <1>1, <1>4, <1>5, <2>1
  <2> QED
    BY <1>4, <2>2
<1>8. Covered' = Covered
  BY DEF Covered
<1>9. Stored'
  BY <1>6, <1>7, <1>8 DEF Stored
<1> QED
  BY <1>6, <1>9 DEF Done, Resolves

-----------------------------------------------------------------------------
(* The handlers keep the upload invariant.                                 *)

\* MISSION_COUNT cuts a longer list, and never one that is stored already.
LEMMA UploadCount ==
    ASSUME TypeInv, UploadInv, handle_mission_count
    PROVE  UploadInv'
<1>1. Receive("COUNT") /\ UNCHANGED gcs
  BY DEF handle_mission_count
<1>2. msg \in Sent /\ msg \in Message /\ msg.type = "COUNT" /\ up' \in Seq(Sent)
  BY <1>1, ReceiveSent
<1>3. gcs.full /\ msg.count = Len(gcs.plan) /\ gcs.first = 0 /\ gcs.last = Len(gcs.plan)
  BY <1>2 DEF Sent, UploadInv, FullInv
<1>4. down \in Seq(Told)
  BY DEF UploadInv
<1>5. CASE msg.count > MaxCmds
  <2>1. Reply(<<Ack("NO_SPACE")>>) /\ UNCHANGED <<mission, wp>>
    BY <1>5 DEF handle_mission_count, vehicle
  <2>2. Done => Done'
    BY <1>1, <2>1, DoneKept
  <2>3. <<Ack("NO_SPACE")>> \in Seq(Plain)
    BY PlainTypes, OneMessage DEF Results
  <2>4. down' \in Seq(Told')
    BY <1>4, <2>1, <2>2, <2>3, PlainReply
  <2>5. wp'.receiving => Progress'
    BY <1>1, <2>1 DEF UploadInv, Progress, Resolves
  <2> QED
    BY <1>1, <1>2, <2>2, <2>4, <2>5, VehicleStep
<1>6. CASE ~(msg.count > MaxCmds)
  <2>1. mission' = truncate(mission, Len(gcs.plan)) /\ StartReceiving(0, Len(gcs.plan)) /\ UNCHANGED down
    BY <1>3, <1>6 DEF handle_mission_count
  <2>2. /\ mission \in Seq(Item) /\ Len(mission) \in Nat
        /\ gcs.plan \in Seq(Item) /\ Len(gcs.plan) \in Nat
    BY UploadFacts
  <2>3. Len(mission') <= Len(gcs.plan)
    <3>1. CASE Len(mission) > Len(gcs.plan)
      <4>1. mission' = SubSeq(mission, 1, Len(gcs.plan))
        BY <2>1, <3>1 DEF truncate
      <4>2. Len(mission') = Len(gcs.plan)
        BY <2>2, <3>1, <4>1, SubSeqProperties
      <4> QED
        BY <2>2, <4>2
    <3>2. CASE ~(Len(mission) > Len(gcs.plan))
      BY <2>1, <2>2, <3>2 DEF truncate
    <3> QED
      BY <3>1, <3>2
  <2>4. Done => Done'
    <3>1. Done => mission = gcs.plan
      BY <1>3 DEF Done, Stored
    <3>2. Done => mission' = mission
      BY <2>1, <2>2, <3>1 DEF truncate
    <3> QED
      BY <1>1, <3>2, DoneKept
  <2>5. down' \in Seq(Told')
    BY <1>4, <2>1, <2>4, ToldKept
  <2>6. wp'.request_i = 0 /\ wp'.request_last = Len(gcs.plan)
    BY <2>1, Types DEF StartReceiving, Waypoint
  <2>7. Progress'
    BY <1>1, <1>3, <2>3, <2>6 DEF Progress
  <2> QED
    BY <1>1, <1>2, <2>4, <2>5, <2>7, VehicleStep
<1> QED
  BY <1>5, <1>6

\* MISSION_WRITE_PARTIAL_LIST.
LEMMA UploadPartial ==
    ASSUME TypeInv, UploadInv, handle_mission_write_partial_list
    PROVE  UploadInv'
<1>1. Receive("PARTIAL") /\ UNCHANGED <<mission, down, gcs>>
  BY DEF handle_mission_write_partial_list
<1>2. msg \in Sent /\ msg \in Message /\ msg.type = "PARTIAL" /\ up' \in Seq(Sent)
  BY <1>1, ReceiveSent
<1>3. ~gcs.full /\ msg.first = gcs.first /\ msg.last = gcs.last
  BY <1>2 DEF Sent
<1>4. Done => Done'
  BY <1>1, DoneKept
<1>5. down' \in Seq(Told')
  BY <1>1, <1>4, ToldKept DEF UploadInv
<1>6. wp'.receiving => Progress'
  <2>1. CASE UNCHANGED wp
    BY <1>1, <2>1 DEF UploadInv, Progress, Resolves
  <2>2. CASE StartReceiving(gcs.first, gcs.last)
    <3>1. wp'.request_i = gcs.first /\ wp'.request_last = gcs.last
      BY <2>2, Types DEF StartReceiving, Waypoint
    <3>2. gcs.first \in Nat
      BY UploadFacts
    <3>3. gcs.first + 1 .. gcs.first = {}
      BY <3>2
    <3> QED
      BY <1>1, <1>3, <3>1, <3>2, <3>3 DEF Progress
  <2> QED
    BY <1>3, <2>1, <2>2 DEF handle_mission_write_partial_list
<1> QED
  BY <1>1, <1>2, <1>4, <1>5, <1>6, VehicleStep

\* MISSION_CLEAR_ALL empties the list or refuses.
LEMMA UploadClear ==
    ASSUME TypeInv, UploadInv, handle_mission_clear_all
    PROVE  UploadInv'
<1>1. Receive("CLEAR_ALL") /\ UNCHANGED <<wp, gcs>>
  BY DEF handle_mission_clear_all
<1>2. msg \in Sent /\ msg \in Message /\ msg.type = "CLEAR_ALL" /\ up' \in Seq(Sent)
  BY <1>1, ReceiveSent
<1>3. gcs.full /\ gcs.plan = <<>> /\ DOMAIN gcs.plan = {} /\ Len(gcs.plan) = 0
  BY <1>2 DEF Sent
<1>4. CASE mission' = <<>> /\ Reply(<<Ack("ACCEPTED")>>)
  <2>1. Done'
    BY <1>1, <1>3, <1>4 DEF Done, Stored, Covered
  <2>2. Ack("ACCEPTED") \in Told'
    BY <2>1, MessageTypes DEF Told, Results
  <2>3. down' \in Seq(Told')
    BY <1>4, <2>1, <2>2, OneMessage, ToldReply DEF UploadInv
  <2>4. wp'.receiving => Progress'
    <3>1. wp.receiving => Progress
      BY DEF UploadInv
    <3>2. Len(mission') = 0
      BY <1>4
    <3> QED
      BY <1>1, <1>3, <3>1, <3>2 DEF Progress
  <2> QED
    BY <1>1, <1>2, <2>1, <2>3, <2>4, VehicleStep
<1>5. CASE Reply(<<Ack("ERROR")>>) /\ UNCHANGED mission
  <2>1. Done => Done'
    BY <1>1, <1>5, DoneKept
  <2>2. <<Ack("ERROR")>> \in Seq(Plain)
    BY PlainTypes, OneMessage DEF Results
  <2>3. down' \in Seq(Told')
    BY <1>5, <2>1, <2>2, PlainReply DEF UploadInv
  <2>4. wp'.receiving => Progress'
    BY <1>1, <1>5 DEF UploadInv, Progress, Resolves
  <2> QED
    BY <1>1, <1>2, <2>1, <2>3, <2>4, VehicleStep
<1> QED
  BY <1>4, <1>5 DEF handle_mission_clear_all

\* The two requests for what is stored.
LEMMA UploadRead ==
    ASSUME TypeInv, UploadInv, handle_mission_request_list \/ handle_mission_request
    PROVE  UploadInv'
<1>1. (Receive("REQUEST_LIST") \/ Receive("REQUEST")) /\ UNCHANGED <<mission, gcs>>
  BY DEF handle_mission_request_list, handle_mission_request, vehicle
<1>2. up' \in Seq(Sent)
  BY <1>1, ReceiveSent
<1>3. Done => Done'
  BY <1>1, DoneKept
<1>4. down \in Seq(Told) /\ Len(mission) \in Nat
  BY UploadFacts DEF UploadInv
<1>5. CASE handle_mission_request_list
  <2>1. <<Count(Len(mission))>> \in Seq(Plain)
    BY <1>4, PlainTypes, OneMessage
  <2>2. down' \in Seq(Told')
    BY <1>3, <1>4, <1>5, <2>1, PlainReply DEF handle_mission_request_list
  <2>3. ~wp'.receiving
    BY <1>5, Types DEF handle_mission_request_list, Waypoint
  <2> QED
    BY <1>1, <1>2, <1>3, <2>2, <2>3, VehicleStep
<1>6. CASE handle_mission_request
  <2>1. msg.seq \in Nat
    BY <1>6, ReceiveFacts, MessageFields DEF handle_mission_request
  <2>2. down' \in Seq(Told')
    <3>1. CASE Readable(mission, msg.seq)
      <4>1. read_cmd_from_storage(mission, msg.seq) \in Item
        BY <2>1, <3>1, ReadType, Types
      <4>2. <<ItemMsg(msg.seq, read_cmd_from_storage(mission, msg.seq))>> \in Seq(Plain)
        BY <2>1, <4>1, PlainTypes, OneMessage
      <4> QED
        BY <1>3, <1>4, <1>6, <3>1, <4>2, PlainReply DEF handle_mission_request
    <3>2. CASE ~Readable(mission, msg.seq)
      <4>1. PICK count \in {<<Count(Len(mission))>>, <<>>} : Reply(count \o <<Ack("ERROR")>>)
        BY <1>6, <3>2 DEF handle_mission_request
      <4>2. Count(Len(mission)) \in Plain /\ Ack("ERROR") \in Plain
        BY <1>4, PlainTypes DEF Results
      <4>3. <<Count(Len(mission))>> \in Seq(Plain) /\ <<>> \in Seq(Plain) /\ <<Ack("ERROR")>> \in Seq(Plain)
        BY <4>2, OneMessage
      <4>4. count \in Seq(Plain)
        BY <4>3
      <4>5. count \o <<Ack("ERROR")>> \in Seq(Plain)
        BY <4>3, <4>4, ConcatProperties
      <4> QED
        BY <1>3, <1>4, <4>1, <4>5, PlainReply
    <3> QED
      BY <3>1, <3>2
  <2>3. UNCHANGED wp
    BY <1>6 DEF handle_mission_request, vehicle
  <2>4. wp'.receiving => Progress'
    BY <1>1, <2>3 DEF UploadInv, Progress, Resolves
  <2> QED
    BY <1>1, <1>2, <1>3, <2>2, <2>4, VehicleStep
<1> QED
  BY <1>5, <1>6

\* MISSION_ITEM: a command is refused, or stored; the last one is acknowledged.
LEMMA UploadItem ==
    ASSUME TypeInv, UploadInv, handle_mission_item
    PROVE  UploadInv'
<1>1. Receive("ITEM") /\ UNCHANGED gcs
  BY DEF handle_mission_item
<1>2. msg \in Sent /\ msg \in Message /\ msg.type = "ITEM" /\ up' \in Seq(Sent)
  BY <1>1, ReceiveSent
<1>3. msg.seq \in Nat /\ msg.cmd \in Item
  BY <1>2, MessageFields
<1>4. msg.seq + 1 \in DOMAIN gcs.plan /\ msg.cmd = gcs.plan[msg.seq + 1]
  BY <1>2 DEF Sent
<1>5. down \in Seq(Told)
  BY DEF UploadInv
<1> DEFINE seq == msg.seq
<1>6. CASE ItemResult(seq, msg.cmd) = "ACCEPTED"
  <2>1. AcceptItem(seq, msg.cmd) /\ wp.receiving /\ seq = wp.request_i /\ ~JumpOutside(msg.cmd) /\ ~NoPlace(seq)
    BY <1>6, ItemResults DEF handle_mission_item
  <2>2. Store(seq, gcs.plan[seq + 1])
    BY <1>4, <2>1 DEF AcceptItem
  <2>3. /\ wp'.request_i = seq + 1 /\ wp'.request_last = wp.request_last
        /\ wp' \in Waypoint
        /\ \/ LastItem(seq) /\ ~wp'.receiving /\ Reply(<<Ack("ACCEPTED")>>)
           \/ ~LastItem(seq) /\ wp'.receiving /\ Reply(NextRequest(wp'))
           \/ ~LastItem(seq) /\ wp'.receiving /\ UNCHANGED down
    BY <1>3, <2>1, AcceptSteps
  <2>4. ~JumpOutside(gcs.plan[seq + 1])
    BY <1>4, <2>1
  <2>5. seq \in Nat /\ seq + 1 \in DOMAIN gcs.plan
    BY <1>3, <1>4
  <2> HIDE DEF seq
  <2>6. Done => Done'
    BY <1>1, <2>1, <2>2, <2>5, StoreKeepsDone
  <2>7. Progress'
    <3>1. /\ wp.request_last = gcs.last /\ gcs.first <= seq
          /\ gcs.full => Len(mission') <= Len(gcs.plan)
          /\ \A i \in gcs.first + 1 .. seq + 1 :
                 /\ i \in DOMAIN gcs.plan /\ i <= Len(mission') /\ mission'[i] = gcs.plan[i]
                 /\ gcs.full => Resolves(gcs.plan[i])
      BY <1>1, <2>1, <2>2, <2>4, <2>5, StoreProgress
    <3>2. gcs.first <= seq + 1
      BY <2>5, <3>1, UploadFacts
    <3> QED
      BY <1>1, <2>3, <3>1, <3>2 DEF Progress, Resolves
  <2>8. CASE LastItem(seq) /\ ~wp'.receiving /\ Reply(<<Ack("ACCEPTED")>>)
    <3>1. Done'
      BY <1>1, <2>1, <2>2, <2>4, <2>5, <2>8, LastCompletes
    <3>2. Ack("ACCEPTED") \in Told'
      BY <3>1, MessageTypes DEF Told, Results
    <3>3. down' \in Seq(Told')
      BY <1>5, <2>6, <2>8, <3>2, OneMessage, ToldReply
    <3> QED
      BY <1>1, <1>2, <2>6, <2>8, <3>3, VehicleStep
  <2>9. CASE wp'.receiving /\ Reply(NextRequest(wp'))
    <3>1. down' \in Seq(Told')
      BY <1>5, <2>3, <2>6, <2>9, PlainTypes, PlainReply
    <3> QED
      BY <1>1, <1>2, <2>6, <2>7, <3>1, VehicleStep
  <2>10. CASE wp'.receiving /\ UNCHANGED down
    <3>1. down' \in Seq(Told')
      BY <1>5, <2>6, <2>10, ToldKept
    <3> QED
      BY <1>1, <1>2, <2>6, <2>7, <3>1, VehicleStep
  <2> QED
    BY <2>3, <2>8, <2>9, <2>10
<1>7. CASE ItemResult(seq, msg.cmd) # "ACCEPTED"
  <2>1. Reply(<<Ack(ItemResult(seq, msg.cmd))>>) /\ UNCHANGED <<mission, wp>>
    BY <1>7 DEF handle_mission_item, vehicle
  <2>2. Done => Done'
    BY <1>1, <2>1, DoneKept
  <2>3. Ack(ItemResult(seq, msg.cmd)) \in Plain
    BY <1>7, ItemResults, PlainTypes
  <2>4. down' \in Seq(Told')
    BY <1>5, <2>1, <2>2, <2>3, OneMessage, PlainReply
  <2>5. wp'.receiving => Progress'
    BY <1>1, <2>1 DEF UploadInv, Progress, Resolves
  <2> QED
    BY <1>1, <1>2, <2>2, <2>4, <2>5, VehicleStep
<1> QED
  BY <1>6, <1>7

\* The timers only end an upload or send a request again.
LEMMA UploadClock ==
    ASSUME TypeInv, UploadInv, push_deferred_messages \/ update \/ Tick
    PROVE  UploadInv'
<1>1. /\ UNCHANGED <<mission, up, gcs>>
      /\ wp'.request_i = wp.request_i /\ wp'.request_last = wp.request_last
      /\ wp'.receiving => wp.receiving
      /\ down' = down \/ Reply(NextRequest(wp))
  BY ClockType
<1>2. Done => Done'
  BY <1>1, DoneKept
<1>3. wp \in Waypoint
  BY Types
<1>4. down' \in Seq(Told')
  <2>1. CASE down' = down
    BY <1>2, <2>1, ToldKept DEF UploadInv
  <2>2. CASE Reply(NextRequest(wp))
    BY <1>2, <1>3, <2>2, PlainTypes, PlainReply DEF UploadInv
  <2> QED
    BY <1>1, <2>1, <2>2
<1>5. wp'.receiving => Progress'
  BY <1>1 DEF UploadInv, Progress, Resolves
<1>6. up' \in Seq(Sent)
  BY <1>1 DEF UploadInv
<1> QED
  BY <1>1, <1>2, <1>4, <1>5, <1>6, VehicleStep

-----------------------------------------------------------------------------
(* The ground station and the link keep it.                                *)

\* A change of phase alone does not change what belongs to the upload.
LEMMA PhaseOnly ==
    ASSUME UNCHANGED mission, UNCHANGED gcs \/ \E p : gcs' = [gcs EXCEPT !.phase = p], gcs \in Station
    PROVE  /\ Sent' = Sent /\ Told' = Told /\ (Done' <=> Done) /\ (FullInv' <=> FullInv)
           /\ gcs'.plan = gcs.plan /\ gcs'.full = gcs.full
           /\ gcs'.first = gcs.first /\ gcs'.last = gcs.last
<1>1. /\ gcs'.plan = gcs.plan /\ gcs'.full = gcs.full
      /\ gcs'.first = gcs.first /\ gcs'.last = gcs.last
  BY DEF Station
<1>2. Covered' = Covered
  BY <1>1 DEF Covered
<1>3. Done' <=> Done
  BY <1>1, <1>2 DEF Done, Stored, Resolves
<1> QED
  BY <1>1, <1>3 DEF Sent, Told, FullInv

\* A step outside the vehicle that starts no upload.
LEMMA OutsideStep ==
    ASSUME TypeInv, UploadInv, UNCHANGED <<mission, wp>>,
           UNCHANGED gcs \/ \E p : gcs' = [gcs EXCEPT !.phase = p],
           up' \in Seq(Sent), down' \in Seq(Told),
           gcs'.phase = "accepted" => gcs.phase = "accepted" \/ Done
    PROVE  UploadInv'
<1>1. /\ Sent' = Sent /\ Told' = Told /\ (Done' <=> Done) /\ (FullInv' <=> FullInv)
      /\ gcs'.plan = gcs.plan /\ gcs'.full = gcs.full
      /\ gcs'.first = gcs.first /\ gcs'.last = gcs.last
  BY PhaseOnly, Types
<1>2. wp'.receiving => Progress'
  BY <1>1 DEF UploadInv, Progress, Resolves
<1>3. gcs'.phase = "accepted" => Done'
  BY <1>1 DEF UploadInv
<1> QED
  BY <1>1, <1>2, <1>3 DEF UploadInv

\* Answers, replies and losses.
LEMMA UploadOutside ==
    ASSUME TypeInv, UploadInv, GroundStation \/ Lose
    PROVE  UploadInv'
<1>1. up \in Seq(Sent) /\ down \in Seq(Told) /\ UNCHANGED <<mission, wp>>
  BY DEF UploadInv, GroundStation, AnswerRequest, TakeReply, Lose, vehicle
<1>2. CASE AnswerRequest
  <2>1. down # <<>> /\ down' = Tail(down) /\ UNCHANGED gcs /\ Head(down).type = "REQUEST"
    BY <1>2 DEF AnswerRequest
  <2>2. Head(down) \in Told /\ down' \in Seq(Told)
    BY <1>1, <2>1, TakeFrom
  <2>3. Head(down).seq \in Nat
    BY <2>1, <2>2, MessageFields DEF Told
  <2>4. ASSUME Head(down).seq + 1 \in DOMAIN gcs.plan
        PROVE  ItemMsg(Head(down).seq, gcs.plan[Head(down).seq + 1]) \in Sent
    <3>1. gcs.plan[Head(down).seq + 1] \in Item
      BY <2>4, UploadFacts, ElementOfSeq
    <3> QED
      BY <2>3, <2>4, <3>1, MessageTypes DEF Sent
  <2>5. up' \in Seq(Sent)
    <3>1. CASE gcs.phase = "upload" /\ Head(down).seq + 1 \in DOMAIN gcs.plan
      BY <1>1, <1>2, <2>4, <3>1, OneMessage, SendIn DEF AnswerRequest
    <3>2. CASE ~(gcs.phase = "upload" /\ Head(down).seq + 1 \in DOMAIN gcs.plan)
      BY <1>1, <1>2, <3>2 DEF AnswerRequest
    <3> QED
      BY <3>1, <3>2
  <2> QED
    BY <1>1, <2>1, <2>2, <2>5, OutsideStep
<1>3. CASE TakeReply
  <2>1. down # <<>> /\ down' = Tail(down) /\ UNCHANGED up
    BY <1>3 DEF TakeReply
  <2>2. Head(down) \in Told /\ down' \in Seq(Told)
    BY <1>1, <2>1, TakeFrom
  <2>3. UNCHANGED gcs \/ \E p : gcs' = [gcs EXCEPT !.phase = p]
    BY <1>3 DEF TakeReply
  <2>4. ASSUME gcs'.phase = "accepted" PROVE gcs.phase = "accepted" \/ Done
    <3>1. CASE gcs' = gcs
      BY <2>4, <3>1
    <3>2. CASE Head(down).type = "ACK" /\ gcs' = [gcs EXCEPT !.phase = IF Head(down).result = "ACCEPTED" THEN "accepted" ELSE "failed"]
      <4>1. gcs \in Station
        BY Types
      <4>2. Head(down).result = "ACCEPTED"
        BY <2>4, <3>2, <4>1 DEF Station
      <4> QED
        BY <2>2, <3>2, <4>2 DEF Told
    <3> QED
      BY <1>3, <3>1, <3>2 DEF TakeReply
  <2> QED
    BY <1>1, <2>1, <2>2, <2>3, <2>4, OutsideStep
<1>4. CASE Lose
  <2>1. up' \in Seq(Sent) /\ down' \in Seq(Told) /\ UNCHANGED gcs
    BY <1>1, <1>4, TakeFrom DEF Lose
  <2> QED
    BY <1>1, <2>1, OutsideStep
<1> QED
  BY <1>2, <1>3, <1>4 DEF GroundStation

\* A patient ground station starts an upload when nothing is left of the last one.
LEMMA UploadBegin ==
    ASSUME TypeInv, UploadInv, Patient, NEW plan \in Seq(Item), NEW full \in BOOLEAN,
           NEW first \in Nat, NEW last \in Nat, full => first = 0 /\ last = Len(plan),
           NEW message \in Message,
           message.type = "COUNT" => full /\ message.count = Len(plan),
           message.type = "PARTIAL" => ~full /\ message.first = first /\ message.last = last,
           message.type = "CLEAR_ALL" => full /\ plan = <<>>,
           message.type # "ITEM",
           Begin(plan, full, first, last, message)
    PROVE  UploadInv'
<1>1. /\ gcs' = [phase |-> "upload", plan |-> plan, full |-> full, first |-> first, last |-> last]
      /\ ~wp.receiving /\ up = <<>> /\ down = <<>> /\ up' = Send(up, <<message>>)
      /\ UNCHANGED <<mission, wp, down>>
  BY DEF Begin, Settled, vehicle
<1>2. FullInv'
  BY <1>1 DEF FullInv
<1>3. message \in Sent'
  BY <1>1 DEF Sent
<1>4. <<message>> \in Seq(Sent') /\ <<>> \in Seq(Sent') /\ <<>> \in Seq(Told')
  BY <1>3, OneMessage, EmptySeq
<1>5. up' \in Seq(Sent')
  BY <1>1, <1>4, SendIn
<1>6. ~wp'.receiving /\ gcs'.phase = "upload"
  BY <1>1
<1> QED
  BY <1>1, <1>2, <1>4, <1>5, <1>6 DEF UploadInv

\* A download ends the upload at the ground station's side.
LEMMA UploadDownload ==
    ASSUME TypeInv, UploadInv, NEW message \in Message, message.type \in {"REQUEST_LIST", "REQUEST"},
           Download(message)
    PROVE  UploadInv'
<1>1. /\ gcs' = [gcs EXCEPT !.phase = "idle"] /\ up' = Send(up, <<message>>)
      /\ UNCHANGED <<mission, wp, down>>
  BY DEF Download, vehicle
<1>2. message \in Sent
  BY DEF Sent
<1>3. up' \in Seq(Sent) /\ down' \in Seq(Told)
  BY <1>1, <1>2, OneMessage, SendIn DEF UploadInv
<1>4. gcs'.phase = "idle"
  BY <1>1, Types DEF Station
<1> QED
  BY <1>1, <1>3, <1>4, OutsideStep

\* Every step of a behaviour with a patient ground station keeps the upload invariant.
LEMMA UploadStep ==
    ASSUME TypeInv, UploadInv, Patient, [Next]_vars
    PROVE  UploadInv'
<1>1. CASE UNCHANGED vars
  <2>1. UNCHANGED <<mission, wp, up, down, gcs>>
    BY <1>1 DEF vars, vehicle
  <2>2. up' \in Seq(Sent) /\ down' \in Seq(Told)
    BY <2>1 DEF UploadInv
  <2> QED
    BY <2>1, <2>2, OutsideStep
<1>2. ASSUME NEW plan \in Plans, BeginUpload(plan) PROVE UploadInv'
  <2>1. plan \in Seq(Item) /\ Len(plan) \in Nat
    BY ItemAssumption
  <2>2. /\ Count(Len(plan)) \in Message /\ Count(Len(plan)).type = "COUNT"
        /\ Count(Len(plan)).count = Len(plan) /\ 0 \in Nat /\ TRUE \in BOOLEAN
    BY <2>1, MessageTypes
  <2> QED
    BY <1>2, <2>1, <2>2, UploadBegin DEF BeginUpload
<1>3. ASSUME NEW plan \in Plans, NEW first \in 0 .. MaxCmds, NEW last \in 0 .. MaxCmds,
             BeginPartial(plan, first, last)
      PROVE  UploadInv'
  <2> DEFINE m == [type |-> "PARTIAL", first |-> first, last |-> last]
  <2>1. plan \in Seq(Item) /\ first \in Nat /\ last \in Nat /\ FALSE \in BOOLEAN
    BY ItemAssumption, UploadBounds
  <2>2. m \in Message /\ m.type = "PARTIAL" /\ m.first = first /\ m.last = last
    BY <2>1, AnnounceTypes
  <2>3. Begin(plan, FALSE, first, last, m)
    BY <1>3 DEF BeginPartial
  <2> HIDE DEF m
  <2> QED
    BY <2>1, <2>2, <2>3, UploadBegin
<1>4. CASE BeginClear
  <2> DEFINE m == [type |-> "CLEAR_ALL"]
  <2>1. <<>> \in Seq(Item) /\ 0 \in Nat /\ TRUE \in BOOLEAN /\ Len(<<>>) = 0
    OBVIOUS
  <2>2. m \in Message /\ m.type = "CLEAR_ALL"
    BY AnnounceTypes
  <2>3. Begin(<<>>, TRUE, 0, 0, m)
    BY <1>4 DEF BeginClear
  <2> HIDE DEF m
  <2> QED
    BY <2>1, <2>2, <2>3, UploadBegin
<1>5. CASE ResendCount
  <2>1. Len(gcs.plan) \in Nat /\ gcs.full /\ up' = Send(up, <<Count(Len(gcs.plan))>>)
        /\ UNCHANGED <<mission, wp, down, gcs>>
    BY <1>5, UploadFacts DEF ResendCount, vehicle
  <2>2. Count(Len(gcs.plan)) \in Sent
    BY <2>1, MessageTypes DEF Sent
  <2>3. up' \in Seq(Sent) /\ down' \in Seq(Told)
    BY <2>1, <2>2, OneMessage, SendIn DEF UploadInv
  <2> QED
    BY <2>1, <2>3, OutsideStep
<1>6. CASE Download([type |-> "REQUEST_LIST"])
  BY <1>6, AnnounceTypes, UploadDownload
<1>7. ASSUME NEW seq \in 0 .. MaxCmds, Download(Request(seq)) PROVE UploadInv'
  <2>1. seq \in Nat
    BY UploadBounds
  <2> QED
    BY <1>7, <2>1, MessageTypes, UploadDownload
<1>8. ASSUME Handle PROVE UploadInv'
  BY <1>8, UploadCount, UploadPartial, UploadClear, UploadRead, UploadItem DEF Handle
<1> QED
  BY <1>1, <1>2, <1>3, <1>4, <1>5, <1>6, <1>7, <1>8, UploadClock, UploadOutside DEF Next

-----------------------------------------------------------------------------
(* The theorems.                                                           *)

\* The invariant holds when the vehicle starts with a list it stored before.
LEMMA InitInv == Init => Inv
<1> SUFFICES ASSUME Init PROVE Inv
  OBVIOUS
<1>1. mission \in Missions
  <2>1. <<>> \in Missions
    BY UploadBounds, EmptySeq DEF Missions
  <2>2. \A plan \in Plans : Supported(plan) => plan \in Missions
    BY ItemAssumption DEF Supported, Missions
  <2> QED
    BY <2>1, <2>2 DEF Init
<1>2. /\ wp \in Waypoint /\ RequestOK(wp) /\ ~wp.receiving
  <2>1. 0 \in 0 .. MaxReceive /\ 0 \in 0 .. MaxRequest
    BY UploadBounds DEF MaxReceive, MaxRequest
  <2> QED
    BY <2>1 DEF Init, Waypoint, RequestOK
<1>3. /\ gcs \in Station /\ gcs.phase = "idle" /\ gcs.full /\ gcs.plan = <<>>
      /\ gcs.first = 0 /\ gcs.last = 0
  <2>1. <<>> \in Seq(Item)
    OBVIOUS
  <2> QED
    BY <2>1 DEF Init, Station
<1>4. /\ up \in Seq(Message) /\ down \in Seq(Message) /\ up \in Seq(Sent) /\ down \in Seq(Told)
  BY EmptySeq DEF Init
<1>5. TypeInv
  BY <1>1, <1>2, <1>3, <1>4, Types
<1>6. FullInv
  BY <1>3 DEF FullInv
<1> QED
  BY <1>2, <1>3, <1>4, <1>5, <1>6 DEF Inv, UploadInv

\* Every step keeps the invariant.
LEMMA StepInv == Inv /\ [Next]_vars => Inv'
BY TypeStep, UploadStep DEF Inv

\* The invariant of the protocol.
THEOREM UploadInvariant == Spec => []Inv
BY InitInv, StepInv, PTL DEF Spec

\* The vehicle's and the ground station's state is of its type, the stored list fits
\* in storage and no request is for a command behind the one after the last: with any
\* ground station, patient or not.
THEOREM UploadTypeCorrect == Spec => []TypeOK
<1>1. Inv => TypeOK
  BY DEF Inv, TypeInv
<1> QED
  BY <1>1, UploadInvariant, PTL

\* A ground station that lets an upload end before it starts another one is told
\* "accepted" only of a list that the vehicle stores as it was sent, whatever the link
\* lost and whatever was sent twice.
THEOREM UploadAcceptedIsStored ==
    ASSUME Patient
    PROVE  Spec => []AcceptedIsStored
<1>1. Inv => AcceptedIsStored
  BY DEF Inv, UploadInv, Done, Stored, AcceptedIsStored
<1> QED
  BY <1>1, UploadInvariant, PTL

\* Of such a list every jump leads to one of its commands.
THEOREM UploadAcceptedJumpsResolve ==
    ASSUME Patient
    PROVE  Spec => []AcceptedJumpsResolve
<1>1. Inv => AcceptedJumpsResolve
  BY DEF Inv, UploadInv, Done, Stored, AcceptedJumpsResolve, Resolves
<1> QED
  BY <1>1, UploadInvariant, PTL
=============================================================================
