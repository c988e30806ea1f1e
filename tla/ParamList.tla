----------------------------- MODULE ParamList -----------------------------
(***************************************************************************)
(* AP_Param's list of saved parameters in persistent storage: a magic      *)
(* byte, then entries of a header and a value, then a sentinel header.     *)
(* The list lies in the parameter areas of StorageManager, which are       *)
(* separated by areas of other owners, in storage that is written through, *)
(* such as the EEPROM of the AVR core: one action writes one byte, and     *)
(* power may fail between any two.  Bit fields are narrower than in        *)
(* Param_header, and the bytes of the group element behind its lowest bits *)
(* are one byte.                                                           *)
(***************************************************************************)
EXTENDS Integers, Sequences, FiniteSets

CONSTANTS Areas,        \* layout: the parameter areas, <<offset, length>>
          DeviceSize,   \* bytes of the storage, the areas of others included
          Param,        \* parameters of the vehicle besides format_version
          Version,      \* format versions of the firmwares that may be installed
          Fill          \* bytes of storage that was never written

\* The fields of a sentinel: all ones in the key and the type, 0xFF in the wider group.
KEY_LOW == 15
TYPE == 7
HIGH == 15
BYTE_MAX == 31
MAGIC == 1
HdrSize == 3

Byte == 0 .. BYTE_MAX
Device == 0 .. DeviceSize - 1

\* key, type and group element of Param_header; top-level parameters have group 0.
Header == [key : 0 .. 2 * KEY_LOW + 1, type : 0 .. TYPE, group : 0 .. 2 * HIGH + 1]
format_version == [key |-> 0, type |-> 1, group |-> 0]

ASSUME AreaAssumption ==
    /\ Areas \in Seq(Device \X (Nat \ {0})) /\ Areas # <<>>
    /\ DeviceSize \in Nat
    /\ \A i \in DOMAIN Areas : Areas[i][1] + Areas[i][2] <= DeviceSize
    /\ \A i, j \in DOMAIN Areas : i < j => Areas[i][1] + Areas[i][2] <= Areas[j][1]
ASSUME ParamAssumption ==
    /\ Param \subseteq [header : Header, group : BOOLEAN, values : SUBSET Seq(Byte), default : Seq(Byte)]
    /\ \A p \in Param : ~p.group => p.header.group = 0
    /\ Version \subseteq Byte \ {0}
    /\ Fill \subseteq {0, BYTE_MAX}

VARIABLES stored,   \* the bytes of the storage
          todo,     \* bytes the call in progress has yet to write, <<offset, byte>>
          call,     \* the call in progress
          version,  \* k_format_version of the firmware
          intact,   \* history: booted, and nothing has asked for an erase since
          may       \* history: the values a parameter may have after a power failure

vars == <<stored, todo, call, version, intact, may>>

-----------------------------------------------------------------------------
(* StorageAccess: offsets in the parameter areas, taken together.          *)

Length(i) == Areas[i][2]
Below[i \in 0 .. Len(Areas)] == IF i = 0 THEN 0 ELSE Below[i - 1] + Length(i)
Size == Below[Len(Areas)]
Offset == 0 .. Size - 1
AreaOf(ofs) == CHOOSE i \in DOMAIN Areas : Below[i - 1] <= ofs /\ ofs < Below[i]

\* Mutant: a block that crosses into the next area goes on behind its own.
Address_Straight == [ofs \in Offset |-> Areas[1][1] + ofs]

Address == [ofs \in Offset |-> Areas[AreaOf(ofs)][1] + ofs - Below[AreaOf(ofs) - 1]]

\* The scan reads behind the last area only if there is no sentinel (ListEnds).
Read(mem, ofs) == IF ofs < Size THEN mem[Address[ofs]] ELSE BYTE_MAX
ReadBlock(mem, ofs, n) == [i \in 1 .. n |-> Read(mem, ofs + i - 1)]
Write(ofs, bytes) == [i \in 1 .. Len(bytes) |-> <<ofs + i - 1, bytes[i]>>]

-----------------------------------------------------------------------------
(* The list.                                                               *)

type_size(type) == IF type \in {1, 2} THEN type ELSE 0

\* key_low, then type, key_high and the low bit of the group, then the rest of it.
Encode(h) == << h.key % (KEY_LOW + 1),
                h.type * 4 + (h.key \div (KEY_LOW + 1)) * 2 + (h.group % 2),
                h.group \div 2 >>
Decode(b) == [key |-> b[1] + (KEY_LOW + 1) * ((b[2] \div 2) % 2),
              type |-> b[2] \div 4,
              group |-> (b[2] % 2) + 2 * b[3]]
Sentinel == [key |-> 2 * KEY_LOW + 1, type |-> TYPE, group |-> 2 * HIGH + 1]

\* One field is enough, and so are the fill values of the storage.
is_sentinal(b) ==
    \/ LET h == Decode(b) IN h.type = Sentinel.type \/ h.key = Sentinel.key \/ h.group = Sentinel.group
    \/ b = <<0, 0, 0>> \/ b = <<BYTE_MAX, BYTE_MAX, BYTE_MAX>>

HeaderAt(mem, ofs) == ReadBlock(mem, ofs, HdrSize)
Step(mem, ofs) == HdrSize + type_size(Decode(HeaderAt(mem, ofs)).type)

\* The offsets that a walk over the list visits, the sentinel's included.
Walk(mem) ==
    LET walk[ofs \in Nat] ==
            IF ofs >= Size THEN <<>>
            ELSE IF is_sentinal(HeaderAt(mem, ofs)) THEN <<ofs>>
            ELSE <<ofs>> \o walk[ofs + Step(mem, ofs)]
    IN  walk[1]

\* scan(): the entries with this header; a match ends the walk like a sentinel does.
Found(mem, h) ==
    LET w == Walk(mem) IN {w[i] : i \in {j \in DOMAIN w : Decode(HeaderAt(mem, w[j])) = h}}
EndOf(mem) == LET w == Walk(mem) IN IF w # <<>> /\ is_sentinal(HeaderAt(mem, w[Len(w)])) THEN w[Len(w)] ELSE -1
First(S) == CHOOSE s \in S : \A t \in S : s <= t

\* find_by_header: the group element of a top-level parameter is not looked at.
Matches(p, h) ==
    h.key = p.header.key /\ h.type = p.header.type /\ (p.group => h.group = p.header.group)

\* check_var_info(): the types are valid, and no two parameters are taken for each other.
\* That no member of a group has the element number of a sentinel, or of a header that
\* was cut in front of its last byte, is not checked there; it is so in every table.
ASSUME TableAssumption ==
    \A p \in Param :
        /\ type_size(p.header.type) > 0 /\ p.header.key # Sentinel.key
        /\ p.group => p.header.group \notin {Sentinel.group - 1, Sentinel.group}
        /\ \A v \in p.values \cup {p.default} : Len(v) = type_size(p.header.type)
        /\ ~Matches(p, format_version)
        /\ \A q \in Param : p # q => ~Matches(p, q.header)

\* The format version and the sentinel behind it have room.
ASSUME SizeAssumption == 1 + HdrSize + type_size(format_version.type) + HdrSize <= Size

\* load_all(): a later entry overwrites an earlier one.
Loaded(mem, p) ==
    LET w == Walk(mem)
        mine == {i \in DOMAIN w : Matches(p, Decode(HeaderAt(mem, w[i]))) /\ ~is_sentinal(HeaderAt(mem, w[i]))}
    IN  IF mine = {} THEN p.default
        ELSE ReadBlock(mem, w[CHOOSE i \in mine : \A j \in mine : j <= i] + HdrSize, type_size(p.header.type))

\* load_parameters() of the vehicle erases what it cannot read, or what another
\* firmware has written.
BadMagic(mem) == Read(mem, 0) # MAGIC
BadFormat(mem) ==
    Found(mem, format_version) = {}
        \/ Read(mem, First(Found(mem, format_version)) + HdrSize) # version
BootErases(mem) == BadMagic(mem) \/ BadFormat(mem)

-----------------------------------------------------------------------------
(* Calls.  Each one fixes the bytes it writes; they are written one by one.*)

Running(fn, arg) == call' = [fn |-> fn, arg |-> arg]
In(fn) == call.fn = fn /\ todo = <<>>

EraseWrites == Write(0, <<MAGIC>>) \o Write(1, Encode(Sentinel))
MayBeDefault == [p \in Param |-> may[p] \cup {p.default}]
Defaults == [p \in Param |-> {p.default}]

Init ==
    /\ stored \in {[a \in Device |-> b] : b \in Fill}
    /\ todo = <<>> /\ call = [fn |-> "off", arg |-> <<>>]
    /\ version \in Version
    /\ intact = FALSE /\ may = Defaults

\* setup(), of the installed firmware.
PowerOn(v) ==
    /\ call.fn = "off"
    /\ version' = v
    /\ intact' = (intact /\ v = version)
    /\ Running("setup", <<>>)
    /\ todo' = IF BadMagic(stored) THEN EraseWrites ELSE <<>>
    /\ may' = IF BadMagic(stored) THEN MayBeDefault ELSE may
    /\ UNCHANGED stored

\* load_parameters(): the format is checked, and the list erased if it is another.
CheckFormat ==
    /\ In("setup")
    /\ IF BadFormat(stored)
       THEN Running("erase", <<>>) /\ todo' = EraseWrites /\ may' = MayBeDefault /\ UNCHANGED intact
       ELSE Running("run", <<>>) /\ intact' = TRUE /\ UNCHANGED <<todo, may>>
    /\ UNCHANGED <<stored, version>>

\* Mutants: the header is written first; the sentinel is written last.
NewEntry_HeaderFirst(ofs, h, bytes) ==
    Write(ofs + HdrSize + Len(bytes), Encode(Sentinel)) \o Write(ofs, Encode(h)) \o Write(ofs + HdrSize, bytes)

NewEntry_SentinelLast(ofs, h, bytes) ==
    Write(ofs + HdrSize, bytes) \o Write(ofs, Encode(h)) \o Write(ofs + HdrSize + Len(bytes), Encode(Sentinel))

\* "write a new sentinal, then the data, then the header"
NewEntry(ofs, h, bytes) ==
    Write(ofs + HdrSize + Len(bytes), Encode(Sentinel)) \o Write(ofs + HdrSize, bytes) \o Write(ofs, Encode(h))

\* Mutant: the room for the header of the sentinel is forgotten.
Full_OneHeader(ofs, h) == ofs + type_size(h.type) + HdrSize >= Size

Full(ofs, h) == ofs + type_size(h.type) + 2 * HdrSize >= Size

\* Mutant: the format version is not saved.
Erased_NoVersion ==
    /\ In("erase")
    /\ Running("version", <<>>)
    /\ may' = Defaults
    /\ UNCHANGED <<stored, todo, version, intact>>

Erased ==
    /\ In("erase")
    /\ Running("version", <<>>)
    /\ todo' = NewEntry(EndOf(stored), format_version, <<version>>)
    /\ may' = Defaults
    /\ UNCHANGED <<stored, version, intact>>

Booted ==
    /\ In("version")
    /\ Running("run", <<>>)
    /\ intact' = TRUE
    /\ UNCHANGED <<stored, todo, version, may>>

\* erase_all() on the ground station's request.
Reset ==
    /\ In("run")
    /\ Running("reset", <<>>)
    /\ todo' = EraseWrites
    /\ intact' = FALSE
    /\ may' = MayBeDefault
    /\ UNCHANGED <<stored, version>>

\* The bytes of a value are overwritten one by one.
Mixes(old, new) == {SubSeq(new, 1, k) \o SubSeq(old, k + 1, Len(old)) : k \in 0 .. Len(new)}

\* save(force): the value is overwritten where it is, or added at the end, unless it
\* is the default or there is no room.
Save(p, v, force) ==
    /\ In("run")
    /\ LET found == Found(stored, p.header)
           ofs == EndOf(stored)
       IN \/ /\ found # {}
             /\ todo' = Write(First(found) + HdrSize, v)
             /\ may' = [may EXCEPT ![p] = UNION {Mixes(old, v) : old \in @}]
             /\ Running("save", <<p, v>>)
          \/ /\ found = {} /\ ofs # -1 /\ ~force /\ v = p.default
             /\ may' = [may EXCEPT ![p] = @ \cup {v}]
             /\ UNCHANGED <<todo, call>>
          \/ /\ found = {} /\ ofs # -1 /\ (force \/ v # p.default)
             /\ ~Full(ofs, p.header)
             /\ todo' = NewEntry(ofs, p.header, v)
             /\ may' = [may EXCEPT ![p] = @ \cup {v}]
             /\ Running("save", <<p, v>>)
    /\ UNCHANGED <<stored, version, intact>>

\* save() and erase_all() return.
Done ==
    /\ In("save") \/ In("reset")
    /\ Running("run", <<>>)
    /\ may' = IF call.fn = "reset" THEN Defaults
              ELSE [may EXCEPT ![call.arg[1]] = {call.arg[2]}]
    /\ UNCHANGED <<stored, todo, version, intact>>

-----------------------------------------------------------------------------
(* The storage.                                                            *)

WriteByte ==
    /\ todo # <<>>
    /\ stored' = [stored EXCEPT ![Address[Head(todo)[1]]] = Head(todo)[2]]
    /\ todo' = Tail(todo)
    /\ UNCHANGED <<call, version, intact, may>>

PowerFail ==
    /\ call.fn # "off"
    /\ todo' = <<>> /\ Running("off", <<>>)
    /\ UNCHANGED <<stored, version, intact, may>>

Next ==
    \/ \E v \in Version : PowerOn(v)
    \/ CheckFormat \/ Erased \/ Booted \/ Reset \/ Done
    \/ \E p \in Param, force \in BOOLEAN : \E v \in p.values : Save(p, v, force)
    \/ WriteByte \/ PowerFail

Spec == Init /\ [][Next]_vars

-----------------------------------------------------------------------------
(* Properties.                                                             *)

\* The variables are of their types.
TypeOK ==
    /\ stored \in [Device -> Byte]
    /\ todo \in Seq(Offset \X Byte)
    /\ call.fn \in {"off", "setup", "erase", "version", "run", "reset", "save"}
    /\ version \in Version /\ intact \in BOOLEAN
    /\ DOMAIN may = Param

\* Wherever power fails, the next boot finds the format version of its firmware,
\* and does not erase the list.
BootKeeps == intact => ~BootErases(stored)

\* Wherever power fails, load_all() gives each parameter the value last saved, and a
\* parameter whose save was cut the old or the new one; only a value of several bytes
\* that is overwritten in place may be a mix of the two.  No parameter that was erased
\* comes back.
LoadsSaved == ~BootErases(stored) => \A p \in Param : Loaded(stored, p) \in may[p]

\* Wherever power fails, the walk over the list ends at a header inside the
\* parameter areas.
ListEnds == ~BadMagic(stored) => EndOf(stored) # -1 /\ EndOf(stored) + HdrSize <= Size

ParamBytes == UNION {a[1] .. a[1] + a[2] - 1 : a \in {Areas[i] : i \in DOMAIN Areas}}

\* The bytes of the areas between the parameter areas stay as they are.
OthersUntouched == [][\A a \in Device \ ParamBytes : stored'[a] = stored[a]]_vars
=============================================================================
