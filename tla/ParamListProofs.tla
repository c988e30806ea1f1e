-------------------------- MODULE ParamListProofs --------------------------
(***************************************************************************)
(* Proofs about ParamList for every layout of the areas, every table of    *)
(* parameters and every set of firmware versions.                          *)
(***************************************************************************)
EXTENDS ParamList, WellFoundedInduction, SequenceTheorems, TLAPS

-----------------------------------------------------------------------------
(* Induction, over sets.                                                   *)

\* Every set of naturals has a least element.
LEMMA Least ==
    ASSUME NEW T \in SUBSET Nat, T # {}
    PROVE  \E x \in T : \A y \in T : x <= y
<1>1. IsWellFoundedOn(OpToRel(<, Nat), Nat)
  BY NatLessThanWellFounded
<1>2. PICK x \in T : \A y \in T : ~(<<y, x>> \in OpToRel(<, Nat))
  BY <1>1, WFMin
<1>3. ASSUME NEW y \in T PROVE x <= y
  <2>1. ~(<<y, x>> \in OpToRel(<, Nat))
    BY <1>2
  <2>2. ~(y < x)
    BY <2>1 DEF OpToRel
  <2> QED
    BY <2>2
<1> QED
  BY <1>3

\* A set with 0 that is closed under adding 1 holds every natural.
LEMMA SetInduction ==
    ASSUME NEW T, 0 \in T, \A n \in Nat : n \in T => n + 1 \in T
    PROVE  Nat \subseteq T
<1> DEFINE U == {n \in Nat : n \notin T}
<1> SUFFICES ASSUME U # {} PROVE FALSE
  OBVIOUS
<1>1. PICK x \in U : \A y \in U : x <= y
  BY Least
<1>2. x \in Nat /\ x # 0
  OBVIOUS
<1>3. x - 1 \in Nat /\ x - 1 \notin U
  BY <1>1, <1>2
<1>4. x - 1 + 1 = x
  BY <1>2
<1> QED
  BY <1>3, <1>4

\* Every set of naturals below a bound has a greatest element.
LEMMA Greatest ==
    ASSUME NEW n \in Nat, NEW T \in SUBSET (0 .. n), T # {}
    PROVE  \E x \in T : \A y \in T : y <= x
<1> DEFINE U == {k \in Nat : k <= n /\ n - k \in T}
<1>1. PICK t \in T : TRUE
  OBVIOUS
<1>2. n - t \in Nat /\ n - (n - t) = t /\ n - t <= n
  BY <1>1
<1>3. U # {}
  BY <1>2
<1>4. U \in SUBSET Nat
  OBVIOUS
<1> HIDE DEF U
<1>5. PICK u \in U : \A w \in U : u <= w
  BY <1>3, <1>4, Least
<1>6. u \in Nat /\ u <= n /\ n - u \in T
  BY DEF U
<1>7. ASSUME NEW y \in T PROVE y <= n - u
  <2>1. n - y \in Nat /\ n - y <= n /\ n - (n - y) = y
    OBVIOUS
  <2>2. n - y \in U
    BY <2>1 DEF U
  <2> QED
    BY <2>1, <2>2, <1>5, <1>6
<1> QED
  BY <1>6, <1>7

-----------------------------------------------------------------------------
(* The areas.                                                              *)

\* The areas are in order, inside the storage.
LEMMA AreaFacts ==
    ASSUME NEW i \in DOMAIN Areas
    PROVE  /\ Areas[i][1] \in Device /\ Areas[i][1] \in Nat /\ Length(i) \in Nat \ {0}
           /\ Areas[i][1] + Length(i) <= DeviceSize
           /\ \A j \in DOMAIN Areas : i < j => Areas[i][1] + Length(i) <= Areas[j][1]
           /\ DOMAIN Areas = 1 .. Len(Areas) /\ Len(Areas) \in Nat /\ DeviceSize \in Nat
<1>1. Areas[i] \in Device \X (Nat \ {0})
  BY AreaAssumption
<1> QED
  BY <1>1, AreaAssumption DEF Length, Device

IsBelow(g, n) == g = [i \in 0 .. n |-> IF i = 0 THEN 0 ELSE g[i - 1] + Length(i)]

\* Below is a recursive function: its definition holds of it.
LEMMA BelowDef ==
    Below = [i \in 0 .. Len(Areas) |-> IF i = 0 THEN 0 ELSE Below[i - 1] + Length(i)]
<1> DEFINE T == {n \in Nat : \E g : IsBelow(g, n)}
<1>1. 0 \in T
  <2>1. IsBelow([i \in 0 .. 0 |-> 0], 0)
    BY DEF IsBelow
  <2> QED
    BY <2>1
<1>2. ASSUME NEW n \in Nat, n \in T PROVE n + 1 \in T
  <2>1. PICK g : IsBelow(g, n)
    BY <1>2
  <2> DEFINE h == [i \in 0 .. n + 1 |-> IF i <= n THEN g[i] ELSE g[n] + Length(n + 1)]
  <2>2. ASSUME NEW i \in 0 .. n + 1 PROVE h[i] = IF i = 0 THEN 0 ELSE h[i - 1] + Length(i)
    <3>1. CASE i <= n
      <4>1. i \in 0 .. n /\ h[i] = g[i] /\ (i # 0 => i - 1 \in 0 .. n + 1 /\ i - 1 <= n)
        BY <3>1
      <4>2. g[i] = IF i = 0 THEN 0 ELSE g[i - 1] + Length(i)
        BY <2>1, <4>1 DEF IsBelow
      <4> QED
        BY <4>1, <4>2
    <3>2. CASE i = n + 1
      BY <3>2
    <3> QED
      BY <3>1, <3>2
  <2>3. IsBelow(h, n + 1)
    <3>1. h = [i \in 0 .. n + 1 |-> h[i]]
      OBVIOUS
    <3> HIDE DEF h
    <3>2. [i \in 0 .. n + 1 |-> h[i]] = [i \in 0 .. n + 1 |-> IF i = 0 THEN 0 ELSE h[i - 1] + Length(i)]
      BY <2>2
    <3> QED
      BY <3>1, <3>2 DEF IsBelow
  <2> QED
    BY <2>3
<1>3. Nat \subseteq T
  <2> HIDE DEF T
  <2> QED
    BY <1>1, <1>2, SetInduction
<1>4. Len(Areas) \in Nat
  BY AreaAssumption
<1>5. \E g : g = [i \in 0 .. Len(Areas) |-> IF i = 0 THEN 0 ELSE g[i - 1] + Length(i)]
  BY <1>3, <1>4 DEF IsBelow
<1> QED
  BY <1>5, Zenon DEF Below

\* The offset at which an area begins is a natural.
LEMMA BelowType ==
    /\ \A i \in 0 .. Len(Areas) : Below[i] \in Nat
    /\ Below[0] = 0 /\ Len(Areas) \in Nat /\ Size \in Nat
    /\ \A i \in 1 .. Len(Areas) : Below[i] = Below[i - 1] + Length(i)
<1> DEFINE N == Len(Areas)
           T == {n \in Nat : n <= N => Below[n] \in Nat}
<1>1. N \in Nat
  BY AreaAssumption
<1>2. Below[0] = 0 /\ \A i \in 1 .. N : Below[i] = Below[i - 1] + Length(i)
  <2> HIDE DEF N
  <2>1. Below = [i \in 0 .. N |-> IF i = 0 THEN 0 ELSE Below[i - 1] + Length(i)]
    BY BelowDef DEF N
  <2>2. \A i \in 0 .. N : Below[i] = IF i = 0 THEN 0 ELSE Below[i - 1] + Length(i)
    BY <2>1, Zenon
  <2> QED
    BY <1>1, <2>2
<1>3. 0 \in T
  BY <1>2
<1>4. ASSUME NEW n \in Nat, n \in T PROVE n + 1 \in T
  <2> SUFFICES ASSUME n + 1 <= N PROVE Below[n + 1] \in Nat
    OBVIOUS
  <2>1. n + 1 \in 1 .. N /\ n <= N /\ n + 1 - 1 = n
    BY <1>1
  <2>2. Length(n + 1) \in Nat
    BY <2>1, AreaFacts, AreaAssumption
  <2>3. Below[n] \in Nat
    BY <1>4, <2>1
  <2> QED
    BY <1>2, <2>1, <2>2, <2>3
<1>5. Nat \subseteq T
  <2> HIDE DEF T
  <2> QED
    BY <1>3, <1>4, SetInduction
<1>6. ASSUME NEW i \in 0 .. N PROVE Below[i] \in Nat
  <2>1. i \in Nat /\ i <= N
    BY <1>1
  <2> QED
    BY <1>5, <2>1
<1>7. Size \in Nat
  BY <1>1, <1>6 DEF Size
<1> QED
  BY <1>1, <1>2, <1>6, <1>7

\* Every offset lies in one of the areas.
LEMMA AreaOfOffset ==
    ASSUME NEW ofs \in Offset
    PROVE  LET i == AreaOf(ofs) IN i \in DOMAIN Areas /\ Below[i - 1] <= ofs /\ ofs < Below[i]
<1> DEFINE N == Len(Areas)
           T == {i \in Nat : i <= N /\ ofs < Below[i]}
<1>1. N \in Nat /\ ofs \in Nat /\ ofs < Below[N]
  BY BelowType DEF Offset, Size
<1>2. T # {} /\ T \in SUBSET Nat
  BY <1>1
<1>3. PICK i \in T : \A j \in T : i <= j
  <2> HIDE DEF T
  <2> QED
    BY <1>2, Least
<1>4. i \in Nat /\ i <= N /\ ofs < Below[i] /\ i # 0
  BY <1>1, BelowType
<1>5. i - 1 \in Nat /\ i - 1 <= N /\ i - 1 \notin T /\ i - 1 \in 0 .. N
  BY <1>1, <1>3, <1>4
<1>6. Below[i - 1] <= ofs
  <2>1. ~(ofs < Below[i - 1]) /\ Below[i - 1] \in Nat
    BY <1>5, BelowType
  <2> QED
    BY <1>1, <2>1
<1>7. i \in DOMAIN Areas
  BY <1>1, <1>4, AreaAssumption
<1> HIDE DEF T
<1> QED
  BY <1>4, <1>6, <1>7 DEF AreaOf

\* An offset has an address of its own, in a parameter area.
LEMMA Addresses ==
    ASSUME NEW a \in Offset
    PROVE  /\ Address[a] \in Device /\ Address[a] \in ParamBytes
           /\ \A b \in Offset : Address[a] = Address[b] => a = b
<1> DEFINE In1(ofs, i) == /\ i \in DOMAIN Areas /\ Below[i - 1] <= ofs /\ ofs < Below[i - 1] + Length(i)
                          /\ Below[i - 1] \in Nat /\ Address[ofs] = Areas[i][1] + ofs - Below[i - 1]
                          /\ Areas[i][1] \in Nat /\ Length(i) \in Nat /\ i \in Nat
<1>1. ASSUME NEW ofs \in Offset PROVE \E i : In1(ofs, i)
  <2> DEFINE i == AreaOf(ofs)
  <2>1. i \in DOMAIN Areas /\ Below[i - 1] <= ofs /\ ofs < Below[i]
    BY <1>1, AreaOfOffset
  <2>2. Address[ofs] = Areas[i][1] + ofs - Below[i - 1]
    BY DEF Address
  <2> HIDE DEF i
  <2>3. Areas[i][1] \in Nat /\ Length(i) \in Nat /\ i \in 1 .. Len(Areas) /\ Len(Areas) \in Nat
    BY <2>1, AreaFacts
  <2>4. i - 1 \in 0 .. Len(Areas)
    BY <2>3
  <2>5. Below[i] = Below[i - 1] + Length(i) /\ Below[i - 1] \in Nat
    BY <2>3, <2>4, BelowType
  <2>6. In1(ofs, i)
    BY <2>1, <2>2, <2>3, <2>5
  <2> QED
    BY <2>6
<1>2. PICK i : In1(a, i)
  BY <1>1
<1>3. a \in Nat
  BY BelowType DEF Offset
<1>4. Address[a] \in Areas[i][1] .. Areas[i][1] + Length(i) - 1
  BY <1>2, <1>3
<1>5. Address[a] \in Device
  <2>1. Areas[i][1] + Length(i) <= DeviceSize /\ DeviceSize \in Nat
    BY <1>2, AreaFacts
  <2> QED
    BY <1>2, <1>4, <2>1 DEF Device
<1>6. Address[a] \in ParamBytes
  BY <1>2, <1>4 DEF ParamBytes, Length
<1>7. ASSUME NEW b \in Offset, Address[a] = Address[b] PROVE a = b
  <2>1. PICK j : In1(b, j)
    BY <1>1
  <2>2. b \in Nat
    BY BelowType DEF Offset
  <2>3. i = j
    <3>1. ~(i < j)
      <4>1. i < j => Areas[i][1] + Length(i) <= Areas[j][1]
        BY <1>2, <2>1, AreaFacts
      <4> QED
        BY <1>2, <1>3, <1>7, <2>1, <2>2, <4>1
    <3>2. ~(j < i)
      <4>1. j < i => Areas[j][1] + Length(j) <= Areas[i][1]
        BY <1>2, <2>1, AreaFacts
      <4> QED
        BY <1>2, <1>3, <1>7, <2>1, <2>2, <4>1
    <3> QED
      BY <1>2, <2>1, <3>1, <3>2
  <2> QED
    BY <1>2, <1>3, <1>7, <2>1, <2>2, <2>3
<1> QED
  BY <1>5, <1>6, <1>7

\* The storage has room for the first entry.
LEMMA Sizes == Size \in Nat /\ Size >= 8
BY SizeAssumption, BelowType DEF HdrSize, type_size, format_version

\* What is read is a byte.
LEMMA ReadType ==
    ASSUME NEW mem \in [Device -> Byte], NEW o \in Nat
    PROVE  Read(mem, o) \in Byte
<1>1. CASE o < Size
  <2>1. o \in Offset
    BY <1>1, Sizes DEF Offset
  <2> QED
    BY <1>1, <2>1, Addresses DEF Read
<1>2. CASE ~(o < Size)
  BY <1>2 DEF Read, Byte, BYTE_MAX
<1> QED
  BY <1>1, <1>2

\* What a write of one byte changes.
Wrote(mem, new, a, b) ==
    /\ new \in [Device -> Byte]
    /\ Read(new, a) = b /\ \A o \in Nat : o # a => Read(new, o) = Read(mem, o)

\* A byte is written where it is read.
LEMMA WriteOne ==
    ASSUME NEW mem \in [Device -> Byte], NEW a \in Offset, NEW b \in Byte,
           NEW new, new = [mem EXCEPT ![Address[a]] = b]
    PROVE  Wrote(mem, new, a, b)
<1>1. Address[a] \in Device
  BY Addresses
<1>2. new \in [Device -> Byte]
  BY <1>1
<1>3. Read(new, a) = b
  BY <1>1, Sizes DEF Read, Offset
<1>4. ASSUME NEW o \in Nat, o # a PROVE Read(new, o) = Read(mem, o)
  <2>1. CASE o < Size
    <3>1. o \in Offset
      BY <2>1, Sizes DEF Offset
    <3>2. Address[o] # Address[a] /\ Address[o] \in Device
      BY <3>1, <1>4, Addresses
    <3> QED
      BY <1>1, <2>1, <3>2 DEF Read
  <2>2. CASE ~(o < Size)
    BY <2>2 DEF Read
  <2> QED
    BY <2>1, <2>2
<1> QED
  BY <1>2, <1>3, <1>4 DEF Wrote

-----------------------------------------------------------------------------
(* The walk over the list.                                                 *)

\* A step of the walk goes on by a header and a value.
LEMMA StepType ==
    ASSUME NEW mem, NEW o
    PROVE  Step(mem, o) \in 3 .. 5
BY DEF Step, HdrSize, type_size

\* The recursion of Walk.
WalkStep(mem, w, ofs) ==
    IF ofs >= Size THEN <<>>
    ELSE IF is_sentinal(HeaderAt(mem, ofs)) THEN <<ofs>>
    ELSE <<ofs>> \o w[ofs + Step(mem, ofs)]

\* It has a solution from every offset on.
WalksFrom(mem, g, n) == g = [ofs \in {x \in Nat : x + n >= Size} |-> WalkStep(mem, g, ofs)]

\* Walk is a recursive function: its definition holds of it.
LEMMA WalkDef ==
    ASSUME NEW mem
    PROVE  \E w : w = [ofs \in Nat |-> WalkStep(mem, w, ofs)] /\ Walk(mem) = w[1]
<1> DEFINE T == {n \in Nat : \E g : WalksFrom(mem, g, n)}
           From(n) == {x \in Nat : x + n >= Size}
<1>1. 0 \in T
  <2> DEFINE g == [ofs \in From(0) |-> <<>>]
  <2>1. ASSUME NEW ofs \in From(0) PROVE WalkStep(mem, g, ofs) = <<>>
    BY Sizes DEF WalkStep
  <2>2. g = [ofs \in From(0) |-> WalkStep(mem, g, ofs)]
    BY <2>1
  <2>3. WalksFrom(mem, g, 0)
    BY <2>2 DEF WalksFrom
  <2> QED
    BY <2>3
<1>2. ASSUME NEW n \in Nat, n \in T PROVE n + 1 \in T
  <2>1. PICK g : WalksFrom(mem, g, n)
    BY <1>2
  <2> DEFINE h == [ofs \in From(n + 1) |-> IF ofs + n >= Size THEN g[ofs] ELSE WalkStep(mem, g, ofs)]
  <2>2. ASSUME NEW ofs \in From(n + 1) PROVE h[ofs] = WalkStep(mem, h, ofs)
    <3> DEFINE k == ofs + Step(mem, ofs)
    <3>1. Step(mem, ofs) \in 3 .. 5
      BY StepType
    <3>2. k \in From(n) /\ k \in From(n + 1) /\ h[k] = g[k]
      BY <3>1, Sizes
    <3>3. WalkStep(mem, h, ofs) = WalkStep(mem, g, ofs)
      <4> HIDE DEF h
      <4> QED
        BY <3>2 DEF WalkStep
    <3>4. CASE ofs + n >= Size
      <4>1. ofs \in From(n) /\ h[ofs] = g[ofs]
        BY <3>4
      <4>2. g[ofs] = WalkStep(mem, g, ofs)
        <5>1. g = [x \in From(n) |-> WalkStep(mem, g, x)]
          BY <2>1 DEF WalksFrom
        <5> HIDE DEF From
        <5> QED
          BY <4>1, <5>1, Zenon
      <4> HIDE DEF h
      <4> QED
        BY <3>3, <4>1, <4>2
    <3>5. CASE ~(ofs + n >= Size)
      <4>1. h[ofs] = WalkStep(mem, g, ofs)
        BY <3>5
      <4> HIDE DEF h
      <4> QED
        BY <3>3, <4>1
    <3> QED
      BY <3>4, <3>5
  <2>3. h = [ofs \in From(n + 1) |-> h[ofs]]
    OBVIOUS
  <2> HIDE DEF h
  <2>4. [ofs \in From(n + 1) |-> h[ofs]] = [ofs \in From(n + 1) |-> WalkStep(mem, h, ofs)]
    <3> HIDE DEF From
    <3> QED
      BY <2>2
  <2>5. WalksFrom(mem, h, n + 1)
    BY <2>3, <2>4 DEF WalksFrom
  <2> QED
    BY <2>5
<1>3. Nat \subseteq T
  <2> HIDE DEF T
  <2> QED
    BY <1>1, <1>2, SetInduction
<1>4. PICK w : WalksFrom(mem, w, Size)
  BY <1>3, Sizes
<1>5. {x \in Nat : x + Size >= Size} = Nat
  BY Sizes
<1>6. w = [ofs \in Nat |-> WalkStep(mem, w, ofs)]
  BY <1>4, <1>5 DEF WalksFrom
<1>7. \E v : v = [ofs \in Nat |-> IF ofs >= Size THEN <<>>
                                 ELSE IF is_sentinal(HeaderAt(mem, ofs)) THEN <<ofs>>
                                 ELSE <<ofs>> \o v[ofs + Step(mem, ofs)]]
  BY <1>6 DEF WalkStep
<1> QED
  BY <1>7, Zenon DEF Walk, WalkStep

\* V are the offsets of the entries and of the sentinel e of a list.
IsList(mem, V, e) ==
    /\ V \subseteq Offset /\ 1 \in V /\ e \in V
    /\ \A o \in V : 1 <= o /\ o <= e
    /\ is_sentinal(HeaderAt(mem, e))
    /\ \A o \in V : o # e => ~is_sentinal(HeaderAt(mem, o)) /\ o + Step(mem, o) \in V
    /\ \A o, q \in V : o < q => o + Step(mem, o) <= q

\* s lists the members of V from o on, in order.
Lists(s, V, o) ==
    /\ s \in Seq(Nat)
    /\ \A i \in 1 .. Len(s) : s[i] \in V /\ s[i] >= o
    /\ \A q \in V : q >= o => \E i \in 1 .. Len(s) : s[i] = q
    /\ \A i, j \in 1 .. Len(s) : i < j => s[i] < s[j]

\* The walk visits the members of a list, in order.
LEMMA WalkLists ==
    ASSUME NEW mem, NEW V, NEW e, IsList(mem, V, e)
    PROVE  Lists(Walk(mem), V, 1)
<1>1. PICK w : w = [ofs \in Nat |-> WalkStep(mem, w, ofs)] /\ Walk(mem) = w[1]
  BY WalkDef
<1>2. \A o \in Nat : w[o] = WalkStep(mem, w, o)
  BY <1>1, Zenon
<1> DEFINE T == {n \in Nat : \A o \in V : o + n >= Size => Lists(w[o], V, o)}
<1>3. V \subseteq Nat /\ \A o \in V : o < Size
  BY Sizes DEF IsList, Offset
<1>4. 0 \in T
  BY <1>3, Sizes
<1>5. ASSUME NEW n \in Nat, n \in T PROVE n + 1 \in T
  <2> SUFFICES ASSUME NEW o \in V, o + (n + 1) >= Size PROVE Lists(w[o], V, o)
    OBVIOUS
  <2>1. o \in Nat /\ o < Size /\ w[o] = WalkStep(mem, w, o)
    BY <1>2, <1>3
  <2>2. CASE is_sentinal(HeaderAt(mem, o))
    <3>1. w[o] = <<o>>
      BY <2>1, <2>2, Sizes DEF WalkStep
    <3>2. \A q \in V : q <= o
      BY <2>2 DEF IsList
    <3> DEFINE s == <<o>>
    <3>3. s \in Seq(Nat) /\ Len(s) = 1 /\ s[1] = o
      BY <2>1
    <3> HIDE DEF s
    <3>4. Lists(s, V, o)
      <4>1. \A i \in 1 .. Len(s) : s[i] \in V /\ s[i] >= o
        BY <3>3, <2>1
      <4>2. \A q \in V : q >= o => \E i \in 1 .. Len(s) : s[i] = q
        <5> SUFFICES ASSUME NEW q \in V, q >= o PROVE s[1] = q /\ 1 \in 1 .. Len(s)
          BY Zenon
        <5>1. q <= o /\ q \in Nat
          BY <3>2, <1>3
        <5> QED
          BY <5>1, <3>3, <2>1
      <4>3. \A i, j \in 1 .. Len(s) : i < j => s[i] < s[j]
        BY <3>3
      <4> QED
        BY <3>3, <4>1, <4>2, <4>3 DEF Lists
    <3> QED
      BY <3>1, <3>4 DEF s
  <2>3. CASE ~is_sentinal(HeaderAt(mem, o))
    <3> DEFINE k == o + Step(mem, o)
               t == w[k]
               s == <<o>> \o t
    <3>1. k \in V /\ k \in Nat /\ k > o /\ k + n >= Size
      <4>1. Step(mem, o) \in 3 .. 5
        BY StepType
      <4>2. o # e
        BY <2>3 DEF IsList
      <4> QED
        BY <2>1, <4>1, <4>2, Sizes DEF IsList
    <3>2. w[o] = s
      BY <2>1, <2>3, Sizes DEF WalkStep
    <3>3. Lists(t, V, k)
      BY <1>5, <3>1
    <3>4. \A q \in V : q > o => q >= k
      <4> SUFFICES ASSUME NEW q \in V, q > o PROVE q >= k
        OBVIOUS
      <4>1. o < q => k <= q
        BY DEF IsList
      <4>2. q \in Nat
        BY <1>3
      <4> QED
        BY <3>1, <4>1, <4>2, <2>1
    <3> HIDE DEF k, t
    <3>5. t \in Seq(Nat) /\ Len(t) \in Nat
      BY <3>3 DEF Lists
    <3>6. s \in Seq(Nat) /\ Len(s) = Len(t) + 1 /\ s[1] = o /\ \A i \in 1 .. Len(t) : s[i + 1] = t[i]
      BY <3>5, <2>1
    <3> HIDE DEF s
    <3>7. \A i \in 1 .. Len(s) : i = 1 \/ (i - 1 \in 1 .. Len(t) /\ s[i] = t[i - 1])
      <4> SUFFICES ASSUME NEW i \in 1 .. Len(s), i # 1 PROVE i - 1 \in 1 .. Len(t) /\ s[i] = t[i - 1]
        OBVIOUS
      <4>1. i - 1 \in 1 .. Len(t) /\ (i - 1) + 1 = i
        BY <3>5, <3>6
      <4>2. s[(i - 1) + 1] = t[i - 1]
        BY <4>1, <3>6
      <4> QED
        BY <4>1, <4>2
    <3>8. \A i \in 1 .. Len(t) : t[i] \in V /\ t[i] >= k /\ t[i] \in Nat
      BY <3>3, <1>3 DEF Lists
    <3>9. \A i \in 1 .. Len(s) : s[i] \in V /\ s[i] >= o
      <4> SUFFICES ASSUME NEW i \in 1 .. Len(s) PROVE s[i] \in V /\ s[i] >= o
        OBVIOUS
      <4>1. CASE i = 1
        BY <4>1, <3>6, <2>1
      <4>2. CASE i - 1 \in 1 .. Len(t) /\ s[i] = t[i - 1]
        BY <4>2, <3>8, <3>1, <2>1
      <4> QED
        BY <4>1, <4>2, <3>7
    <3>10. \A q \in V : q >= o => \E i \in 1 .. Len(s) : s[i] = q
      <4> SUFFICES ASSUME NEW q \in V, q >= o PROVE \E i \in 1 .. Len(s) : s[i] = q
        OBVIOUS
      <4>1. CASE q = o
        <5>1. 1 \in 1 .. Len(s) /\ s[1] = q
          BY <4>1, <3>5, <3>6
        <5> QED
          BY <5>1
      <4>2. CASE q # o
        <5>1. q >= k
          BY <4>2, <3>4, <1>3, <2>1
        <5>2. PICK i \in 1 .. Len(t) : t[i] = q
          BY <5>1, <3>3 DEF Lists
        <5>3. i + 1 \in 1 .. Len(s)
          BY <3>5, <3>6
        <5>4. s[i + 1] = q
          BY <5>2, <3>6, Zenon
        <5> QED
          BY <5>3, <5>4
      <4> QED
        BY <4>1, <4>2
    <3>11. \A i, j \in 1 .. Len(s) : i < j => s[i] < s[j]
      <4> SUFFICES ASSUME NEW i \in 1 .. Len(s), NEW j \in 1 .. Len(s), i < j PROVE s[i] < s[j]
        OBVIOUS
      <4>1. j - 1 \in 1 .. Len(t) /\ s[j] = t[j - 1]
        BY <3>7, <3>5, <3>6
      <4>2. CASE i = 1
        <5>1. s[i] = o /\ t[j - 1] >= k /\ t[j - 1] \in Nat
          BY <4>1, <4>2, <3>6, <3>8, Zenon
        <5> QED
          BY <4>1, <5>1, <3>1, <2>1
      <4>3. CASE i # 1
        <5>1. i - 1 \in 1 .. Len(t) /\ s[i] = t[i - 1]
          BY <4>3, <3>7
        <5>2. i - 1 < j - 1
          BY <3>5, <3>6
        <5> QED
          BY <4>1, <5>1, <5>2, <3>3 DEF Lists
      <4> QED
        BY <4>2, <4>3
    <3>12. Lists(s, V, o)
      BY <3>6, <3>9, <3>10, <3>11 DEF Lists
    <3> QED
      BY <3>2, <3>12
  <2> QED
    BY <2>2, <2>3
<1>6. Nat \subseteq T
  <2> HIDE DEF T
  <2> QED
    BY <1>4, <1>5, SetInduction
<1>7. Size \in T /\ 1 \in V /\ 1 + Size >= Size
  BY <1>6, Sizes DEF IsList
<1> QED
  BY <1>1, <1>7

-----------------------------------------------------------------------------
(* What the walk over a list finds.                                        *)

Dec(mem, o) == Decode(HeaderAt(mem, o))

\* scan() finds the members of the list with the header.
LEMMA FoundIs ==
    ASSUME NEW mem, NEW V, NEW e, IsList(mem, V, e), NEW h
    PROVE  Found(mem, h) = {o \in V : Dec(mem, o) = h}
<1> DEFINE w == Walk(mem)
<1>1. Lists(w, V, 1)
  BY WalkLists
<1>2. DOMAIN w = 1 .. Len(w) /\ \A i \in 1 .. Len(w) : w[i] \in V
  BY <1>1 DEF Lists
<1>3. \A q \in V : \E i \in 1 .. Len(w) : w[i] = q
  <2>1. \A q \in V : q >= 1
    BY Sizes DEF IsList, Offset
  <2> QED
    BY <1>1, <2>1 DEF Lists
<1>4. Found(mem, h) = {w[i] : i \in {j \in DOMAIN w : Dec(mem, w[j]) = h}}
  BY DEF Found, Dec
<1> HIDE DEF w
<1> QED
  BY <1>2, <1>3, <1>4

\* The walk ends at the sentinel.
LEMMA EndIs ==
    ASSUME NEW mem, NEW V, NEW e, IsList(mem, V, e)
    PROVE  EndOf(mem) = e
<1> DEFINE w == Walk(mem)
<1>1. Lists(w, V, 1)
  BY WalkLists
<1>2. V \subseteq Nat /\ e \in V /\ \A o \in V : 1 <= o /\ o <= e
  BY Sizes DEF IsList, Offset
<1>3. EndOf(mem) = IF w # <<>> /\ is_sentinal(HeaderAt(mem, w[Len(w)])) THEN w[Len(w)] ELSE -1
  BY DEF EndOf
<1> HIDE DEF w
<1>4. w \in Seq(Nat) /\ Len(w) \in Nat
  BY <1>1 DEF Lists
<1>5. PICK i \in 1 .. Len(w) : w[i] = e
  <2>1. e >= 1
    BY <1>2
  <2> QED
    BY <1>1, <1>2, <2>1 DEF Lists
<1>6. Len(w) \in 1 .. Len(w) /\ w # <<>>
  BY <1>4, <1>5
<1>7. w[Len(w)] \in V /\ (i < Len(w) => e < w[Len(w)])
  BY <1>1, <1>5, <1>6 DEF Lists
<1>8. i = Len(w)
  <2>1. w[Len(w)] <= e /\ w[Len(w)] \in Nat /\ e \in Nat
    BY <1>2, <1>7
  <2> QED
    BY <1>4, <1>5, <1>7, <2>1
<1>9. is_sentinal(HeaderAt(mem, e))
  BY DEF IsList
<1> QED
  BY <1>3, <1>5, <1>6, <1>8, <1>9

\* The members of the list that load_all() takes for p.
Mine(mem, V, p) == {o \in V : Matches(p, Dec(mem, o)) /\ ~is_sentinal(HeaderAt(mem, o))}

\* load_all() gives p the value of the last of them.
LEMMA LoadedIs ==
    ASSUME NEW mem, NEW V, NEW e, IsList(mem, V, e), NEW p
    PROVE  /\ Mine(mem, V, p) = {} => Loaded(mem, p) = p.default
           /\ \A o \in Mine(mem, V, p) : (\A q \in Mine(mem, V, p) : q <= o) =>
                  Loaded(mem, p) = ReadBlock(mem, o + HdrSize, type_size(p.header.type))
<1> DEFINE w == Walk(mem)
           mine == {i \in DOMAIN w : Matches(p, Decode(HeaderAt(mem, w[i]))) /\ ~is_sentinal(HeaderAt(mem, w[i]))}
           last == CHOOSE i \in mine : \A j \in mine : j <= i
<1>1. Lists(w, V, 1)
  BY WalkLists
<1>2. V \subseteq Nat /\ \A o \in V : 1 <= o
  BY Sizes DEF IsList, Offset
<1>3. Loaded(mem, p) = IF mine = {} THEN p.default
                       ELSE ReadBlock(mem, w[last] + HdrSize, type_size(p.header.type))
  BY Zenon DEF Loaded
<1>4. \A i : i \in mine <=> i \in DOMAIN w /\ Matches(p, Dec(mem, w[i])) /\ ~is_sentinal(HeaderAt(mem, w[i]))
  BY DEF Dec
<1> HIDE DEF w, mine
<1>5. w \in Seq(Nat) /\ Len(w) \in Nat /\ DOMAIN w = 1 .. Len(w)
  BY <1>1 DEF Lists
<1>6. \A i \in mine : i \in 1 .. Len(w) /\ w[i] \in Mine(mem, V, p)
  BY <1>1, <1>4, <1>5 DEF Lists, Mine
<1>7. \A o \in Mine(mem, V, p) : \E i \in mine : w[i] = o
  <2> SUFFICES ASSUME NEW o \in Mine(mem, V, p) PROVE \E i \in mine : w[i] = o
    OBVIOUS
  <2>1. o \in V /\ o >= 1
    BY <1>2 DEF Mine
  <2>2. PICK i \in 1 .. Len(w) : w[i] = o
    BY <1>1, <2>1 DEF Lists
  <2>3. i \in mine
    BY <1>4, <1>5, <2>2 DEF Mine
  <2> QED
    BY <2>2, <2>3
<1>8. ASSUME NEW o \in Mine(mem, V, p), \A q \in Mine(mem, V, p) : q <= o
      PROVE  Loaded(mem, p) = ReadBlock(mem, o + HdrSize, type_size(p.header.type))
  <2>1. PICK i \in mine : w[i] = o
    BY <1>7
  <2>2. \A j \in mine : j <= i
    <3> SUFFICES ASSUME NEW j \in mine PROVE j <= i
      OBVIOUS
    <3>1. w[j] <= o /\ j \in 1 .. Len(w) /\ i \in 1 .. Len(w)
      BY <1>6, <1>8
    <3>2. i < j => w[i] < w[j]
      BY <1>1, <3>1 DEF Lists
    <3>3. w[j] \in Nat /\ o \in Nat
      BY <1>2, <1>6 DEF Mine
    <3> QED
      BY <1>5, <2>1, <3>1, <3>2, <3>3
  <2>3. last \in mine /\ \A j \in mine : j <= last
    BY <2>1, <2>2
  <2> HIDE DEF last
  <2>4. last = i
    BY <2>1, <2>2, <2>3, <1>6
  <2> QED
    BY <1>3, <2>1, <2>4
<1>9. Mine(mem, V, p) = {} => mine = {}
  BY <1>6
<1> QED
  BY <1>3, <1>8, <1>9

\* First() is the least member.
LEMMA FirstIs ==
    ASSUME NEW S \in SUBSET Nat, S # {}
    PROVE  First(S) \in S /\ \A t \in S : First(S) <= t
<1>1. \E s \in S : \A t \in S : s <= t
  BY Least
<1> QED
  BY <1>1 DEF First

-----------------------------------------------------------------------------
(* Headers.                                                                *)

\* The three bytes of a header.
LEMMA HeaderBytes ==
    ASSUME NEW mem \in [Device -> Byte], NEW o \in Nat
    PROVE  /\ HeaderAt(mem, o) = <<Read(mem, o), Read(mem, o + 1), Read(mem, o + 2)>>
           /\ HeaderAt(mem, o)[1] = Read(mem, o) /\ HeaderAt(mem, o)[2] = Read(mem, o + 1)
           /\ HeaderAt(mem, o)[3] = Read(mem, o + 2)
           /\ Read(mem, o) \in 0 .. 31 /\ Read(mem, o + 1) \in 0 .. 31 /\ Read(mem, o + 2) \in 0 .. 31
<1>1. HeaderAt(mem, o) = [i \in 1 .. 3 |-> Read(mem, o + i - 1)]
  BY DEF HeaderAt, ReadBlock, HdrSize
<1>2. o + 1 - 1 = o /\ o + 2 - 1 = o + 1 /\ o + 3 - 1 = o + 2
  OBVIOUS
<1>3. /\ HeaderAt(mem, o)[1] = Read(mem, o) /\ HeaderAt(mem, o)[2] = Read(mem, o + 1)
      /\ HeaderAt(mem, o)[3] = Read(mem, o + 2)
  BY <1>1, <1>2
<1>4. Read(mem, o) \in 0 .. 31 /\ Read(mem, o + 1) \in 0 .. 31 /\ Read(mem, o + 2) \in 0 .. 31
  BY ReadType DEF Byte, BYTE_MAX
<1>5. HeaderAt(mem, o) = <<Read(mem, o), Read(mem, o + 1), Read(mem, o + 2)>>
  <2> DEFINE t == <<Read(mem, o), Read(mem, o + 1), Read(mem, o + 2)>>
  <2>1. DOMAIN t = 1 .. 3 /\ t[1] = Read(mem, o) /\ t[2] = Read(mem, o + 1) /\ t[3] = Read(mem, o + 2)
    OBVIOUS
  <2>2. t = [i \in 1 .. 3 |-> t[i]]
    OBVIOUS
  <2> HIDE DEF t
  <2>3. \A i \in 1 .. 3 : t[i] = Read(mem, o + i - 1)
    BY <2>1, <1>2
  <2>4. t = [i \in 1 .. 3 |-> Read(mem, o + i - 1)]
    BY <2>2, <2>3
  <2> QED
    BY <1>1, <2>4 DEF t
<1> QED
  BY <1>3, <1>4, <1>5

\* The fields of a header.
LEMMA DecodeBytes ==
    ASSUME NEW mem \in [Device -> Byte], NEW o \in Nat
    PROVE  /\ Dec(mem, o) = [key |-> Read(mem, o) + 16 * ((Read(mem, o + 1) \div 2) % 2),
                             type |-> Read(mem, o + 1) \div 4,
                             group |-> (Read(mem, o + 1) % 2) + 2 * Read(mem, o + 2)]
           /\ Dec(mem, o).key = Read(mem, o) + 16 * ((Read(mem, o + 1) \div 2) % 2)
           /\ Dec(mem, o).type = Read(mem, o + 1) \div 4
           /\ Dec(mem, o).group = (Read(mem, o + 1) % 2) + 2 * Read(mem, o + 2)
BY HeaderBytes DEF Dec, Decode, KEY_LOW

\* A header is equal to one of the table when its fields are.
LEMMA SameHeader ==
    ASSUME NEW mem \in [Device -> Byte], NEW o \in Nat, NEW h \in Header
    PROVE  Dec(mem, o) = h <=> Dec(mem, o).key = h.key /\ Dec(mem, o).type = h.type /\ Dec(mem, o).group = h.group
<1>1. h = [key |-> h.key, type |-> h.type, group |-> h.group]
  BY DEF Header
<1>2. Dec(mem, o) = [key |-> Dec(mem, o).key, type |-> Dec(mem, o).type, group |-> Dec(mem, o).group]
  BY DecodeBytes
<1> QED
  BY <1>1, <1>2

\* The bytes of an encoded header.
LEMMA EncodeBytes ==
    ASSUME NEW h \in Header
    PROVE  /\ Encode(h) \in Seq(Byte) /\ Len(Encode(h)) = 3
           /\ Encode(h)[1] = h.key % 16
           /\ Encode(h)[2] = h.type * 4 + (h.key \div 16) * 2 + (h.group % 2)
           /\ Encode(h)[3] = h.group \div 2
           /\ Encode(h)[1] \in Byte /\ Encode(h)[2] \in Byte /\ Encode(h)[3] \in Byte
<1>1. h.key \in 0 .. 31 /\ h.type \in 0 .. 7 /\ h.group \in 0 .. 31
  BY DEF Header, KEY_LOW, TYPE, HIGH
<1>2. h.key % 16 \in 0 .. 31 /\ h.key \div 16 \in 0 .. 1 /\ h.group % 2 \in 0 .. 1 /\ h.group \div 2 \in 0 .. 31
  BY <1>1
<1>3. h.type * 4 + (h.key \div 16) * 2 + (h.group % 2) \in 0 .. 31
  BY <1>1, <1>2
<1>4. Encode(h) = <<h.key % 16, h.type * 4 + (h.key \div 16) * 2 + (h.group % 2), h.group \div 2>>
  BY DEF Encode, KEY_LOW
<1> QED
  BY <1>2, <1>3, <1>4 DEF Byte, BYTE_MAX

\* A header is read as it was written; one whose last byte is still the sentinel's has
\* the key and the type, and the element 30, or that of a sentinel.
LEMMA DecodeEncode ==
    ASSUME NEW mem \in [Device -> Byte], NEW o \in Nat, NEW h \in Header,
           Read(mem, o) = Encode(h)[1], Read(mem, o + 1) = Encode(h)[2]
    PROVE  /\ Dec(mem, o).key = h.key /\ Dec(mem, o).type = h.type
           /\ Read(mem, o + 2) = Encode(h)[3] => Dec(mem, o) = h
           /\ Read(mem, o + 2) = 15 => Dec(mem, o).group = 30 + (h.group % 2)
           /\ Read(mem, o + 1) % 2 = h.group % 2
<1> DEFINE k == h.key  t == h.type  g == h.group  y == Read(mem, o + 1)
<1>1. k \in 0 .. 31 /\ t \in 0 .. 7 /\ g \in 0 .. 31
  BY DEF Header, KEY_LOW, TYPE, HIGH
<1>2. Read(mem, o) = k % 16 /\ y = t * 4 + (k \div 16) * 2 + (g % 2) /\ Encode(h)[3] = g \div 2
  BY EncodeBytes
<1> HIDE DEF k, t, g, y
<1>3. k \div 16 \in 0 .. 1 /\ g % 2 \in 0 .. 1 /\ k = 16 * (k \div 16) + (k % 16) /\ g = 2 * (g \div 2) + (g % 2)
  BY <1>1
<1>4. y \div 4 = t /\ (y \div 2) % 2 = k \div 16 /\ y % 2 = g % 2
  <2>1. PICK a \in 0 .. 1, b \in 0 .. 1 : a = k \div 16 /\ b = g % 2
    BY <1>3
  <2>2. y = t * 4 + a * 2 + b
    BY <1>2, <2>1
  <2>3. y = 4 * t + (2 * a + b) /\ y = 2 * (2 * t + a) + b /\ 2 * a + b \in 0 .. 3 /\ t \in Nat /\ 2 * t + a \in Nat
    BY <1>1, <2>2
  <2>4. y \div 4 = t
    BY <2>3
  <2>5. y \div 2 = 2 * t + a /\ y % 2 = b
    BY <2>3
  <2>6. (2 * t + a) % 2 = a
    BY <2>3
  <2> QED
    BY <2>1, <2>4, <2>5, <2>6
<1>5. Dec(mem, o).key = k /\ Dec(mem, o).type = t /\ Dec(mem, o).group = (g % 2) + 2 * Read(mem, o + 2)
  <2>1. /\ Dec(mem, o).key = Read(mem, o) + 16 * ((y \div 2) % 2) /\ Dec(mem, o).type = y \div 4
        /\ Dec(mem, o).group = (y % 2) + 2 * Read(mem, o + 2)
    BY DecodeBytes DEF y
  <2>2. Dec(mem, o).key = (k % 16) + 16 * (k \div 16)
    BY <1>2, <1>4, <2>1
  <2>3. (k % 16) + 16 * (k \div 16) = k
    BY <1>1
  <2> QED
    BY <1>4, <2>1, <2>2, <2>3
<1>6. Read(mem, o + 2) = Encode(h)[3] => Dec(mem, o).group = g
  <2>1. (g % 2) + 2 * (g \div 2) = g
    BY <1>1
  <2> QED
    BY <1>2, <1>5, <2>1
<1>7. Read(mem, o + 2) = 15 => Dec(mem, o).group = 30 + (g % 2)
  BY <1>3, <1>5
<1> QED
  BY <1>4, <1>5, <1>6, <1>7, SameHeader DEF k, t, g, y

\* The ways in which the headers of this code are sentinels: by the type, by the group
\* element, by the key.
Stop(mem, o) ==
    \/ Read(mem, o + 1) = 31
    \/ Read(mem, o + 1) % 2 = 1 /\ Read(mem, o + 2) = 15
    \/ Read(mem, o) = 15 /\ (Read(mem, o + 1) \div 2) % 2 = 1

\* They are.
LEMMA StopIs ==
    ASSUME NEW mem \in [Device -> Byte], NEW o \in Nat, Stop(mem, o)
    PROVE  is_sentinal(HeaderAt(mem, o))
<1>1. Dec(mem, o).type = 7 \/ Dec(mem, o).group = 31 \/ Dec(mem, o).key = 31
  <2>1. CASE Read(mem, o + 1) = 31
    BY <2>1, DecodeBytes
  <2>2. CASE Read(mem, o + 1) % 2 = 1 /\ Read(mem, o + 2) = 15
    BY <2>2, DecodeBytes
  <2>3. CASE Read(mem, o) = 15 /\ (Read(mem, o + 1) \div 2) % 2 = 1
    BY <2>3, DecodeBytes
  <2> QED
    BY <2>1, <2>2, <2>3 DEF Stop
<1> QED
  BY <1>1 DEF is_sentinal, Dec, Sentinel, KEY_LOW, TYPE, HIGH

\* An entry of the table is not a sentinel.
LEMMA EntryIs ==
    ASSUME NEW mem \in [Device -> Byte], NEW o \in Nat,
           Dec(mem, o).type \in {1, 2}, Dec(mem, o).key # 31, Dec(mem, o).group # 31
    PROVE  ~is_sentinal(HeaderAt(mem, o))
<1>1. Read(mem, o + 1) \in 0 .. 31 /\ Read(mem, o + 1) \div 4 \in {1, 2}
  BY HeaderBytes, DecodeBytes
<1>2. Read(mem, o + 1) # 0 /\ Read(mem, o + 1) # 31
  BY <1>1
<1>3. HeaderAt(mem, o) # <<0, 0, 0>> /\ HeaderAt(mem, o) # <<31, 31, 31>>
  BY <1>2, HeaderBytes
<1> QED
  BY <1>3 DEF is_sentinal, Dec, Sentinel, KEY_LOW, TYPE, HIGH, BYTE_MAX

-----------------------------------------------------------------------------
(* The invariant of the list.                                              *)

\* The sentinel of a list that is in use: its group element is a sentinel's, whatever
\* saves that were cut have left in front of it.
OpenAt(mem, o) == Read(mem, o + 1) % 2 = 1 /\ Read(mem, o + 2) = 15

HasVersion(mem) == Dec(mem, 1) = format_version

\* The list up to its end e, of which nothing is said: entries that do not overlap, the
\* format version first, and no entry that is taken for a parameter behind its own.
Base(mem, V, e) ==
    /\ V \subseteq Offset /\ 1 \in V /\ e \in V
    /\ \A o \in V : 1 <= o /\ o <= e
    /\ \A o \in V : o # e => /\ ~is_sentinal(HeaderAt(mem, o)) /\ Dec(mem, o).type \in {1, 2}
                             /\ o + Step(mem, o) \in V
    /\ \A o, q \in V : o < q => o + Step(mem, o) <= q
    /\ \A o \in V : o # 1 /\ o # e => Dec(mem, o) # format_version
    /\ HasVersion(mem) => \A p \in Param : \A o, q \in V :
           o < q /\ q # e /\ Dec(mem, o) = p.header => ~Matches(p, Dec(mem, q))

\* The list, with its sentinel.
Listed(mem, V, e) == Base(mem, V, e) /\ e + HdrSize <= Size /\ OpenAt(mem, e)

\* The first steps of erase_all() in storage of zeros.
Zero(mem) == /\ Read(mem, 1) \in {0, 15} /\ Read(mem, 2) = 0 /\ Read(mem, 3) = 0
             /\ Read(mem, 4) = 0 /\ Read(mem, 5) = 0 /\ Read(mem, 6) = 0

\* A list, or what erase_all() makes of its first header.
Formed(mem) == (\E V, e : Listed(mem, V, e)) \/ Stop(mem, 1) \/ Zero(mem)

-----------------------------------------------------------------------------
(* Lists.                                                                  *)

\* The open end is a sentinel, and not the format version.
LEMMA OpenIs ==
    ASSUME NEW mem \in [Device -> Byte], NEW o \in Nat, OpenAt(mem, o)
    PROVE  is_sentinal(HeaderAt(mem, o)) /\ Dec(mem, o).group = 31 /\ Dec(mem, o) # format_version
<1>1. is_sentinal(HeaderAt(mem, o))
  BY StopIs DEF OpenAt, Stop
<1>2. Dec(mem, o).group = 31
  BY DecodeBytes DEF OpenAt
<1> QED
  BY <1>1, <1>2 DEF format_version

\* The members of a list are offsets in order, and an entry ends in front of the next
\* member.
LEMMA BaseFacts ==
    ASSUME NEW mem, NEW V, NEW e, Base(mem, V, e)
    PROVE  /\ e \in Nat /\ e >= 1 /\ \A o \in V : o \in Nat /\ o >= 1 /\ o <= e /\ o < Size
           /\ \A o \in V : o # e => o < e /\ o + Step(mem, o) <= e /\ o + 3 < e
           /\ \A o \in V : o # e => Step(mem, o) = 3 + Dec(mem, o).type
<1>1. e \in Nat /\ e >= 1 /\ \A o \in V : o \in Nat /\ o >= 1 /\ o <= e /\ o < Size
  BY Sizes DEF Base, Offset
<1>2. ASSUME NEW o \in V, o # e PROVE o < e /\ o + Step(mem, o) <= e
  BY <1>1, <1>2 DEF Base
<1>3. ASSUME NEW o \in V, o # e PROVE Step(mem, o) = 3 + Dec(mem, o).type /\ Dec(mem, o).type \in {1, 2}
  BY <1>3 DEF Base, Step, Dec, HdrSize, type_size
<1>4. ASSUME NEW o \in V, o # e PROVE o + 3 < e
  BY <1>1, <1>2, <1>3, <1>4
<1> QED
  BY <1>1, <1>2, <1>3, <1>4

\* A list is one that the walk visits.
LEMMA ListedIs ==
    ASSUME NEW mem \in [Device -> Byte], NEW V, NEW e, Listed(mem, V, e)
    PROVE  /\ IsList(mem, V, e) /\ e + 3 <= Size
           /\ \A o \in V : o # 1 => Dec(mem, o) # format_version
<1>1. Base(mem, V, e) /\ e \in Nat /\ e + 3 <= Size
  BY BaseFacts DEF Listed, HdrSize
<1>2. is_sentinal(HeaderAt(mem, e)) /\ Dec(mem, e) # format_version
  BY <1>1, OpenIs DEF Listed
<1>3. IsList(mem, V, e)
  BY <1>1, <1>2 DEF Base, IsList
<1> QED
  BY <1>1, <1>2, <1>3 DEF Base

\* The list of a sentinel only.
LEMMA AloneIsBase ==
    ASSUME NEW mem
    PROVE  Base(mem, {1}, 1)
BY Sizes DEF Base, Offset

\* The same of the walk.
LEMMA AloneIsList ==
    ASSUME NEW mem, is_sentinal(HeaderAt(mem, 1))
    PROVE  IsList(mem, {1}, 1)
BY Sizes DEF IsList, Offset

\* Whatever the list is, the walk over it ends, inside, and finds the format version at
\* its beginning only.
LEMMA ListShape ==
    ASSUME NEW mem \in [Device -> Byte], Formed(mem)
    PROVE  \E V, e : /\ IsList(mem, V, e) /\ e + 3 <= Size
                     /\ \A o \in V : o # 1 => Dec(mem, o) # format_version
<1>1. CASE \E V, e : Listed(mem, V, e)
  BY <1>1, ListedIs
<1>2. CASE is_sentinal(HeaderAt(mem, 1))
  <2>1. IsList(mem, {1}, 1) /\ 1 + 3 <= Size
    BY <1>2, AloneIsList, Sizes
  <2> QED
    BY <2>1
<1>3. CASE Stop(mem, 1)
  BY <1>2, <1>3, StopIs
<1>4. CASE Zero(mem) /\ ~is_sentinal(HeaderAt(mem, 1))
  <2>1. HeaderAt(mem, 4) = <<0, 0, 0>>
    BY <1>4, HeaderBytes DEF Zero
  <2>2. is_sentinal(HeaderAt(mem, 4)) /\ Dec(mem, 4) # format_version
    <3>1. is_sentinal(HeaderAt(mem, 4))
      BY <2>1 DEF is_sentinal
    <3>2. Dec(mem, 4).type = 0
      BY <1>4, DecodeBytes DEF Zero
    <3> QED
      BY <3>1, <3>2 DEF format_version
  <2>3. Step(mem, 1) = 3
    <3>1. Dec(mem, 1).type = 0
      BY <1>4, DecodeBytes DEF Zero
    <3> QED
      BY <3>1 DEF Step, Dec, type_size, HdrSize
  <2>4. IsList(mem, {1, 4}, 4)
    <3>1. {1, 4} \subseteq Offset
      BY Sizes DEF Offset
    <3>2. \A o, q \in {1, 4} : o < q => o = 1 /\ q = 4
      OBVIOUS
    <3> QED
      BY <1>4, <2>2, <2>3, <3>1, <3>2 DEF IsList
  <2>5. 4 + 3 <= Size
    BY Sizes
  <2> QED
    BY <2>2, <2>4, <2>5
<1> QED
  BY <1>1, <1>2, <1>3, <1>4 DEF Formed

\* A list whose first header is the format version is in use.
LEMMA VersionIsListed ==
    ASSUME NEW mem \in [Device -> Byte], HasVersion(mem), Formed(mem)
    PROVE  \E V, e : Listed(mem, V, e)
<1>1. Dec(mem, 1).key = 0 /\ Dec(mem, 1).type = 1 /\ Dec(mem, 1).group = 0
  BY DEF HasVersion, format_version
<1>2. /\ Read(mem, 1) \in 0 .. 31 /\ Read(mem, 2) \in 0 .. 31 /\ Read(mem, 3) \in 0 .. 31
      /\ Dec(mem, 1).key = Read(mem, 1) + 16 * ((Read(mem, 2) \div 2) % 2)
      /\ Dec(mem, 1).type = Read(mem, 2) \div 4
      /\ Dec(mem, 1).group = (Read(mem, 2) % 2) + 2 * Read(mem, 3)
  <2>1. /\ Dec(mem, 1).key = Read(mem, 1) + 16 * ((Read(mem, 1 + 1) \div 2) % 2)
        /\ Dec(mem, 1).type = Read(mem, 1 + 1) \div 4
        /\ Dec(mem, 1).group = (Read(mem, 1 + 1) % 2) + 2 * Read(mem, 1 + 2)
    BY DecodeBytes
  <2>2. Read(mem, 1) \in 0 .. 31 /\ Read(mem, 2) \in 0 .. 31 /\ Read(mem, 3) \in 0 .. 31
    BY ReadType DEF Byte, BYTE_MAX
  <2>3. 1 + 1 = 2 /\ 1 + 2 = 3
    OBVIOUS
  <2> QED
    BY <2>1, <2>2, <2>3
<1>3. Read(mem, 2) # 31 /\ Read(mem, 2) # 0 /\ Read(mem, 3) = 0 /\ Read(mem, 1) = 0
  BY <1>1, <1>2
<1>4. ~Stop(mem, 1) /\ ~Zero(mem)
  BY <1>3 DEF Stop, Zero
<1> QED
  BY <1>4 DEF Formed

\* What does not touch the headers in front of the end keeps the list up to it.
LEMMA BaseKept ==
    ASSUME NEW mem, NEW new, NEW V, NEW e, Base(mem, V, e),
           \A o \in V : o # e => HeaderAt(new, o) = HeaderAt(mem, o)
    PROVE  /\ Base(new, V, e)
           /\ \A o \in V : o # e => Dec(new, o) = Dec(mem, o) /\ Step(new, o) = Step(mem, o)
<1>1. \A o \in V : o # e => Dec(new, o) = Dec(mem, o) /\ Step(new, o) = Step(mem, o)
  BY DEF Dec, Step
<1>2. \A o \in V : o \in Nat /\ o >= 1 /\ o <= e
  BY BaseFacts
<1>3. \A o, q \in V : o < q => o # e
  BY <1>2
<1>4. HasVersion(new) => HasVersion(mem) \/ e = 1
  BY <1>1 DEF HasVersion, Base
<1>5. e = 1 => \A q \in V : q = e
  BY <1>2
<1>6. HasVersion(new) => \A p \in Param : \A o, q \in V :
           o < q /\ q # e /\ Dec(new, o) = p.header => ~Matches(p, Dec(new, q))
  BY <1>1, <1>3, <1>4, <1>5 DEF Base
<1> QED
  BY <1>1, <1>3, <1>6 DEF Base

\* An entry at the end, with a sentinel behind it, makes a longer list.
LEMMA Extend ==
    ASSUME NEW mem \in [Device -> Byte], NEW V, NEW e, Base(mem, V, e),
           NEW n \in {1, 2}, NEW c, c = e + 3 + n, c + HdrSize <= Size, OpenAt(mem, c),
           ~is_sentinal(HeaderAt(mem, e)), Dec(mem, e).type = n,
           e # 1 => Dec(mem, e) # format_version,
           \A p \in Param : \A o \in V : o # e /\ Dec(mem, o) = p.header => ~Matches(p, Dec(mem, e))
    PROVE  Listed(mem, V \cup {c}, c)
<1> DEFINE W == V \cup {c}
<1>1. /\ e \in Nat /\ e >= 1 /\ \A o \in V : o \in Nat /\ o >= 1 /\ o <= e
      /\ \A o \in V : o # e => o < e /\ o + Step(mem, o) <= e /\ Step(mem, o) \in Nat
  BY BaseFacts, StepType
<1>2. Step(mem, e) = 3 + n
  BY DEF Step, Dec, HdrSize, type_size
<1>3. c \in Nat /\ c > e /\ c \in Offset
  BY <1>1, Sizes DEF Offset, HdrSize
<1>4. \A o \in W : 1 <= o /\ o <= c
  BY <1>1, <1>3
<1>5. ASSUME NEW o \in W, o # c
      PROVE  ~is_sentinal(HeaderAt(mem, o)) /\ Dec(mem, o).type \in {1, 2} /\ o + Step(mem, o) \in W
  <2>1. CASE o = e
    <3>1. e + Step(mem, e) = c
      BY <1>1, <1>2
    <3> QED
      BY <2>1, <3>1
  <2>2. CASE o # e
    <3>1. o \in V
      BY <1>5
    <3> QED
      BY <2>2, <3>1 DEF Base
  <2> QED
    BY <2>1, <2>2
<1>6. ASSUME NEW o \in W, NEW q \in W, o < q PROVE o + Step(mem, o) <= q
  <2>1. o \in V
    <3>1. o # c
      BY <1>3, <1>4, <1>6, <1>1
    <3> QED
      BY <3>1
  <2>2. CASE q \in V
    BY <1>6, <2>1, <2>2 DEF Base
  <2>3. CASE q = c /\ o # e
    BY <1>1, <1>3, <2>1, <2>3
  <2>4. CASE q = c /\ o = e
    BY <1>1, <1>2, <1>3, <2>4
  <2> QED
    BY <2>2, <2>3, <2>4
<1>7. ASSUME NEW o \in W, o # 1, o # c PROVE Dec(mem, o) # format_version
  BY <1>7 DEF Base
<1>8. ASSUME HasVersion(mem), NEW p \in Param, NEW o \in W, NEW q \in W, o < q, q # c, Dec(mem, o) = p.header
      PROVE  ~Matches(p, Dec(mem, q))
  <2>1. q \in V /\ o \in V /\ o # e
    BY <1>1, <1>3, <1>8
  <2> QED
    BY <1>8, <2>1 DEF Base
<1>9. W \subseteq Offset /\ 1 \in W /\ c \in W
  BY <1>3 DEF Base
<1> HIDE DEF W
<1>10. Base(mem, W, c)
  BY <1>4, <1>5, <1>6, <1>7, <1>8, <1>9 DEF Base
<1> QED
  BY <1>10 DEF Listed, W

\* load_all() gives p what it gave before when the entries that are p's are the same.
LEMMA LoadedKept ==
    ASSUME NEW mem, NEW new, NEW V, NEW W, NEW e, NEW c, IsList(mem, V, e), IsList(new, W, c), NEW p,
           Mine(new, W, p) = Mine(mem, V, p),
           \A o \in Mine(mem, V, p) :
               ReadBlock(new, o + HdrSize, type_size(p.header.type)) = ReadBlock(mem, o + HdrSize, type_size(p.header.type))
    PROVE  Loaded(new, p) = Loaded(mem, p)
<1>1. CASE Mine(mem, V, p) = {}
  BY <1>1, LoadedIs
<1>2. CASE Mine(mem, V, p) # {}
  <2>1. Mine(mem, V, p) \in SUBSET (0 .. Size)
    <3>1. V \subseteq 0 .. Size
      BY Sizes DEF IsList, Offset
    <3>2. Mine(mem, V, p) \subseteq V
      BY DEF Mine
    <3> QED
      BY <3>1, <3>2
  <2>2. PICK o \in Mine(mem, V, p) : \A q \in Mine(mem, V, p) : q <= o
    BY <1>2, <2>1, Greatest, Sizes
  <2>3. Loaded(mem, p) = ReadBlock(mem, o + HdrSize, type_size(p.header.type))
    BY <2>2, LoadedIs
  <2>4. Loaded(new, p) = ReadBlock(new, o + HdrSize, type_size(p.header.type))
    BY <2>2, LoadedIs
  <2> QED
    BY <2>3, <2>4
<1> QED
  BY <1>1, <1>2

-----------------------------------------------------------------------------
(* The bytes that a call writes.                                           *)

\* The writes of a block.
LEMMA WriteIs ==
    ASSUME NEW ofs \in Nat, NEW bytes \in Seq(Byte)
    PROVE  /\ Len(Write(ofs, bytes)) = Len(bytes) /\ Write(ofs, bytes) \in Seq(Nat \X Byte)
           /\ \A i \in 1 .. Len(bytes) : Write(ofs, bytes)[i][1] = ofs + i - 1 /\ Write(ofs, bytes)[i][2] = bytes[i]
<1>1. Len(bytes) \in Nat /\ \A i \in 1 .. Len(bytes) : bytes[i] \in Byte /\ ofs + i - 1 \in Nat
  OBVIOUS
<1>2. Write(ofs, bytes) = [i \in 1 .. Len(bytes) |-> <<ofs + i - 1, bytes[i]>>]
  BY DEF Write
<1>3. \A i \in 1 .. Len(bytes) : <<ofs + i - 1, bytes[i]>> \in Nat \X Byte
  BY <1>1
<1> HIDE DEF Write
<1>4. Write(ofs, bytes) \in [1 .. Len(bytes) -> Nat \X Byte]
  BY <1>2, <1>3
<1>5. Write(ofs, bytes) \in Seq(Nat \X Byte)
  BY <1>1, <1>4, IsASeq
<1>6. Len(Write(ofs, bytes)) = Len(bytes)
  BY <1>1, <1>4, <1>5, LenProperties
<1> QED
  BY <1>2, <1>5, <1>6

\* s is three blocks, the first and the last of three elements.
Blocks(S, s, x, y, z) ==
    /\ s \in Seq(S) /\ Len(s) = Len(y) + 6
    /\ s[1] = x[1] /\ s[2] = x[2] /\ s[3] = x[3]
    /\ \A j \in 1 .. Len(y) : s[3 + j] = y[j]
    /\ s[Len(y) + 4] = z[1] /\ s[Len(y) + 5] = z[2] /\ s[Len(y) + 6] = z[3]

\* Three blocks written one after the other.
LEMMA ThreeBlocks ==
    ASSUME NEW S, NEW x \in Seq(S), NEW y \in Seq(S), NEW z \in Seq(S), Len(x) = 3, Len(z) = 3,
           NEW s, s = x \o y \o z
    PROVE  Blocks(S, s, x, y, z)
<1> DEFINE w == x \o y
           n == Len(y)
<1>1. n \in Nat
  BY LenProperties
<1>2. w \in Seq(S) /\ Len(w) = 3 + n /\ \A i \in 1 .. 3 + n : w[i] = IF i <= 3 THEN x[i] ELSE y[i - 3]
  <2>1. /\ w \in Seq(S) /\ Len(w) = Len(x) + Len(y)
        /\ \A i \in 1 .. Len(x) + Len(y) : w[i] = IF i <= Len(x) THEN x[i] ELSE y[i - Len(x)]
    BY ConcatProperties, Zenon
  <2> HIDE DEF w, n
  <2> QED
    BY <2>1 DEF n
<1> HIDE DEF w, n
<1>3. s \in Seq(S) /\ Len(s) = 3 + n + 3 /\ \A i \in 1 .. 3 + n + 3 : s[i] = IF i <= 3 + n THEN w[i] ELSE z[i - (3 + n)]
  <2>1. s = w \o z
    BY DEF w
  <2>2. /\ s \in Seq(S) /\ Len(s) = Len(w) + Len(z)
        /\ \A i \in 1 .. Len(w) + Len(z) : s[i] = IF i <= Len(w) THEN w[i] ELSE z[i - Len(w)]
    <3>1. /\ w \o z \in Seq(S) /\ Len(w \o z) = Len(w) + Len(z)
          /\ \A i \in 1 .. Len(w) + Len(z) : (w \o z)[i] = IF i <= Len(w) THEN w[i] ELSE z[i - Len(w)]
      BY <1>2, ConcatProperties, Zenon
    <3> QED
      BY <2>1, <3>1, Zenon
  <2> QED
    BY <1>2, <2>2
<1>4. s[1] = w[1] /\ s[2] = w[2] /\ s[3] = w[3] /\ w[1] = x[1] /\ w[2] = x[2] /\ w[3] = x[3]
  BY <1>1, <1>2, <1>3
<1>5. ASSUME NEW j \in 1 .. n PROVE s[3 + j] = y[j]
  <2>1. 3 + j \in 1 .. 3 + n /\ 3 + j \in 1 .. 3 + n + 3 /\ ~(3 + j <= 3) /\ 3 + j <= 3 + n /\ 3 + j - 3 = j
    BY <1>1
  <2> QED
    BY <2>1, <1>2, <1>3
<1>6. ASSUME NEW j \in 1 .. 3 PROVE s[n + 3 + j] = z[j]
  <2> DEFINE k == n + 3 + j
             m == 3 + n + 3
             r == 3 + n
  <2>1. k \in 1 .. m /\ ~(k <= r) /\ k - r = j
    BY <1>1
  <2>2. \A i \in 1 .. m : s[i] = IF i <= r THEN w[i] ELSE z[i - r]
    BY <1>3
  <2> HIDE DEF k, m, r
  <2>3. s[k] = z[k - r]
    BY <2>1, <2>2, Zenon
  <2>4. s[k] = z[j]
    BY <2>1, <2>3, Zenon
  <2> QED
    BY <2>4 DEF k
<1>7. n + 3 + 1 = n + 4 /\ n + 3 + 2 = n + 5 /\ n + 3 + 3 = n + 6 /\ 1 \in 1 .. 3 /\ 2 \in 1 .. 3 /\ 3 \in 1 .. 3 /\ 3 + n + 3 = n + 6
  BY <1>1
<1>8. s[n + 4] = z[1] /\ s[n + 5] = z[2] /\ s[n + 6] = z[3]
  BY <1>6, <1>7
<1>9. /\ n \in Nat /\ s \in Seq(S) /\ Len(s) = n + 6
      /\ s[1] = x[1] /\ s[2] = x[2] /\ s[3] = x[3]
      /\ \A j \in 1 .. n : s[3 + j] = y[j]
      /\ s[n + 4] = z[1] /\ s[n + 5] = z[2] /\ s[n + 6] = z[3]
  BY <1>1, <1>3, <1>4, <1>5, <1>7, <1>8
<1> QED
  BY <1>9, Zenon DEF n, Blocks

\* The bytes of a sentinel.
LEMMA SentinelBytes == Encode(Sentinel) = <<15, 31, 15>> /\ Sentinel \in Header
<1>1. Sentinel = [key |-> 31, type |-> 7, group |-> 31]
  BY DEF Sentinel, KEY_LOW, TYPE, HIGH
<1>2. Sentinel \in Header
  BY <1>1 DEF Header, KEY_LOW, TYPE, HIGH
<1>3. Encode(Sentinel) = <<31 % 16, 7 * 4 + (31 \div 16) * 2 + (31 % 2), 31 \div 2>>
  BY <1>1 DEF Encode, KEY_LOW
<1>4. 31 % 16 = 15 /\ 7 * 4 + (31 \div 16) * 2 + (31 % 2) = 31 /\ 31 \div 2 = 15
  OBVIOUS
<1> QED
  BY <1>2, <1>3, <1>4

\* Three bytes written from an offset on.
LEMMA WriteThree ==
    ASSUME NEW ofs \in Nat, NEW b \in Seq(Byte), Len(b) = 3
    PROVE  LET z == Write(ofs, b) IN
           /\ z \in Seq(Nat \X Byte) /\ Len(z) = 3
           /\ z[1][1] = ofs /\ z[2][1] = ofs + 1 /\ z[3][1] = ofs + 2
           /\ z[1][2] = b[1] /\ z[2][2] = b[2] /\ z[3][2] = b[3]
<1> DEFINE z == Write(ofs, b)
<1>1. z \in Seq(Nat \X Byte) /\ Len(z) = 3 /\ \A i \in 1 .. 3 : z[i][1] = ofs + i - 1 /\ z[i][2] = b[i]
  BY WriteIs
<1> HIDE DEF z
<1>2. z[1][1] = ofs /\ z[2][1] = ofs + 1 /\ z[3][1] = ofs + 2 /\ z[1][2] = b[1] /\ z[2][2] = b[2] /\ z[3][2] = b[3]
  BY <1>1
<1> QED
  BY <1>1, <1>2 DEF z

\* A sequence of writes inside the parameter areas.
LEMMA Inside ==
    ASSUME NEW s \in Seq(Nat \X Byte), \A i \in 1 .. Len(s) : s[i][1] < Size
    PROVE  s \in Seq(Offset \X Byte)
<1>1. ASSUME NEW i \in 1 .. Len(s) PROVE s[i] \in Offset \X Byte
  <2>1. s[i] \in Nat \X Byte
    BY ElementOfSeq
  <2>2. s[i][1] \in Offset
    BY <1>1, <2>1, Sizes DEF Offset
  <2> QED
    BY <2>1, <2>2
<1>2. Len(s) \in Nat /\ s = [i \in 1 .. Len(s) |-> s[i]]
  BY LenProperties
<1>3. s \in [1 .. Len(s) -> Offset \X Byte]
  BY <1>1, <1>2
<1> QED
  BY <1>2, <1>3, IsASeq

\* The writes of erase_all().
LEMMA EraseIs ==
    /\ Len(EraseWrites) = 4 /\ EraseWrites \in Seq(Offset \X Byte)
    /\ \A i \in 1 .. 4 : EraseWrites[i][1] = i - 1
    /\ EraseWrites[1][2] = 1 /\ EraseWrites[2][2] = 15 /\ EraseWrites[3][2] = 31 /\ EraseWrites[4][2] = 15
<1> DEFINE a == <<MAGIC>>
           b == <<15, 31, 15>>
           x == Write(0, a)
           z == Write(1, b)
<1>1. a \in Seq(Byte) /\ Len(a) = 1 /\ a[1] = 1
  BY DEF Byte, BYTE_MAX, MAGIC
<1>2. b \in Seq(Byte) /\ Len(b) = 3 /\ b[1] = 15 /\ b[2] = 31 /\ b[3] = 15
  BY DEF Byte, BYTE_MAX
<1>3. EraseWrites = x \o z
  BY SentinelBytes DEF EraseWrites
<1> HIDE DEF a, b
<1>4. x \in Seq(Nat \X Byte) /\ Len(x) = 1 /\ x[1][1] = 0 /\ x[1][2] = 1
  <2>1. x \in Seq(Nat \X Byte) /\ Len(x) = Len(a) /\ \A i \in 1 .. Len(a) : x[i][1] = 0 + i - 1 /\ x[i][2] = a[i]
    BY <1>1, WriteIs
  <2> HIDE DEF x
  <2> QED
    BY <1>1, <2>1
<1>5. /\ z \in Seq(Nat \X Byte) /\ Len(z) = 3 /\ z[1][1] = 1 /\ z[2][1] = 2 /\ z[3][1] = 3
      /\ z[1][2] = 15 /\ z[2][2] = 31 /\ z[3][2] = 15
  <2>1. 1 \in Nat /\ 1 + 1 = 2 /\ 1 + 2 = 3
    OBVIOUS
  <2> QED
    BY <1>2, <2>1, WriteThree
<1> HIDE DEF x, z
<1>6. /\ EraseWrites \in Seq(Nat \X Byte) /\ Len(EraseWrites) = 4
      /\ \A i \in 1 .. 4 : EraseWrites[i] = IF i <= 1 THEN x[i] ELSE z[i - 1]
  <2>1. /\ EraseWrites \in Seq(Nat \X Byte) /\ Len(EraseWrites) = Len(x) + Len(z)
        /\ \A i \in 1 .. Len(x) + Len(z) : EraseWrites[i] = IF i <= Len(x) THEN x[i] ELSE z[i - Len(x)]
    BY <1>3, <1>4, <1>5, ConcatProperties, Zenon
  <2> QED
    BY <1>4, <1>5, <2>1
<1>7. EraseWrites[1] = x[1] /\ EraseWrites[2] = z[1] /\ EraseWrites[3] = z[2] /\ EraseWrites[4] = z[3]
  BY <1>6
<1>8. \A i \in 1 .. 4 : EraseWrites[i][1] = i - 1
  BY <1>4, <1>5, <1>7
<1>9. EraseWrites \in Seq(Offset \X Byte)
  <2>1. \A i \in 1 .. Len(EraseWrites) : EraseWrites[i][1] < Size
    BY <1>6, <1>8, Sizes
  <2> QED
    BY <1>6, <2>1, Inside
<1> QED
  BY <1>4, <1>5, <1>6, <1>7, <1>8, <1>9

\* s writes a new entry: the sentinel, the value, the header.
Entry(s, ofs, h, v) ==
    LET n == Len(v) IN
    /\ n \in Nat /\ Len(s) = n + 6 /\ s \in Seq(Nat \X Byte)
    /\ s[1][1] = ofs + 3 + n /\ s[2][1] = ofs + 3 + n + 1 /\ s[3][1] = ofs + 3 + n + 2
    /\ s[1][2] = 15 /\ s[2][2] = 31 /\ s[3][2] = 15
    /\ \A j \in 1 .. n : s[3 + j][1] = ofs + 3 + j - 1 /\ s[3 + j][2] = v[j]
    /\ s[n + 4][1] = ofs /\ s[n + 5][1] = ofs + 1 /\ s[n + 6][1] = ofs + 2
    /\ s[n + 4][2] = Encode(h)[1] /\ s[n + 5][2] = Encode(h)[2] /\ s[n + 6][2] = Encode(h)[3]

\* NewEntry() does.
LEMMA NewIs ==
    ASSUME NEW ofs \in Nat, NEW h \in Header, NEW v \in Seq(Byte)
    PROVE  Entry(NewEntry(ofs, h, v), ofs, h, v)
<1> DEFINE n == Len(v)
           s == NewEntry(ofs, h, v)
           b == <<15, 31, 15>>
           x == Write(ofs + 3 + n, b)
           y == Write(ofs + 3, v)
           z == Write(ofs, Encode(h))
<1>1. n \in Nat /\ b \in Seq(Byte) /\ Len(b) = 3 /\ b[1] = 15 /\ b[2] = 31 /\ b[3] = 15
  BY DEF Byte, BYTE_MAX
<1>2. s = x \o y \o z
  BY SentinelBytes DEF NewEntry, HdrSize
<1> HIDE DEF b
<1>3. /\ x \in Seq(Nat \X Byte) /\ Len(x) = 3
      /\ x[1][1] = ofs + 3 + n /\ x[2][1] = ofs + 3 + n + 1 /\ x[3][1] = ofs + 3 + n + 2
      /\ x[1][2] = 15 /\ x[2][2] = 31 /\ x[3][2] = 15
  <2>1. ofs + 3 + n \in Nat
    BY <1>1
  <2> QED
    BY <1>1, <2>1, WriteThree
<1>4. y \in Seq(Nat \X Byte) /\ Len(y) = n /\ \A j \in 1 .. n : y[j][1] = ofs + 3 + j - 1 /\ y[j][2] = v[j]
  <2>1. ofs + 3 \in Nat
    OBVIOUS
  <2> QED
    BY <2>1, WriteIs
<1>5. /\ z \in Seq(Nat \X Byte) /\ Len(z) = 3
      /\ z[1][1] = ofs /\ z[2][1] = ofs + 1 /\ z[3][1] = ofs + 2
      /\ z[1][2] = Encode(h)[1] /\ z[2][2] = Encode(h)[2] /\ z[3][2] = Encode(h)[3]
  <2>1. Encode(h) \in Seq(Byte) /\ Len(Encode(h)) = 3
    BY EncodeBytes
  <2> QED
    BY <2>1, WriteThree
<1> HIDE DEF x, y, z, s, n
<1>6. n = Len(y)
  BY <1>4
<1>7. /\ s \in Seq(Nat \X Byte) /\ Len(s) = n + 6
      /\ s[1] = x[1] /\ s[2] = x[2] /\ s[3] = x[3]
      /\ \A j \in 1 .. n : s[3 + j] = y[j]
      /\ s[n + 4] = z[1] /\ s[n + 5] = z[2] /\ s[n + 6] = z[3]
  <2> DEFINE T == Nat \X Byte
  <2>1. x \in Seq(T) /\ y \in Seq(T) /\ z \in Seq(T) /\ Len(x) = 3 /\ Len(z) = 3
    BY <1>3, <1>4, <1>5
  <2> HIDE DEF T
  <2>2. Blocks(T, s, x, y, z)
    BY <1>2, <2>1, ThreeBlocks
  <2> QED
    BY <1>6, <2>2, Zenon DEF Blocks, T
<1>8. /\ n \in Nat /\ Len(s) = n + 6 /\ s \in Seq(Nat \X Byte)
      /\ s[1][1] = ofs + 3 + n /\ s[2][1] = ofs + 3 + n + 1 /\ s[3][1] = ofs + 3 + n + 2
      /\ s[1][2] = 15 /\ s[2][2] = 31 /\ s[3][2] = 15
      /\ \A j \in 1 .. n : s[3 + j][1] = ofs + 3 + j - 1 /\ s[3 + j][2] = v[j]
      /\ s[n + 4][1] = ofs /\ s[n + 5][1] = ofs + 1 /\ s[n + 6][1] = ofs + 2
      /\ s[n + 4][2] = Encode(h)[1] /\ s[n + 5][2] = Encode(h)[2] /\ s[n + 6][2] = Encode(h)[3]
  BY <1>1, <1>3, <1>4, <1>5, <1>7
<1> QED
  BY <1>8, Zenon DEF n, s, Entry

\* A new entry with room for it is written inside the parameter areas.
LEMMA NewInside ==
    ASSUME NEW ofs \in Nat, NEW h \in Header, NEW v \in Seq(Byte), ofs + 6 + Len(v) <= Size
    PROVE  NewEntry(ofs, h, v) \in Seq(Offset \X Byte)
<1> DEFINE n == Len(v)
           s == NewEntry(ofs, h, v)
<1>1. ofs + 6 + n <= Size /\ Size \in Nat
  BY Sizes
<1>2. Entry(s, ofs, h, v)
  BY NewIs
<1> HIDE DEF n, s
<1>3. /\ n \in Nat /\ Len(s) = n + 6 /\ s \in Seq(Nat \X Byte)
      /\ s[1][1] = ofs + 3 + n /\ s[2][1] = ofs + 3 + n + 1 /\ s[3][1] = ofs + 3 + n + 2
      /\ \A j \in 1 .. n : s[3 + j][1] = ofs + 3 + j - 1 /\ s[3 + j][2] = v[j]
      /\ s[n + 4][1] = ofs /\ s[n + 5][1] = ofs + 1 /\ s[n + 6][1] = ofs + 2
  BY <1>2 DEF Entry, n
<1>4. ASSUME NEW i \in 1 .. Len(s) PROVE s[i][1] < Size
  <2>1. CASE i \in 4 .. n + 3
    <3>1. i - 3 \in 1 .. n /\ 3 + (i - 3) = i
      BY <1>3, <2>1
    <3>2. s[3 + (i - 3)][1] = ofs + 3 + (i - 3) - 1
      BY <1>3, <3>1
    <3>3. n \in Nat /\ i \in 4 .. n + 3 /\ ofs + 6 + n <= Size /\ Size \in Nat
      BY <1>3, <1>1, <2>1
    <3>4. ofs + 3 + (i - 3) - 1 < Size
      BY <3>3
    <3> QED
      BY <3>1, <3>2, <3>4
  <2>2. CASE i \in {1, 2, 3, n + 4, n + 5, n + 6}
    <3>1. ofs + 3 + n < Size /\ ofs + 3 + n + 1 < Size /\ ofs + 3 + n + 2 < Size /\ ofs < Size /\ ofs + 1 < Size /\ ofs + 2 < Size
      BY <1>3, <1>1
    <3>2. s[i][1] \in {ofs + 3 + n, ofs + 3 + n + 1, ofs + 3 + n + 2, ofs, ofs + 1, ofs + 2}
      BY <1>3, <2>2, Zenon
    <3> QED
      BY <3>1, <3>2
  <2>3. i \in 4 .. n + 3 \/ i \in {1, 2, 3, n + 4, n + 5, n + 6}
    <3>1. i \in 1 .. n + 6 /\ n \in Nat
      BY <1>3
    <3> QED
      BY <3>1
  <2> QED
    BY <2>1, <2>2, <2>3
<1> QED
  BY <1>3, <1>4, Inside DEF s

\* What is left of a call after d of its writes.
LEMMA Dropped ==
    ASSUME NEW S, NEW s \in Seq(S), NEW d \in 0 .. Len(s), NEW t, t = SubSeq(s, d + 1, Len(s))
    PROVE  /\ t \in Seq(S) /\ Len(t) = Len(s) - d /\ (t = <<>> <=> d = Len(s))
           /\ t # <<>> => d < Len(s) /\ Head(t) = s[d + 1] /\ Tail(t) = SubSeq(s, d + 1 + 1, Len(s)) /\ d + 1 \in 0 .. Len(s)
<1>1. Len(s) \in Nat /\ d \in Nat /\ d <= Len(s)
  OBVIOUS
<1>2. t \in Seq(S) /\ Len(t) = Len(s) - d /\ \A i \in 1 .. Len(s) - d : t[i] = s[d + i]
  <2>1. d + 1 \in 1 .. Len(s) + 1 /\ Len(s) \in d + 1 - 1 .. Len(s)
    BY <1>1
  <2>2. \A i \in d + 1 .. Len(s) : s[i] \in S
    BY <1>1, ElementOfSeq
  <2>3. /\ t \in Seq(S) /\ Len(t) = IF d + 1 <= Len(s) THEN Len(s) - (d + 1) + 1 ELSE 0
        /\ \A i \in 1 .. Len(s) - (d + 1) + 1 : t[i] = s[d + 1 + i - 1]
    BY <1>1, <2>2, SubSeqProperties
  <2> DEFINE l == Len(s)
  <2> HIDE DEF l
  <2>4. l - (d + 1) + 1 = l - d /\ (d + 1 <= l \/ d = l) /\ l \in Nat /\ d \in Nat
    BY <1>1 DEF l
  <2>5. Len(t) = l - d
    <3>1. Len(t) = IF d + 1 <= l THEN l - (d + 1) + 1 ELSE 0
      BY <2>3 DEF l
    <3> QED
      BY <2>4, <3>1
  <2>6. ASSUME NEW i \in 1 .. l - d PROVE t[i] = s[d + i]
    <3>1. i \in 1 .. l - (d + 1) + 1 /\ d + 1 + i - 1 = d + i
      BY <2>4
    <3> QED
      BY <2>3, <3>1 DEF l
  <2> QED
    BY <2>3, <2>5, <2>6 DEF l
<1>3. t = <<>> <=> d = Len(s)
  <2>1. t = <<>> <=> Len(t) = 0
    BY <1>2, EmptySeq
  <2> QED
    BY <1>1, <1>2, <2>1
<1>4. ASSUME t # <<>> PROVE d < Len(s) /\ Head(t) = s[d + 1] /\ Tail(t) = SubSeq(s, d + 1 + 1, Len(s)) /\ d + 1 \in 0 .. Len(s)
  <2>1. d < Len(s) /\ d + 1 \in 1 .. Len(s) /\ Len(s) \in d + 1 .. Len(s) /\ d + 1 \in 0 .. Len(s)
    BY <1>1, <1>3, <1>4
  <2> QED
    BY <2>1, HeadTailOfSubSeq
<1> QED
  BY <1>2, <1>3, <1>4

-----------------------------------------------------------------------------
(* The headers that are written.                                           *)

Known(h) == h = format_version \/ \E q \in Param : h = q.header

\* The fields of a parameter.
LEMMA ParamFacts ==
    ASSUME NEW p \in Param
    PROVE  /\ p.header \in Header /\ p.group \in BOOLEAN /\ Known(p.header)
           /\ p.header.type \in {1, 2} /\ p.header.key # 31 /\ p.header.group # 31
           /\ p.group => p.header.group # 30
           /\ Matches(p, p.header) /\ p.header # format_version /\ ~Matches(p, format_version)
           /\ \A q \in Param : p # q => ~Matches(p, q.header)
           /\ p.default \in Seq(Byte) /\ Len(p.default) = p.header.type
           /\ \A v \in p.values : v \in Seq(Byte) /\ Len(v) = p.header.type
           /\ type_size(p.header.type) = p.header.type
<1>1. /\ p.header \in Header /\ p.group \in BOOLEAN /\ p.default \in Seq(Byte) /\ p.values \in SUBSET Seq(Byte)
      /\ ~p.group => p.header.group = 0
  BY ParamAssumption
<1>2. type_size(p.header.type) > 0
  BY TableAssumption
<1>3. p.header.type \in {1, 2} /\ type_size(p.header.type) = p.header.type
  BY <1>2 DEF type_size
<1>4. Sentinel.key = 31 /\ Sentinel.group = 31
  BY DEF Sentinel, KEY_LOW, HIGH
<1>5. p.header.key # 31 /\ (p.group => p.header.group # 30 /\ p.header.group # 31)
  BY <1>4, TableAssumption
<1>6. p.header.group # 31
  BY <1>1, <1>5
<1>7. \A v \in p.values \cup {p.default} : Len(v) = p.header.type
  BY <1>3, TableAssumption
<1>8. Matches(p, p.header)
  BY DEF Matches
<1>9. ~Matches(p, format_version) /\ \A q \in Param : p # q => ~Matches(p, q.header)
  BY TableAssumption
<1> QED
  BY <1>1, <1>3, <1>5, <1>6, <1>7, <1>8, <1>9 DEF Known

\* A known header is not a sentinel.
LEMMA KnownHeader ==
    ASSUME NEW h, Known(h)
    PROVE  h \in Header /\ h.type \in {1, 2} /\ h.key # 31 /\ h.group # 31 /\ type_size(h.type) = h.type
<1>1. CASE h = format_version
  BY <1>1 DEF format_version, Header, KEY_LOW, TYPE, HIGH, type_size
<1>2. CASE \E q \in Param : h = q.header
  BY <1>2, ParamFacts
<1> QED
  BY <1>1, <1>2 DEF Known

\* A header is taken for no other parameter, and neither is one cut in front of its
\* last byte.
LEMMA Foreign ==
    ASSUME NEW h, Known(h), NEW p \in Param, p.header # h,
           NEW x, x.key = h.key, x.type = h.type, x.group = h.group \/ x.group = 30
    PROVE  ~Matches(p, x)
<1>1. ~Matches(p, h)
  BY ParamFacts DEF Known
<1>2. p.group => p.header.group # 30
  BY ParamFacts
<1> QED
  BY <1>1, <1>2 DEF Matches

\* A byte outside of a header does not change it.
LEMMA HeaderSame ==
    ASSUME NEW mem \in [Device -> Byte], NEW new, NEW a \in Nat, NEW b, Wrote(mem, new, a, b),
           NEW o \in Nat, a # o, a # o + 1, a # o + 2
    PROVE  HeaderAt(new, o) = HeaderAt(mem, o)
<1>1. new \in [Device -> Byte] /\ \A q \in Nat : q # a => Read(new, q) = Read(mem, q)
  BY DEF Wrote
<1>2. Read(new, o) = Read(mem, o) /\ Read(new, o + 1) = Read(mem, o + 1) /\ Read(new, o + 2) = Read(mem, o + 2)
  BY <1>1
<1>3. /\ HeaderAt(new, o) = <<Read(new, o), Read(new, o + 1), Read(new, o + 2)>>
      /\ HeaderAt(mem, o) = <<Read(mem, o), Read(mem, o + 1), Read(mem, o + 2)>>
  BY <1>1, HeaderBytes
<1> QED
  BY <1>2, <1>3

\* A byte outside of a block does not change it.
LEMMA BlockSame ==
    ASSUME NEW mem, NEW new, NEW a \in Nat, NEW b, Wrote(mem, new, a, b),
           NEW o \in Nat, NEW n \in Nat, a < o \/ a >= o + n
    PROVE  ReadBlock(new, o, n) = ReadBlock(mem, o, n)
<1>1. \A q \in Nat : q # a => Read(new, q) = Read(mem, q)
  BY DEF Wrote
<1>2. \A i \in 1 .. n : o + i - 1 \in Nat /\ o + i - 1 # a
  OBVIOUS
<1>3. \A i \in 1 .. n : Read(new, o + i - 1) = Read(mem, o + i - 1)
  BY <1>1, <1>2
<1> QED
  BY <1>3 DEF ReadBlock

-----------------------------------------------------------------------------
(* Adding an entry.                                                        *)

\* The entry counts once the byte of its header with the lowest bit of the group element
\* is written, or, when that bit is 1, once the whole header is.
Visible(h, d) == d = h.type + 6 \/ (d = h.type + 5 /\ h.group % 2 = 0)

\* d bytes of the entry are written.
Added(mem, V, ofs, h, v, d) ==
    /\ Known(h) /\ v \in Seq(Byte) /\ Len(v) = h.type /\ d \in 0 .. h.type + 6
    /\ Base(mem, V, ofs) /\ ofs + 6 + h.type <= Size
    /\ h = format_version => ofs = 1
    /\ \A o \in V : o # ofs => Dec(mem, o) # h
    /\ \A j \in 1 .. d : Read(mem, NewEntry(ofs, h, v)[j][1]) = NewEntry(ofs, h, v)[j][2]
    /\ d < h.type + 6 => Read(mem, ofs + 2) = 15
    /\ ~Visible(h, d) => OpenAt(mem, ofs)

\* The places of the bytes of a new entry are different.
LEMMA NewDistinct ==
    ASSUME NEW ofs \in Nat, NEW h \in Header, NEW v \in Seq(Byte), Len(v) \in {1, 2},
           NEW i \in 1 .. Len(v) + 6, NEW j \in 1 .. Len(v) + 6, i # j
    PROVE  /\ NewEntry(ofs, h, v)[i][1] # NewEntry(ofs, h, v)[j][1]
           /\ NewEntry(ofs, h, v)[i][1] \in Nat /\ NewEntry(ofs, h, v)[i][1] >= ofs
<1> DEFINE n == Len(v)
           s == NewEntry(ofs, h, v)
           A(k) == IF k <= 3 THEN ofs + 2 + n + k ELSE IF k <= n + 3 THEN ofs - 1 + k ELSE ofs + k - (n + 4)
<1>1. Entry(s, ofs, h, v)
  BY NewIs
<1>2. n \in {1, 2} /\ i \in 1 .. n + 6 /\ j \in 1 .. n + 6
  OBVIOUS
<1> HIDE DEF n, s
<1>3. /\ s[1][1] = ofs + 3 + n /\ s[2][1] = ofs + 3 + n + 1 /\ s[3][1] = ofs + 3 + n + 2
      /\ \A k \in 1 .. n : s[3 + k][1] = ofs + 3 + k - 1
      /\ s[n + 4][1] = ofs /\ s[n + 5][1] = ofs + 1 /\ s[n + 6][1] = ofs + 2
  BY <1>1 DEF Entry, n
<1>4. ASSUME NEW k \in 1 .. n + 6 PROVE s[k][1] = A(k)
  <2>1. CASE k \in 4 .. n + 3
    <3>1. k - 3 \in 1 .. n /\ 3 + (k - 3) = k
      BY <1>2, <2>1
    <3>2. s[3 + (k - 3)][1] = ofs + 3 + (k - 3) - 1
      BY <1>3, <3>1
    <3>3. ofs + 3 + (k - 3) - 1 = ofs - 1 + k /\ ~(k <= 3) /\ k <= n + 3
      BY <2>1, <1>2
    <3> QED
      BY <3>1, <3>2, <3>3
  <2>2. CASE k \in {1, 2, 3}
    <3>1. A(k) = ofs + 2 + n + k
      BY <2>2
    <3>2. ofs + 2 + n + 1 = ofs + 3 + n /\ ofs + 2 + n + 2 = ofs + 3 + n + 1 /\ ofs + 2 + n + 3 = ofs + 3 + n + 2
      BY <1>2
    <3> QED
      BY <1>3, <2>2, <3>1, <3>2, Zenon
  <2>3. CASE k \in {n + 4, n + 5, n + 6}
    <3>1. ~(k <= 3) /\ ~(k <= n + 3)
      BY <1>2, <2>3
    <3>2. A(k) = ofs + k - (n + 4)
      BY <3>1, Zenon
    <3>3. CASE k = n + 4
      BY <1>3, <1>2, <3>2, <3>3
    <3>4. CASE k = n + 5
      BY <1>3, <1>2, <3>2, <3>4
    <3>5. CASE k = n + 6
      BY <1>3, <1>2, <3>2, <3>5
    <3> QED
      BY <2>3, <3>3, <3>4, <3>5
  <2>4. k \in 4 .. n + 3 \/ k \in {1, 2, 3} \/ k \in {n + 4, n + 5, n + 6}
    BY <1>2
  <2> QED
    BY <2>1, <2>2, <2>3, <2>4
<1>5. A(i) # A(j) /\ A(i) \in Nat /\ A(i) >= ofs
  <2>1. CASE n = 1
    BY <1>2, <2>1
  <2>2. CASE n = 2
    BY <1>2, <2>2
  <2> QED
    BY <1>2, <2>1, <2>2
<1>6. s[i][1] = A(i) /\ s[j][1] = A(j)
  BY <1>2, <1>4
<1> HIDE DEF A
<1> QED
  BY <1>5, <1>6, Zenon DEF s
\* The lowest bit of the group element is that of the second byte.
LEMMA EncodeLow ==
    ASSUME NEW h \in Header
    PROVE  Encode(h)[2] % 2 = h.group % 2 /\ h.group % 2 \in 0 .. 1
<1> DEFINE k == h.key  t == h.type  g == h.group  y == Encode(h)[2]
<1>1. k \in 0 .. 31 /\ t \in 0 .. 7 /\ g \in 0 .. 31
  BY DEF Header, KEY_LOW, TYPE, HIGH
<1>2. y = t * 4 + (k \div 16) * 2 + (g % 2)
  BY EncodeBytes
<1> HIDE DEF k, t, g, y
<1>3. PICK a \in 0 .. 1, b \in 0 .. 1 : a = k \div 16 /\ b = g % 2
  BY <1>1
<1>4. y = 2 * (2 * t + a) + b /\ 2 * t + a \in Nat
  BY <1>1, <1>2, <1>3
<1>5. y % 2 = b
  BY <1>4
<1> QED
  BY <1>3, <1>5 DEF g, y

\* Nothing is changed in front of ofs.
SameBelow(mem, new, V, ofs) ==
    /\ \A o \in V : o # ofs => HeaderAt(new, o) = HeaderAt(mem, o)
    /\ \A o \in Nat : o < ofs => Read(new, o) = Read(mem, o)

\* Another byte of the entry is written.
LEMMA AddedStep ==
    ASSUME NEW mem \in [Device -> Byte], NEW new, NEW V, NEW ofs, NEW h, NEW v, NEW d,
           Added(mem, V, ofs, h, v, d), d < h.type + 6,
           Wrote(mem, new, NewEntry(ofs, h, v)[d + 1][1], NewEntry(ofs, h, v)[d + 1][2])
    PROVE  Added(new, V, ofs, h, v, d + 1) /\ SameBelow(mem, new, V, ofs)
<1> DEFINE n == h.type
           s == NewEntry(ofs, h, v)
           a == s[d + 1][1]
<1>1. h \in Header /\ n \in {1, 2} /\ v \in Seq(Byte) /\ Len(v) = n /\ d \in 0 .. n + 6 /\ d < n + 6
  BY KnownHeader DEF Added
<1>2. ofs \in Nat /\ \A o \in V : o \in Nat /\ (o # ofs => o + 3 < ofs)
  BY BaseFacts DEF Added
<1>3. ASSUME NEW j \in 1 .. d PROVE s[j][1] # a /\ s[j][1] \in Nat
  <2>1. j \in 1 .. Len(v) + 6 /\ d + 1 \in 1 .. Len(v) + 6 /\ j # d + 1 /\ Len(v) \in {1, 2}
    BY <1>1
  <2> QED
    BY <1>1, <1>2, <2>1, NewDistinct
<1>4. a \in Nat /\ a >= ofs
  <2>1. \E j \in 1 .. Len(v) + 6 : d + 1 # j /\ d + 1 \in 1 .. Len(v) + 6 /\ Len(v) \in {1, 2}
    <3>1. CASE d = 0
      BY <1>1, <3>1
    <3>2. CASE d # 0
      BY <1>1, <3>2
    <3> QED
      BY <3>1, <3>2
  <2> QED
    BY <1>1, <1>2, <2>1, NewDistinct
<1>5. Entry(s, ofs, h, v)
  BY <1>1, <1>2, NewIs
<1>6. Wrote(mem, new, a, s[d + 1][2])
  OBVIOUS
<1>7. \A j \in 1 .. d : Read(mem, s[j][1]) = s[j][2]
  BY DEF Added
<1> HIDE DEF s, n
<1>8. s[n + 4][1] = ofs /\ s[n + 5][1] = ofs + 1 /\ s[n + 6][1] = ofs + 2 /\ s[n + 5][2] = Encode(h)[2]
  BY <1>1, <1>5 DEF Entry
<1>9. \A o \in Nat : o # a => Read(new, o) = Read(mem, o)
  BY <1>6 DEF Wrote
<1>10. \A j \in 1 .. d + 1 : Read(new, s[j][1]) = s[j][2]
  <2>1. Read(new, a) = s[d + 1][2]
    BY <1>6 DEF Wrote
  <2>2. ASSUME NEW j \in 1 .. d PROVE Read(new, s[j][1]) = s[j][2]
    BY <1>3, <1>7, <1>9
  <2>3. \A j \in 1 .. d + 1 : j = d + 1 \/ j \in 1 .. d
    BY <1>1
  <2> QED
    BY <2>1, <2>2, <2>3
<1>11. \A o \in Nat : o < ofs => Read(new, o) = Read(mem, o)
  BY <1>2, <1>4, <1>9
<1>12. \A o \in V : o # ofs => HeaderAt(new, o) = HeaderAt(mem, o)
  <2> SUFFICES ASSUME NEW o \in V, o # ofs PROVE HeaderAt(new, o) = HeaderAt(mem, o)
    OBVIOUS
  <2>1. o \in Nat /\ a # o /\ a # o + 1 /\ a # o + 2
    BY <1>2, <1>4
  <2> QED
    BY <1>4, <1>6, <2>1, HeaderSame
<1>13. Base(new, V, ofs) /\ \A o \in V : o # ofs => Dec(new, o) # h
  <2>1. Base(mem, V, ofs) /\ \A o \in V : o # ofs => Dec(mem, o) # h
    BY DEF Added
  <2>2. Base(new, V, ofs)
    BY <1>12, <2>1, BaseKept, Zenon
  <2>3. \A o \in V : o # ofs => Dec(new, o) = Dec(mem, o)
    BY <1>12 DEF Dec
  <2> QED
    BY <2>1, <2>2, <2>3
<1>14. ASSUME d + 1 < n + 6 PROVE Read(new, ofs + 2) = 15
  <2>1. a # ofs + 2
    <3>1. d + 1 \in 1 .. Len(v) + 6 /\ n + 6 \in 1 .. Len(v) + 6 /\ d + 1 # n + 6 /\ Len(v) \in {1, 2}
      BY <1>1, <1>14
    <3> QED
      BY <1>1, <1>2, <1>8, <3>1, NewDistinct DEF s
  <2>2. Read(mem, ofs + 2) = 15
    BY <1>1 DEF Added, n
  <2> QED
    BY <1>2, <1>9, <2>1, <2>2
<1>15. ASSUME ~Visible(h, d + 1) PROVE OpenAt(new, ofs)
  <2>1. d + 1 < n + 6 /\ (d + 1 = n + 5 => h.group % 2 # 0)
    BY <1>1, <1>15 DEF Visible, n
  <2>2. Read(new, ofs + 2) = 15
    BY <1>14, <2>1
  <2>3. CASE d + 1 = n + 5
    <3>1. Read(new, ofs + 1) = Encode(h)[2]
      <4>1. n + 5 \in 1 .. d + 1
        BY <1>1, <2>3
      <4> QED
        BY <1>8, <1>10, <4>1
    <3>2. Encode(h)[2] % 2 = h.group % 2 /\ h.group % 2 \in 0 .. 1
      BY <1>1, EncodeLow
    <3> QED
      BY <2>1, <2>2, <2>3, <3>1, <3>2 DEF OpenAt
  <2>4. CASE d + 1 # n + 5
    <3>1. ~Visible(h, d)
      BY <1>1, <2>1, <2>4 DEF Visible, n
    <3>2. OpenAt(mem, ofs)
      BY <3>1 DEF Added
    <3>3. a # ofs + 1
      <4>1. d + 1 \in 1 .. Len(v) + 6 /\ n + 5 \in 1 .. Len(v) + 6 /\ d + 1 # n + 5 /\ Len(v) \in {1, 2}
        BY <1>1, <2>4
      <4> QED
        BY <1>1, <1>2, <1>8, <4>1, NewDistinct DEF s
    <3> QED
      BY <1>2, <1>9, <2>2, <3>2, <3>3 DEF OpenAt
  <2> QED
    BY <2>3, <2>4
<1>16. d + 1 \in 0 .. n + 6
  BY <1>1
<1> QED
  BY <1>10, <1>11, <1>12, <1>13, <1>14, <1>15, <1>16 DEF Added, SameBelow, s, n

\* The header of an entry that counts.
LEMMA AddedHeader ==
    ASSUME NEW mem \in [Device -> Byte], NEW V, NEW ofs, NEW h, NEW v, NEW d,
           Added(mem, V, ofs, h, v, d), Visible(h, d)
    PROVE  /\ Dec(mem, ofs).key = h.key /\ Dec(mem, ofs).type = h.type
           /\ Dec(mem, ofs).group = h.group \/ Dec(mem, ofs).group = 30
           /\ d = h.type + 6 => Dec(mem, ofs) = h
           /\ d # h.type + 6 => Dec(mem, ofs).group = 30
           /\ ~is_sentinal(HeaderAt(mem, ofs)) /\ OpenAt(mem, ofs + 3 + h.type)
           /\ ReadBlock(mem, ofs + 3, h.type) = v
<1> DEFINE n == h.type
           s == NewEntry(ofs, h, v)
<1>1. /\ h \in Header /\ n \in {1, 2} /\ v \in Seq(Byte) /\ Len(v) = n /\ d \in {n + 5, n + 6}
      /\ h.key # 31 /\ h.group # 31 /\ (d = n + 5 => h.group % 2 = 0)
  BY KnownHeader DEF Added, Visible
<1>2. ofs \in Nat
  BY BaseFacts DEF Added
<1>3. Entry(s, ofs, h, v)
  BY <1>1, <1>2, NewIs
<1>4. (\A j \in 1 .. d : Read(mem, s[j][1]) = s[j][2]) /\ (d # n + 6 => Read(mem, ofs + 2) = 15)
  BY <1>1 DEF Added
<1> HIDE DEF s, n
<1>5. /\ s[1][1] = ofs + 3 + n /\ s[2][1] = ofs + 3 + n + 1 /\ s[3][1] = ofs + 3 + n + 2
      /\ s[1][2] = 15 /\ s[2][2] = 31 /\ s[3][2] = 15
      /\ \A j \in 1 .. n : s[3 + j][1] = ofs + 3 + j - 1 /\ s[3 + j][2] = v[j]
      /\ s[n + 4][1] = ofs /\ s[n + 5][1] = ofs + 1 /\ s[n + 6][1] = ofs + 2
      /\ s[n + 4][2] = Encode(h)[1] /\ s[n + 5][2] = Encode(h)[2] /\ s[n + 6][2] = Encode(h)[3]
  BY <1>1, <1>3 DEF Entry
<1>6. /\ 2 \in 1 .. d /\ 3 \in 1 .. d /\ n + 4 \in 1 .. d /\ n + 5 \in 1 .. d /\ (d = n + 6 => n + 6 \in 1 .. d)
      /\ \A j \in 1 .. n : 3 + j \in 1 .. d
  BY <1>1
<1>7. /\ Read(mem, ofs) = Encode(h)[1] /\ Read(mem, ofs + 1) = Encode(h)[2]
      /\ (d = n + 6 => Read(mem, ofs + 2) = Encode(h)[3])
  BY <1>4, <1>5, <1>6
<1>8. /\ Dec(mem, ofs).key = h.key /\ Dec(mem, ofs).type = h.type
      /\ d = n + 6 => Dec(mem, ofs) = h
      /\ Read(mem, ofs + 2) = 15 => Dec(mem, ofs).group = 30 + (h.group % 2)
  BY <1>1, <1>2, <1>7, DecodeEncode
<1>9. d # n + 6 => Dec(mem, ofs).group = 30
  BY <1>1, <1>4, <1>8
<1>10. Dec(mem, ofs).group = h.group \/ Dec(mem, ofs).group = 30
  BY <1>8, <1>9
<1>11. ~is_sentinal(HeaderAt(mem, ofs))
  <2>1. Dec(mem, ofs).type \in {1, 2} /\ Dec(mem, ofs).key # 31 /\ Dec(mem, ofs).group # 31
    BY <1>1, <1>8, <1>10 DEF n
  <2> QED
    BY <1>2, <2>1, EntryIs
<1>12. OpenAt(mem, ofs + 3 + n)
  <2>1. Read(mem, ofs + 3 + n + 1) = 31 /\ Read(mem, ofs + 3 + n + 2) = 15
    BY <1>4, <1>5, <1>6
  <2> QED
    BY <2>1 DEF OpenAt
<1>13. ReadBlock(mem, ofs + 3, n) = v
  <2>1. \A j \in 1 .. n : Read(mem, ofs + 3 + j - 1) = v[j]
    BY <1>4, <1>5, <1>6
  <2>2. ReadBlock(mem, ofs + 3, n) = [j \in 1 .. n |-> v[j]]
    BY <2>1 DEF ReadBlock
  <2>3. v = [j \in 1 .. n |-> v[j]]
    BY <1>1
  <2> QED
    BY <2>2, <2>3
<1> QED
  BY <1>8, <1>9, <1>10, <1>11, <1>12, <1>13 DEF n
\* Whatever is written of the entry, there is a list.
LEMMA AddedListed ==
    ASSUME NEW mem \in [Device -> Byte], NEW V, NEW ofs, NEW h, NEW v, NEW d, Added(mem, V, ofs, h, v, d)
    PROVE  /\ ~Visible(h, d) => Listed(mem, V, ofs)
           /\ Visible(h, d) => Listed(mem, V \cup {ofs + 3 + h.type}, ofs + 3 + h.type)
<1>1. Known(h) /\ h.type \in {1, 2} /\ Base(mem, V, ofs) /\ ofs + 6 + h.type <= Size
  BY KnownHeader DEF Added
<1>2. ofs \in Nat /\ Size \in Nat
  BY <1>1, BaseFacts, Sizes
<1>3. CASE ~Visible(h, d)
  <2>1. OpenAt(mem, ofs)
    BY <1>3 DEF Added
  <2>2. ofs + HdrSize <= Size
    BY <1>1, <1>2 DEF HdrSize
  <2> QED
    BY <1>1, <1>3, <2>1, <2>2 DEF Listed
<1>4. CASE Visible(h, d)
  <2> DEFINE c == ofs + 3 + h.type
  <2>1. /\ Dec(mem, ofs).key = h.key /\ Dec(mem, ofs).type = h.type
        /\ Dec(mem, ofs).group = h.group \/ Dec(mem, ofs).group = 30
        /\ d = h.type + 6 => Dec(mem, ofs) = h
        /\ d # h.type + 6 => Dec(mem, ofs).group = 30
        /\ ~is_sentinal(HeaderAt(mem, ofs)) /\ OpenAt(mem, c)
    BY <1>4, AddedHeader
  <2>2. c + HdrSize <= Size
    BY <1>1, <1>2 DEF HdrSize
  <2>3. ofs # 1 => Dec(mem, ofs) # format_version
    <3>1. h # format_version \/ ofs = 1
      BY DEF Added
    <3>2. format_version.group # 30
      BY DEF format_version
    <3> QED
      BY <2>1, <3>1, <3>2
  <2>4. ASSUME NEW p \in Param, NEW o \in V, o # ofs, Dec(mem, o) = p.header
        PROVE  ~Matches(p, Dec(mem, ofs))
    <3>1. p.header # h
      BY <2>4 DEF Added
    <3> QED
      BY <1>1, <2>1, <3>1, Foreign
  <2> HIDE DEF c
  <2>5. c = ofs + 3 + h.type
    BY DEF c
  <2>6. Listed(mem, V \cup {c}, c)
    BY <1>1, <2>1, <2>2, <2>3, <2>4, <2>5, Extend
  <2> QED
    BY <1>4, <2>6 DEF c
<1> QED
  BY <1>3, <1>4

\* load_all() takes an entry that counts for the parameter it is saved for only.
LEMMA AddedOwn ==
    ASSUME NEW mem \in [Device -> Byte], NEW V, NEW ofs, NEW h, NEW v, NEW d, Added(mem, V, ofs, h, v, d),
           NEW p \in Param, Visible(h, d), Matches(p, Dec(mem, ofs))
    PROVE  p.header = h
<1>1. Known(h)
  BY DEF Added
<1>2. /\ Dec(mem, ofs).key = h.key /\ Dec(mem, ofs).type = h.type
      /\ Dec(mem, ofs).group = h.group \/ Dec(mem, ofs).group = 30
  BY AddedHeader
<1> QED
  BY <1>1, <1>2, Foreign

\* The entries in front of the new one that are p's.
Old(mem, V, ofs, p) == {o \in V : o # ofs /\ Matches(p, Dec(mem, o))}

\* The entries that are p's, with the new one once it counts.
LEMMA AddedMine ==
    ASSUME NEW mem \in [Device -> Byte], NEW V, NEW ofs, NEW h, NEW v, NEW d, Added(mem, V, ofs, h, v, d),
           NEW p \in Param
    PROVE  \E W, e : /\ IsList(mem, W, e)
                     /\ Visible(h, d) /\ Matches(p, Dec(mem, ofs)) =>
                            Mine(mem, W, p) = Old(mem, V, ofs, p) \cup {ofs}
                     /\ ~(Visible(h, d) /\ Matches(p, Dec(mem, ofs))) =>
                            Mine(mem, W, p) = Old(mem, V, ofs, p)
<1>1. Base(mem, V, ofs) /\ ofs \in V
  BY DEF Added, Base
<1>2. \A o \in V : o # ofs => ~is_sentinal(HeaderAt(mem, o))
  BY <1>1 DEF Base
<1>3. CASE ~Visible(h, d)
  <2>1. Listed(mem, V, ofs)
    BY <1>3, AddedListed
  <2>2. IsList(mem, V, ofs) /\ is_sentinal(HeaderAt(mem, ofs))
    BY <2>1, ListedIs DEF IsList
  <2>3. Mine(mem, V, p) = Old(mem, V, ofs, p)
    BY <1>2, <2>2 DEF Mine, Old
  <2> QED
    BY <1>3, <2>2, <2>3
<1>4. CASE Visible(h, d)
  <2> DEFINE c == ofs + 3 + h.type
             W == V \cup {c}
  <2>1. Listed(mem, W, c)
    BY <1>4, AddedListed
  <2>2. IsList(mem, W, c) /\ is_sentinal(HeaderAt(mem, c))
    BY <2>1, ListedIs DEF IsList
  <2>3. ~is_sentinal(HeaderAt(mem, ofs))
    BY <1>4, AddedHeader
  <2> HIDE DEF c
  <2>4. CASE Matches(p, Dec(mem, ofs))
    <3>1. Mine(mem, W, p) = Old(mem, V, ofs, p) \cup {ofs}
      BY <1>1, <1>2, <2>2, <2>3, <2>4 DEF Mine, Old
    <3> QED
      BY <1>4, <2>2, <2>4, <3>1
  <2>5. CASE ~Matches(p, Dec(mem, ofs))
    <3>1. Mine(mem, W, p) = Old(mem, V, ofs, p)
      BY <1>1, <1>2, <2>2, <2>5 DEF Mine, Old
    <3> QED
      BY <2>2, <2>5, <3>1
  <2> QED
    BY <2>4, <2>5
<1> QED
  BY <1>3, <1>4

\* load_all() gives p the value of an entry that counts as p's.
LEMMA AddedShown ==
    ASSUME NEW mem \in [Device -> Byte], NEW V, NEW ofs, NEW h, NEW v, NEW d, Added(mem, V, ofs, h, v, d),
           NEW p \in Param, Visible(h, d), Matches(p, Dec(mem, ofs))
    PROVE  p.header = h /\ Loaded(mem, p) = v
<1>1. p.header = h
  BY AddedOwn
<1>2. PICK W, e : IsList(mem, W, e) /\ Mine(mem, W, p) = Old(mem, V, ofs, p) \cup {ofs}
  BY AddedMine
<1>3. ofs \in Nat /\ \A q \in V : q \in Nat /\ q <= ofs
  BY BaseFacts DEF Added
<1>4. ofs \in Mine(mem, W, p) /\ \A q \in Mine(mem, W, p) : q <= ofs
  BY <1>2, <1>3 DEF Old
<1>5. Loaded(mem, p) = ReadBlock(mem, ofs + HdrSize, type_size(p.header.type))
  BY <1>2, <1>4, LoadedIs
<1>6. ReadBlock(mem, ofs + 3, h.type) = v
  BY AddedHeader
<1>7. type_size(p.header.type) = h.type
  BY <1>1, ParamFacts
<1> QED
  BY <1>1, <1>5, <1>6, <1>7 DEF HdrSize

\* An entry that is complete is loaded.
LEMMA AddedHas ==
    ASSUME NEW mem \in [Device -> Byte], NEW V, NEW ofs, NEW h, NEW v, NEW d, Added(mem, V, ofs, h, v, d),
           NEW p \in Param, p.header = h, d = h.type + 6
    PROVE  Loaded(mem, p) = v
<1>1. Visible(h, d)
  BY DEF Visible
<1>2. Dec(mem, ofs) = h
  BY <1>1, AddedHeader
<1>3. Matches(p, Dec(mem, ofs))
  BY <1>2, ParamFacts
<1> QED
  BY <1>1, <1>3, AddedShown

\* A byte of the entry changes what load_all() gives to the parameter it is saved for
\* only, and to the new value.
LEMMA AddedLoads ==
    ASSUME NEW mem \in [Device -> Byte], NEW new \in [Device -> Byte], NEW V, NEW ofs, NEW h, NEW v, NEW d,
           Added(mem, V, ofs, h, v, d), d < h.type + 6,
           Wrote(mem, new, NewEntry(ofs, h, v)[d + 1][1], NewEntry(ofs, h, v)[d + 1][2]),
           NEW p \in Param
    PROVE  Loaded(new, p) = Loaded(mem, p) \/ (p.header = h /\ Loaded(new, p) = v)
<1>1. Added(new, V, ofs, h, v, d + 1) /\ SameBelow(mem, new, V, ofs)
  BY AddedStep
<1>2. CASE Visible(h, d + 1) /\ Matches(p, Dec(new, ofs))
  BY <1>1, <1>2, AddedShown
<1>3. CASE ~(Visible(h, d + 1) /\ Matches(p, Dec(new, ofs)))
  <2>1. ~(Visible(h, d) /\ Matches(p, Dec(mem, ofs)))
    <3> SUFFICES ASSUME Visible(h, d), Matches(p, Dec(mem, ofs)) PROVE FALSE
      OBVIOUS
    <3>1. p.header = h
      BY AddedOwn
    <3>2. d + 1 = h.type + 6
      <4>1. d \in 0 .. h.type + 6 /\ h.type \in {1, 2}
        BY KnownHeader DEF Added
      <4> QED
        BY <4>1 DEF Visible
    <3>3. Visible(h, d + 1)
      BY <3>2 DEF Visible
    <3>4. Dec(new, ofs) = h
      BY <1>1, <3>2, <3>3, AddedHeader
    <3> QED
      BY <1>3, <3>1, <3>3, <3>4, ParamFacts
  <2>2. PICK W, e : IsList(mem, W, e) /\ Mine(mem, W, p) = Old(mem, V, ofs, p)
    BY <2>1, AddedMine
  <2>3. PICK X, c : IsList(new, X, c) /\ Mine(new, X, p) = Old(new, V, ofs, p)
    BY <1>1, <1>3, AddedMine
  <2>4. Old(new, V, ofs, p) = Old(mem, V, ofs, p)
    BY <1>1 DEF Old, Dec, SameBelow
  <2>5. ASSUME NEW o \in Old(mem, V, ofs, p)
        PROVE  ReadBlock(new, o + HdrSize, type_size(p.header.type)) = ReadBlock(mem, o + HdrSize, type_size(p.header.type))
    <3> DEFINE n == p.header.type
    <3>1. n \in {1, 2} /\ type_size(n) = n
      BY ParamFacts
    <3>2. o \in V /\ o # ofs /\ Dec(mem, o).type = n
      BY DEF Old, Matches
    <3>3. o \in Nat /\ ofs \in Nat /\ o + 3 + n <= ofs
      <4>1. o \in Nat /\ ofs \in Nat /\ o + Step(mem, o) <= ofs /\ Step(mem, o) = 3 + n
        BY <3>2, BaseFacts DEF Added
      <4> QED
        BY <3>1, <4>1
    <3> HIDE DEF n
    <3>4. \A i \in 1 .. n : o + 3 + i - 1 \in Nat /\ o + 3 + i - 1 < ofs
      BY <3>1, <3>3
    <3>5. \A i \in 1 .. n : Read(new, o + 3 + i - 1) = Read(mem, o + 3 + i - 1)
      BY <1>1, <3>4 DEF SameBelow
    <3>6. ReadBlock(new, o + 3, n) = ReadBlock(mem, o + 3, n)
      BY <3>5 DEF ReadBlock
    <3> QED
      BY <3>1, <3>6 DEF HdrSize, n
  <2>6. Loaded(new, p) = Loaded(mem, p)
    BY <2>2, <2>3, <2>4, <2>5, LoadedKept
  <2> QED
    BY <2>6
<1> QED
  BY <1>2, <1>3

\* The format version is at the beginning: no other entry is added there.
LEMMA AddedVersion ==
    ASSUME NEW mem \in [Device -> Byte], NEW V, NEW ofs, NEW h, NEW v, NEW d, Added(mem, V, ofs, h, v, d),
           HasVersion(mem)
    PROVE  /\ h # format_version => ofs > 4 /\ 1 \in V /\ 1 # ofs
           /\ h = format_version => d = h.type + 6
<1>1. ofs \in Nat /\ 1 \in V /\ (1 # ofs => 1 + 3 < ofs)
  <2>1. Base(mem, V, ofs)
    BY DEF Added
  <2> QED
    BY <2>1, BaseFacts DEF Base
<1>2. ASSUME ofs = 1 PROVE h = format_version /\ d = h.type + 6
  <2>1. Visible(h, d)
    <3>1. ~Visible(h, d) => OpenAt(mem, 1)
      BY <1>2 DEF Added
    <3> QED
      BY <3>1, OpenIs DEF HasVersion
  <2>2. /\ d = h.type + 6 => Dec(mem, 1) = h
        /\ d # h.type + 6 => Dec(mem, 1).group = 30
    BY <1>2, <2>1, AddedHeader
  <2>3. Dec(mem, 1) = format_version /\ format_version.group # 30
    BY DEF HasVersion, format_version
  <2> QED
    BY <2>2, <2>3
<1>3. h = format_version => ofs = 1
  BY DEF Added
<1> QED
  BY <1>1, <1>2, <1>3
-----------------------------------------------------------------------------
(* Overwriting a value.                                                    *)

\* d bytes of v are written over the value old of the entry o of p.
Overwritten(mem, V, e, o, p, v, old, d) ==
    /\ p \in Param /\ v \in Seq(Byte) /\ Len(v) = p.header.type /\ d \in 0 .. p.header.type
    /\ Listed(mem, V, e) /\ o \in V /\ o # e /\ Dec(mem, o) = p.header
    /\ old \in Seq(Byte) /\ Len(old) = p.header.type
    /\ \A j \in 1 .. p.header.type : Read(mem, o + 3 + j - 1) = IF j <= d THEN v[j] ELSE old[j]

\* The value that load_all() gives to a parameter that has an entry.
LEMMA OwnValue ==
    ASSUME NEW mem \in [Device -> Byte], NEW V, NEW e, Listed(mem, V, e), HasVersion(mem), NEW p \in Param,
           NEW o \in V, o # e, Dec(mem, o) = p.header
    PROVE  Loaded(mem, p) = ReadBlock(mem, o + 3, p.header.type)
<1>1. IsList(mem, V, e) /\ is_sentinal(HeaderAt(mem, e)) /\ Base(mem, V, e)
  BY ListedIs DEF IsList, Listed
<1>2. \A q \in V : q \in Nat
  BY <1>1, BaseFacts
<1>3. o \in Mine(mem, V, p)
  BY <1>1, ParamFacts DEF Mine, Base
<1>4. ASSUME NEW q \in Mine(mem, V, p) PROVE q <= o
  <2>1. q \in V /\ q # e /\ Matches(p, Dec(mem, q))
    BY <1>1 DEF Mine
  <2>2. ~(o < q)
    BY <1>1, <2>1 DEF Base
  <2> QED
    BY <1>2, <2>1, <2>2
<1>5. Loaded(mem, p) = ReadBlock(mem, o + HdrSize, type_size(p.header.type))
  BY <1>1, <1>3, <1>4, LoadedIs
<1> QED
  BY <1>5, ParamFacts DEF HdrSize

\* A value of which the first k bytes are new.
LEMMA MixIs ==
    ASSUME NEW n \in Nat, NEW old \in Seq(Byte), NEW v \in Seq(Byte), Len(old) = n, Len(v) = n, NEW k \in 0 .. n
    PROVE  [j \in 1 .. n |-> IF j <= k THEN v[j] ELSE old[j]] \in Mixes(old, v)
<1> DEFINE x == SubSeq(v, 1, k)
           y == SubSeq(old, k + 1, Len(old))
           f == [j \in 1 .. n |-> IF j <= k THEN v[j] ELSE old[j]]
<1>1. x \in Seq(Byte) /\ Len(x) = k /\ \A j \in 1 .. k : x[j] = v[j]
  <2>1. \A i \in 1 .. k : v[i] \in Byte
    BY ElementOfSeq
  <2>2. /\ x \in Seq(Byte) /\ Len(x) = IF 1 <= k THEN k - 1 + 1 ELSE 0
        /\ \A i \in 1 .. k - 1 + 1 : x[i] = v[1 + i - 1]
    BY <2>1, SubSeqProperties
  <2> HIDE DEF x
  <2> QED
    BY <2>2
<1>2. y \in Seq(Byte) /\ Len(y) = n - k /\ \A j \in 1 .. n - k : y[j] = old[k + j]
  <2>1. \A i \in k + 1 .. n : old[i] \in Byte
    BY ElementOfSeq
  <2>2. /\ y \in Seq(Byte) /\ Len(y) = IF k + 1 <= n THEN n - (k + 1) + 1 ELSE 0
        /\ \A i \in 1 .. n - (k + 1) + 1 : y[i] = old[k + 1 + i - 1]
    BY <2>1, SubSeqProperties
  <2> HIDE DEF y
  <2>3. n - (k + 1) + 1 = n - k /\ (k + 1 <= n \/ n - k = 0)
    OBVIOUS
  <2>4. ASSUME NEW j \in 1 .. n - k PROVE y[j] = old[k + j]
    <3>1. j \in 1 .. n - (k + 1) + 1 /\ k + 1 + j - 1 = k + j
      BY <2>3
    <3> QED
      BY <2>2, <3>1
  <2> QED
    BY <2>2, <2>3, <2>4
<1> HIDE DEF x, y
<1>3. /\ x \o y \in Seq(Byte) /\ Len(x \o y) = Len(x) + Len(y)
      /\ \A i \in 1 .. Len(x) + Len(y) : (x \o y)[i] = IF i <= Len(x) THEN x[i] ELSE y[i - Len(x)]
  BY <1>1, <1>2, ConcatProperties, Zenon
<1>4. PICK s : s = x \o y
  OBVIOUS
<1>5. /\ s \in Seq(Byte) /\ Len(s) = Len(x) + Len(y)
      /\ \A i \in 1 .. Len(x) + Len(y) : s[i] = IF i <= Len(x) THEN x[i] ELSE y[i - Len(x)]
  BY <1>3, <1>4, Zenon
<1>6. s = f
  <2>1. Len(s) = n /\ s \in Seq(Byte) /\ \A i \in 1 .. n : s[i] = IF i <= k THEN x[i] ELSE y[i - k]
    BY <1>1, <1>2, <1>5
  <2>2. ASSUME NEW i \in 1 .. n PROVE s[i] = IF i <= k THEN v[i] ELSE old[i]
    <3>1. CASE i <= k
      BY <1>1, <2>1, <3>1
    <3>2. CASE ~(i <= k)
      <4>1. i - k \in 1 .. n - k /\ k + (i - k) = i
        BY <3>2
      <4> QED
        BY <1>2, <2>1, <3>2, <4>1
    <3> QED
      BY <3>1, <3>2
  <2>3. s = [i \in 1 .. n |-> s[i]]
    BY <2>1
  <2> QED
    BY <2>2, <2>3
<1> HIDE DEF f
<1>7. f = SubSeq(v, 1, k) \o SubSeq(old, k + 1, Len(old))
  BY <1>4, <1>6 DEF x, y
<1>8. f \in Mixes(old, v)
  BY <1>7 DEF Mixes
<1> QED
  BY <1>8 DEF f

\* A parameter whose value is being overwritten is loaded with a mix.
LEMMA OverLoads ==
    ASSUME NEW mem \in [Device -> Byte], NEW V, NEW e, NEW o, NEW p, NEW v, NEW old, NEW d,
           Overwritten(mem, V, e, o, p, v, old, d), HasVersion(mem)
    PROVE  Loaded(mem, p) \in Mixes(old, v) /\ (d = p.header.type => Loaded(mem, p) = v)
<1> DEFINE n == p.header.type
           f == [j \in 1 .. n |-> IF j <= d THEN v[j] ELSE old[j]]
<1>1. /\ p \in Param /\ v \in Seq(Byte) /\ Len(v) = n /\ d \in 0 .. n /\ old \in Seq(Byte) /\ Len(old) = n
      /\ Listed(mem, V, e) /\ o \in V /\ o # e /\ Dec(mem, o) = p.header
      /\ \A j \in 1 .. n : Read(mem, o + 3 + j - 1) = IF j <= d THEN v[j] ELSE old[j]
  BY DEF Overwritten
<1>2. n \in Nat
  BY <1>1, ParamFacts
<1>3. Loaded(mem, p) = ReadBlock(mem, o + 3, n)
  BY <1>1, OwnValue
<1> HIDE DEF n
<1>4. ReadBlock(mem, o + 3, n) = f
  BY <1>1 DEF ReadBlock
<1>5. f \in Mixes(old, v)
  BY <1>1, <1>2, MixIs
<1>6. ASSUME d = n PROVE f = v
  <2>1. v = [j \in 1 .. n |-> v[j]]
    BY <1>1
  <2>2. \A j \in 1 .. n : j <= d
    BY <1>2, <1>6
  <2> QED
    BY <2>1, <2>2
<1> HIDE DEF f
<1> QED
  BY <1>3, <1>4, <1>5, <1>6 DEF n
\* Another byte of the value is written: the headers stay, and the values of the other
\* parameters.
LEMMA OverStep ==
    ASSUME NEW mem \in [Device -> Byte], NEW new \in [Device -> Byte], NEW V, NEW e, NEW o, NEW p, NEW v, NEW old, NEW d,
           Overwritten(mem, V, e, o, p, v, old, d), d < p.header.type,
           Wrote(mem, new, o + 3 + d, v[d + 1])
    PROVE  /\ Overwritten(new, V, e, o, p, v, old, d + 1)
           /\ (HasVersion(new) <=> HasVersion(mem))
           /\ HasVersion(mem) => o + 3 + d > 4
           /\ o + 3 + d > 0
           /\ \A q \in Param : q # p => Loaded(new, q) = Loaded(mem, q)
<1> DEFINE n == p.header.type
           a == o + 3 + d
<1>1. /\ p \in Param /\ v \in Seq(Byte) /\ Len(v) = n /\ d \in 0 .. n /\ old \in Seq(Byte) /\ Len(old) = n
      /\ Listed(mem, V, e) /\ o \in V /\ o # e /\ Dec(mem, o) = p.header
      /\ \A j \in 1 .. n : Read(mem, o + 3 + j - 1) = IF j <= d THEN v[j] ELSE old[j]
  BY DEF Overwritten
<1>2. n \in {1, 2} /\ d < n
  BY <1>1, ParamFacts
<1>3. Base(mem, V, e) /\ IsList(mem, V, e)
  BY <1>1, ListedIs DEF Listed
<1>4. e \in Nat /\ \A q \in V : q \in Nat /\ q >= 1 /\ q <= e
  BY <1>3, BaseFacts
<1>5. Step(mem, o) = 3 + n
  BY <1>1, <1>3, BaseFacts
<1>6. Wrote(mem, new, a, v[d + 1])
  OBVIOUS
<1> HIDE DEF n
<1>7. a \in Nat /\ a >= o + 3 /\ a < o + 3 + n
  BY <1>1, <1>2, <1>4
<1>8. ASSUME NEW q \in V, q # o PROVE a < q \/ a >= q + Step(mem, q)
  <2>1. CASE q < o
    <3>1. q + Step(mem, q) <= o /\ Step(mem, q) \in 3 .. 5
      BY <1>1, <1>3, <2>1, StepType DEF Base
    <3>2. q \in Nat /\ o \in Nat
      BY <1>1, <1>4
    <3> HIDE DEF a
    <3> QED
      BY <1>7, <3>1, <3>2
  <2>2. CASE o < q
    <3>1. o + Step(mem, o) <= q
      BY <1>1, <1>3, <2>2 DEF Base
    <3> QED
      BY <1>1, <1>4, <1>5, <1>7, <3>1
  <2> QED
    BY <1>1, <1>4, <1>8, <2>1, <2>2
<1>9. ASSUME NEW q \in V PROVE HeaderAt(new, q) = HeaderAt(mem, q)
  <2>1. a # q /\ a # q + 1 /\ a # q + 2
    <3>1. CASE q = o
      BY <1>1, <1>4, <1>7, <3>1
    <3>2. CASE q # o
      <4>1. Step(mem, q) \in 3 .. 5
        BY StepType
      <4> QED
        BY <1>4, <1>7, <1>8, <3>2, <4>1
    <3> QED
      BY <3>1, <3>2
  <2> QED
    BY <1>4, <1>6, <1>7, <2>1, HeaderSame
<1> HIDE DEF a
<1>10. \A q \in V : Dec(new, q) = Dec(mem, q) /\ Step(new, q) = Step(mem, q)
  BY <1>9 DEF Dec, Step
<1>11. Listed(new, V, e)
  <2>1. \A q \in V : q # e => HeaderAt(new, q) = HeaderAt(mem, q)
    BY <1>9
  <2>2. Base(new, V, e)
    BY <1>3, <2>1, BaseKept, Zenon
  <2>3. OpenAt(new, e)
    <3>1. HeaderAt(new, e) = HeaderAt(mem, e)
      BY <1>3, <1>9 DEF Base
    <3>2. /\ HeaderAt(new, e)[2] = Read(new, e + 1) /\ HeaderAt(new, e)[3] = Read(new, e + 2)
          /\ HeaderAt(mem, e)[2] = Read(mem, e + 1) /\ HeaderAt(mem, e)[3] = Read(mem, e + 2)
      BY <1>4, HeaderBytes
    <3> QED
      BY <1>1, <3>1, <3>2 DEF Listed, OpenAt
  <2> QED
    BY <1>1, <2>2, <2>3 DEF Listed
<1>12. ASSUME NEW j \in 1 .. n PROVE Read(new, o + 3 + j - 1) = IF j <= d + 1 THEN v[j] ELSE old[j]
  <2>1. CASE j = d + 1
    <3>1. o + 3 + j - 1 = a /\ j <= d + 1
      BY <1>1, <1>2, <1>4, <2>1 DEF a
    <3> QED
      BY <1>6, <2>1, <3>1 DEF Wrote
  <2>2. CASE j # d + 1
    <3>1. o + 3 + j - 1 # a /\ o + 3 + j - 1 \in Nat /\ (j <= d + 1 <=> j <= d)
      <4>1. o \in Nat /\ d \in Nat /\ j \in Nat /\ j # 0
        BY <1>1, <1>2, <1>4
      <4> QED
        BY <2>2, <4>1 DEF a
    <3>2. Read(new, o + 3 + j - 1) = Read(mem, o + 3 + j - 1)
      BY <1>6, <3>1 DEF Wrote
    <3>3. Read(mem, o + 3 + j - 1) = IF j <= d THEN v[j] ELSE old[j]
      BY <1>1
    <3> QED
      BY <3>1, <3>2, <3>3
  <2> QED
    BY <2>1, <2>2
<1>13. d + 1 \in 0 .. n
  BY <1>1, <1>2
<1>14. Overwritten(new, V, e, o, p, v, old, d + 1)
  BY <1>1, <1>10, <1>11, <1>12, <1>13 DEF Overwritten, n
<1>15. HasVersion(new) <=> HasVersion(mem)
  <2>1. 1 \in V
    BY <1>3 DEF Base
  <2> QED
    BY <1>10, <2>1 DEF HasVersion
<1>16. ASSUME HasVersion(mem) PROVE a > 4
  <2>1. o # 1
    BY <1>1, <1>16, ParamFacts DEF HasVersion
  <2>2. 1 \in V /\ 1 < o
    BY <1>1, <1>3, <1>4, <2>1 DEF Base
  <2>3. 1 + Step(mem, 1) <= o /\ Step(mem, 1) \in 3 .. 5
    BY <1>1, <1>3, <2>2, StepType DEF Base
  <2> QED
    BY <1>1, <1>4, <1>7, <2>3
<1>17. a > 0
  BY <1>1, <1>4, <1>7
<1>18. ASSUME NEW q \in Param, q # p PROVE Loaded(new, q) = Loaded(mem, q)
  <2>1. Mine(new, V, q) = Mine(mem, V, q)
    BY <1>9, <1>10 DEF Mine
  <2>2. ASSUME NEW x \in Mine(mem, V, q)
        PROVE  ReadBlock(new, x + HdrSize, type_size(q.header.type)) = ReadBlock(mem, x + HdrSize, type_size(q.header.type))
    <3> DEFINE m == q.header.type
    <3>1. x \in V /\ Dec(mem, x).type = m /\ Matches(q, Dec(mem, x)) /\ x # e
      BY <1>3 DEF Mine, Matches, IsList
    <3>2. m \in {1, 2} /\ type_size(m) = m /\ ~Matches(q, p.header)
      BY <1>1, <1>18, ParamFacts
    <3>3. x # o
      BY <1>1, <3>1, <3>2
    <3>4. Step(mem, x) = 3 + m
      BY <1>3, <3>1, BaseFacts
    <3> HIDE DEF m
    <3>5. x \in Nat /\ (a < x \/ a >= x + 3 + m)
      BY <1>4, <1>7, <1>8, <3>1, <3>2, <3>3, <3>4
    <3>6. x + 3 \in Nat /\ m \in Nat /\ (a < x + 3 \/ a >= x + 3 + m)
      BY <1>7, <3>2, <3>5
    <3>7. ReadBlock(new, x + 3, m) = ReadBlock(mem, x + 3, m)
      BY <1>6, <1>7, <3>6, BlockSame
    <3> QED
      BY <3>2, <3>7 DEF m, HdrSize
  <2>3. IsList(new, V, e)
    BY <1>11, ListedIs
  <2> QED
    BY <1>3, <2>1, <2>2, <2>3, LoadedKept
<1> QED
  BY <1>14, <1>15, <1>16, <1>17, <1>18 DEF a
-----------------------------------------------------------------------------
(* Erasing.                                                                *)

\* d bytes of erase_all() are written.
Cleared(mem, d) ==
    /\ d \in 0 .. 4
    /\ d >= 1 => Read(mem, 0) = 1
    /\ d >= 2 => Read(mem, 1) = 15
    /\ d >= 3 => Read(mem, 2) = 31
    /\ d >= 4 => Read(mem, 3) = 15

\* The fields of the first header.
LEMMA FirstHeader ==
    ASSUME NEW mem \in [Device -> Byte]
    PROVE  /\ Dec(mem, 1).key = Read(mem, 1) + 16 * ((Read(mem, 2) \div 2) % 2)
           /\ Dec(mem, 1).type = Read(mem, 2) \div 4
           /\ Dec(mem, 1).group = (Read(mem, 2) % 2) + 2 * Read(mem, 3)
           /\ Read(mem, 1) \in 0 .. 31 /\ Read(mem, 2) \in 0 .. 31 /\ Read(mem, 3) \in 0 .. 31
<1>1. /\ Dec(mem, 1).key = Read(mem, 1) + 16 * ((Read(mem, 1 + 1) \div 2) % 2)
      /\ Dec(mem, 1).type = Read(mem, 1 + 1) \div 4
      /\ Dec(mem, 1).group = (Read(mem, 1 + 1) % 2) + 2 * Read(mem, 1 + 2)
  BY DecodeBytes
<1>2. Read(mem, 1) \in 0 .. 31 /\ Read(mem, 2) \in 0 .. 31 /\ Read(mem, 3) \in 0 .. 31
  BY ReadType DEF Byte, BYTE_MAX
<1>3. 1 + 1 = 2 /\ 1 + 2 = 3
  OBVIOUS
<1> QED
  BY <1>1, <1>2, <1>3

\* The bytes that make a format version.
LEMMA VersionBytes ==
    ASSUME NEW mem \in [Device -> Byte], HasVersion(mem)
    PROVE  Read(mem, 1) = 0 /\ Read(mem, 2) = 4 /\ Read(mem, 3) = 0
<1>1. Dec(mem, 1).key = 0 /\ Dec(mem, 1).type = 1 /\ Dec(mem, 1).group = 0
  BY DEF HasVersion, format_version
<1>2. Read(mem, 1) = 0 /\ Read(mem, 3) = 0 /\ Read(mem, 2) % 2 = 0
  BY <1>1, FirstHeader
<1>3. Read(mem, 2) \div 4 = 1 /\ (Read(mem, 2) \div 2) % 2 = 0 /\ Read(mem, 2) \in 0 .. 31
  BY <1>1, <1>2, FirstHeader
<1> QED
  BY <1>2, <1>3

\* The magic byte is no part of the list.
LEMMA MagicStep ==
    ASSUME NEW mem \in [Device -> Byte], NEW new \in [Device -> Byte], NEW b, Wrote(mem, new, 0, b), Formed(mem)
    PROVE  /\ Formed(new) /\ (HasVersion(new) <=> HasVersion(mem))
           /\ HasVersion(mem) => \A p \in Param : Loaded(new, p) = Loaded(mem, p)
<1>1. \A o \in Nat : o # 0 => Read(new, o) = Read(mem, o)
  BY DEF Wrote
<1>2. ASSUME NEW o \in Nat, o # 0 PROVE HeaderAt(new, o) = HeaderAt(mem, o)
  <2>1. 0 \in Nat /\ 0 # o /\ 0 # o + 1 /\ 0 # o + 2
    BY <1>2
  <2> QED
    BY <2>1, HeaderSame
<1>3. \A o \in Nat : o # 0 => Dec(new, o) = Dec(mem, o)
  BY <1>2 DEF Dec
<1>4. ASSUME NEW V, NEW e, Listed(mem, V, e) PROVE Listed(new, V, e)
  <2>1. Base(mem, V, e)
    BY <1>4 DEF Listed
  <2>2. e \in Nat /\ e >= 1 /\ \A o \in V : o \in Nat /\ o # 0
    BY <2>1, BaseFacts
  <2>3. Base(new, V, e)
    <3>1. \A o \in V : o # e => HeaderAt(new, o) = HeaderAt(mem, o)
      BY <1>2, <2>2
    <3> QED
      BY <2>1, <3>1, BaseKept, Zenon
  <2>4. Read(new, e + 1) = Read(mem, e + 1) /\ Read(new, e + 2) = Read(mem, e + 2)
    BY <1>1, <2>2
  <2> QED
    BY <1>4, <2>3, <2>4 DEF Listed, OpenAt
<1>5. HasVersion(new) <=> HasVersion(mem)
  BY <1>3 DEF HasVersion
<1>6. Formed(new)
  <2>1. Stop(mem, 1) => Stop(new, 1)
    BY <1>1 DEF Stop
  <2>2. Zero(mem) => Zero(new)
    BY <1>1 DEF Zero
  <2> QED
    BY <1>4, <2>1, <2>2 DEF Formed
<1>7. ASSUME HasVersion(mem), NEW p \in Param PROVE Loaded(new, p) = Loaded(mem, p)
  <2>1. PICK V, e : Listed(mem, V, e)
    BY <1>7, VersionIsListed
  <2>2. IsList(mem, V, e) /\ IsList(new, V, e) /\ \A o \in V : o \in Nat /\ o # 0
    <3>1. \A o \in V : o \in Nat /\ o >= 1
      BY <2>1, BaseFacts DEF Listed
    <3> QED
      BY <1>4, <2>1, <3>1, ListedIs
  <2>3. Mine(new, V, p) = Mine(mem, V, p)
    BY <1>2, <1>3, <2>2 DEF Mine
  <2>4. ASSUME NEW o \in Mine(mem, V, p)
        PROVE  ReadBlock(new, o + HdrSize, type_size(p.header.type)) = ReadBlock(mem, o + HdrSize, type_size(p.header.type))
    <3>1. o + HdrSize \in Nat /\ 0 < o + HdrSize /\ type_size(p.header.type) \in Nat /\ 0 \in Nat
      BY <2>2 DEF Mine, HdrSize, type_size
    <3> QED
      BY <3>1, BlockSame
  <2> QED
    BY <2>2, <2>3, <2>4, LoadedKept
<1> QED
  BY <1>5, <1>6, <1>7

\* The first byte of the sentinel makes another entry of the first one, or a sentinel.
LEMMA KeyStep ==
    ASSUME NEW mem \in [Device -> Byte], NEW new \in [Device -> Byte], Wrote(mem, new, 1, 15), Formed(mem)
    PROVE  Formed(new) /\ ~HasVersion(new)
<1>1. Read(new, 1) = 15 /\ \A o \in Nat : o # 1 => Read(new, o) = Read(mem, o)
  BY DEF Wrote
<1>2. Read(new, 2) = Read(mem, 2) /\ Read(new, 3) = Read(mem, 3) /\ Read(mem, 2) \in 0 .. 31
  BY <1>1, ReadType DEF Byte, BYTE_MAX
<1>3. ~HasVersion(new)
  BY <1>1, VersionBytes
<1>4. Stop(mem, 1) => Stop(new, 1)
  BY <1>1, <1>2 DEF Stop
<1>5. Zero(mem) => Zero(new)
  BY <1>1 DEF Zero
<1>6. ASSUME NEW V, NEW e, Listed(mem, V, e) PROVE Listed(new, V, e) \/ Stop(new, 1)
  <2>1. Base(mem, V, e) /\ e + HdrSize <= Size /\ OpenAt(mem, e) /\ V \subseteq Offset /\ 1 \in V /\ e \in V
    BY <1>6 DEF Listed, Base
  <2>2. e \in Nat /\ e >= 1 /\ \A o \in V : o \in Nat /\ o >= 1 /\ o <= e
    BY <2>1, BaseFacts
  <2>3. ASSUME NEW o \in V, o # 1 PROVE HeaderAt(new, o) = HeaderAt(mem, o)
    <3>1. 1 # o /\ 1 # o + 1 /\ 1 # o + 2 /\ o \in Nat /\ 1 \in Nat
      BY <2>2, <2>3
    <3> QED
      BY <3>1, HeaderSame
  <2>4. OpenAt(new, e)
    <3>1. Read(new, e + 1) = Read(mem, e + 1) /\ Read(new, e + 2) = Read(mem, e + 2)
      BY <1>1, <2>2
    <3> QED
      BY <2>1, <3>1 DEF OpenAt
  <2>5. CASE e = 1
    <3>1. \A o \in V : o # e => HeaderAt(new, o) = HeaderAt(mem, o)
      BY <2>3, <2>5
    <3>2. Base(new, V, e)
      BY <2>1, <3>1, BaseKept, Zenon
    <3> QED
      BY <2>1, <2>4, <3>2 DEF Listed
  <2>6. CASE e # 1 /\ (Read(new, 2) \div 2) % 2 = 1
    BY <1>1, <2>6 DEF Stop
  <2>7. CASE e # 1 /\ (Read(new, 2) \div 2) % 2 # 1
    <3>1. ~is_sentinal(HeaderAt(mem, 1)) /\ Dec(mem, 1).type \in {1, 2}
      BY <2>1, <2>7 DEF Base
    <3>2. Dec(mem, 1).group # 31
      BY <3>1 DEF is_sentinal, Dec, Sentinel, HIGH
    <3>3. Dec(new, 1).type = Dec(mem, 1).type /\ Dec(new, 1).group = Dec(mem, 1).group
      BY <1>2, FirstHeader
    <3>4. Dec(new, 1).key = 15
      <4>1. Dec(new, 1).key = Read(new, 1) + 16 * ((Read(new, 2) \div 2) % 2)
        BY FirstHeader
      <4>2. (Read(new, 2) \div 2) % 2 = 0
        BY <1>2, <2>7
      <4> QED
        BY <1>1, <4>1, <4>2
    <3>5. ~is_sentinal(HeaderAt(new, 1))
      BY <3>1, <3>2, <3>3, <3>4, EntryIs
    <3>6. \A o \in V : Step(new, o) = Step(mem, o)
      <4>1. Step(new, 1) = Step(mem, 1)
        BY <3>3 DEF Step, Dec
      <4> QED
        BY <2>3, <4>1 DEF Step
    <3>7. \A o \in V : o # 1 => Dec(new, o) = Dec(mem, o)
      BY <2>3 DEF Dec
    <3>8. ASSUME NEW o \in V, o # e
          PROVE  ~is_sentinal(HeaderAt(new, o)) /\ Dec(new, o).type \in {1, 2} /\ o + Step(new, o) \in V
      <4>1. ~is_sentinal(HeaderAt(mem, o)) /\ Dec(mem, o).type \in {1, 2} /\ o + Step(mem, o) \in V
        BY <2>1, <3>8 DEF Base
      <4>2. CASE o = 1
        BY <3>1, <3>3, <3>5, <3>6, <4>1, <4>2
      <4>3. CASE o # 1
        BY <2>3, <3>6, <3>7, <4>1, <4>3
      <4> QED
        BY <4>2, <4>3
    <3>9. \A o, q \in V : o < q => o + Step(new, o) <= q
      BY <2>1, <3>6 DEF Base
    <3>10. \A o \in V : o # 1 /\ o # e => Dec(new, o) # format_version
      BY <2>1, <3>7 DEF Base
    <3>11. \A o \in V : 1 <= o /\ o <= e
      BY <2>2
    <3>12. Base(new, V, e)
      BY <1>3, <2>1, <3>8, <3>9, <3>10, <3>11 DEF Base
    <3> QED
      BY <2>1, <2>4, <3>12 DEF Listed
  <2> QED
    BY <2>5, <2>6, <2>7
<1> QED
  BY <1>3, <1>4, <1>5, <1>6 DEF Formed

\* Another byte of erase_all() is written.
LEMMA ClearStep ==
    ASSUME NEW mem \in [Device -> Byte], NEW new \in [Device -> Byte], NEW d, Cleared(mem, d), d < 4, Formed(mem),
           Wrote(mem, new, EraseWrites[d + 1][1], EraseWrites[d + 1][2])
    PROVE  /\ Cleared(new, d + 1) /\ Formed(new) /\ (HasVersion(new) => HasVersion(mem))
           /\ HasVersion(new) => \A p \in Param : Loaded(new, p) = Loaded(mem, p)
<1>1. d \in 0 .. 3
  BY DEF Cleared
<1>2. EraseWrites[d + 1][1] = d
  <2>1. d + 1 \in 1 .. 4 /\ d + 1 - 1 = d
    BY <1>1
  <2>2. \A i \in 1 .. 4 : EraseWrites[i][1] = i - 1
    BY EraseIs, Zenon
  <2>3. EraseWrites[d + 1][1] = d + 1 - 1
    BY <1>1, <2>1, <2>2
  <2> QED
    BY <2>1, <2>3
<1>3. Read(new, d) = EraseWrites[d + 1][2] /\ \A o \in Nat : o # d => Read(new, o) = Read(mem, o)
  BY <1>2 DEF Wrote
<1>4. CASE d = 0
  <2>1. Wrote(mem, new, 0, 1)
    BY <1>2, <1>4, EraseIs
  <2>2. Cleared(new, d + 1)
    BY <1>4, <2>1 DEF Cleared, Wrote
  <2>3. Formed(new) /\ (HasVersion(new) <=> HasVersion(mem))
    BY <2>1, MagicStep
  <2>4. HasVersion(mem) => \A p \in Param : Loaded(new, p) = Loaded(mem, p)
    BY <2>1, MagicStep, Zenon
  <2> QED
    BY <2>2, <2>3, <2>4
<1>5. CASE d = 1
  <2>1. Wrote(mem, new, 1, 15)
    BY <1>2, <1>5, EraseIs
  <2>2. Cleared(new, d + 1)
    BY <1>3, <1>5, <2>1 DEF Cleared, Wrote
  <2> QED
    BY <2>1, <2>2, KeyStep
<1>6. CASE d = 2
  <2>1. Read(new, 2) = 31
    BY <1>3, <1>6, EraseIs
  <2>2. Cleared(new, d + 1)
    BY <1>3, <1>6, <2>1 DEF Cleared
  <2>3. Formed(new)
    BY <2>1 DEF Formed, Stop
  <2> QED
    BY <2>1, <2>2, <2>3, VersionBytes
<1>7. CASE d = 3
  <2>1. Read(new, 2) = 31 /\ Read(new, 3) = 15
    BY <1>3, <1>7, EraseIs DEF Cleared
  <2>2. Cleared(new, d + 1)
    BY <1>3, <1>7, <2>1 DEF Cleared
  <2>3. Formed(new)
    BY <2>1 DEF Formed, Stop
  <2> QED
    BY <2>1, <2>2, <2>3, VersionBytes
<1> QED
  BY <1>1, <1>4, <1>5, <1>6, <1>7

\* The list that erase_all() leaves.
LEMMA ClearedIs ==
    ASSUME NEW mem \in [Device -> Byte], Cleared(mem, 4)
    PROVE  Listed(mem, {1}, 1) /\ ~HasVersion(mem) /\ EndOf(mem) = 1 /\ OpenAt(mem, 1)
<1>1. Read(mem, 2) = 31 /\ Read(mem, 3) = 15
  BY DEF Cleared
<1>2. OpenAt(mem, 1)
  BY <1>1 DEF OpenAt
<1>3. Listed(mem, {1}, 1)
  BY <1>2, AloneIsBase, Sizes DEF Listed, HdrSize
<1>4. EndOf(mem) = 1
  BY <1>3, ListedIs, EndIs
<1> QED
  BY <1>1, <1>2, <1>3, <1>4, VersionBytes
-----------------------------------------------------------------------------
(* The inductive invariant.                                                *)

\* What is left of the bytes s of a call after d of them.
Left(s, d) == SubSeq(s, d + 1, Len(s))

\* A list with a format version is loaded with what the history allows.
LoadsInv == HasVersion(stored) => \A p \in Param : Loaded(stored, p) \in may[p]

\* A list that nothing has asked to erase has the magic and the version of the firmware.
KeepsInv == intact => HasVersion(stored) /\ Read(stored, 0) = 1 /\ Read(stored, 4) = version

\* erase_all() is on its way, or has written everything.
Clearing == ~intact /\ \E d : Cleared(stored, d) /\ todo = Left(EraseWrites, d)

\* The calls that erase.
ClearInv ==
    /\ call.fn \in {"erase", "reset"} => Clearing
    /\ call.fn = "setup" => (todo = <<>> /\ Read(stored, 0) = 1) \/ Clearing

\* Once booted, the magic is there.
MagicInv == call.fn \notin {"off", "setup"} => Read(stored, 0) = 1

\* Between calls there is a list, and nothing left to write.
IdleInv ==
    /\ call.fn \in {"off", "run"} => todo = <<>>
    /\ call.fn = "run" => \E V, e : Listed(stored, V, e)

\* The format version is added to the list that erase_all() has left.
VersionInv ==
    call.fn = "version" =>
        /\ ~intact /\ may = Defaults
        /\ \E d : /\ Added(stored, {1}, 1, format_version, <<version>>, d)
                  /\ todo = Left(NewEntry(1, format_version, <<version>>), d)

\* save() of a parameter that has no entry yet.
Adding(p, v) ==
    /\ v \in may[p]
    /\ \E V, ofs, d : Added(stored, V, ofs, p.header, v, d) /\ todo = Left(NewEntry(ofs, p.header, v), d)

\* save() of one that has an entry: the mixes of the old and the new value may be loaded.
Overwriting(p, v) ==
    \E V, e, o, old, d :
        /\ Overwritten(stored, V, e, o, p, v, old, d) /\ todo = Left(Write(o + 3, v), d)
        /\ HasVersion(stored) => Mixes(old, v) \subseteq may[p]

\* save() is one or the other.
SaveInv ==
    call.fn = "save" =>
        \E p \in Param : \E v : call.arg = <<p, v>> /\ (Adding(p, v) \/ Overwriting(p, v))

\* The inductive invariant.
Inv ==
    /\ TypeOK /\ Formed(stored) /\ LoadsInv /\ KeepsInv /\ ClearInv /\ MagicInv /\ IdleInv
    /\ VersionInv /\ SaveInv

\* Nothing of a call is written at its beginning.
LEMMA LeftAll ==
    ASSUME NEW S, NEW s \in Seq(S)
    PROVE  Left(s, 0) = s
<1> DEFINE t == SubSeq(s, 1, Len(s))
           l == Len(s)
<1>1. l \in Nat /\ \A i \in 1 .. l : s[i] \in S
  BY LenProperties, ElementOfSeq
<1>2. t \in Seq(S) /\ Len(t) = (IF 1 <= l THEN l - 1 + 1 ELSE 0) /\ \A i \in 1 .. l - 1 + 1 : t[i] = s[1 + i - 1]
  BY <1>1, SubSeqProperties
<1>3. s = [i \in 1 .. l |-> s[i]]
  OBVIOUS
<1> HIDE DEF t, l
<1>4. Len(t) = l /\ \A i \in 1 .. l : t[i] = s[i]
  BY <1>1, <1>2
<1>5. t = [i \in 1 .. l |-> t[i]]
  <2>1. t = [i \in 1 .. Len(t) |-> t[i]]
    BY <1>2
  <2> QED
    BY <1>4, <2>1, Zenon
<1>6. t = s
  BY <1>3, <1>4, <1>5
<1> QED
  BY <1>6 DEF Left, t

\* What is left of a call after its next byte.
LEMMA LeftNext ==
    ASSUME NEW S, NEW s \in Seq(S), NEW d \in 0 .. Len(s)
    PROVE  /\ Left(s, d) \in Seq(S) /\ (Left(s, d) = <<>> <=> d = Len(s))
           /\ Left(s, d) # <<>> => d < Len(s) /\ Head(Left(s, d)) = s[d + 1] /\ Tail(Left(s, d)) = Left(s, d + 1)
<1>1. PICK t : t = Left(s, d)
  OBVIOUS
<1>2. t = SubSeq(s, d + 1, Len(s))
  BY <1>1 DEF Left
<1>3. /\ t \in Seq(S) /\ Len(t) = Len(s) - d /\ (t = <<>> <=> d = Len(s))
      /\ t # <<>> => d < Len(s) /\ Head(t) = s[d + 1] /\ Tail(t) = SubSeq(s, d + 1 + 1, Len(s)) /\ d + 1 \in 0 .. Len(s)
  <2>1. PICK l \in Nat : l = Len(s)
    BY LenProperties
  <2> QED
    BY <1>2, <2>1, Dropped
<1>4. Left(s, d + 1) = SubSeq(s, d + 1 + 1, Len(s))
  BY DEF Left
<1> QED
  BY <1>1, <1>3, <1>4, Zenon

\* load_parameters() accepts a list with the format version of the firmware.
LEMMA FormatIs ==
    ASSUME stored \in [Device -> Byte], Formed(stored)
    PROVE  BadFormat(stored) <=> ~(HasVersion(stored) /\ Read(stored, 4) = version)
<1> DEFINE found == Found(stored, format_version)
<1>1. PICK V, e : /\ IsList(stored, V, e) /\ e + 3 <= Size
                  /\ \A o \in V : o # 1 => Dec(stored, o) # format_version
  BY ListShape
<1>2. found = {o \in V : Dec(stored, o) = format_version}
  BY <1>1, FoundIs
<1>3. 1 \in V
  BY <1>1 DEF IsList
<1>4. CASE HasVersion(stored)
  <2>1. found = {1}
    BY <1>1, <1>2, <1>3, <1>4 DEF HasVersion
  <2>2. First({1}) = 1
    BY FirstIs
  <2> QED
    BY <1>4, <2>1, <2>2 DEF BadFormat, HdrSize
<1>5. CASE ~HasVersion(stored)
  <2>1. found = {}
    BY <1>1, <1>2, <1>5 DEF HasVersion
  <2> QED
    BY <1>5, <2>1 DEF BadFormat
<1> QED
  BY <1>4, <1>5

\* The storage before the first boot.
LEMMA InitInv == Init => Inv
<1> SUFFICES ASSUME Init PROVE Inv
  OBVIOUS
<1>1. PICK b \in Fill : stored = [a \in Device |-> b]
  BY DEF Init
<1>2. b \in {0, 31}
  BY ParamAssumption DEF BYTE_MAX
<1>3. stored \in [Device -> Byte]
  BY <1>1, <1>2 DEF Byte, BYTE_MAX
<1>4. \A o \in 0 .. 7 : Read(stored, o) = b
  <2> SUFFICES ASSUME NEW o \in 0 .. 7 PROVE Read(stored, o) = b
    OBVIOUS
  <2>1. o \in Offset /\ o < Size
    BY Sizes DEF Offset
  <2> QED
    BY <1>1, <2>1, Addresses DEF Read
<1>5. ~HasVersion(stored)
  <2>1. Read(stored, 2) # 4
    BY <1>2, <1>4
  <2> QED
    BY <1>3, <2>1, VersionBytes
<1>6. Formed(stored)
  <2>1. CASE b = 0
    <3>1. Zero(stored)
      BY <1>4, <2>1 DEF Zero
    <3> QED
      BY <3>1 DEF Formed
  <2>2. CASE b = 31
    <3>1. Stop(stored, 1)
      BY <1>4, <2>2 DEF Stop
    <3> QED
      BY <3>1 DEF Formed
  <2> QED
    BY <1>2, <2>1, <2>2
<1>7. todo = <<>> /\ call.fn = "off" /\ intact = FALSE /\ version \in Version /\ may = Defaults
  BY DEF Init
<1>8. TypeOK
  <2>1. todo \in Seq(Offset \X Byte) /\ DOMAIN may = Param
    BY <1>7 DEF Defaults
  <2> QED
    BY <1>3, <1>7, <2>1, Zenon DEF TypeOK
<1> QED
  BY <1>5, <1>6, <1>7, <1>8 DEF Inv, LoadsInv, KeepsInv, ClearInv, MagicInv, IdleInv, VersionInv, SaveInv
-----------------------------------------------------------------------------
(* The actions that write nothing.                                         *)

\* The writes of erase_all() are about to begin.
LEMMA ClearBegins ==
    ASSUME stored \in [Device -> Byte]
    PROVE  Cleared(stored, 0) /\ Left(EraseWrites, 0) = EraseWrites /\ EraseWrites \in Seq(Offset \X Byte)
<1>1. Cleared(stored, 0)
  BY DEF Cleared
<1>2. EraseWrites \in Seq(Offset \X Byte)
  BY EraseIs
<1> QED
  BY <1>1, <1>2, LeftAll

\* All of erase_all() is written.
LEMMA ClearEnds ==
    ASSUME stored \in [Device -> Byte], Clearing, todo = <<>>
    PROVE  Cleared(stored, 4) /\ ~intact
<1>1. PICK d : Cleared(stored, d) /\ todo = Left(EraseWrites, d)
  BY DEF Clearing
<1>2. EraseWrites \in Seq(Offset \X Byte) /\ Len(EraseWrites) = 4 /\ d \in 0 .. 4
  BY <1>1, EraseIs DEF Cleared
<1>3. d = 4
  BY <1>1, <1>2, LeftNext
<1> QED
  BY <1>1, <1>3 DEF Clearing

\* setup().
LEMMA PowerOnInv ==
    ASSUME Inv, NEW v \in Version, PowerOn(v)
    PROVE  Inv'
<1>1. /\ stored \in [Device -> Byte] /\ DOMAIN may = Param /\ version \in Version /\ intact \in BOOLEAN
      /\ Formed(stored) /\ LoadsInv /\ KeepsInv
  BY DEF Inv, TypeOK
<1>2. /\ stored' = stored /\ version' = v /\ intact' = (intact /\ v = version) /\ call'.fn = "setup"
      /\ todo' = (IF BadMagic(stored) THEN EraseWrites ELSE <<>>)
      /\ may' = (IF BadMagic(stored) THEN MayBeDefault ELSE may)
  BY DEF PowerOn, Running
<1>3. todo' \in Seq(Offset \X Byte) /\ DOMAIN may' = Param /\ \A p \in Param : may[p] \subseteq may'[p]
  <2>1. CASE BadMagic(stored)
    BY <1>1, <1>2, <2>1, EraseIs DEF MayBeDefault
  <2>2. CASE ~BadMagic(stored)
    BY <1>1, <1>2, <2>2
  <2> QED
    BY <2>1, <2>2
<1>4. intact' \in BOOLEAN /\ (intact' => intact /\ version' = version)
  BY <1>1, <1>2
<1>5. TypeOK'
  BY <1>1, <1>2, <1>3, <1>4 DEF TypeOK
<1>6. Formed(stored)' /\ LoadsInv' /\ KeepsInv'
  BY <1>1, <1>2, <1>3, <1>4 DEF LoadsInv, KeepsInv
<1>7. ClearInv'
  <2>1. CASE BadMagic(stored)
    <3>1. ~intact
      BY <1>1, <2>1 DEF KeepsInv, BadMagic, MAGIC
    <3>2. Cleared(stored', 0) /\ todo' = Left(EraseWrites, 0)
      BY <1>1, <1>2, <2>1, ClearBegins
    <3>3. Clearing'
      BY <1>4, <3>1, <3>2 DEF Clearing
    <3> QED
      BY <1>2, <3>3 DEF ClearInv
  <2>2. CASE ~BadMagic(stored)
    BY <1>2, <2>2 DEF ClearInv, BadMagic, MAGIC
  <2> QED
    BY <2>1, <2>2
<1> QED
  BY <1>2, <1>5, <1>6, <1>7 DEF Inv, MagicInv, IdleInv, VersionInv, SaveInv

\* load_parameters().
LEMMA CheckFormatInv ==
    ASSUME Inv, CheckFormat
    PROVE  Inv'
<1>1. /\ stored \in [Device -> Byte] /\ DOMAIN may = Param /\ version \in Version /\ intact \in BOOLEAN
      /\ Formed(stored) /\ LoadsInv /\ KeepsInv /\ ClearInv
  BY DEF Inv, TypeOK
<1>2. stored' = stored /\ version' = version /\ call.fn = "setup" /\ todo = <<>>
  BY DEF CheckFormat, In
<1>3. Read(stored, 0) = 1
  <2>1. CASE Clearing
    BY <1>1, <1>2, <2>1, ClearEnds DEF Cleared
  <2> QED
    BY <1>1, <1>2, <2>1 DEF ClearInv
<1>4. BadFormat(stored) <=> ~(HasVersion(stored) /\ Read(stored, 4) = version)
  BY <1>1, FormatIs
<1>5. CASE BadFormat(stored)
  <2>1. call'.fn = "erase" /\ todo' = EraseWrites /\ may' = MayBeDefault /\ intact' = intact
    BY <1>5 DEF CheckFormat, Running
  <2>2. ~intact
    BY <1>1, <1>4, <1>5 DEF KeepsInv
  <2>3. todo' \in Seq(Offset \X Byte) /\ DOMAIN may' = Param /\ \A p \in Param : may[p] \subseteq may'[p]
    BY <1>1, <2>1, EraseIs DEF MayBeDefault
  <2>4. TypeOK'
    BY <1>1, <1>2, <2>1, <2>3 DEF TypeOK
  <2>5. Formed(stored)' /\ LoadsInv' /\ KeepsInv'
    BY <1>1, <1>2, <2>1, <2>2, <2>3 DEF LoadsInv, KeepsInv
  <2>6. Clearing'
    <3>1. Cleared(stored', 0) /\ todo' = Left(EraseWrites, 0)
      BY <1>1, <1>2, <2>1, ClearBegins
    <3> QED
      BY <2>1, <2>2, <3>1 DEF Clearing
  <2>7. ClearInv' /\ MagicInv'
    BY <1>2, <1>3, <2>1, <2>6 DEF ClearInv, MagicInv
  <2> QED
    BY <2>1, <2>4, <2>5, <2>7 DEF Inv, IdleInv, VersionInv, SaveInv
<1>6. CASE ~BadFormat(stored)
  <2>1. call'.fn = "run" /\ todo' = <<>> /\ may' = may /\ intact' = TRUE
    BY <1>2, <1>6 DEF CheckFormat, Running
  <2>2. HasVersion(stored) /\ Read(stored, 4) = version
    BY <1>4, <1>6
  <2>3. \E V, e : Listed(stored, V, e)
    BY <1>1, <2>2, VersionIsListed
  <2>4. todo' \in Seq(Offset \X Byte) /\ intact' \in BOOLEAN
    BY <2>1
  <2>5. TypeOK'
    BY <1>1, <1>2, <2>1, <2>4 DEF TypeOK
  <2>6. Formed(stored)' /\ LoadsInv'
    BY <1>1, <1>2, <2>1 DEF LoadsInv
  <2>7. KeepsInv' /\ MagicInv' /\ IdleInv'
    BY <1>2, <1>3, <2>1, <2>2, <2>3 DEF KeepsInv, MagicInv, IdleInv
  <2> QED
    BY <2>1, <2>5, <2>6, <2>7 DEF Inv, ClearInv, VersionInv, SaveInv
<1> QED
  BY <1>5, <1>6

\* erase_all() returns, and the format version is saved.
LEMMA ErasedInv ==
    ASSUME Inv, Erased
    PROVE  Inv'
<1> DEFINE s == NewEntry(1, format_version, <<version>>)
<1>1. /\ stored \in [Device -> Byte] /\ DOMAIN may = Param /\ version \in Version /\ intact \in BOOLEAN
      /\ Formed(stored) /\ ClearInv /\ MagicInv
  BY DEF Inv, TypeOK
<1>2. /\ stored' = stored /\ version' = version /\ intact' = intact /\ call.fn = "erase" /\ todo = <<>>
      /\ call'.fn = "version" /\ may' = Defaults /\ todo' = NewEntry(EndOf(stored), format_version, <<version>>)
  BY DEF Erased, In, Running
<1>3. Cleared(stored, 4) /\ ~intact
  BY <1>1, <1>2, ClearEnds DEF ClearInv
<1>4. ~HasVersion(stored) /\ EndOf(stored) = 1 /\ OpenAt(stored, 1)
  BY <1>1, <1>3, ClearedIs
<1>5. todo' = s
  BY <1>2, <1>4
<1>6. <<version>> \in Seq(Byte) /\ Len(<<version>>) = 1
  BY <1>1, ParamAssumption
<1>7. format_version \in Header /\ format_version.type = 1 /\ Known(format_version)
  BY KnownHeader DEF Known, format_version
<1>8. 1 + 6 + 1 <= Size /\ Size \in Nat
  BY Sizes
<1>9. s \in Seq(Offset \X Byte)
  BY <1>6, <1>7, <1>8, NewInside
<1>10. Added(stored, {1}, 1, format_version, <<version>>, 0)
  <2>1. Base(stored, {1}, 1)
    BY AloneIsBase
  <2>2. Read(stored, 1 + 2) = 15
    BY <1>4 DEF OpenAt
  <2> HIDE DEF s
  <2> QED
    BY <1>4, <1>6, <1>7, <1>8, <2>1, <2>2 DEF Added
<1>11. s = Left(s, 0)
  BY <1>9, LeftAll
<1> HIDE DEF s
<1>12. TypeOK'
  <2>1. todo' \in Seq(Offset \X Byte) /\ DOMAIN may' = Param
    BY <1>2, <1>5, <1>9 DEF Defaults
  <2> QED
    BY <1>1, <1>2, <2>1 DEF TypeOK
<1>13. Formed(stored)' /\ LoadsInv' /\ KeepsInv' /\ MagicInv'
  BY <1>1, <1>2, <1>3, <1>4 DEF LoadsInv, KeepsInv, MagicInv
<1>14. VersionInv'
  <2>1. may' = Defaults' /\ ~intact'
    BY <1>2, <1>3 DEF Defaults
  <2>2. Added(stored', {1}, 1, format_version, <<version'>>, 0) /\ todo' = Left(NewEntry(1, format_version, <<version'>>), 0)
    BY <1>2, <1>5, <1>10, <1>11 DEF s
  <2> QED
    BY <2>1, <2>2 DEF VersionInv
<1> QED
  BY <1>2, <1>12, <1>13, <1>14 DEF Inv, ClearInv, IdleInv, SaveInv
\* All of a new entry is written.
LEMMA AddEnds ==
    ASSUME NEW mem \in [Device -> Byte], NEW V, NEW ofs, NEW h, NEW v, NEW d, Added(mem, V, ofs, h, v, d),
           Left(NewEntry(ofs, h, v), d) = <<>>
    PROVE  d = h.type + 6 /\ Visible(h, d) /\ \E W, e : Listed(mem, W, e)
<1> DEFINE s == NewEntry(ofs, h, v)
<1>1. h \in Header /\ h.type \in {1, 2} /\ v \in Seq(Byte) /\ Len(v) = h.type /\ d \in 0 .. h.type + 6
  BY KnownHeader DEF Added
<1>2. ofs \in Nat
  BY BaseFacts DEF Added
<1>3. s \in Seq(Nat \X Byte) /\ Len(s) = h.type + 6
  <2>1. Entry(s, ofs, h, v)
    BY <1>1, <1>2, NewIs
  <2> HIDE DEF s
  <2> QED
    BY <1>1, <2>1 DEF Entry
<1> HIDE DEF s
<1>4. Left(s, d) = <<>>
  BY DEF s
<1>5. d = h.type + 6
  BY <1>1, <1>3, <1>4, LeftNext
<1>6. Visible(h, d)
  BY <1>5 DEF Visible
<1> QED
  BY <1>5, <1>6, AddedListed

\* The format version is saved.
LEMMA BootedInv ==
    ASSUME Inv, Booted
    PROVE  Inv'
<1>1. /\ stored \in [Device -> Byte] /\ DOMAIN may = Param /\ version \in Version
      /\ Formed(stored) /\ LoadsInv /\ MagicInv /\ VersionInv
  BY DEF Inv, TypeOK
<1>2. /\ stored' = stored /\ version' = version /\ intact' = TRUE /\ call.fn = "version" /\ todo = <<>>
      /\ call'.fn = "run" /\ may' = may /\ todo' = <<>>
  BY DEF Booted, In, Running
<1>3. PICK d : /\ Added(stored, {1}, 1, format_version, <<version>>, d)
               /\ todo = Left(NewEntry(1, format_version, <<version>>), d)
  BY <1>1, <1>2 DEF VersionInv
<1>4. format_version.type = 1
  BY DEF format_version
<1>5. d = format_version.type + 6 /\ Visible(format_version, d) /\ \E W, e : Listed(stored, W, e)
  BY <1>1, <1>2, <1>3, AddEnds
<1>6. Dec(stored, 1) = format_version /\ ReadBlock(stored, 1 + 3, format_version.type) = <<version>>
  BY <1>1, <1>3, <1>5, AddedHeader
<1>7. HasVersion(stored)
  BY <1>6 DEF HasVersion
<1>8. Read(stored, 4) = version
  <2>1. ReadBlock(stored, 4, 1) = <<version>>
    BY <1>4, <1>6
  <2>2. ReadBlock(stored, 4, 1)[1] = Read(stored, 4)
    BY DEF ReadBlock
  <2> QED
    BY <2>1, <2>2
<1>9. TypeOK'
  <2>1. todo' \in Seq(Offset \X Byte) /\ intact' \in BOOLEAN
    BY <1>2
  <2> QED
    BY <1>1, <1>2, <2>1 DEF TypeOK
<1>10. Formed(stored)' /\ LoadsInv' /\ KeepsInv' /\ MagicInv' /\ IdleInv'
  BY <1>1, <1>2, <1>5, <1>7, <1>8 DEF LoadsInv, KeepsInv, MagicInv, IdleInv
<1> QED
  BY <1>2, <1>9, <1>10 DEF Inv, ClearInv, VersionInv, SaveInv

\* erase_all() on request.
LEMMA ResetInv ==
    ASSUME Inv, Reset
    PROVE  Inv'
<1>1. /\ stored \in [Device -> Byte] /\ DOMAIN may = Param /\ version \in Version
      /\ Formed(stored) /\ LoadsInv /\ MagicInv
  BY DEF Inv, TypeOK
<1>2. /\ stored' = stored /\ version' = version /\ intact' = FALSE /\ call.fn = "run"
      /\ call'.fn = "reset" /\ may' = MayBeDefault /\ todo' = EraseWrites
  BY DEF Reset, In, Running
<1>3. todo' \in Seq(Offset \X Byte) /\ DOMAIN may' = Param /\ \A p \in Param : may[p] \subseteq may'[p]
  BY <1>1, <1>2, EraseIs DEF MayBeDefault
<1>4. TypeOK'
  <2>1. intact' \in BOOLEAN
    BY <1>2
  <2> QED
    BY <1>1, <1>2, <1>3, <2>1 DEF TypeOK
<1>5. Clearing'
  <2>1. Cleared(stored', 0) /\ todo' = Left(EraseWrites, 0)
    BY <1>1, <1>2, ClearBegins
  <2> QED
    BY <1>2, <2>1 DEF Clearing
<1>6. Formed(stored)' /\ LoadsInv' /\ KeepsInv' /\ MagicInv' /\ ClearInv'
  BY <1>1, <1>2, <1>3, <1>5 DEF LoadsInv, KeepsInv, MagicInv, ClearInv
<1> QED
  BY <1>2, <1>4, <1>6 DEF Inv, IdleInv, VersionInv, SaveInv

\* All of a value is overwritten.
LEMMA OverEnds ==
    ASSUME NEW mem \in [Device -> Byte], NEW V, NEW e, NEW o, NEW p, NEW v, NEW old, NEW d,
           Overwritten(mem, V, e, o, p, v, old, d), Left(Write(o + 3, v), d) = <<>>
    PROVE  d = p.header.type
<1> DEFINE s == Write(o + 3, v)
<1>1. /\ v \in Seq(Byte) /\ Len(v) = p.header.type /\ d \in 0 .. p.header.type
      /\ Listed(mem, V, e) /\ o \in V
  BY DEF Overwritten
<1>2. o \in Nat /\ o + 3 \in Nat
  <2>1. \A q \in V : q \in Nat
    BY <1>1, BaseFacts DEF Listed
  <2> QED
    BY <1>1, <2>1
<1>3. s \in Seq(Nat \X Byte) /\ Len(s) = p.header.type
  BY <1>1, <1>2, WriteIs
<1> HIDE DEF s
<1>4. Left(s, d) = <<>>
  BY DEF s
<1> QED
  BY <1>1, <1>3, <1>4, LeftNext

\* save() returns: the value is saved.
LEMMA SaveEnds ==
    ASSUME Inv, call.fn = "save", todo = <<>>
    PROVE  \E p \in Param : \E v : /\ call.arg = <<p, v>>
                                   /\ HasVersion(stored) => Loaded(stored, p) = v
                                   /\ \E V, e : Listed(stored, V, e)
<1>1. stored \in [Device -> Byte] /\ SaveInv
  BY DEF Inv, TypeOK
<1>2. PICK p \in Param : \E v : call.arg = <<p, v>> /\ (Adding(p, v) \/ Overwriting(p, v))
  BY <1>1 DEF SaveInv
<1>3. PICK v : call.arg = <<p, v>> /\ (Adding(p, v) \/ Overwriting(p, v))
  BY <1>2
<1>4. CASE Adding(p, v)
  <2>1. PICK V, ofs, d : Added(stored, V, ofs, p.header, v, d) /\ todo = Left(NewEntry(ofs, p.header, v), d)
    BY <1>4 DEF Adding
  <2>2. d = p.header.type + 6 /\ \E W, e : Listed(stored, W, e)
    BY <1>1, <2>1, AddEnds
  <2>3. Loaded(stored, p) = v
    BY <1>1, <2>1, <2>2, AddedHas
  <2> QED
    BY <1>3, <2>2, <2>3
<1>5. CASE Overwriting(p, v)
  <2>1. PICK V, e, o, old, d : Overwritten(stored, V, e, o, p, v, old, d) /\ todo = Left(Write(o + 3, v), d)
    BY <1>5 DEF Overwriting
  <2>2. d = p.header.type
    BY <1>1, <2>1, OverEnds
  <2>3. HasVersion(stored) => Loaded(stored, p) = v
    BY <1>1, <2>1, <2>2, OverLoads
  <2>4. Listed(stored, V, e)
    BY <2>1 DEF Overwritten
  <2> QED
    BY <1>3, <2>3, <2>4
<1> QED
  BY <1>3, <1>4, <1>5

\* save() and erase_all() return.
LEMMA DoneInv ==
    ASSUME Inv, Done
    PROVE  Inv'
<1>1. /\ stored \in [Device -> Byte] /\ DOMAIN may = Param /\ version \in Version /\ intact \in BOOLEAN
      /\ Formed(stored) /\ LoadsInv /\ KeepsInv /\ MagicInv /\ ClearInv
  BY DEF Inv, TypeOK
<1>2. /\ stored' = stored /\ version' = version /\ intact' = intact /\ call.fn \in {"save", "reset"} /\ todo = <<>>
      /\ call'.fn = "run" /\ todo' = <<>>
      /\ may' = (IF call.fn = "reset" THEN Defaults ELSE [may EXCEPT ![call.arg[1]] = {call.arg[2]}])
  BY DEF Done, In, Running
<1>3. DOMAIN may' = Param /\ LoadsInv' /\ \E V, e : Listed(stored, V, e)
  <2>1. CASE call.fn = "reset"
    <3>1. may' = Defaults
      BY <1>2, <2>1
    <3>2. Cleared(stored, 4)
      BY <1>1, <1>2, <2>1, ClearEnds DEF ClearInv
    <3>3. Listed(stored, {1}, 1) /\ ~HasVersion(stored)
      BY <1>1, <3>2, ClearedIs
    <3>4. DOMAIN may' = Param
      BY <3>1 DEF Defaults
    <3> QED
      BY <1>2, <3>3, <3>4 DEF LoadsInv
  <2>2. CASE call.fn = "save"
    <3>1. PICK p \in Param : \E v : /\ call.arg = <<p, v>>
                                    /\ HasVersion(stored) => Loaded(stored, p) = v
                                    /\ \E V, e : Listed(stored, V, e)
      BY <1>2, <2>2, SaveEnds
    <3>2. PICK v : call.arg = <<p, v>> /\ (HasVersion(stored) => Loaded(stored, p) = v) /\ \E V, e : Listed(stored, V, e)
      BY <3>1
    <3>3. may' = [may EXCEPT ![p] = {v}]
      BY <1>2, <2>2, <3>2
    <3>4. DOMAIN may' = Param /\ may'[p] = {v} /\ \A q \in Param : q # p => may'[q] = may[q]
      BY <1>1, <3>3
    <3>5. HasVersion(stored) => \A q \in Param : Loaded(stored, q) \in may'[q]
      BY <1>1, <3>2, <3>4 DEF LoadsInv
    <3> QED
      BY <1>2, <3>2, <3>4, <3>5 DEF LoadsInv
  <2> QED
    BY <1>2, <2>1, <2>2
<1>4. TypeOK'
  <2>1. todo' \in Seq(Offset \X Byte)
    BY <1>2
  <2> QED
    BY <1>1, <1>2, <1>3, <2>1 DEF TypeOK
<1>5. Formed(stored)' /\ KeepsInv' /\ MagicInv' /\ IdleInv'
  BY <1>1, <1>2, <1>3 DEF KeepsInv, MagicInv, IdleInv
<1> QED
  BY <1>2, <1>3, <1>4, <1>5 DEF Inv, ClearInv, VersionInv, SaveInv

\* A power failure.
LEMMA PowerFailInv ==
    ASSUME Inv, PowerFail
    PROVE  Inv'
<1>1. /\ stored' = stored /\ version' = version /\ intact' = intact /\ may' = may
      /\ call'.fn = "off" /\ todo' = <<>>
  BY DEF PowerFail, Running
<1>2. TypeOK'
  <2>1. todo' \in Seq(Offset \X Byte)
    BY <1>1
  <2> QED
    BY <1>1, <2>1 DEF Inv, TypeOK
<1>3. Formed(stored)' /\ LoadsInv' /\ KeepsInv'
  BY <1>1 DEF Inv, LoadsInv, KeepsInv
<1> QED
  BY <1>1, <1>2, <1>3 DEF Inv, ClearInv, MagicInv, IdleInv, VersionInv, SaveInv
\* save() begins.
LEMMA SaveBegins ==
    ASSUME Inv, NEW p \in Param, NEW v \in p.values, NEW force, Save(p, v, force)
    PROVE  Inv'
<1> DEFINE found == Found(stored, p.header)
           n == p.header.type
<1>1. /\ stored \in [Device -> Byte] /\ DOMAIN may = Param /\ version \in Version /\ intact \in BOOLEAN
      /\ Formed(stored) /\ LoadsInv /\ KeepsInv /\ MagicInv /\ IdleInv
  BY DEF Inv, TypeOK
<1>2. stored' = stored /\ version' = version /\ intact' = intact /\ call.fn = "run" /\ todo = <<>>
  BY DEF Save, In
<1>3. PICK V, e : Listed(stored, V, e)
  BY <1>1, <1>2 DEF IdleInv
<1>4. IsList(stored, V, e) /\ e \in V /\ e \in Nat /\ Base(stored, V, e) /\ OpenAt(stored, e)
  <2>1. IsList(stored, V, e)
    BY <1>1, <1>3, ListedIs
  <2>2. Base(stored, V, e) /\ OpenAt(stored, e)
    BY <1>3 DEF Listed
  <2>3. e \in Nat
    BY <2>2, BaseFacts
  <2> QED
    BY <2>1, <2>2, <2>3 DEF IsList
<1>5. found = {o \in V : Dec(stored, o) = p.header} /\ EndOf(stored) = e
  BY <1>4, FoundIs, EndIs
<1>6. /\ p.header \in Header /\ p.header.group # 31 /\ n \in {1, 2} /\ type_size(n) = n /\ v \in Seq(Byte) /\ Len(v) = n
      /\ Known(p.header) /\ p.header # format_version
  BY ParamFacts
<1>7. /\ (intact' => HasVersion(stored') /\ Read(stored', 0) = 1 /\ Read(stored', 4) = version') /\ Formed(stored')
      /\ Read(stored', 0) = 1
  BY <1>1, <1>2 DEF KeepsInv, MagicInv
<1> HIDE DEF found, n
<1>8. CASE /\ found # {}
           /\ todo' = Write(First(found) + HdrSize, v)
           /\ may' = [may EXCEPT ![p] = UNION {Mixes(old, v) : old \in @}]
           /\ call' = [fn |-> "save", arg |-> <<p, v>>]
  <2> DEFINE o == First(found)
             old == ReadBlock(stored, o + 3, n)
             s == Write(o + 3, v)
  <2>1. o \in V /\ o # e /\ Dec(stored, o) = p.header
    <3>1. \A q \in V : q \in Nat
      BY <1>4, BaseFacts
    <3>2. o \in found
      BY <1>5, <1>8, <3>1, FirstIs
    <3>3. Dec(stored, e).group = 31
      BY <1>1, <1>4, OpenIs
    <3> QED
      BY <1>5, <1>6, <3>2, <3>3
  <2>2. o \in Nat /\ o + 3 + n <= Size /\ o + 3 \in Nat
    <3>1. o \in Nat /\ o + Step(stored, o) <= e /\ Step(stored, o) = 3 + n /\ e < Size
      BY <1>4, <2>1, BaseFacts DEF n
    <3> QED
      BY <1>4, <1>6, <3>1, Sizes
  <2> HIDE DEF o
  <2>3. old \in Seq(Byte) /\ Len(old) = n /\ \A j \in 1 .. n : old[j] = Read(stored, o + 3 + j - 1)
    <3>1. old = [j \in 1 .. n |-> Read(stored, o + 3 + j - 1)]
      BY DEF ReadBlock
    <3>2. \A j \in 1 .. n : Read(stored, o + 3 + j - 1) \in Byte
      <4>1. \A j \in 1 .. n : o + 3 + j - 1 \in Nat
        BY <2>2, <1>6
      <4> QED
        BY <1>1, <4>1, ReadType
    <3> HIDE DEF old
    <3>3. old \in [1 .. n -> Byte] /\ n \in Nat
      BY <1>6, <3>1, <3>2
    <3>4. old \in Seq(Byte)
      BY <3>3, IsASeq
    <3> QED
      BY <3>1, <3>3, <3>4, LenProperties
  <2>4. s \in Seq(Nat \X Byte) /\ Len(s) = n /\ \A i \in 1 .. n : s[i][1] = o + 3 + i - 1
    BY <1>6, <2>2, WriteIs
  <2> HIDE DEF old, s
  <2>5. s \in Seq(Offset \X Byte)
    <3>1. \A i \in 1 .. Len(s) : s[i][1] < Size
      BY <1>6, <2>2, <2>4, Sizes
    <3> QED
      BY <2>4, <3>1, Inside
  <2>6. todo' = s /\ todo' = Left(s, 0)
    <3>1. todo' = s
      BY <1>8 DEF s, o, HdrSize
    <3> QED
      BY <2>4, <3>1, LeftAll
  <2>7. Overwritten(stored, V, e, o, p, v, old, 0)
    <3>1. \A j \in 1 .. n : ~(j <= 0)
      BY <1>6
    <3>2. \A j \in 1 .. n : Read(stored, o + 3 + j - 1) = IF j <= 0 THEN v[j] ELSE old[j]
      BY <2>3, <3>1
    <3>3. 0 \in 0 .. n
      BY <1>6
    <3> QED
      BY <1>3, <1>6, <2>1, <2>3, <3>2, <3>3 DEF Overwritten, n
  <2>8. DOMAIN may' = Param /\ may'[p] = UNION {Mixes(x, v) : x \in may[p]} /\ \A q \in Param : q # p => may'[q] = may[q]
    BY <1>1, <1>8
  <2>9. HasVersion(stored) => Mixes(old, v) \subseteq may'[p]
    <3>1. HasVersion(stored) => Loaded(stored, p) = old
      BY <1>1, <1>3, <2>1, OwnValue DEF old, n
    <3>2. HasVersion(stored) => old \in may[p]
      BY <1>1, <3>1 DEF LoadsInv
    <3> QED
      BY <2>8, <3>2
  <2>10. LoadsInv'
    <3>1. HasVersion(stored) => Loaded(stored, p) \in Mixes(old, v)
      BY <1>1, <2>7, OverLoads
    <3>2. HasVersion(stored) => Loaded(stored, p) \in may'[p]
      BY <2>9, <3>1
    <3>3. HasVersion(stored) => \A q \in Param : Loaded(stored, q) \in may'[q]
      BY <1>1, <2>8, <3>2 DEF LoadsInv
    <3> QED
      BY <1>2, <3>3 DEF LoadsInv
  <2>11. call'.fn = "save" /\ call'.arg = <<p, v>>
    BY <1>8
  <2>12. SaveInv'
    <3>1. /\ Overwritten(stored', V, e, o, p, v, old, 0) /\ todo' = Left(Write(o + 3, v), 0)
          /\ HasVersion(stored') => Mixes(old, v) \subseteq may'[p]
      BY <1>2, <2>6, <2>7, <2>9 DEF s
    <3>2. Overwriting(p, v)'
      BY <3>1 DEF Overwriting
    <3> QED
      BY <2>11, <3>2 DEF SaveInv
  <2>13. TypeOK'
    BY <1>1, <1>2, <2>5, <2>6, <2>8, <2>11 DEF TypeOK
  <2> QED
    BY <1>7, <2>10, <2>11, <2>12, <2>13 DEF Inv, KeepsInv, ClearInv, MagicInv, IdleInv, VersionInv
<1>9. CASE found = {} /\ may' = [may EXCEPT ![p] = @ \cup {v}] /\ todo' = todo /\ call' = call
  <2>1. DOMAIN may' = Param /\ \A q \in Param : may[q] \subseteq may'[q]
    BY <1>1, <1>9
  <2>2. LoadsInv'
    BY <1>1, <1>2, <2>1 DEF LoadsInv
  <2>3. TypeOK'
    BY <1>1, <1>2, <1>9, <2>1 DEF Inv, TypeOK
  <2>4. call'.fn = "run" /\ todo' = <<>> /\ Listed(stored', V, e)
    BY <1>2, <1>3, <1>9
  <2> QED
    BY <1>7, <2>2, <2>3, <2>4 DEF Inv, KeepsInv, ClearInv, MagicInv, IdleInv, VersionInv, SaveInv
<1>10. CASE /\ found = {} /\ ~Full(e, p.header)
            /\ todo' = NewEntry(e, p.header, v)
            /\ may' = [may EXCEPT ![p] = @ \cup {v}]
            /\ call' = [fn |-> "save", arg |-> <<p, v>>]
  <2> DEFINE s == NewEntry(e, p.header, v)
  <2>1. e + 6 + n <= Size
    <3>1. ~(e + n + 2 * 3 >= Size)
      BY <1>6, <1>10 DEF Full, HdrSize, n
    <3> QED
      BY <1>4, <1>6, <3>1, Sizes
  <2>2. s \in Seq(Offset \X Byte)
    BY <1>4, <1>6, <2>1, NewInside
  <2> HIDE DEF s
  <2>3. todo' = s /\ todo' = Left(s, 0)
    <3>1. todo' = s
      BY <1>10 DEF s
    <3> QED
      BY <2>2, <3>1, LeftAll
  <2>4. Added(stored, V, e, p.header, v, 0)
    <3>1. \A o \in V : Dec(stored, o) # p.header
      BY <1>5, <1>10
    <3>2. Read(stored, e + 2) = 15
      BY <1>4 DEF OpenAt
    <3>3. 0 \in 0 .. n + 6
      BY <1>6
    <3> QED
      BY <1>4, <1>6, <2>1, <3>1, <3>2, <3>3 DEF Added, n
  <2>5. DOMAIN may' = Param /\ v \in may'[p] /\ \A q \in Param : may[q] \subseteq may'[q]
    BY <1>1, <1>10
  <2>6. LoadsInv'
    BY <1>1, <1>2, <2>5 DEF LoadsInv
  <2>7. call'.fn = "save" /\ call'.arg = <<p, v>>
    BY <1>10
  <2>8. SaveInv'
    <3>1. Added(stored', V, e, p.header, v, 0) /\ todo' = Left(NewEntry(e, p.header, v), 0)
      BY <1>2, <2>3, <2>4 DEF s
    <3>2. Adding(p, v)'
      BY <2>5, <3>1 DEF Adding
    <3> QED
      BY <2>7, <3>2 DEF SaveInv
  <2>9. TypeOK'
    BY <1>1, <1>2, <2>2, <2>3, <2>5, <2>7 DEF TypeOK
  <2> QED
    BY <1>7, <2>6, <2>7, <2>8, <2>9 DEF Inv, KeepsInv, ClearInv, MagicInv, IdleInv, VersionInv
<1>11. \/ /\ found # {}
          /\ todo' = Write(First(found) + HdrSize, v)
          /\ may' = [may EXCEPT ![p] = UNION {Mixes(old, v) : old \in @}]
          /\ call' = [fn |-> "save", arg |-> <<p, v>>]
       \/ found = {} /\ may' = [may EXCEPT ![p] = @ \cup {v}] /\ todo' = todo /\ call' = call
       \/ /\ found = {} /\ ~Full(e, p.header)
          /\ todo' = NewEntry(e, p.header, v)
          /\ may' = [may EXCEPT ![p] = @ \cup {v}]
          /\ call' = [fn |-> "save", arg |-> <<p, v>>]
  BY <1>5, Zenon DEF Save, Running, found
<1> QED
  BY <1>8, <1>9, <1>10, <1>11
-----------------------------------------------------------------------------
(* The action that writes.                                                 *)

\* The next byte of the call goes to the parameter areas.
LEMMA WriteFacts ==
    ASSUME TypeOK, WriteByte
    PROVE  /\ Wrote(stored, stored', Head(todo)[1], Head(todo)[2])
           /\ \A x \in Device \ ParamBytes : stored'[x] = stored[x]
           /\ todo # <<>> /\ todo' = Tail(todo) /\ todo' \in Seq(Offset \X Byte) /\ stored' \in [Device -> Byte]
           /\ call' = call /\ version' = version /\ intact' = intact /\ may' = may
<1>1. /\ todo # <<>> /\ todo' = Tail(todo) /\ call' = call /\ version' = version /\ intact' = intact /\ may' = may
      /\ stored' = [stored EXCEPT ![Address[Head(todo)[1]]] = Head(todo)[2]]
  BY DEF WriteByte
<1>2. stored \in [Device -> Byte] /\ todo \in Seq(Offset \X Byte)
  BY DEF TypeOK
<1>3. Head(todo) \in Offset \X Byte /\ Tail(todo) \in Seq(Offset \X Byte)
  BY <1>1, <1>2, HeadTailProperties
<1>4. Head(todo)[1] \in Offset /\ Head(todo)[2] \in Byte
  BY <1>3
<1>5. Wrote(stored, stored', Head(todo)[1], Head(todo)[2]) /\ \A x \in Device \ ParamBytes : stored'[x] = stored[x]
  <2>1. PICK a \in Offset, b \in Byte : a = Head(todo)[1] /\ b = Head(todo)[2]
    BY <1>4
  <2>2. stored' = [stored EXCEPT ![Address[a]] = b]
    BY <1>1, <2>1
  <2>3. Wrote(stored, stored', a, b)
    BY <1>2, <2>2, WriteOne
  <2>4. Address[a] \in ParamBytes
    BY Addresses
  <2>5. \A x \in Device \ ParamBytes : stored'[x] = stored[x]
    BY <1>2, <2>2, <2>4
  <2> QED
    BY <2>1, <2>3, <2>5
<1>6. stored' \in [Device -> Byte]
  BY <1>5 DEF Wrote
<1> QED
  BY <1>1, <1>3, <1>5, <1>6

\* A byte of erase_all().
LEMMA WriteClear ==
    ASSUME Inv, WriteByte, call.fn \in {"setup", "erase", "reset"}
    PROVE  Formed(stored') /\ LoadsInv' /\ KeepsInv' /\ Clearing' /\ Read(stored', 0) = 1
<1>1. /\ stored \in [Device -> Byte] /\ Formed(stored) /\ LoadsInv /\ ClearInv /\ TypeOK
  BY DEF Inv, TypeOK
<1>2. /\ Wrote(stored, stored', Head(todo)[1], Head(todo)[2]) /\ todo # <<>> /\ todo' = Tail(todo)
      /\ stored' \in [Device -> Byte] /\ intact' = intact /\ may' = may
  BY <1>1, WriteFacts
<1>3. ~intact /\ \E d : Cleared(stored, d) /\ todo = Left(EraseWrites, d)
  BY <1>1, <1>2 DEF ClearInv, Clearing
<1>4. PICK d : Cleared(stored, d) /\ todo = Left(EraseWrites, d)
  BY <1>3
<1>5. EraseWrites \in Seq(Offset \X Byte) /\ Len(EraseWrites) = 4 /\ d \in 0 .. 4
  BY <1>4, EraseIs DEF Cleared
<1>6. d < 4 /\ Head(todo) = EraseWrites[d + 1] /\ todo' = Left(EraseWrites, d + 1)
  BY <1>2, <1>4, <1>5, LeftNext
<1>7. Wrote(stored, stored', EraseWrites[d + 1][1], EraseWrites[d + 1][2])
  BY <1>2, <1>6
<1>8. /\ Cleared(stored', d + 1) /\ Formed(stored') /\ (HasVersion(stored') => HasVersion(stored))
      /\ HasVersion(stored') => \A p \in Param : Loaded(stored', p) = Loaded(stored, p)
  BY <1>1, <1>2, <1>4, <1>6, <1>7, ClearStep
<1>9. LoadsInv' /\ KeepsInv'
  BY <1>1, <1>2, <1>3, <1>8 DEF LoadsInv, KeepsInv
<1>10. Clearing'
  BY <1>2, <1>3, <1>6, <1>8 DEF Clearing
<1>11. Read(stored', 0) = 1
  <2>1. d + 1 >= 1
    BY <1>5
  <2> QED
    BY <1>8, <2>1 DEF Cleared
<1> QED
  BY <1>8, <1>9, <1>10, <1>11

\* The next byte of a new entry.
LEMMA WriteAdded ==
    ASSUME TypeOK, WriteByte, NEW V, NEW ofs, NEW h, NEW v, NEW d, Added(stored, V, ofs, h, v, d),
           todo = Left(NewEntry(ofs, h, v), d)
    PROVE  /\ d < h.type + 6 /\ todo' = Left(NewEntry(ofs, h, v), d + 1)
           /\ Wrote(stored, stored', NewEntry(ofs, h, v)[d + 1][1], NewEntry(ofs, h, v)[d + 1][2])
           /\ Added(stored', V, ofs, h, v, d + 1) /\ SameBelow(stored, stored', V, ofs)
           /\ ofs \in Nat /\ ofs >= 1 /\ Formed(stored')
<1> DEFINE s == NewEntry(ofs, h, v)
<1>1. /\ Wrote(stored, stored', Head(todo)[1], Head(todo)[2]) /\ todo # <<>> /\ todo' = Tail(todo)
      /\ stored' \in [Device -> Byte] /\ stored \in [Device -> Byte]
  BY WriteFacts DEF TypeOK
<1>2. h \in Header /\ h.type \in {1, 2} /\ v \in Seq(Byte) /\ Len(v) = h.type /\ d \in 0 .. h.type + 6
  BY KnownHeader DEF Added
<1>3. ofs \in Nat /\ ofs >= 1
  BY BaseFacts DEF Added
<1>4. s \in Seq(Nat \X Byte) /\ Len(s) = h.type + 6
  <2>1. Entry(s, ofs, h, v)
    BY <1>2, <1>3, NewIs
  <2> HIDE DEF s
  <2> QED
    BY <1>2, <2>1 DEF Entry
<1> HIDE DEF s
<1>5. todo = Left(s, d)
  BY DEF s
<1>6. d < h.type + 6 /\ Head(todo) = s[d + 1] /\ todo' = Left(s, d + 1)
  BY <1>1, <1>2, <1>4, <1>5, LeftNext
<1>7. Wrote(stored, stored', s[d + 1][1], s[d + 1][2])
  BY <1>1, <1>6
<1>8. Added(stored', V, ofs, h, v, d + 1) /\ SameBelow(stored, stored', V, ofs)
  BY <1>1, <1>6, <1>7, AddedStep DEF s
<1>9. Formed(stored')
  BY <1>1, <1>8, AddedListed DEF Formed
<1> QED
  BY <1>3, <1>6, <1>7, <1>8, <1>9 DEF s

\* A byte of the format version.
LEMMA WriteVersion ==
    ASSUME Inv, WriteByte, call.fn = "version"
    PROVE  Formed(stored') /\ LoadsInv' /\ KeepsInv' /\ Read(stored', 0) = 1 /\ VersionInv'
<1>1. stored \in [Device -> Byte] /\ TypeOK /\ VersionInv /\ Read(stored, 0) = 1
  BY DEF Inv, TypeOK, MagicInv
<1>2. stored' \in [Device -> Byte] /\ intact' = intact /\ may' = may /\ version' = version
  BY <1>1, WriteFacts
<1>3. ~intact /\ may = Defaults
  BY <1>1 DEF VersionInv
<1>4. PICK d : /\ Added(stored, {1}, 1, format_version, <<version>>, d)
               /\ todo = Left(NewEntry(1, format_version, <<version>>), d)
  BY <1>1 DEF VersionInv
<1>5. /\ todo' = Left(NewEntry(1, format_version, <<version>>), d + 1) /\ Formed(stored')
      /\ Added(stored', {1}, 1, format_version, <<version>>, d + 1) /\ SameBelow(stored, stored', {1}, 1)
  BY <1>1, <1>4, WriteAdded
<1>6. Read(stored', 0) = 1
  BY <1>1, <1>5 DEF SameBelow
<1>7. ASSUME HasVersion(stored'), NEW p \in Param PROVE Loaded(stored', p) = p.default
  <2>1. ~Matches(p, Dec(stored', 1))
    BY <1>7, ParamFacts DEF HasVersion
  <2>2. PICK W, e : IsList(stored', W, e) /\ Mine(stored', W, p) = Old(stored', {1}, 1, p)
    BY <1>2, <1>5, <2>1, AddedMine
  <2>3. Mine(stored', W, p) = {}
    BY <2>2 DEF Old
  <2> QED
    BY <2>2, <2>3, LoadedIs
<1>8. LoadsInv'
  <2>1. HasVersion(stored') => \A p \in Param : Loaded(stored', p) \in may'[p]
    BY <1>2, <1>3, <1>7 DEF Defaults
  <2> QED
    BY <2>1 DEF LoadsInv
<1>9. KeepsInv'
  BY <1>2, <1>3 DEF KeepsInv
<1>10. VersionInv'
  <2>1. ~intact' /\ may' = Defaults'
    BY <1>2, <1>3 DEF Defaults
  <2>2. /\ Added(stored', {1}, 1, format_version, <<version'>>, d + 1)
        /\ todo' = Left(NewEntry(1, format_version, <<version'>>), d + 1)
    BY <1>2, <1>5
  <2> QED
    BY <2>1, <2>2 DEF VersionInv
<1> QED
  BY <1>5, <1>6, <1>8, <1>9, <1>10

\* A byte of a new entry of a parameter.
LEMMA WriteAdding ==
    ASSUME Inv, WriteByte, call.fn = "save", NEW p \in Param, NEW v, Adding(p, v)
    PROVE  Formed(stored') /\ LoadsInv' /\ KeepsInv' /\ Read(stored', 0) = 1 /\ Adding(p, v)'
<1> DEFINE h == p.header
<1>1. stored \in [Device -> Byte] /\ TypeOK /\ LoadsInv /\ KeepsInv /\ Read(stored, 0) = 1
  BY DEF Inv, TypeOK, MagicInv
<1>2. stored' \in [Device -> Byte] /\ intact' = intact /\ may' = may /\ version' = version
  BY <1>1, WriteFacts
<1>3. v \in may[p] /\ \E V, ofs, d : Added(stored, V, ofs, h, v, d) /\ todo = Left(NewEntry(ofs, h, v), d)
  BY DEF Adding
<1>4. PICK V, ofs, d : Added(stored, V, ofs, h, v, d) /\ todo = Left(NewEntry(ofs, h, v), d)
  BY <1>3
<1>5. /\ d < h.type + 6 /\ todo' = Left(NewEntry(ofs, h, v), d + 1)
      /\ Wrote(stored, stored', NewEntry(ofs, h, v)[d + 1][1], NewEntry(ofs, h, v)[d + 1][2])
      /\ Added(stored', V, ofs, h, v, d + 1) /\ SameBelow(stored, stored', V, ofs)
      /\ ofs \in Nat /\ ofs >= 1 /\ Formed(stored')
  BY <1>1, <1>4, WriteAdded
<1>6. h # format_version
  BY ParamFacts
<1>7. Read(stored', 0) = 1
  BY <1>1, <1>5 DEF SameBelow
<1>8. (HasVersion(stored) => ofs > 4 /\ 1 \in V /\ 1 # ofs) /\ (HasVersion(stored') => ofs > 4 /\ 1 \in V /\ 1 # ofs)
  BY <1>1, <1>2, <1>4, <1>5, <1>6, AddedVersion
<1>9. 1 \in V /\ 1 # ofs => (HasVersion(stored') <=> HasVersion(stored))
  BY <1>5 DEF SameBelow, HasVersion, Dec
<1>10. ASSUME HasVersion(stored'), NEW q \in Param PROVE Loaded(stored', q) \in may'[q]
  <2>1. Loaded(stored', q) = Loaded(stored, q) \/ (q.header = h /\ Loaded(stored', q) = v)
    BY <1>1, <1>2, <1>4, <1>5, AddedLoads
  <2>2. q.header = h => q = p
    BY ParamFacts
  <2>3. Loaded(stored, q) \in may[q]
    BY <1>1, <1>8, <1>9, <1>10 DEF LoadsInv
  <2> QED
    BY <1>2, <1>3, <2>1, <2>2, <2>3
<1>11. LoadsInv'
  BY <1>10 DEF LoadsInv
<1>12. KeepsInv'
  <2>1. ASSUME intact PROVE HasVersion(stored') /\ Read(stored', 4) = version
    <3>1. HasVersion(stored) /\ Read(stored, 4) = version
      BY <1>1, <2>1 DEF KeepsInv
    <3>2. Read(stored', 4) = Read(stored, 4)
      BY <1>5, <1>8, <3>1 DEF SameBelow
    <3> QED
      BY <1>8, <1>9, <3>1, <3>2
  <2> QED
    BY <1>2, <1>7, <2>1 DEF KeepsInv
<1>13. Adding(p, v)'
  BY <1>2, <1>3, <1>5 DEF Adding
<1> QED
  BY <1>5, <1>7, <1>11, <1>12, <1>13

\* A byte of a value that is overwritten.
LEMMA WriteOver ==
    ASSUME Inv, WriteByte, call.fn = "save", NEW p \in Param, NEW v, Overwriting(p, v)
    PROVE  Formed(stored') /\ LoadsInv' /\ KeepsInv' /\ Read(stored', 0) = 1 /\ Overwriting(p, v)'
<1> DEFINE n == p.header.type
<1>1. stored \in [Device -> Byte] /\ TypeOK /\ LoadsInv /\ KeepsInv /\ Read(stored, 0) = 1
  BY DEF Inv, TypeOK, MagicInv
<1>2. /\ stored' \in [Device -> Byte] /\ intact' = intact /\ may' = may /\ version' = version
      /\ Wrote(stored, stored', Head(todo)[1], Head(todo)[2]) /\ todo # <<>> /\ todo' = Tail(todo)
  BY <1>1, WriteFacts
<1>3. PICK V, e, o, old, d :
          /\ Overwritten(stored, V, e, o, p, v, old, d) /\ todo = Left(Write(o + 3, v), d)
          /\ HasVersion(stored) => Mixes(old, v) \subseteq may[p]
  BY DEF Overwriting
<1>4. v \in Seq(Byte) /\ Len(v) = n /\ d \in 0 .. n /\ n \in {1, 2} /\ Listed(stored, V, e) /\ o \in V
  BY <1>3, ParamFacts DEF Overwritten
<1>5. o \in Nat /\ o + 3 \in Nat
  <2>1. \A q \in V : q \in Nat
    BY <1>4, BaseFacts DEF Listed
  <2> QED
    BY <1>4, <2>1
<1> DEFINE s == Write(o + 3, v)
<1>6. s \in Seq(Nat \X Byte) /\ Len(s) = n /\ \A i \in 1 .. n : s[i][1] = o + 3 + i - 1 /\ s[i][2] = v[i]
  BY <1>4, <1>5, WriteIs
<1> HIDE DEF s, n
<1>7. d < n /\ Head(todo) = s[d + 1] /\ todo' = Left(s, d + 1)
  <2>1. todo = Left(s, d)
    BY <1>3 DEF s
  <2>2. s \in Seq(Nat \X Byte) /\ d \in 0 .. Len(s) /\ Left(s, d) # <<>>
    BY <1>2, <1>4, <1>6, <2>1
  <2>3. d < Len(s) /\ Head(Left(s, d)) = s[d + 1] /\ Tail(Left(s, d)) = Left(s, d + 1)
    BY <2>2, LeftNext
  <2> QED
    BY <1>2, <1>6, <2>1, <2>3
<1>8. Wrote(stored, stored', o + 3 + d, v[d + 1])
  <2>1. d + 1 \in 1 .. n /\ o + 3 + (d + 1) - 1 = o + 3 + d
    BY <1>4, <1>5, <1>7
  <2>2. s[d + 1][1] = o + 3 + (d + 1) - 1 /\ s[d + 1][2] = v[d + 1]
    BY <1>6, <2>1
  <2> QED
    BY <1>2, <1>7, <2>1, <2>2
<1>9. /\ Overwritten(stored', V, e, o, p, v, old, d + 1)
      /\ (HasVersion(stored') <=> HasVersion(stored))
      /\ HasVersion(stored) => o + 3 + d > 4
      /\ o + 3 + d > 0
      /\ \A q \in Param : q # p => Loaded(stored', q) = Loaded(stored, q)
  BY <1>1, <1>2, <1>3, <1>7, <1>8, OverStep DEF n
<1>10. \A q \in Nat : q # o + 3 + d => Read(stored', q) = Read(stored, q)
  BY <1>8 DEF Wrote
<1>11. Read(stored', 0) = 1
  <2>1. 0 # o + 3 + d
    BY <1>4, <1>5, <1>9
  <2> QED
    BY <1>1, <1>10, <2>1
<1>12. LoadsInv'
  <2>1. HasVersion(stored') => Loaded(stored', p) \in Mixes(old, v)
    BY <1>2, <1>9, OverLoads
  <2>2. HasVersion(stored') => \A q \in Param : Loaded(stored', q) \in may'[q]
    BY <1>1, <1>2, <1>3, <1>9, <2>1 DEF LoadsInv
  <2> QED
    BY <2>2 DEF LoadsInv
<1>13. KeepsInv'
  <2>1. ASSUME intact PROVE HasVersion(stored') /\ Read(stored', 4) = version
    <3>1. HasVersion(stored) /\ Read(stored, 4) = version
      BY <1>1, <2>1 DEF KeepsInv
    <3>2. 4 # o + 3 + d
      BY <1>4, <1>5, <1>9, <3>1
    <3> QED
      BY <1>9, <1>10, <3>1, <3>2
  <2> QED
    BY <1>2, <1>11, <2>1 DEF KeepsInv
<1>14. Formed(stored')
  BY <1>9 DEF Formed, Overwritten
<1>15. Overwriting(p, v)'
  <2>1. /\ Overwritten(stored', V, e, o, p, v, old, d + 1) /\ todo' = Left(Write(o + 3, v), d + 1)
        /\ HasVersion(stored') => Mixes(old, v) \subseteq may'[p]
    BY <1>2, <1>3, <1>7, <1>9 DEF s
  <2> QED
    BY <2>1 DEF Overwriting
<1> QED
  BY <1>11, <1>12, <1>13, <1>14, <1>15
\* A byte of whatever call is in progress.
LEMMA WriteByteInv ==
    ASSUME Inv, WriteByte
    PROVE  Inv'
<1>1. TypeOK /\ IdleInv /\ SaveInv
  BY DEF Inv
<1>2. /\ todo # <<>> /\ todo' \in Seq(Offset \X Byte) /\ stored' \in [Device -> Byte]
      /\ call' = call /\ version' = version /\ intact' = intact /\ may' = may
  BY <1>1, WriteFacts
<1>3. TypeOK'
  BY <1>1, <1>2 DEF TypeOK
<1>4. call.fn \in {"setup", "erase", "version", "reset", "save"}
  BY <1>1, <1>2 DEF TypeOK, IdleInv
<1>5. CASE call.fn \in {"setup", "erase", "reset"}
  <2>1. Formed(stored') /\ LoadsInv' /\ KeepsInv' /\ Clearing' /\ Read(stored', 0) = 1
    BY <1>5, WriteClear
  <2> QED
    BY <1>2, <1>3, <1>5, <2>1 DEF Inv, ClearInv, MagicInv, IdleInv, VersionInv, SaveInv
<1>6. CASE call.fn = "version"
  <2>1. Formed(stored') /\ LoadsInv' /\ KeepsInv' /\ Read(stored', 0) = 1 /\ VersionInv'
    BY <1>6, WriteVersion
  <2> QED
    BY <1>2, <1>3, <1>6, <2>1 DEF Inv, ClearInv, MagicInv, IdleInv, SaveInv
<1>7. CASE call.fn = "save"
  <2>1. PICK p \in Param : \E v : call.arg = <<p, v>> /\ (Adding(p, v) \/ Overwriting(p, v))
    BY <1>1, <1>7 DEF SaveInv
  <2>2. PICK v : call.arg = <<p, v>> /\ (Adding(p, v) \/ Overwriting(p, v))
    BY <2>1
  <2>3. /\ Formed(stored') /\ LoadsInv' /\ KeepsInv' /\ Read(stored', 0) = 1
        /\ Adding(p, v)' \/ Overwriting(p, v)'
    BY <1>7, <2>2, WriteAdding, WriteOver
  <2>4. SaveInv'
    BY <1>2, <2>2, <2>3 DEF SaveInv
  <2> QED
    BY <1>2, <1>3, <1>7, <2>3, <2>4 DEF Inv, ClearInv, MagicInv, IdleInv, VersionInv
<1> QED
  BY <1>4, <1>5, <1>6, <1>7

\* The invariant is inductive.
LEMMA NextInv == Inv /\ [Next]_vars => Inv'
<1> SUFFICES ASSUME Inv, [Next]_vars PROVE Inv'
  OBVIOUS
<1>1. CASE \E v \in Version : PowerOn(v)
  BY <1>1, PowerOnInv
<1>2. CASE CheckFormat
  BY <1>2, CheckFormatInv
<1>3. CASE Erased
  BY <1>3, ErasedInv
<1>4. CASE Booted
  BY <1>4, BootedInv
<1>5. CASE Reset
  BY <1>5, ResetInv
<1>6. CASE Done
  BY <1>6, DoneInv
<1>7. ASSUME NEW p \in Param, NEW force \in BOOLEAN, NEW v \in p.values, Save(p, v, force) PROVE Inv'
  BY <1>7, SaveBegins
<1>8. CASE WriteByte
  BY <1>8, WriteByteInv
<1>9. CASE PowerFail
  BY <1>9, PowerFailInv
<1>10. CASE UNCHANGED vars
  BY <1>10 DEF vars, Inv, TypeOK, LoadsInv, KeepsInv, ClearInv, Clearing, MagicInv, IdleInv, VersionInv, SaveInv,
               Adding, Overwriting, Defaults
<1> QED
  BY <1>1, <1>2, <1>3, <1>4, <1>5, <1>6, <1>7, <1>8, <1>9, <1>10 DEF Next

\* It holds always.
LEMMA InvAlways == Spec => []Inv
<1> QED
  BY InitInv, NextInv, PTL DEF Spec

-----------------------------------------------------------------------------
(* The theorems.                                                           *)

\* The variables are of their types: no call writes behind the parameter areas.
THEOREM ParamTypeCorrect == Spec => []TypeOK
<1>1. Inv => TypeOK
  BY DEF Inv
<1> QED
  BY <1>1, InvAlways, PTL

\* No call of AP_Param writes a byte of another owner's area, however the list and
\* the areas lie.
THEOREM ParamOthersUntouched == Spec => OthersUntouched
<1>1. Inv /\ [Next]_vars => [\A a \in Device \ ParamBytes : stored'[a] = stored[a]]_vars
  <2> SUFFICES ASSUME Inv, [Next]_vars PROVE \A a \in Device \ ParamBytes : stored'[a] = stored[a]
    OBVIOUS
  <2>1. CASE WriteByte
    BY <2>1, WriteFacts DEF Inv
  <2>2. CASE stored' = stored
    BY <2>2
  <2>3. WriteByte \/ stored' = stored
    BY DEF Next, vars, PowerOn, CheckFormat, Erased, Booted, Reset, Save, Done, PowerFail
  <2> QED
    BY <2>1, <2>2, <2>3
<1> QED
  BY <1>1, InvAlways, PTL DEF Spec, OthersUntouched

\* Wherever power fails, the next walk over the list ends inside the areas.
THEOREM ParamListEnds == Spec => []ListEnds
<1>1. Inv => ListEnds
  <2> SUFFICES ASSUME Inv PROVE EndOf(stored) # -1 /\ EndOf(stored) + HdrSize <= Size
    BY DEF ListEnds
  <2>1. PICK V, e : IsList(stored, V, e) /\ e + 3 <= Size
    BY ListShape DEF Inv, TypeOK
  <2>2. EndOf(stored) = e
    BY <2>1, EndIs
  <2>3. e \in Nat
    BY <2>1, Sizes DEF IsList, Offset
  <2> QED
    BY <2>1, <2>2, <2>3 DEF HdrSize
<1> QED
  BY <1>1, InvAlways, PTL

\* Wherever power fails, the next boot of the same firmware keeps the list.
THEOREM ParamBootKeeps == Spec => []BootKeeps
<1>1. Inv => BootKeeps
  <2> SUFFICES ASSUME Inv, intact PROVE ~BootErases(stored)
    BY DEF BootKeeps
  <2>1. HasVersion(stored) /\ Read(stored, 0) = 1 /\ Read(stored, 4) = version
    BY DEF Inv, KeepsInv
  <2>2. ~BadFormat(stored)
    BY <2>1, FormatIs DEF Inv, TypeOK
  <2> QED
    BY <2>1, <2>2 DEF BootErases, BadMagic, MAGIC
<1> QED
  BY <1>1, InvAlways, PTL

\* Wherever power fails, a list that is not erased is loaded with the values last saved;
\* only the parameter whose save was cut has its old value, its new one, or, when it is
\* overwritten in place, a mix of the two.
THEOREM ParamLoadsSaved == Spec => []LoadsSaved
<1>1. Inv => LoadsSaved
  <2> SUFFICES ASSUME Inv, ~BootErases(stored) PROVE \A p \in Param : Loaded(stored, p) \in may[p]
    BY DEF LoadsSaved
  <2>1. HasVersion(stored)
    BY FormatIs DEF Inv, TypeOK, BootErases
  <2> QED
    BY <2>1 DEF Inv, LoadsInv
<1> QED
  BY <1>1, InvAlways, PTL
=============================================================================
