--------------------------- MODULE SysBusMap_proofs ---------------------------
(***************************************************************************)
(* Theorems about SysBusMap, for an address space of any size, any lengths *)
(* of devices and any number of them.                                      *)
(***************************************************************************)
EXTENDS SysBusMap, TLAPS

------------------------------------------------------------------------------
\* Arithmetic modulo the address space.

LEMMA Moduli == AddrSpace \in Nat /\ AddrSpace >= 1
BY BusAssumption

LEMMA ModInAddress == ASSUME NEW n \in Int PROVE n % AddrSpace \in Address
BY Moduli DEF Address

\* Below the modulus nothing wraps, and just above it once.
LEMMA ModSmall == ASSUME NEW n \in Address PROVE n % AddrSpace = n
BY Moduli DEF Address

LEMMA ModOnce ==
    ASSUME NEW n \in Int, AddrSpace <= n, n < AddrSpace + AddrSpace
    PROVE  n % AddrSpace = n - AddrSpace
<1>1. n - AddrSpace \in 0..(AddrSpace - 1)
  BY Moduli
<1>2. n = AddrSpace * 1 + (n - AddrSpace)
  BY Moduli
<1> QED BY <1>1, <1>2, Moduli

------------------------------------------------------------------------------
\* Devices.

\* What the list holds whatever is mapped: a device with its array, and perhaps
\* bytes stored past it (an empty device is handed an offset behind its array).
Held ==
    {d \in [base : Address, len : Lens, mem : UNION {[T -> Data] : T \in SUBSET Nat}] :
        0..(d.len - 1) \subseteq DOMAIN d.mem}

LEMMA HeldFields ==
    ASSUME NEW d \in Held
    PROVE  /\ d.base \in Address /\ d.len \in Lens /\ d.len \in Nat
           /\ DOMAIN d.mem \in SUBSET Nat /\ d.mem \in [DOMAIN d.mem -> Data]
           /\ 0..(d.len - 1) \subseteq DOMAIN d.mem
           /\ d = [base |-> d.base, len |-> d.len, mem |-> d.mem]
           /\ MaxAddr(d) \in Address
<1>1. /\ d \in [base : Address, len : Lens, mem : UNION {[T -> Data] : T \in SUBSET Nat}]
      /\ 0..(d.len - 1) \subseteq DOMAIN d.mem
  BY DEF Held
<1>2. d.base \in Address /\ d.len \in Lens /\ d.len \in Nat
  BY <1>1, BusAssumption
<1>3. PICK T \in SUBSET Nat : d.mem \in [T -> Data]
  BY <1>1
<1>4. MaxAddr(d) \in Address
  <2>1. d.base + d.len \in Int
    BY <1>2 DEF Address
  <2> QED BY <2>1, ModInAddress DEF MaxAddr
<1> QED BY <1>1, <1>2, <1>3, <1>4

\* A device is held, and a held device with an array of its length is a device.
LEMMA DeviceHeld ==
    ASSUME NEW d \in Device
    PROVE  d \in Held /\ d.mem \in [0..(d.len - 1) -> Data]
<1>1. PICK n \in Lens : d \in [base : Address, len : {n}, mem : [0..(n - 1) -> Data]]
  BY DEF Device
<1>2. n \in Nat /\ 0..(n - 1) \in SUBSET Nat
  BY BusAssumption
<1>3. d.len = n /\ d.mem \in [0..(n - 1) -> Data] /\ DOMAIN d.mem = 0..(n - 1)
  BY <1>1
<1>4. d.mem \in UNION {[T -> Data] : T \in SUBSET Nat}
  BY <1>2, <1>3
<1>5. d \in [base : Address, len : Lens, mem : UNION {[T -> Data] : T \in SUBSET Nat}]
  BY <1>1, <1>4
<1> QED BY <1>3, <1>5 DEF Held

LEMMA HeldDevice ==
    ASSUME NEW d \in Held, DOMAIN d.mem = 0..(d.len - 1)
    PROVE  d \in Device
<1> DEFINE n == d.len
           m == d.mem
<1>1. /\ d.base \in Address /\ n \in Lens /\ m \in [0..(n - 1) -> Data]
      /\ d = [base |-> d.base, len |-> n, mem |-> m]
  BY HeldFields
<1> HIDE DEF n, m
<1>2. d \in [base : Address, len : {n}, mem : [0..(n - 1) -> Data]]
  BY <1>1
<1> QED BY <1>1, <1>2 DEF Device

\* What a bus step leaves of a device: the same place, one byte written.
LEMMA WriteType ==
    ASSUME NEW d \in Held, NEW offset \in Nat, NEW value \in Data
    PROVE  /\ Write(d, offset, value) \in Held
           /\ Write(d, offset, value).base = d.base
           /\ Write(d, offset, value).len = d.len
           /\ DOMAIN Write(d, offset, value).mem = DOMAIN d.mem \union {offset}
           /\ Write(d, offset, value).mem[offset] = value
           /\ \A o \in DOMAIN d.mem : o # offset => Write(d, offset, value).mem[o] = d.mem[o]
<1> DEFINE T == DOMAIN d.mem \union {offset}
           m == [o \in T |-> IF o = offset THEN value ELSE d.mem[o]]
<1>1. /\ d.base \in Address /\ d.len \in Lens /\ d.len \in Nat
      /\ DOMAIN d.mem \in SUBSET Nat /\ d.mem \in [DOMAIN d.mem -> Data]
      /\ 0..(d.len - 1) \subseteq DOMAIN d.mem
      /\ d = [base |-> d.base, len |-> d.len, mem |-> d.mem]
  BY HeldFields
<1>2. T \in SUBSET Nat /\ m \in [T -> Data] /\ DOMAIN m = T
  BY <1>1
<1>3. m[offset] = value /\ \A o \in DOMAIN d.mem : o # offset => m[o] = d.mem[o]
  OBVIOUS
<1>4. Write(d, offset, value) = [d EXCEPT !.mem = m]
  BY DEF Write
<1>5. m \in UNION {[U -> Data] : U \in SUBSET Nat}
  BY <1>2
<1>6. 0..(d.len - 1) \subseteq T
  BY <1>1
<1> HIDE DEF m, T
<1>7. [d EXCEPT !.mem = m] = [base |-> d.base, len |-> d.len, mem |-> m]
  BY <1>1
<1>8. [base |-> d.base, len |-> d.len, mem |-> m] \in Held
  BY <1>1, <1>2, <1>5, <1>6 DEF Held
<1> QED BY <1>2, <1>3, <1>4, <1>7, <1>8 DEF T

\* A device that is not empty holds every address it claims.  A device that
\* reaches the end of the address space claims its base address only.
LEMMA OffsetBelowLength ==
    ASSUME NEW d \in Held, d.len # 0, NEW a \in Address, Inbounds(d, a)
    PROVE  Offset(d, a) < d.len
<1>1. d.base \in Address /\ d.len \in Nat
  BY HeldFields
<1>2. CASE a = d.base
  <2>1. a - d.base = 0
    BY <1>1, <1>2 DEF Address
  <2>2. 0 \in Address
    BY Moduli DEF Address
  <2>3. Offset(d, a) = 0
    BY <2>1, <2>2, ModSmall DEF Offset
  <2> QED BY <1>1, <2>3
<1>3. CASE d.base < a /\ a < MaxAddr(d)
  <2>1. a - d.base \in Address
    BY <1>1, <1>3, Moduli DEF Address
  <2>2. Offset(d, a) = a - d.base
    BY <2>1, ModSmall DEF Offset
  <2>3. CASE d.base + d.len < AddrSpace
    <3>1. d.base + d.len \in Address
      BY <1>1, <2>3, Moduli DEF Address
    <3>2. MaxAddr(d) = d.base + d.len
      BY <3>1, ModSmall DEF MaxAddr
    <3> QED BY <1>1, <1>3, <2>2, <3>2 DEF Address
  <2>4. CASE d.base + d.len >= AddrSpace /\ d.len < AddrSpace
    <3>1. MaxAddr(d) = d.base + d.len - AddrSpace
      BY <1>1, <2>4, Moduli, ModOnce DEF MaxAddr, Address
    <3>2. MaxAddr(d) < d.base
      BY <1>1, <2>4, <3>1, Moduli DEF Address
    <3> QED BY <1>1, <1>3, <3>1, <3>2, Moduli DEF Address
  <2>5. CASE d.len >= AddrSpace
    BY <1>1, <2>1, <2>2, <2>5, Moduli DEF Address
  <2> QED BY <1>1, <2>3, <2>4, <2>5, Moduli DEF Address
<1> QED BY <1>2, <1>3 DEF Inbounds

\* A device never wraps around to an address below its base.
LEMMA OffsetExact ==
    ASSUME NEW d \in Held, NEW a \in Address, Inbounds(d, a)
    PROVE  Offset(d, a) = a - d.base /\ Offset(d, a) \in Nat
<1>1. d.base \in Address
  BY HeldFields
<1>2. a - d.base \in Address
  BY <1>1, Moduli DEF Address, Inbounds
<1> QED
  BY <1>2, ModSmall DEF Offset, Address

\* Two devices the conflict check let pass share an address only if the later
\* one encloses the earlier.
LEMMA SharedOnlyEnclosed ==
    ASSUME NEW old \in Held, NEW new \in Held, ~Conflict(old, new),
           old.base <= MaxAddr(old), NEW a \in Address,
           Inbounds(old, a), Inbounds(new, a)
    PROVE  new.base < old.base /\ MaxAddr(old) < MaxAddr(new)
<1> DEFINE oldMax == MaxAddr(old)
           newMax == MaxAddr(new)
<1>1. /\ old.base \in Nat /\ new.base \in Nat /\ a \in Nat
      /\ oldMax \in Nat /\ newMax \in Nat
  BY HeldFields DEF Address
<1>2. /\ ~(old.base <= new.base /\ new.base <= oldMax)
      /\ ~(old.base <= newMax /\ newMax <= oldMax)
  BY DEF Conflict
<1>3. /\ a = old.base \/ (old.base < a /\ a < oldMax)
      /\ a = new.base \/ (new.base < a /\ a < newMax)
  BY DEF Inbounds
<1>4. old.base <= oldMax
  OBVIOUS
<1> HIDE DEF oldMax, newMax
<1>5. new.base < old.base /\ oldMax < newMax
  BY <1>1, <1>2, <1>3, <1>4
<1> QED BY <1>5 DEF oldMax, newMax

------------------------------------------------------------------------------
\* The inductive invariant: beside the types, each device passed the conflict
\* check against every device in front of it.

BusLines == [address : Address, memwrite : BOOLEAN, writedata : Data, readdata : Data]

Checked ==
    \A i, j \in DOMAIN devs : i < j => ~Conflict(devs[i], devs[j])

IInv == devs \in Seq(Held) /\ bus \in BusLines /\ Checked

\* A step keeps the place of every device and appends at most one, checked; and
\* it keeps the byte of a claimed address unless the bus writes this address.
KeepsPlaces ==
    /\ Len(devs') \in {Len(devs), Len(devs) + 1}
    /\ \A i \in DOMAIN devs :
           devs'[i].base = devs[i].base /\ devs'[i].len = devs[i].len
ByteKept(i, a) ==
    \/ devs'[i].mem[Offset(devs[i], a)] = devs[i].mem[Offset(devs[i], a)]
    \/ bus.memwrite /\ bus.address = a
KeepsBytes ==
    \A i \in DOMAIN devs, a \in Address : Inbounds(devs[i], a) => ByteKept(i, a)
Keeps == KeepsPlaces /\ KeepsBytes

LEMMA InitIInv == Init => IInv
<1> SUFFICES ASSUME Init PROVE IInv
  OBVIOUS
<1>1. bus \in BusLines
  BY BusAssumption, Moduli DEF Init, Address, BusLines
<1> QED BY <1>1 DEF Init, IInv, Checked

\* A step that leaves the list alone.
LEMMA SameKept == ASSUME IInv, UNCHANGED devs PROVE devs' \in Seq(Held) /\ Checked' /\ Keeps
BY DEF IInv, Checked, Keeps, KeepsPlaces, KeepsBytes, ByteKept

\* Mapping a device.
LEMMA MapStep ==
    ASSUME IInv, NEW new \in Device, MapDevice(new)
    PROVE  IInv' /\ Keeps
<1>1. devs \in Seq(Held) /\ new \in Held /\ bus' \in BusLines
  BY DeviceHeld DEF IInv, MapDevice
<1>2. CASE UNCHANGED devs
  BY <1>1, <1>2, SameKept DEF IInv
<1>3. CASE /\ \A i \in DOMAIN devs : ~Conflict(devs[i], new)
           /\ devs' = Append(devs, new)
  <2>1. /\ devs' \in Seq(Held)
        /\ Len(devs') = Len(devs) + 1
        /\ \A i \in DOMAIN devs : devs'[i] = devs[i]
        /\ devs'[Len(devs) + 1] = new
    BY <1>1, <1>3
  <2>2. ASSUME NEW i \in DOMAIN devs', NEW j \in DOMAIN devs', i < j
        PROVE  ~Conflict(devs'[i], devs'[j])
    <3>1. i \in DOMAIN devs /\ devs'[i] = devs[i]
      BY <1>1, <2>1, <2>2
    <3>2. CASE j = Len(devs) + 1
      BY <1>3, <2>1, <3>1, <3>2
    <3>3. CASE j # Len(devs) + 1
      <4>1. j \in DOMAIN devs /\ devs'[j] = devs[j]
        BY <1>1, <2>1, <3>3
      <4> QED BY <2>2, <3>1, <4>1 DEF IInv, Checked
    <3> QED BY <3>2, <3>3
  <2>3. Keeps
    BY <2>1 DEF Keeps, KeepsPlaces, KeepsBytes, ByteKept
  <2> QED BY <1>1, <2>1, <2>2, <2>3 DEF IInv, Checked
<1> QED BY <1>2, <1>3 DEF MapDevice, Linked

\* A step that keeps the places of all devices, and adds none, keeps Checked.
LEMMA SamePlacesChecked ==
    ASSUME IInv, devs' \in Seq(Held), Len(devs') = Len(devs), KeepsPlaces
    PROVE  Checked'
<1>1. devs \in Seq(Held) /\ DOMAIN devs' = DOMAIN devs
  BY DEF IInv
<1>2. \A i \in DOMAIN devs : MaxAddr(devs'[i]) = MaxAddr(devs[i])
  BY DEF KeepsPlaces, MaxAddr
<1>3. ASSUME NEW i \in DOMAIN devs, NEW j \in DOMAIN devs, i < j
      PROVE  ~Conflict(devs'[i], devs'[j])
  <2>1. ~Conflict(devs[i], devs[j])
    BY <1>3 DEF IInv, Checked
  <2> QED BY <1>2, <2>1 DEF KeepsPlaces, Conflict
<1> QED BY <1>1, <1>3 DEF Checked

\* A write to one claimed address keeps the byte of every other.
LEMMA WriteKeeps ==
    ASSUME NEW d \in Held, NEW a \in Address, Inbounds(d, a),
           NEW b \in Address, Inbounds(d, b), b # a, NEW value \in Data
    PROVE  Write(d, Offset(d, a), value).mem[Offset(d, b)] = d.mem[Offset(d, b)]
<1>1. /\ d.base \in Address /\ d.len \in Nat
      /\ 0..(d.len - 1) \subseteq DOMAIN d.mem
  BY HeldFields
<1>2. /\ Offset(d, a) = a - d.base /\ Offset(d, a) \in Nat
      /\ Offset(d, b) = b - d.base /\ Offset(d, b) \in Nat
  BY OffsetExact
<1>3. Offset(d, a) # Offset(d, b)
  BY <1>1, <1>2 DEF Address
<1>4. d.len # 0
  <2>1. ASSUME d.len = 0 PROVE MaxAddr(d) = d.base
    BY <1>1, <2>1, ModSmall DEF MaxAddr, Address
  <2> QED BY <1>1, <2>1 DEF Inbounds, Address
<1>5. Offset(d, b) < d.len
  BY <1>4, OffsetBelowLength
<1>6. Offset(d, b) \in DOMAIN d.mem
  BY <1>1, <1>2, <1>5
<1> QED BY <1>2, <1>3, <1>6, WriteType

\* The bus step on a mapped address: one device answers and is written.
LEMMA MappedAt ==
    ASSUME IInv, StepMapped
    PROVE  \E i \in DOMAIN devs :
              LET offset == Offset(devs[i], bus.address)
                  after == IF bus.memwrite THEN Write(devs[i], offset, bus.writedata)
                           ELSE devs[i]
              IN  /\ Answers(i, bus.address)
                  /\ devs[i] \in Held /\ Inbounds(devs[i], bus.address)
                  /\ offset \in Nat /\ after \in Held
                  /\ after.base = devs[i].base /\ after.len = devs[i].len
                  /\ devs' = [devs EXCEPT ![i] = after]
                  /\ \E v \in Reads(after, offset) : bus' = [bus EXCEPT !.readdata = v]
<1> DEFINE offset(i) == Offset(devs[i], bus.address)
           after(i) == IF bus.memwrite
                       THEN Write(devs[i], offset(i), bus.writedata) ELSE devs[i]
<1>1. PICK i \in DOMAIN devs :
        /\ Answers(i, bus.address)
        /\ devs' = [devs EXCEPT ![i] = after(i)]
        /\ \E v \in Reads(after(i), offset(i)) : bus' = [bus EXCEPT !.readdata = v]
  BY DEF StepMapped
<1>2. devs[i] \in Held /\ bus \in BusLines /\ Inbounds(devs[i], bus.address)
  BY <1>1 DEF IInv, Answers
<1>3. offset(i) \in Nat
  BY <1>2, OffsetExact DEF BusLines
<1>4. /\ after(i) \in Held
      /\ after(i).base = devs[i].base /\ after(i).len = devs[i].len
  <2> HIDE DEF offset
  <2> QED BY <1>2, <1>3, WriteType DEF BusLines
<1> QED BY <1>1, <1>2, <1>3, <1>4

LEMMA StepMappedStep ==
    ASSUME IInv, StepMapped
    PROVE  IInv' /\ Keeps
<1> DEFINE offset(i) == Offset(devs[i], bus.address)
           after(i) == IF bus.memwrite
                       THEN Write(devs[i], offset(i), bus.writedata) ELSE devs[i]
<1>1. devs \in Seq(Held) /\ bus \in BusLines
  BY DEF IInv
<1>2. PICK i \in DOMAIN devs :
        /\ devs[i] \in Held /\ Inbounds(devs[i], bus.address)
        /\ offset(i) \in Nat /\ after(i) \in Held
        /\ after(i).base = devs[i].base /\ after(i).len = devs[i].len
        /\ devs' = [devs EXCEPT ![i] = after(i)]
        /\ \E v \in Reads(after(i), offset(i)) : bus' = [bus EXCEPT !.readdata = v]
  BY MappedAt
<1>3. ASSUME NEW a \in Address, Inbounds(devs[i], a)
      PROVE  \/ after(i).mem[Offset(devs[i], a)] = devs[i].mem[Offset(devs[i], a)]
             \/ bus.memwrite /\ bus.address = a
  BY <1>1, <1>2, <1>3, WriteKeeps DEF BusLines
<1> HIDE DEF after, offset
<1>4. /\ devs' \in Seq(Held) /\ Len(devs') = Len(devs) /\ devs'[i] = after(i)
      /\ \A k \in DOMAIN devs : k # i => devs'[k] = devs[k]
  BY <1>1, <1>2
<1>5. KeepsPlaces
  BY <1>2, <1>4 DEF KeepsPlaces
<1>6. KeepsBytes
  <2> SUFFICES ASSUME NEW k \in DOMAIN devs, NEW a \in Address, Inbounds(devs[k], a)
               PROVE  ByteKept(k, a)
    BY DEF KeepsBytes
  <2>1. CASE k = i
    BY <1>3, <1>4, <2>1 DEF ByteKept
  <2>2. CASE k # i
    BY <1>4, <2>2 DEF ByteKept
  <2> QED BY <2>1, <2>2
<1>7. bus' \in BusLines
  <2>1. \A v \in Reads(after(i), offset(i)) : v \in Data
    <3>1. offset(i) < after(i).len => after(i).mem[offset(i)] \in Data
      BY <1>2, HeldFields
    <3> QED BY <3>1 DEF Reads
  <2> QED BY <1>1, <1>2, <2>1 DEF BusLines
<1> QED BY <1>4, <1>5, <1>6, <1>7, SamePlacesChecked DEF IInv, Keeps

LEMMA NextIInv == IInv /\ [Next]_vars => IInv' /\ Keeps
<1> SUFFICES ASSUME IInv, [Next]_vars PROVE IInv' /\ Keeps
  OBVIOUS
<1>1. ASSUME UNCHANGED devs, bus' \in BusLines PROVE IInv' /\ Keeps
  BY <1>1, SameKept DEF IInv
<1>2. CASE \E new \in Device : MapDevice(new)
  BY <1>2, MapStep
<1>3. ASSUME NEW a \in Address, DriveRead(a) PROVE IInv' /\ Keeps
  BY <1>1, <1>3 DEF IInv, DriveRead, BusLines
<1>4. ASSUME NEW a \in Address, NEW d \in Data, DriveWrite(a, d)
      PROVE  IInv' /\ Keeps
  BY <1>1, <1>4 DEF IInv, DriveWrite, BusLines
<1>5. CASE StepMapped
  BY <1>5, StepMappedStep
<1>6. CASE UNCHANGED vars
  BY <1>1, <1>6 DEF vars, IInv
<1>7. CASE StepUnmapped
  BY <1>6, <1>7 DEF StepUnmapped
<1> QED BY <1>2, <1>3, <1>4, <1>5, <1>6, <1>7 DEF Next

LEMMA Invariant == Spec => []IInv
<1>1. IInv /\ [Next]_vars => IInv'
  BY NextIInv
<1> QED BY InitIInv, <1>1, PTL DEF Spec

(***************************************************************************)
(* When nobody maps an empty device, a device is only ever handed offsets  *)
(* inside its exposed memory.                                              *)
(***************************************************************************)
THEOREM OffsetsInRange == ASSUME 0 \notin Lens PROVE Spec => []OffsetInRange
<1>1. IInv => OffsetInRange
  <2> SUFFICES ASSUME IInv, NEW i \in DOMAIN devs, NEW a \in Address, Answers(i, a)
               PROVE  Offset(devs[i], a) < devs[i].len
    BY DEF OffsetInRange
  <2>1. devs[i] \in Held
    BY DEF IInv
  <2>2. devs[i].len # 0
    BY <2>1, HeldFields
  <2>3. Inbounds(devs[i], a)
    BY DEF Answers
  <2> QED BY <2>1, <2>2, <2>3, OffsetBelowLength
<1> QED BY Invariant, <1>1, PTL

(***************************************************************************)
(* When nobody maps an empty device, every array keeps its length: no      *)
(* write of the bus lands outside the memory of the device that is handed  *)
(* it, which io_dev_memory_write does not check.                           *)
(***************************************************************************)
THEOREM TypeCorrect == ASSUME 0 \notin Lens PROVE Spec => []TypeOK
<1>1. Init => TypeOK
  BY InitIInv DEF Init, IInv, TypeOK, BusLines
<1>2. ASSUME IInv, IInv', TypeOK, [Next]_vars PROVE TypeOK'
  <2>1. devs \in Seq(Device) /\ bus' \in BusLines
    BY <1>2 DEF TypeOK, IInv
  <2>2. ASSUME NEW new \in Device, MapDevice(new) PROVE devs' \in Seq(Device)
    BY <2>1, <2>2 DEF MapDevice, Linked
  <2>3. ASSUME StepMapped PROVE devs' \in Seq(Device)
    <3> DEFINE offset(i) == Offset(devs[i], bus.address)
               after(i) == IF bus.memwrite
                           THEN Write(devs[i], offset(i), bus.writedata) ELSE devs[i]
    <3>1. PICK i \in DOMAIN devs :
            /\ devs[i] \in Held /\ Inbounds(devs[i], bus.address)
            /\ offset(i) \in Nat /\ after(i) \in Held
            /\ after(i).len = devs[i].len
            /\ devs' = [devs EXCEPT ![i] = after(i)]
      BY <1>2, <2>3, MappedAt
    <3>2. bus \in BusLines
      BY <1>2 DEF IInv
    <3>3. devs[i] \in Device /\ DOMAIN devs[i].mem = 0..(devs[i].len - 1)
      BY <2>1, DeviceHeld
    <3>4. offset(i) < devs[i].len
      BY <3>1, <3>2, HeldFields, OffsetBelowLength DEF BusLines
    <3>5. offset(i) \in 0..(devs[i].len - 1)
      BY <3>1, <3>4, HeldFields
    <3> HIDE DEF offset
    <3>6. DOMAIN after(i).mem = 0..(devs[i].len - 1)
      <4>1. CASE bus.memwrite
        <5>1. DOMAIN after(i).mem = DOMAIN devs[i].mem \union {offset(i)}
          BY <3>1, <3>2, <4>1, WriteType DEF BusLines
        <5> QED BY <3>3, <3>5, <5>1
      <4>2. CASE ~bus.memwrite
        BY <3>3, <4>2
      <4> QED BY <4>1, <4>2
    <3> HIDE DEF after
    <3>7. after(i) \in Device
      BY <3>1, <3>6, HeldDevice
    <3> QED BY <2>1, <3>1, <3>7
  <2>4. devs' \in Seq(Device)
    BY <1>2, <2>1, <2>2, <2>3 DEF Next, DriveRead, DriveWrite, StepUnmapped, vars
  <2> QED BY <2>1, <2>4 DEF TypeOK, BusLines
<1> QED BY Invariant, <1>1, <1>2, PTL DEF Spec

(***************************************************************************)
(* The only overlap sysbus_memory_map_iodev lets pass is a device around   *)
(* one mapped before it.                                                   *)
(***************************************************************************)
THEOREM OverlapsEnclose == Spec => []OverlapOnlyByEnclosure
<1>1. IInv => OverlapOnlyByEnclosure
  <2> SUFFICES ASSUME IInv, NEW i \in DOMAIN devs, NEW j \in DOMAIN devs,
                      NEW a \in Address, i < j,
                      devs[i].base <= MaxAddr(devs[i]),
                      Inbounds(devs[i], a), Inbounds(devs[j], a)
               PROVE  /\ devs[j].base < devs[i].base
                      /\ MaxAddr(devs[i]) < MaxAddr(devs[j])
    BY DEF OverlapOnlyByEnclosure
  <2>1. devs[i] \in Held /\ devs[j] \in Held
    BY DEF IInv
  <2>2. ~Conflict(devs[i], devs[j])
    BY DEF IInv, Checked
  <2> QED BY <2>1, <2>2, SharedOnlyEnclosed
<1> QED BY Invariant, <1>1, PTL

(***************************************************************************)
(* The device that answers an address answers it for ever, because         *)
(* sysbus_step takes the first match and the list only grows at its tail;  *)
(* and its byte there changes only when the bus writes this address.       *)
(* (Without an empty device: one is handed offsets behind its array, and   *)
(* where such a write lands, perhaps in the array of another device, the   *)
(* model does not say.)                                                    *)
(***************************************************************************)
THEOREM RoutingNeverChanges == ASSUME 0 \notin Lens PROVE Spec => RoutingStable
<1> DEFINE Stable ==
        \A a \in Address, i \in DOMAIN devs :
            Answers(i, a) =>
                /\ Answers(i, a)'
                /\ devs'[i].base = devs[i].base /\ devs'[i].len = devs[i].len
                /\ \/ devs'[i].mem[Offset(devs[i], a)] = devs[i].mem[Offset(devs[i], a)]
                   \/ bus.memwrite /\ bus.address = a
<1>1. IInv /\ IInv' /\ [Next]_vars => [Stable]_vars
  <2> SUFFICES ASSUME IInv, IInv', [Next]_vars,
                      NEW a \in Address, NEW i \in DOMAIN devs, Answers(i, a)
               PROVE  /\ i \in DOMAIN devs'
                      /\ Inbounds(devs'[i], a)
                      /\ \A j \in 1..(i - 1) : ~Inbounds(devs'[j], a)
                      /\ devs'[i].base = devs[i].base
                      /\ devs'[i].len = devs[i].len
                      /\ ByteKept(i, a)
    BY DEF Answers, ByteKept
  <2>1. KeepsPlaces /\ KeepsBytes
    BY NextIInv DEF Keeps
  <2>2. devs \in Seq(Held) /\ devs' \in Seq(Held)
    BY DEF IInv
  <2>3. i \in DOMAIN devs'
    BY <2>1, <2>2 DEF KeepsPlaces
  <2>4. \A j \in DOMAIN devs : Inbounds(devs'[j], a) = Inbounds(devs[j], a)
    BY <2>1 DEF KeepsPlaces, Inbounds, MaxAddr
  <2>5. \A j \in 1..(i - 1) : j \in DOMAIN devs /\ ~Inbounds(devs[j], a)
    BY <2>2 DEF Answers
  <2>6. ByteKept(i, a)
    BY <2>1 DEF KeepsBytes, Answers
  <2> QED BY <2>1, <2>3, <2>4, <2>5, <2>6 DEF KeepsPlaces, Answers
<1> QED BY Invariant, <1>1, PTL DEF Spec, RoutingStable

------------------------------------------------------------------------------
(***************************************************************************)
(* The bus implements a flat memory: the list of devices with its          *)
(* first-match search, for an address space of any size and any number of  *)
(* devices that are not empty.                                             *)
(***************************************************************************)

\* Answers and Flat as functions of the list.

Claimed(ds) == {a \in Address : \E i \in DOMAIN ds : Inbounds(ds[i], a)}
First(ds, i, a) ==
    /\ i \in DOMAIN ds
    /\ Inbounds(ds[i], a)
    /\ \A j \in 1..(i - 1) : ~Inbounds(ds[j], a)
ByteAt(d, a) == d.mem[Offset(d, a)]
FlatOf(ds) ==
    [a \in Claimed(ds) |-> ByteAt(ds[CHOOSE i \in DOMAIN ds : First(ds, i, a)], a)]

\* Every claimed address has a first device that claims it.
Served(ds) == \A a \in Claimed(ds) : \E i \in DOMAIN ds : First(ds, i, a)

\* Flat is FlatOf of the list.
LEMMA FlatNow == Flat = FlatOf(devs)
  BY DEF Flat, FlatOf, Claimed, First, ByteAt, Routed, Answers

\* Flat is FlatOf of the list after a step, too.
LEMMA FlatThen == Flat' = FlatOf(devs')
  BY DEF Flat, FlatOf, Claimed, First, ByteAt, Routed, Answers

\* An address has one first device.
LEMMA OneFirst ==
    ASSUME NEW ds \in Seq(Held), NEW a \in Address,
           NEW i, First(ds, i, a), NEW j, First(ds, j, a)
    PROVE  i = j
<1>1. i \in Nat /\ i >= 1 /\ j \in Nat /\ j >= 1
  BY DEF First
<1>2. ~(i < j)
  BY <1>1 DEF First
<1>3. ~(j < i)
  BY <1>1 DEF First
<1> QED
  BY <1>1, <1>2, <1>3

\* What the flat memory holds at an address is the byte of its first device.
LEMMA FlatAt ==
    ASSUME NEW ds \in Seq(Held), NEW a \in Address, NEW i, First(ds, i, a)
    PROVE  a \in DOMAIN FlatOf(ds) /\ FlatOf(ds)[a] = ByteAt(ds[i], a)
<1>1. a \in Claimed(ds)
  BY DEF First, Claimed
<1>2. (CHOOSE j \in DOMAIN ds : First(ds, j, a)) = i
  <2>1. i \in DOMAIN ds
    BY DEF First
  <2> QED
    BY <2>1, OneFirst
<1> QED
  BY <1>1, <1>2 DEF FlatOf

------------------------------------------------------------------------------
\* The steps.

FlatInv == IInv /\ Served(devs)

\* Mapping: the first devices stay first, and a new address is served by the new one.
LEMMA MapExtends ==
    ASSUME FlatInv, NEW new \in Device, MapDevice(new)
    PROVE  Served(devs') /\ FlatMem!Extend
<1>1. devs \in Seq(Held) /\ new \in Held /\ Served(devs) /\ UNCHANGED bus
  BY DeviceHeld DEF FlatInv, IInv, MapDevice
<1>2. CASE UNCHANGED devs
  <2>1. Flat' = Flat
    BY <1>2, FlatNow, FlatThen
  <2> QED
    BY <1>1, <1>2, <2>1 DEF FlatMem!Extend
<1>3. CASE devs' = Append(devs, new)
  <2>1. /\ devs' \in Seq(Held)
        /\ DOMAIN devs' = DOMAIN devs \union {Len(devs) + 1}
        /\ \A i \in DOMAIN devs : devs'[i] = devs[i]
        /\ DOMAIN devs = 1..Len(devs) /\ Len(devs) \in Nat
    BY <1>1, <1>3
  <2>2. ASSUME NEW a \in Address, NEW i \in DOMAIN devs, First(devs, i, a)
        PROVE  First(devs', i, a) /\ devs'[i] = devs[i]
    <3>1. \A j \in 1..(i - 1) : j \in DOMAIN devs
      BY <2>1
    <3> QED
      BY <2>1, <2>2, <3>1 DEF First
  <2>3. ASSUME NEW a \in Claimed(devs') PROVE \E i \in DOMAIN devs' : First(devs', i, a)
    <3>1. a \in Address
      BY DEF Claimed
    <3>2. CASE a \in Claimed(devs)
      BY <1>1, <2>1, <2>2, <3>1, <3>2 DEF Served
    <3>3. CASE a \notin Claimed(devs)
      <4>1. \A i \in DOMAIN devs : ~Inbounds(devs'[i], a)
        BY <2>1, <3>1, <3>3 DEF Claimed
      <4>2. Inbounds(devs'[Len(devs) + 1], a)
        BY <2>1, <4>1 DEF Claimed
      <4>3. \A j \in 1..(Len(devs) + 1 - 1) : j \in DOMAIN devs
        BY <2>1
      <4>4. First(devs', Len(devs) + 1, a)
        BY <2>1, <4>1, <4>2, <4>3 DEF First
      <4> QED
        BY <2>1, <4>4
    <3> QED
      BY <3>2, <3>3
  <2>4. ASSUME NEW a \in DOMAIN Flat PROVE a \in DOMAIN Flat' /\ Flat'[a] = Flat[a]
    <3>1. a \in Address /\ a \in Claimed(devs)
      BY <2>4, FlatNow DEF FlatOf, Claimed
    <3>2. PICK i \in DOMAIN devs : First(devs, i, a)
      BY <1>1, <3>1 DEF Served
    <3>3. First(devs', i, a) /\ devs'[i] = devs[i]
      BY <2>2, <3>1, <3>2
    <3> QED
      BY <1>1, <2>1, <3>1, <3>2, <3>3, FlatAt, FlatNow, FlatThen
  <2> QED
    BY <1>1, <2>3, <2>4 DEF Served, FlatMem!Extend
<1> QED
  BY <1>2, <1>3 DEF MapDevice, Linked

\* A step that changes no device changes no byte.
LEMMA SameDevices == UNCHANGED devs => UNCHANGED Flat /\ (Served(devs) => Served(devs'))
  BY FlatNow, FlatThen

\* Driving the bus; a read leaves writedata as it is.
LEMMA DriveDrives ==
    ASSUME FlatInv,
           \/ \E a \in Address : DriveRead(a)
           \/ \E a \in Address, d \in Data : DriveWrite(a, d)
    PROVE  Served(devs') /\ FlatMem!Drive
<1>1. bus \in [address : Address, memwrite : BOOLEAN, writedata : Data, readdata : Data]
  BY DEF FlatInv, IInv, BusLines
<1>2. UNCHANGED devs
  BY DEF DriveRead, DriveWrite
<1>3. CASE \E a \in Address : DriveRead(a)
  <2>1. PICK a \in Address : bus' = [bus EXCEPT !.address = a, !.memwrite = FALSE]
    BY <1>3 DEF DriveRead
  <2>2. /\ bus' = [bus EXCEPT !.address = a, !.memwrite = FALSE, !.writedata = bus.writedata]
        /\ bus.writedata \in Data
    BY <1>1, <2>1
  <2> QED
    BY <1>2, <2>2, SameDevices DEF FlatInv, FlatMem!Drive, FlatMem!Address, Address
<1>4. CASE \E a \in Address, d \in Data : DriveWrite(a, d)
  <2>1. PICK a \in Address, d \in Data :
            bus' = [bus EXCEPT !.address = a, !.memwrite = TRUE, !.writedata = d]
    BY <1>4 DEF DriveWrite
  <2> QED
    BY <1>2, <2>1, SameDevices DEF FlatInv, FlatMem!Drive, FlatMem!Address, Address
<1> QED
  BY <1>3, <1>4

------------------------------------------------------------------------------
\* The bus step on a mapped address.

\* A write leaves every other byte of the device.
LEMMA WriteByte ==
    ASSUME NEW d \in Held, NEW a \in Address, Inbounds(d, a), NEW value \in Data
    PROVE  LET e == Write(d, Offset(d, a), value)
           IN  /\ ByteAt(e, a) = value
               /\ \A b \in Address : Inbounds(d, b) /\ b # a => ByteAt(e, b) = ByteAt(d, b)
<1> DEFINE o == Offset(d, a)
           e == Write(d, o, value)
<1>1. o \in Nat
  BY OffsetExact
<1>2. \A b \in Address : Inbounds(d, b) /\ b # a => e.mem[Offset(d, b)] = d.mem[Offset(d, b)]
  BY WriteKeeps
<1> HIDE DEF o
<1>3. e.base = d.base /\ e.mem[o] = value
  BY <1>1, WriteType
<1>4. \A b : Offset(e, b) = Offset(d, b)
  BY <1>3 DEF Offset
<1>5. ByteAt(e, a) = value
  BY <1>3, <1>4 DEF ByteAt, o
<1>6. ASSUME NEW b \in Address, Inbounds(d, b), b # a PROVE ByteAt(e, b) = ByteAt(d, b)
  <2>1. e.mem[Offset(d, b)] = d.mem[Offset(d, b)]
    BY <1>2, <1>6
  <2> QED BY <1>4, <2>1 DEF ByteAt
<1> QED
  BY <1>5, <1>6 DEF o

\* The step stores at most the driven byte, and reads it back.
LEMMA StepAccesses ==
    ASSUME FlatInv, 0 \notin Lens, StepMapped
    PROVE  Served(devs') /\ FlatMem!Access
<1> DEFINE a == bus.address
           offset(i) == Offset(devs[i], a)
           after(i) == IF bus.memwrite THEN Write(devs[i], offset(i), bus.writedata)
                       ELSE devs[i]
<1>1. /\ IInv /\ devs \in Seq(Held) /\ Served(devs) /\ a \in Address
      /\ bus \in [address : Address, memwrite : BOOLEAN,
                  writedata : Data, readdata : Data]
  BY DEF FlatInv, IInv, BusLines
<1>2. PICK i \in DOMAIN devs :
        /\ First(devs, i, a)
        /\ devs[i] \in Held /\ Inbounds(devs[i], a)
        /\ offset(i) \in Nat /\ after(i) \in Held
        /\ after(i).base = devs[i].base /\ after(i).len = devs[i].len
        /\ devs' = [devs EXCEPT ![i] = after(i)]
        /\ \E v \in Reads(after(i), offset(i)) : bus' = [bus EXCEPT !.readdata = v]
  BY <1>1, MappedAt DEF Answers, First
<1>3. devs[i] \in Held /\ Inbounds(devs[i], a) /\ devs[i].len # 0
  BY <1>2, HeldFields
<1>4. offset(i) \in Nat /\ offset(i) < devs[i].len
  BY <1>1, <1>2, <1>3, OffsetBelowLength
<1>5. /\ after(i) \in Held
      /\ after(i).base = devs[i].base /\ after(i).len = devs[i].len
  BY <1>2
<1>6. /\ bus.memwrite => ByteAt(after(i), a) = bus.writedata
      /\ ~bus.memwrite => after(i) = devs[i]
      /\ \A b \in Address : Inbounds(devs[i], b) /\ b # a =>
            ByteAt(after(i), b) = ByteAt(devs[i], b)
  BY <1>1, <1>3, WriteByte
<1>7. bus' = [bus EXCEPT !.readdata = ByteAt(after(i), a)]
  <2>1. Reads(after(i), offset(i)) = {after(i).mem[offset(i)]}
    BY <1>4, <1>5 DEF Reads
  <2>2. Offset(after(i), a) = offset(i)
    BY <1>5 DEF Offset
  <2> QED
    BY <1>2, <2>1, <2>2 DEF ByteAt
<1> HIDE DEF after, offset
<1>8. /\ devs' \in Seq(Held) /\ DOMAIN devs' = DOMAIN devs
      /\ DOMAIN devs = 1..Len(devs) /\ devs'[i] = after(i)
      /\ \A k \in DOMAIN devs : k # i => devs'[k] = devs[k]
  BY <1>1, <1>2, <1>5
<1>9. \A k \in DOMAIN devs, b \in Address : Inbounds(devs'[k], b) <=> Inbounds(devs[k], b)
  BY <1>5, <1>8 DEF Inbounds, MaxAddr
<1>10. Claimed(devs') = Claimed(devs)
  BY <1>8, <1>9 DEF Claimed
<1>11. ASSUME NEW k \in DOMAIN devs, NEW b \in Address, First(devs, k, b)
       PROVE  First(devs', k, b)
  <2>1. \A j \in 1..(k - 1) : j \in DOMAIN devs
    BY <1>8
  <2> QED
    BY <1>8, <1>9, <1>11, <2>1 DEF First
<1>12. Served(devs')
  <2>1. ASSUME NEW b \in Claimed(devs) PROVE \E k \in DOMAIN devs' : First(devs', k, b)
    <3>1. b \in Address
      BY DEF Claimed
    <3>2. PICK k \in DOMAIN devs : First(devs, k, b)
      BY <1>1 DEF Served
    <3> QED
      BY <1>8, <1>11, <3>1, <3>2
  <2> QED
    BY <1>10, <2>1 DEF Served
<1>13. DOMAIN Flat = Claimed(devs) /\ DOMAIN Flat' = Claimed(devs)
  BY <1>10, FlatNow, FlatThen DEF FlatOf
<1>14. a \in DOMAIN Flat /\ Flat[a] = ByteAt(devs[i], a) /\ Flat'[a] = ByteAt(after(i), a)
  <2>1. a \in DOMAIN FlatOf(devs) /\ FlatOf(devs)[a] = ByteAt(devs[i], a)
    BY <1>1, <1>2, FlatAt
  <2>2. First(devs', i, a)
    BY <1>1, <1>2, <1>11
  <2>3. FlatOf(devs')[a] = ByteAt(devs'[i], a)
    BY <1>1, <1>8, <2>2, FlatAt
  <2> QED
    BY <1>8, <2>1, <2>3, FlatNow, FlatThen
<1>15. ASSUME NEW b \in DOMAIN Flat, b # a PROVE Flat'[b] = Flat[b]
  <2>1. b \in Address /\ b \in Claimed(devs)
    BY <1>13, <1>15 DEF Claimed
  <2>2. PICK k \in DOMAIN devs : First(devs, k, b)
    BY <1>1, <2>1 DEF Served
  <2>3. Flat[b] = ByteAt(devs[k], b) /\ Flat'[b] = ByteAt(devs'[k], b)
    BY <1>1, <1>8, <1>11, <2>1, <2>2, FlatAt, FlatNow, FlatThen
  <2>4. ByteAt(devs'[k], b) = ByteAt(devs[k], b)
    BY <1>6, <1>8, <1>15, <2>1, <2>2 DEF First
  <2> QED
    BY <2>3, <2>4
<1> DEFINE stored == IF bus.memwrite THEN [Flat EXCEPT ![a] = bus.writedata] ELSE Flat
<1>16. Flat' = stored
  <2>1. /\ Flat = [b \in Claimed(devs) |-> Flat[b]]
        /\ Flat' = [b \in Claimed(devs) |-> Flat'[b]]
    BY <1>10, FlatNow, FlatThen DEF FlatOf
  <2>2. CASE bus.memwrite
    <3>1. Flat'[a] = bus.writedata
      BY <1>6, <1>14, <2>2
    <3> QED
      BY <1>13, <1>15, <2>1, <2>2, <3>1
  <2>3. CASE ~bus.memwrite
    <3>1. Flat'[a] = Flat[a]
      BY <1>6, <1>14, <2>3
    <3> QED
      BY <1>13, <1>15, <2>1, <2>3, <3>1
  <2> QED
    BY <2>2, <2>3
<1>17. bus' = [bus EXCEPT !.readdata = stored[a]]
  BY <1>7, <1>14, <1>16
<1> QED
  BY <1>12, <1>14, <1>16, <1>17 DEF FlatMem!Access

(***************************************************************************)
(* sysbus_memory_map_iodev, read_mem, write_mem and sysbus_step together   *)
(* are a flat memory, as long as nobody maps an empty device: no two       *)
(* addresses share a byte, and none ever changes hands.                    *)
(***************************************************************************)
THEOREM FlatMemoryImplemented == ASSUME 0 \notin Lens PROVE Spec => ImplementsFlatMemory
<1>1. Init => FlatInv /\ FlatMem!FlatInit
  <2> SUFFICES ASSUME Init PROVE FlatInv /\ FlatMem!FlatInit
    OBVIOUS
  <2>1. Claimed(devs) = {}
    BY DEF Init, Claimed
  <2>2. Flat = [b \in {} |-> 0]
    BY <2>1, FlatNow DEF FlatOf
  <2> QED
    BY <2>1, <2>2, InitIInv DEF Init, FlatInv, Served, FlatMem!FlatInit
<1>2. FlatInv /\ [Next]_vars =>
        FlatInv' /\ [FlatMem!Extend \/ FlatMem!Drive \/ FlatMem!Access]_<<Flat, bus>>
  <2> SUFFICES ASSUME FlatInv, [Next]_vars
               PROVE  /\ Served(devs')
                      /\ [FlatMem!Extend \/ FlatMem!Drive \/ FlatMem!Access]_<<Flat, bus>>
    BY NextIInv DEF FlatInv
  <2>1. CASE \E new \in Device : MapDevice(new)
    BY <2>1, MapExtends
  <2>2. CASE \/ \E a \in Address : DriveRead(a)
             \/ \E a \in Address, d \in Data : DriveWrite(a, d)
    BY <2>2, DriveDrives
  <2>3. CASE StepMapped
    BY <2>3, StepAccesses
  <2>4. CASE UNCHANGED vars
    BY <2>4, SameDevices DEF vars, FlatInv
  <2> QED
    BY <2>1, <2>2, <2>3, <2>4 DEF Next, StepUnmapped
<1> QED
  BY <1>1, <1>2, PTL DEF Spec, ImplementsFlatMemory, FlatMem!FlatSpec
=============================================================================
