-------------------------- MODULE IoManagerProofs --------------------------
(***************************************************************************)
(* Proofs about IoManager, for every size of the heap and every set of     *)
(* names: loading a driver that fails leaves the published device alone,   *)
(* the lists of drivers and devices are sound, nothing leaks, and the      *)
(* whole implements DeviceRegistry.                                        *)
(*                                                                         *)
(* The heap hands out every address once.  A published device was          *)
(* allocated before the driver that is being loaded, so that it is none of *)
(* the three objects a failing IoCreateDriver frees.  For the same reason  *)
(* every link leads to an older object, and every list ends: it is a       *)
(* sequence, and unlinking an object removes one element of it.            *)
(***************************************************************************)
EXTENDS IoManager, CommonTheorems, FiniteSetTheorems

HandedOut == 1 .. heap_current

Heap ==
  /\ heap_current \in 0 .. HEAP_SIZE
  /\ DOMAIN object = Addresses
  /\ object = [p \in Addresses |-> object[p]]
  /\ g_VgaDevice \in HandedOut \cup {NULL}

(* How far IoCreateDriver has got, and that none of it is published.       *)
Loading ==
  /\ Creating => DriverObject \in HandedOut /\ DriverObject # g_VgaDevice
  /\ pc \in {"vga_extension", "initialize"} =>
       Device \in HandedOut /\ Device # g_VgaDevice /\ Device # DriverObject
  /\ pc = "vga_extension" => object[Device] = Zeroed
  /\ pc = "initialize" =>
       object[Device].extension \in HandedOut /\ object[Device].extension # g_VgaDevice

IInv == Heap /\ Loading

(* An address malloc hands out is new.                                     *)
LEMMA MallocFresh ==
  ASSUME Heap, Malloc
  PROVE  /\ Allocated \in Addresses /\ Allocated \in HandedOut' /\ Allocated \notin HandedOut
         /\ heap_current' \in 0 .. HEAP_SIZE /\ HandedOut \subseteq HandedOut'
         /\ Allocated # NULL /\ Allocated # g_VgaDevice
BY HeapAssumption DEF Heap, Malloc, HasRoom, Allocated, HandedOut, Addresses

LEMMA InitInv == Init => IInv
BY HeapAssumption DEF Init, IInv, Heap, Loading, HandedOut, Creating, Addresses

(* The calls that are not about a driver being loaded.                     *)
LEMMA OthersInv ==
  ASSUME IInv,
         \/ IoInitSystem \/ AddDriver \/ IoDeleteDevice \/ DeleteDriver \/ DeleteDevices
         \/ RemoveDriver \/ FreeDriver \/ IoGetDeviceObjectPointer \/ UNCHANGED vars
  PROVE  IInv'
<1> USE DEF IInv, heap, lists, call
<1>1. CASE IoInitSystem
  BY <1>1 DEF IoInitSystem, Heap, Loading, HandedOut, Creating
<1>2. CASE AddDriver
  BY <1>2 DEF AddDriver, Return, Heap, Loading, HandedOut, Creating
<1>3. CASE IoDeleteDevice
  BY <1>3 DEF IoDeleteDevice, DeleteDevice, Relinked, Heap, Loading, HandedOut, Creating
<1>4. CASE DeleteDriver
  BY <1>4 DEF DeleteDriver, Heap, Loading, HandedOut, Creating
<1>5. CASE DeleteDevices
  BY <1>5 DEF DeleteDevices, DeleteDevice, Relinked, Heap, Loading, HandedOut, Creating
<1>6. CASE RemoveDriver
  BY <1>6 DEF RemoveDriver, Relinked, Heap, Loading, HandedOut, Creating
<1>7. CASE FreeDriver
  BY <1>7 DEF FreeDriver, Return, Heap, Loading, HandedOut, Creating
<1>8. CASE IoGetDeviceObjectPointer
  BY <1>8 DEF IoGetDeviceObjectPointer, Heap, Loading, HandedOut, Creating
<1>9. CASE UNCHANGED vars
  BY <1>9 DEF vars, Heap, Loading, HandedOut, Creating
<1> QED
  BY <1>1, <1>2, <1>3, <1>4, <1>5, <1>6, <1>7, <1>8, <1>9

LEMMA CreateDriverInv ==
  ASSUME IInv, CreateDriver
  PROVE  IInv'
<1>1. CASE NoMemory /\ UNCHANGED <<live, object, call>>
  BY <1>1 DEF CreateDriver, NoMemory, call, IInv, Heap, Loading, HandedOut, Creating
<1>2. CASE Malloc /\ object' = [object EXCEPT ![Allocated] = Zeroed] /\ pc' = "entry"
           /\ DriverObject' = Allocated
  BY <1>2, MallocFresh DEF CreateDriver, IInv, Heap, Loading, Creating
<1> QED
  BY <1>1, <1>2 DEF CreateDriver

LEMMA AllocateDeviceInv ==
  ASSUME IInv, AllocateDevice
  PROVE  IInv'
<1>1. CASE /\ NoMemory /\ UNCHANGED <<live, object, DriverObject, Device>>
           /\ pc' = IF pc = "entry" THEN "refuse" ELSE "idle"
  BY <1>1 DEF AllocateDevice, NoMemory, IInv, Heap, Loading, HandedOut, Creating
<1>2. CASE /\ Malloc /\ object' = [object EXCEPT ![Allocated] = Zeroed]
           /\ IF pc = "entry" THEN UNCHANGED DriverObject ELSE DriverObject' \in Drivers
           /\ Device' = Allocated
           /\ pc' = IF pc = "entry" THEN "vga_extension" ELSE "extension"
  <2>1. Heap'
    BY <1>2, MallocFresh DEF AllocateDevice, IInv, Heap
  <2>2. CASE pc = "entry"
    <3>1. /\ DriverObject' = DriverObject /\ DriverObject \in HandedOut /\ DriverObject # g_VgaDevice
          /\ pc' = "vga_extension" /\ Device' = Allocated /\ g_VgaDevice' = g_VgaDevice
      BY <1>2, <2>2 DEF AllocateDevice, IInv, Loading, Creating
    <3>2. /\ Allocated \in Addresses /\ Allocated \in HandedOut' /\ Allocated \notin HandedOut
          /\ HandedOut \subseteq HandedOut' /\ Allocated # g_VgaDevice
      BY <1>2, MallocFresh DEF IInv
    <3>3. object'[Allocated] = Zeroed
      BY <1>2, <3>2 DEF IInv, Heap
    <3>4. Loading'
      BY <3>1, <3>2, <3>3 DEF Loading, Creating
    <3> QED
      BY <2>1, <3>4 DEF IInv
  <2>3. CASE pc # "entry"
    BY <1>2, <2>1, <2>3 DEF IInv, Loading, Creating
  <2> QED
    BY <2>2, <2>3
<1> QED
  BY <1>1, <1>2 DEF AllocateDevice

LEMMA ExtendInv ==
  ASSUME IInv, Extend
  PROVE  IInv'
<1>1. CASE /\ NoMemory /\ UNCHANGED object
           /\ IF pc = "extension" THEN Return
              ELSE pc' = "refuse" /\ UNCHANGED <<DriverObject, Device>>
  BY <1>1 DEF Extend, Return, NoMemory, IInv, Heap, Loading, HandedOut, Creating
<1>2. ASSUME NEW n, NEW x, object' = Linked(n, x), Return, UNCHANGED heap \/ Malloc
      PROVE  IInv'
  <2>1. g_VgaDevice' = g_VgaDevice
    BY DEF Extend
  <2>2. HandedOut \subseteq HandedOut' /\ heap_current' \in 0 .. HEAP_SIZE
    BY <1>2, MallocFresh DEF heap, HandedOut, IInv, Heap
  <2>3. DOMAIN object' = Addresses /\ object' = [p \in Addresses |-> object'[p]]
    BY <1>2 DEF Linked, IInv, Heap
  <2> QED
    <3>1. Heap'
      BY <2>1, <2>2, <2>3 DEF IInv, Heap
    <3>2. Loading'
      BY <1>2 DEF Return, Loading, Creating
    <3> QED
      BY <3>1, <3>2 DEF IInv
<1>3. CASE /\ pc = "vga_extension" /\ Malloc
           /\ object' = Linked(VGA, Allocated) /\ pc' = "initialize"
           /\ UNCHANGED <<DriverObject, Device>>
  <2>1. Heap'
    <3>1. g_VgaDevice' = g_VgaDevice
      BY DEF Extend
    <3>2. HandedOut \subseteq HandedOut' /\ heap_current' \in 0 .. HEAP_SIZE
      BY <1>3, MallocFresh DEF IInv
    <3>3. DOMAIN object' = Addresses /\ object' = [p \in Addresses |-> object'[p]]
      BY <1>3 DEF Linked, IInv, Heap
    <3> QED
      BY <3>1, <3>2, <3>3 DEF IInv, Heap
  <2>2. object'[Device].extension = Allocated
    <3>1. /\ Device \in Addresses /\ Device # DriverObject /\ object[Device] = Zeroed
          /\ DOMAIN object = Addresses /\ object = [p \in Addresses |-> object[p]]
      BY <1>3, HeapAssumption DEF IInv, Heap, Loading, HandedOut, Addresses
    <3>2. object'[Device] =
            [Zeroed EXCEPT !.owner = DriverObject, !.name = VGA, !.extension = Allocated,
                           !.next = object[DriverObject].first]
      BY <1>3, <3>1 DEF Linked
    <3> QED
      BY <3>2 DEF Zeroed
  <2>3. g_VgaDevice' = g_VgaDevice /\ HandedOut \subseteq HandedOut'
        /\ Allocated \in HandedOut' /\ Allocated # g_VgaDevice
    BY <1>3, MallocFresh DEF Extend, IInv
  <2>4. Loading'
    BY <1>3, <2>2, <2>3 DEF IInv, Loading, Creating
  <2> QED
    BY <2>1, <2>4 DEF IInv
<1> QED
  BY <1>1, <1>2, <1>3 DEF Extend

LEMMA VgaInitializeDeviceInv ==
  ASSUME IInv, VgaInitializeDevice
  PROVE  IInv'
<1>1. PICK ok \in BOOLEAN :
        /\ g_VgaDevice' = Published(ok)
        /\ \/ /\ ok
              /\ object' = [object EXCEPT ![DriverObject].unload = TRUE]
              /\ pc' = "add"
              /\ UNCHANGED live
           \/ /\ ~ok
              /\ DeleteDevice(Device)
              /\ pc' = "refuse"
  BY DEF VgaInitializeDevice
<1>2. CASE ok
  BY <1>1, <1>2 DEF VgaInitializeDevice, Published, IInv, Heap, Loading, HandedOut, Creating
<1>3. CASE ~ok
  BY <1>1, <1>3
     DEF VgaInitializeDevice, Published, DeleteDevice, Relinked, IInv, Heap, Loading, HandedOut, Creating
<1> QED
  BY <1>2, <1>3

LEMMA RefuseDriverInv == IInv /\ RefuseDriver => IInv'
BY DEF RefuseDriver, Return, lists, IInv, Heap, Loading, HandedOut, Creating

LEMMA StepInv == IInv /\ [Next]_vars => IInv'
BY OthersInv, CreateDriverInv, AllocateDeviceInv, ExtendInv, VgaInitializeDeviceInv, RefuseDriverInv
   DEF Next

LEMMA Invariance == Spec => []IInv
BY InitInv, StepInv, PTL DEF Spec

-----------------------------------------------------------------------------
(* io_manager.c and vga_driver.c: whichever allocation fails and whether   *)
(* VgaInitializeDevice does, IoCreateDriver never frees the device the     *)
(* screen is drawn through.                                                *)
THEOREM ScreenKeepsDeviceAlways == Spec => ScreenKeepsDevice
<1>1. IInv /\ [Next]_vars => [Creating => g_VgaDevice' \notin live \ live']_vars
  <2> SUFFICES ASSUME IInv, Next, Creating
               PROVE  g_VgaDevice' \notin live \ live'
    BY DEF vars
  <2> USE DEF IInv, Loading, Creating
  <2>1. CASE AllocateDevice
    BY <2>1 DEF AllocateDevice, Malloc
  <2>2. CASE Extend
    <3>1. g_VgaDevice' = g_VgaDevice /\ pc = "vga_extension"
      BY <2>2 DEF Extend
    <3>2. live \subseteq live' \/ live' = live \ {Device}
      BY <2>2 DEF Extend, Malloc, Free, heap
    <3> QED
      BY <3>1, <3>2
  <2>3. CASE VgaInitializeDevice
    <3>1. \/ live' = live
          \/ /\ g_VgaDevice' = g_VgaDevice
             /\ live' = live \ {Device, object[Device].extension}
      BY <2>3 DEF VgaInitializeDevice, Published, DeleteDevice, Free
    <3> QED
      BY <2>3, <3>1 DEF VgaInitializeDevice
  <2>4. CASE RefuseDriver
    BY <2>4 DEF RefuseDriver, Free
  <2>5. CASE \/ IoInitSystem \/ CreateDriver \/ AddDriver \/ IoDeleteDevice \/ DeleteDriver
             \/ DeleteDevices \/ RemoveDriver \/ FreeDriver \/ IoGetDeviceObjectPointer
    BY <2>5 DEF IoInitSystem, CreateDriver, AddDriver, IoDeleteDevice, DeleteDriver,
       DeleteDevices, RemoveDriver, FreeDriver, IoGetDeviceObjectPointer
  <2> QED
    BY <2>1, <2>2, <2>3, <2>4, <2>5 DEF Next
<1> QED
  BY <1>1, Invariance, PTL DEF Spec, ScreenKeepsDevice
-----------------------------------------------------------------------------
(* The lists.  s[p] is the set of addresses on the list that starts at p.  *)
(* Links lead to older objects, so that every list ends.                   *)
Ends == Addresses \cup {NULL}

Links == [p \in Addresses |-> object[p].next]

Descending(f) == \A p \in Addresses : f[p] = NULL \/ (f[p] \in Addresses /\ f[p] < p)

Reach(f, s) == s = [p \in Ends |-> IF p = NULL THEN {} ELSE {p} \cup s[f[p]]]

Objects ==
  [next : Ends, first : Ends, unload : BOOLEAN,
   owner : Ends, extension : Ends, name : Names \cup {NULL}]

Shape ==
  /\ heap_current \in 0 .. HEAP_SIZE
  /\ object \in [Addresses -> Objects]
  /\ Descending(Links)
  /\ live \subseteq HandedOut
  /\ {g_DriverList, DriverObject, Device} \subseteq Ends

(* Drivers in the list, and the one that is being created or deleted.      *)
AllDrivers(s) == s[g_DriverList] \cup ({DriverObject} \ {NULL})

Owns(s, d, x) == d \in AllDrivers(s) /\ x \in s[object[d].first]

Pending == pc \in {"extension", "vga_extension"}

(* What lies at an address that was handed out: kind says what for.        *)
Kinds == [Addresses -> {"driver", "device", "extension"}]

Placed(s, kind) ==
  /\ \A d \in AllDrivers(s) : d \in live /\ kind[d] = "driver"
  /\ \A d, x \in Addresses : Owns(s, d, x) =>
       /\ x \in live /\ kind[x] = "device" /\ object[x].owner = d
       /\ object[x].extension # NULL =>
            object[x].extension \in live /\ kind[object[x].extension] = "extension"
  /\ \A d, e, x, y \in Addresses :
       Owns(s, d, x) /\ Owns(s, e, y) /\ object[x].extension = object[y].extension =>
         x = y \/ object[x].extension = NULL
  /\ Pending => Device \in live /\ kind[Device] = "device" /\ object[Device].owner = NULL

(* Nothing else is allocated.                                              *)
Accounted(s) ==
  \A p \in live :
    \/ p \in AllDrivers(s)
    \/ \E d \in Addresses : Owns(s, d, p)
    \/ \E d, x \in Addresses : Owns(s, d, x) /\ object[x].extension = p
    \/ Pending /\ p = Device

(* Where the call in progress is.                                          *)
Progress(s) ==
  /\ pc = "idle" => DriverObject = NULL /\ Device = NULL
  /\ pc # "idle" => DriverObject # NULL
  /\ pc \in {"entry", "vga_extension", "initialize", "add", "refuse"} =>
       \A d \in s[g_DriverList] : d < DriverObject
  /\ pc \in {"entry", "vga_extension", "refuse", "unload"} => object[DriverObject].first = NULL
  /\ pc \in {"initialize", "add"} =>
       Device # NULL /\ object[DriverObject].first = Device /\ object[Device].next = NULL
  /\ pc \in {"extension", "devices"} => DriverObject \in s[g_DriverList]
  /\ Pending => Device = heap_current
  /\ pc = "devices" => Device = object[DriverObject].first
  /\ pc = "unload" => Device = NULL /\ DriverObject \notin s[g_DriverList]
  /\ g_IoInitialized \/ (g_DriverList = NULL /\ pc = "idle")

Counted(s) == g_DriverCount = Cardinality(s[g_DriverList])

Sound(s, kind) == Placed(s, kind) /\ Accounted(s) /\ Progress(s) /\ Counted(s)

ListInv == Shape /\ \E s, kind : Reach(Links, s) /\ kind \in Kinds /\ Sound(s, kind)

(* A fact about the addresses a list may start at follows for each of them *)
(* from the same fact about the older ones.                                *)
LEMMA OlderFirst ==
  ASSUME NEW T, NULL \in T,
         \A p \in Addresses : (\A q \in Addresses : q < p => q \in T) => p \in T
  PROVE  Ends \subseteq T
<1> DEFINE S == {n \in Nat : n \in Addresses => n \in T}
<1>1. \A n \in Nat : (\A m \in Nat : m < n => m \in S) => n \in S
  BY HeapAssumption DEF Addresses
<1>2. Nat \subseteq S
  <2> HIDE DEF S
  <2> QED
    BY <1>1, StrongInduction
<1>3. Addresses \subseteq Nat
  BY HeapAssumption DEF Addresses
<1> QED
  BY <1>2, <1>3 DEF Ends

LEMMA ReachStep ==
  ASSUME NEW f, NEW s, Reach(f, s)
  PROVE  s[NULL] = {} /\ \A p \in Addresses : s[p] = {p} \cup s[f[p]]
<1>1. NULL \notin Addresses
  BY HeapAssumption DEF Addresses
<1>2. s = [p \in Ends |-> IF p = NULL THEN {} ELSE {p} \cup s[f[p]]]
  BY DEF Reach
<1>3. \A p \in Ends : s[p] = IF p = NULL THEN {} ELSE {p} \cup s[f[p]]
  BY <1>2
<1> QED
  BY <1>1, <1>3 DEF Ends

(* A list holds its start and older addresses, each with the rest of the   *)
(* list from there.                                                        *)
LEMMA ReachOlder ==
  ASSUME NEW f, NEW s, Descending(f), Reach(f, s)
  PROVE  \A p \in Ends : s[p] \subseteq Addresses /\ \A q \in s[p] : q <= p
<1> DEFINE T == {p \in Ends : s[p] \subseteq Addresses /\ \A q \in s[p] : q <= p}
<1>1. s[NULL] = {} /\ \A p \in Addresses : s[p] = {p} \cup s[f[p]]
  BY ReachStep
<1>2. NULL \in T
  BY <1>1 DEF Ends
<1>3. ASSUME NEW p \in Addresses, \A q \in Addresses : q < p => q \in T
      PROVE  p \in T
  <2>1. s[p] = {p} \cup s[f[p]] /\ p \in Nat
    BY <1>1, HeapAssumption DEF Addresses
  <2>2. CASE f[p] = NULL
    BY <1>1, <2>1, <2>2 DEF Ends
  <2>3. CASE f[p] # NULL
    <3>1. f[p] \in Addresses /\ f[p] < p /\ f[p] \in Nat
      BY <2>3, HeapAssumption DEF Descending, Addresses
    <3>2. s[f[p]] \subseteq Addresses /\ \A q \in s[f[p]] : q <= f[p]
      BY <1>3, <3>1
    <3>3. \A q \in s[f[p]] : q \in Nat
      BY <3>2, HeapAssumption DEF Addresses
    <3>4. \A q \in s[p] : q <= p
      BY <2>1, <3>1, <3>2, <3>3
    <3> QED
      BY <2>1, <3>2, <3>4 DEF Ends
  <2> QED
    BY <2>2, <2>3
<1>4. Ends \subseteq T
  <2> HIDE DEF T
  <2> QED
    BY <1>2, <1>3, OlderFirst
<1> QED
  BY <1>4

LEMMA ReachClosed ==
  ASSUME NEW f, NEW s, Descending(f), Reach(f, s)
  PROVE  \A p \in Ends : \A q \in s[p] : s[q] \subseteq s[p]
<1> DEFINE T == {p \in Ends : \A q \in s[p] : s[q] \subseteq s[p]}
<1>1. s[NULL] = {} /\ \A p \in Addresses : s[p] = {p} \cup s[f[p]]
  BY ReachStep
<1>2. NULL \in T
  BY <1>1 DEF Ends
<1>3. ASSUME NEW p \in Addresses, \A q \in Addresses : q < p => q \in T
      PROVE  p \in T
  <2>1. CASE f[p] = NULL
    BY <1>1, <2>1 DEF Ends
  <2>2. CASE f[p] # NULL
    <3>1. \A q \in s[f[p]] : s[q] \subseteq s[f[p]]
      BY <1>3, <2>2 DEF Descending
    <3> QED
      BY <1>1, <3>1 DEF Ends
  <2> QED
    BY <2>1, <2>2
<1>4. Ends \subseteq T
  <2> HIDE DEF T
  <2> QED
    BY <1>2, <1>3, OlderFirst
<1> QED
  BY <1>4

(* Changing links elsewhere does not change a list.                        *)
LEMMA ReachSame ==
  ASSUME NEW f, NEW s, Descending(f), Reach(f, s), NEW g, NEW t, Reach(g, t),
         NEW h \in Ends, \A q \in s[h] : g[q] = f[q]
  PROVE  t[h] = s[h]
<1> DEFINE T == {p \in Ends : s[p] \subseteq s[h] => t[p] = s[p]}
<1>1. /\ s[NULL] = {} /\ \A p \in Addresses : s[p] = {p} \cup s[f[p]]
      /\ t[NULL] = {} /\ \A p \in Addresses : t[p] = {p} \cup t[g[p]]
  BY ReachStep
<1>2. NULL \in T
  BY <1>1 DEF Ends
<1>3. ASSUME NEW p \in Addresses, \A q \in Addresses : q < p => q \in T
      PROVE  p \in T
  <2> SUFFICES ASSUME s[p] \subseteq s[h] PROVE t[p] = s[p]
    BY DEF Ends
  <2>1. g[p] = f[p] /\ s[f[p]] \subseteq s[h]
    BY <1>1
  <2>2. t[f[p]] = s[f[p]]
    BY <1>1, <1>3, <2>1 DEF Descending
  <2> QED
    BY <1>1, <2>1, <2>2
<1>4. Ends \subseteq T
  <2> HIDE DEF T
  <2> QED
    BY <1>2, <1>3, OlderFirst
<1> QED
  BY <1>4

(* A list from which x has been unlinked holds all but x.                  *)
Unlinked(f, g, list, x) ==
  \A q \in Addresses : g[q] = IF q \in list /\ f[q] = x THEN f[x] ELSE f[q]

LEMMA UnlinkedDescending ==
  ASSUME NEW f, Descending(f), NEW g, NEW list, NEW x \in Addresses, Unlinked(f, g, list, x)
  PROVE  Descending(g)
<1> SUFFICES ASSUME NEW p \in Addresses PROVE g[p] = NULL \/ (g[p] \in Addresses /\ g[p] < p)
  BY DEF Descending
<1>1. CASE p \in list /\ f[p] = x
  <2>1. g[p] = f[x] /\ x < p /\ (f[x] = NULL \/ (f[x] \in Addresses /\ f[x] < x))
    BY <1>1, HeapAssumption DEF Unlinked, Descending, Addresses
  <2>2. x \in Nat /\ p \in Nat /\ Addresses \subseteq Nat
    BY HeapAssumption DEF Addresses
  <2>3. \A a, b, c \in Nat : a < b /\ b < c => a < c
    OBVIOUS
  <2> QED
    BY <2>1, <2>2, <2>3
<1>2. CASE ~(p \in list /\ f[p] = x)
  BY <1>2 DEF Unlinked, Descending
<1> QED
  BY <1>1, <1>2

LEMMA ReachWithout ==
  ASSUME NEW f, NEW s, Descending(f), Reach(f, s), NEW g, NEW t, Reach(g, t),
         NEW h \in Ends, NEW x \in s[h], Unlinked(f, g, s[h], x)
  PROVE  t[IF h = x THEN f[x] ELSE h] = s[h] \ {x}
<1>1. /\ s[NULL] = {} /\ \A p \in Addresses : s[p] = {p} \cup s[f[p]]
      /\ t[NULL] = {} /\ \A p \in Addresses : t[p] = {p} \cup t[g[p]]
  BY ReachStep
<1>2. /\ \A p \in Ends : s[p] \subseteq Addresses /\ \A q \in s[p] : q <= p
      /\ x \in Addresses /\ Addresses \subseteq Nat /\ s[x] \subseteq s[h]
  BY ReachOlder, ReachClosed, HeapAssumption DEF Addresses
<1>3. f[x] \in Ends /\ s[f[x]] \subseteq s[h] /\ \A q \in s[f[x]] : q < x
  BY <1>1, <1>2 DEF Ends, Descending
<1>4. \A q \in s[f[x]] : g[q] = f[q]
  <2> SUFFICES ASSUME NEW q \in s[f[x]], f[q] = x PROVE FALSE
    BY <1>2, <1>3 DEF Unlinked
  <2>1. q < x /\ q \in Addresses /\ x < q
    BY <1>2, <1>3, HeapAssumption DEF Descending, Addresses
  <2> QED
    BY <1>2, <2>1
<1>5. t[f[x]] = s[f[x]] /\ x \notin s[f[x]]
  BY <1>2, <1>3, <1>4, ReachSame
<1> DEFINE T == {p \in Ends : s[p] \subseteq s[h] /\ p # x => t[p] = s[p] \ {x}}
<1>6. NULL \in T
  BY <1>1 DEF Ends
<1>7. ASSUME NEW p \in Addresses, \A q \in Addresses : q < p => q \in T
      PROVE  p \in T
  <2> SUFFICES ASSUME s[p] \subseteq s[h], p # x PROVE t[p] = s[p] \ {x}
    BY DEF Ends
  <2>1. s[p] = {p} \cup s[f[p]] /\ t[p] = {p} \cup t[g[p]] /\ p \in s[h]
    BY <1>1
  <2>2. CASE f[p] = x
    <3>1. g[p] = f[x] /\ s[f[p]] = {x} \cup s[f[x]]
      BY <1>1, <1>2, <2>1, <2>2 DEF Unlinked
    <3> QED
      BY <1>5, <2>1, <3>1
  <2>3. CASE f[p] # x
    <3>1. g[p] = f[p] /\ s[f[p]] \subseteq s[h]
      BY <2>1, <2>3 DEF Unlinked
    <3>2. t[f[p]] = s[f[p]] \ {x}
      BY <1>1, <1>7, <2>3, <3>1 DEF Descending
    <3> QED
      BY <2>1, <3>1, <3>2
  <2> QED
    BY <2>2, <2>3
<1>8. Ends \subseteq T
  <2> HIDE DEF T
  <2> QED
    BY <1>6, <1>7, OlderFirst
<1>9. CASE h = x
  BY <1>1, <1>2, <1>5, <1>9
<1>10. CASE h # x
  BY <1>8, <1>10
<1> QED
  BY <1>9, <1>10

(* The equation of the lists has a solution, and so has that of Chain.     *)
Solves(f, s, n) == s[NULL] = {} /\ \A p \in 1 .. n : s[p] = {p} \cup s[f[p]]

LEMMA ReachExists ==
  ASSUME NEW f, Descending(f)
  PROVE  \E s : Reach(f, s)
<1> DEFINE S == {n \in Nat : n <= HEAP_SIZE => \E s : Solves(f, s, n)}
<1>1. 0 \in S
  <2>1. Solves(f, [p \in Ends |-> {}], 0)
    BY DEF Solves, Ends
  <2> QED
    BY <2>1
<1>2. ASSUME NEW n \in Nat, n \in S PROVE n + 1 \in S
  <2> SUFFICES ASSUME n + 1 <= HEAP_SIZE PROVE \E s : Solves(f, s, n + 1)
    OBVIOUS
  <2>1. n <= HEAP_SIZE /\ n + 1 \in Addresses
    BY HeapAssumption DEF Addresses
  <2>2. PICK s : Solves(f, s, n)
    BY <1>2, <2>1
  <2> DEFINE t == [p \in Ends |-> IF p = n + 1 THEN {n + 1} \cup s[f[n + 1]] ELSE s[p]]
  <2>3. t[NULL] = {}
    BY <2>1, <2>2, HeapAssumption DEF Solves, Ends, Addresses
  <2>4. ASSUME NEW p \in 1 .. n + 1 PROVE t[p] = {p} \cup t[f[p]]
    <3>1. p \in Addresses /\ (p = n + 1 \/ p \in 1 .. n)
      BY <2>1, HeapAssumption DEF Addresses
    <3>2. f[p] \in Ends /\ f[p] # n + 1
      BY <3>1, HeapAssumption DEF Descending, Ends, Addresses
    <3>3. t[f[p]] = s[f[p]] /\ t[p] = IF p = n + 1 THEN {n + 1} \cup s[f[n + 1]] ELSE s[p]
      BY <3>1, <3>2 DEF Ends
    <3>4. p # n + 1 => s[p] = {p} \cup s[f[p]]
      BY <2>2, <3>1 DEF Solves
    <3> HIDE DEF t
    <3> QED
      BY <3>3, <3>4
  <2>5. Solves(f, t, n + 1)
    <3> HIDE DEF t
    <3> QED
      BY <2>3, <2>4 DEF Solves
  <2> HIDE DEF t
  <2> QED
    BY <2>5
<1>3. HEAP_SIZE \in S
  <2>1. HEAP_SIZE \in Nat
    BY HeapAssumption
  <2> HIDE DEF S
  <2> QED
    BY <1>1, <1>2, <2>1, SetInduction
<1>4. PICK s : Solves(f, s, HEAP_SIZE)
  BY <1>3, HeapAssumption
<1> DEFINE t == [p \in Ends |-> s[p]]
<1>5. t = [p \in Ends |-> IF p = NULL THEN {} ELSE {p} \cup t[f[p]]]
  <2>1. ASSUME NEW p \in Ends
        PROVE  s[p] = IF p = NULL THEN {} ELSE {p} \cup t[f[p]]
    <3>1. CASE p = NULL
      BY <1>4, <3>1 DEF Solves
    <3>2. CASE p # NULL
      <4>1. p \in 1 .. HEAP_SIZE /\ f[p] \in Ends
        BY <2>1, <3>2 DEF Ends, Addresses, Descending
      <4>2. t[f[p]] = s[f[p]]
        BY <4>1
      <4> QED
        BY <1>4, <3>2, <4>1, <4>2 DEF Solves
    <3> QED
      BY <3>1, <3>2
  <2> QED
    BY <2>1
<1> QED
  <2>1. Reach(f, t)
    BY <1>5 DEF Reach
  <2> HIDE DEF t
  <2> QED
    BY <2>1

IsChain(c) == c = [p \in Ends |-> IF p = NULL THEN <<>> ELSE <<p>> \o c[object[p].next]]

SolvesChain(c, n) == c[NULL] = <<>> /\ \A p \in 1 .. n : c[p] = <<p>> \o c[object[p].next]

LEMMA ChainExists ==
  ASSUME Shape
  PROVE  \E c : IsChain(c)
<1> DEFINE S == {n \in Nat : n <= HEAP_SIZE => \E c : SolvesChain(c, n)}
<1>0. \A p \in Addresses : object[p].next \in Ends /\ (object[p].next # NULL => object[p].next < p)
  BY DEF Shape, Descending, Links, Ends
<1>1. 0 \in S
  <2>1. SolvesChain([p \in Ends |-> <<>>], 0)
    BY DEF SolvesChain, Ends
  <2> QED
    BY <2>1
<1>2. ASSUME NEW n \in Nat, n \in S PROVE n + 1 \in S
  <2> SUFFICES ASSUME n + 1 <= HEAP_SIZE PROVE \E c : SolvesChain(c, n + 1)
    OBVIOUS
  <2>1. n <= HEAP_SIZE /\ n + 1 \in Addresses
    BY HeapAssumption DEF Addresses
  <2>2. PICK c : SolvesChain(c, n)
    BY <1>2, <2>1
  <2> DEFINE d == [p \in Ends |-> IF p = n + 1 THEN <<n + 1>> \o c[object[n + 1].next] ELSE c[p]]
  <2>3. d[NULL] = <<>>
    BY <2>1, <2>2, HeapAssumption DEF SolvesChain, Ends, Addresses
  <2>4. ASSUME NEW p \in 1 .. n + 1 PROVE d[p] = <<p>> \o d[object[p].next]
    <3>1. p \in Addresses /\ (p = n + 1 \/ p \in 1 .. n)
      BY <2>1, HeapAssumption DEF Addresses
    <3>2. object[p].next \in Ends /\ object[p].next # n + 1
      BY <1>0, <3>1, HeapAssumption DEF Ends, Addresses
    <3>3. /\ d[object[p].next] = c[object[p].next]
          /\ d[p] = IF p = n + 1 THEN <<n + 1>> \o c[object[n + 1].next] ELSE c[p]
      BY <3>1, <3>2 DEF Ends
    <3>4. p # n + 1 => c[p] = <<p>> \o c[object[p].next]
      BY <2>2, <3>1 DEF SolvesChain
    <3> HIDE DEF d
    <3> QED
      BY <3>3, <3>4
  <2>5. SolvesChain(d, n + 1)
    <3> HIDE DEF d
    <3> QED
      BY <2>3, <2>4 DEF SolvesChain
  <2> HIDE DEF d
  <2> QED
    BY <2>5
<1>3. HEAP_SIZE \in S
  <2>1. HEAP_SIZE \in Nat
    BY HeapAssumption
  <2> HIDE DEF S
  <2> QED
    BY <1>1, <1>2, <2>1, SetInduction
<1>4. PICK c : SolvesChain(c, HEAP_SIZE)
  BY <1>3, HeapAssumption
<1> DEFINE d == [p \in Ends |-> c[p]]
<1>5. d = [p \in Ends |-> IF p = NULL THEN <<>> ELSE <<p>> \o d[object[p].next]]
  <2>1. ASSUME NEW p \in Ends
        PROVE  c[p] = IF p = NULL THEN <<>> ELSE <<p>> \o d[object[p].next]
    <3>1. CASE p = NULL
      BY <1>4, <3>1 DEF SolvesChain
    <3>2. CASE p # NULL
      <4>1. p \in 1 .. HEAP_SIZE /\ object[p].next \in Ends
        BY <1>0, <2>1, <3>2 DEF Ends, Addresses
      <4>2. d[object[p].next] = c[object[p].next]
        BY <4>1
      <4> QED
        BY <1>4, <3>2, <4>1, <4>2 DEF SolvesChain
    <3> QED
      BY <3>1, <3>2
  <2> QED
    BY <2>1
<1> QED
  <2>1. IsChain(d)
    BY <1>5 DEF IsChain
  <2> HIDE DEF d
  <2> QED
    BY <2>1

LEMMA ChainStep ==
  ASSUME Shape
  PROVE  Chain(NULL) = <<>> /\ \A p \in Addresses : Chain(p) = <<p>> \o Chain(object[p].next)
<1> DEFINE c == CHOOSE c : c = [p \in Addresses \cup {NULL} |->
                                  IF p = NULL THEN <<>> ELSE <<p>> \o c[object[p].next]]
<1>1. \A p : Chain(p) = c[p]
  BY DEF Chain
<1>2. c = [p \in Addresses \cup {NULL} |-> IF p = NULL THEN <<>> ELSE <<p>> \o c[object[p].next]]
  BY ChainExists DEF IsChain, Ends
<1>3. NULL \notin Addresses
  BY HeapAssumption DEF Addresses
<1> HIDE DEF c
<1>4. c[NULL] = <<>>
  BY <1>2
<1>5. \A p \in Addresses : c[p] = <<p>> \o c[object[p].next]
  BY <1>2, <1>3
<1> QED
  BY <1>1, <1>4, <1>5

(* What ListsSound and NothingLeaks say of chains can be said of sets.     *)
LEMMA ChainFacts ==
  ASSUME Shape, NEW s, Reach(Links, s)
  PROVE  \A p \in Ends : /\ Chain(p) \in Seq(Addresses) /\ ToSet(Chain(p)) = s[p]
                         /\ IsFiniteSet(s[p]) /\ Len(Chain(p)) = Cardinality(s[p])
<1> DEFINE Fine(p) == /\ Chain(p) \in Seq(Addresses) /\ ToSet(Chain(p)) = s[p]
                      /\ IsFiniteSet(s[p]) /\ Len(Chain(p)) = Cardinality(s[p])
           T == {p \in Ends : Fine(p)}
<1>1. s[NULL] = {} /\ \A p \in Addresses : s[p] = {p} \cup s[Links[p]]
  BY ReachStep
<1>2. NULL \in T
  <2>1. Chain(NULL) = <<>>
    BY ChainStep
  <2>2. <<>> \in Seq(Addresses) /\ ToSet(<<>>) = {} /\ Len(<<>>) = 0
    BY DEF ToSet
  <2>3. IsFiniteSet({}) /\ Cardinality({}) = 0
    BY FS_EmptySet
  <2> QED
    BY <1>1, <2>1, <2>2, <2>3 DEF Ends
<1>3. ASSUME NEW p \in Addresses, \A q \in Addresses : q < p => q \in T
      PROVE  p \in T
  <2>1. PICK n \in Ends : n = object[p].next /\ n = Links[p] /\ (n # NULL => n \in Addresses /\ n < p)
    BY DEF Shape, Descending, Links, Ends
  <2>2. Fine(n)
    BY <1>2, <1>3, <2>1
  <2>3. Chain(p) = <<p>> \o Chain(n) /\ s[p] = {p} \cup s[n]
    BY <1>1, <2>1, ChainStep
  <2>4. p \notin s[n]
    BY <1>1, <2>1, ReachOlder, HeapAssumption DEF Shape, Addresses
  <2>5. PICK u : u = Chain(n)
    OBVIOUS
  <2>6. u \in Seq(Addresses) /\ ToSet(u) = s[n] /\ IsFiniteSet(s[n]) /\ Len(u) = Cardinality(s[n])
    BY <2>2, <2>5
  <2>7. /\ <<p>> \o u \in Seq(Addresses) /\ Len(<<p>> \o u) = Len(u) + 1
        /\ (<<p>> \o u)[1] = p /\ \A i \in 1 .. Len(u) : (<<p>> \o u)[i + 1] = u[i]
    BY <2>6, ConcatParts
  <2>8. ToSet(<<p>> \o u) = {p} \cup ToSet(u)
    <3>1. PICK w : w = <<p>> \o u
      OBVIOUS
    <3>2. /\ w \in Seq(Addresses) /\ Len(w) = Len(u) + 1 /\ Len(u) \in Nat
          /\ w[1] = p /\ \A i \in 1 .. Len(u) : w[i + 1] = u[i]
      BY <2>6, <2>7, <3>1
    <3>3. ToSet(w) = {w[i] : i \in 1 .. Len(w)} /\ ToSet(u) = {u[i] : i \in 1 .. Len(u)}
      <4>1. \A v \in Seq(Addresses) : DOMAIN v = 1 .. Len(v)
        OBVIOUS
      <4> QED
        BY <2>6, <3>2, <4>1 DEF ToSet
    <3>4. ASSUME NEW i \in 1 .. Len(w) PROVE w[i] = p \/ \E j \in 1 .. Len(u) : w[i] = u[j]
      <4>1. i = 1 \/ (i - 1 \in 1 .. Len(u) /\ (i - 1) + 1 = i)
        BY <3>2
      <4> QED
        BY <3>2, <4>1
    <3>5. 1 \in 1 .. Len(w) /\ \A i \in 1 .. Len(u) : i + 1 \in 1 .. Len(w)
      BY <3>2
    <3>6. \A q : q \in ToSet(w) <=> q = p \/ q \in ToSet(u)
      BY <3>2, <3>3, <3>4, <3>5
    <3> QED
      BY <3>1, <3>6
  <2>9. IsFiniteSet(s[n] \cup {p}) /\ Cardinality(s[n] \cup {p}) = Cardinality(s[n]) + 1
    BY <2>4, <2>6, FS_AddElement
  <2>10. s[p] = s[n] \cup {p}
    BY <2>3
  <2> HIDE DEF T
  <2>11. Fine(p)
    BY <2>3, <2>5, <2>6, <2>7, <2>8, <2>9, <2>10
  <2> QED
    BY <2>11 DEF T, Ends
<1>4. Ends \subseteq T
  <2> HIDE DEF T
  <2> QED
    BY <1>2, <1>3, OlderFirst
<1> QED
  BY <1>4

-----------------------------------------------------------------------------
(* What the invariant says of every list a driver or the system starts.    *)
LEMMA ListFacts ==
  ASSUME Shape, NEW s, NEW kind, Reach(Links, s), Sound(s, kind)
  PROVE  /\ s[NULL] = {} /\ \A p \in Addresses : s[p] = {p} \cup s[object[p].next]
         /\ \A p \in Ends : s[p] \subseteq Addresses /\ \A q \in s[p] : q <= p
         /\ live \subseteq Addresses /\ NULL \notin Addresses
         /\ AllDrivers(s) \subseteq live /\ s[g_DriverList] \subseteq live
         /\ \A d \in live : object[d].first \in Ends /\ object[d].next \in Ends
         /\ \A d \in AllDrivers(s) : s[object[d].first] \subseteq live
<1>1. \A p \in Addresses : Links[p] = object[p].next
  BY DEF Links
<1>2. NULL \notin Addresses /\ live \subseteq Addresses
  BY HeapAssumption DEF Shape, HandedOut, Addresses
<1>3. s[NULL] = {} /\ \A p \in Addresses : s[p] = {p} \cup s[object[p].next]
  BY <1>1, ReachStep
<1>4. \A p \in Ends : s[p] \subseteq Addresses /\ \A q \in s[p] : q <= p
  BY ReachOlder DEF Shape
<1>5. \A d \in live : object[d].first \in Ends /\ object[d].next \in Ends
  BY <1>2 DEF Shape, Objects
<1>6. AllDrivers(s) \subseteq live /\ s[g_DriverList] \subseteq live
  BY DEF Sound, Placed, AllDrivers
<1>7. ASSUME NEW d \in AllDrivers(s), NEW x \in s[object[d].first] PROVE x \in live
  <2>1. d \in Addresses /\ x \in Addresses
    BY <1>2, <1>4, <1>5, <1>6
  <2> QED
    BY <2>1, <1>7 DEF Sound, Placed, Owns
<1> QED
  BY <1>2, <1>3, <1>4, <1>5, <1>6, <1>7

(* The calls that leave the objects alone.                                 *)
LEMMA UnchangedSound ==
  ASSUME Shape, NEW s, NEW kind \in Kinds, Reach(Links, s), Sound(s, kind),
         UNCHANGED <<object, g_DriverList>>, live' \subseteq HandedOut', heap_current' = heap_current,
         {DriverObject', Device'} \subseteq Ends, Sound(s, kind)'
  PROVE  ListInv'
<1>1. Links' = Links
  BY DEF Links
<1>2. Shape'
  BY <1>1 DEF Shape, HandedOut
<1> QED
  BY <1>1, <1>2 DEF ListInv

LEMMA InitSystemInv ==
  ASSUME Shape, NEW s, NEW kind \in Kinds, Reach(Links, s), Sound(s, kind), IoInitSystem
  PROVE  ListInv'
<1>1. s[NULL] = {} /\ Cardinality({}) = 0
  BY ListFacts, FS_EmptySet
<1>2. UNCHANGED <<object, heap, call, g_DriverList, g_DriverCount>>
  BY <1>1 DEF IoInitSystem, FirstTime, lists, Sound, Progress, Counted
<1>3. g_IoInitialized'
  BY DEF IoInitSystem, FirstTime, lists
<1>4. Sound(s, kind)'
  BY <1>2, <1>3 DEF heap, call, Sound, Placed, Accounted, Progress, Counted, AllDrivers, Owns, Pending
<1> QED
  BY <1>2, <1>4, UnchangedSound DEF Shape, HandedOut, heap, call

LEMMA NothingInv ==
  ASSUME Shape, NEW s, NEW kind \in Kinds, Reach(Links, s), Sound(s, kind),
         UNCHANGED <<heap, lists, call>>
  PROVE  ListInv'
<1>1. Sound(s, kind)'
  BY DEF heap, lists, call, Sound, Placed, Accounted, Progress, Counted, AllDrivers, Owns, Pending
<1> QED
  BY <1>1, UnchangedSound DEF Shape, HandedOut, heap, lists, call

LEMMA DeleteDriverInv ==
  ASSUME Shape, NEW s, NEW kind \in Kinds, Reach(Links, s), Sound(s, kind), DeleteDriver
  PROVE  ListInv'
<1>1. PICK d \in s[g_DriverList] : DriverObject' = d /\ Device' = object[d].first
  BY ChainFacts DEF DeleteDriver, Drivers, InList, Shape
<1>2. UNCHANGED <<heap, lists>> /\ pc = "idle" /\ pc' = "devices"
  BY DEF DeleteDriver
<1>3. d \in live /\ object[d].first \in Ends /\ d \in Addresses /\ NULL \notin Addresses
  BY <1>1, ListFacts
<1>4. AllDrivers(s)' = AllDrivers(s)
  BY <1>1, <1>2 DEF lists, AllDrivers, Sound, Progress
<1>5. \A e, x : Owns(s, e, x)' <=> Owns(s, e, x)
  BY <1>2, <1>4 DEF lists, Owns
<1>6. Placed(s, kind)' /\ Accounted(s)'
  BY <1>2, <1>4, <1>5 DEF heap, lists, Sound, Placed, Accounted, Pending
<1>7. Progress(s)' /\ Counted(s)'
  <2>1. g_DriverList # NULL
    BY <1>1, ListFacts
  <2> QED
    BY <1>1, <1>2, <1>3, <2>1 DEF lists, Sound, Progress, Counted, Pending
<1> QED
  <2>1. Sound(s, kind)'
    BY <1>6, <1>7 DEF Sound
  <2> QED
    BY <1>1, <1>2, <1>3, <2>1, UnchangedSound DEF Shape, HandedOut, heap, lists, Ends

(* RefuseDriver and FreeDriver free a driver without devices.              *)
LEMMA FreedDriverInv ==
  ASSUME Shape, NEW s, NEW kind \in Kinds, Reach(Links, s), Sound(s, kind),
         RefuseDriver \/ FreeDriver
  PROVE  ListInv'
<1>1. /\ UNCHANGED <<heap_current, lists>> /\ live' = live \ {DriverObject}
      /\ pc \in {"refuse", "unload"} /\ Return
  BY DEF RefuseDriver, FreeDriver, Free
<1>2. /\ DriverObject \in AllDrivers(s) /\ object[DriverObject].first = NULL
      /\ DriverObject \notin s[g_DriverList] /\ s[NULL] = {}
  <2>1. DriverObject \in AllDrivers(s) /\ object[DriverObject].first = NULL
    BY <1>1 DEF Sound, Progress, AllDrivers
  <2>2. DriverObject \in Nat
    BY <2>1, ListFacts, HeapAssumption DEF Addresses
  <2>3. DriverObject \notin s[g_DriverList]
    BY <1>1, <2>2 DEF Sound, Progress
  <2> QED
    BY <2>1, <2>3, ListFacts
<1>3. AllDrivers(s)' = AllDrivers(s) \ {DriverObject}
  BY <1>1, <1>2 DEF lists, Return, AllDrivers
<1>4. \A d, x : Owns(s, d, x)' <=> Owns(s, d, x)
  BY <1>1, <1>2, <1>3 DEF lists, Owns
<1>5. kind[DriverObject] = "driver"
  BY <1>2 DEF Sound, Placed
<1>6. Placed(s, kind)'
  BY <1>1, <1>3, <1>4, <1>5 DEF Return, lists, Sound, Placed, Pending
<1>7. Accounted(s)'
  BY <1>1, <1>3, <1>4 DEF Return, lists, Sound, Accounted, Pending
<1>8. Progress(s)' /\ Counted(s)'
  BY <1>1 DEF Return, lists, Sound, Progress, Counted, Pending
<1> QED
  <2>1. Sound(s, kind)'
    BY <1>6, <1>7, <1>8 DEF Sound
  <2> QED
    BY <1>1, <2>1, UnchangedSound DEF Shape, HandedOut, lists, Return, Ends

(* malloc and memset: an object at an address no list has come to.         *)
Fresh(t, s) == \A h \in Ends : s[h] \subseteq live => t[h] = s[h]

LEMMA FreshLists ==
  ASSUME Shape, NEW s, NEW t, NEW n, Reach(Links, s), Reach(Links', t), HandedOut \subseteq HandedOut',
         n \notin live, object' = [object EXCEPT ![n] = Zeroed]
  PROVE  Fresh(t, s)
<1> SUFFICES ASSUME NEW h \in Ends, s[h] \subseteq live PROVE t[h] = s[h]
  BY DEF Fresh
<1>1. s[h] \subseteq Addresses
  BY ReachOlder DEF Shape
<1>2. ASSUME NEW q \in s[h] PROVE Links'[q] = Links[q]
  <2>1. q \in Addresses /\ q # n
    BY <1>1
  <2>2. object'[q] = object[q]
    BY <2>1 DEF Shape
  <2> QED
    BY <2>1, <2>2 DEF Links
<1> QED
  BY <1>2, ReachSame DEF Shape

LEMMA ZeroedShape ==
  ASSUME Shape, Malloc, object' = [object EXCEPT ![Allocated] = Zeroed]
  PROVE  /\ heap_current' \in 0 .. HEAP_SIZE /\ object' \in [Addresses -> Objects]
         /\ Descending(Links') /\ live' \subseteq HandedOut'
         /\ HandedOut \subseteq HandedOut' /\ Allocated \in Addresses /\ Allocated \notin live
         /\ heap_current' = Allocated /\ live' = live \cup {Allocated}
<1>1. /\ heap_current \in Nat /\ heap_current + 1 <= HEAP_SIZE
      /\ heap_current' = heap_current + 1 /\ Allocated = heap_current + 1
      /\ live' = live \cup {Allocated} /\ live \subseteq HandedOut
  BY HeapAssumption DEF Shape, Malloc, HasRoom, Allocated
<1>2. /\ heap_current' \in 0 .. HEAP_SIZE /\ Allocated \in Addresses /\ Allocated \notin live
      /\ HandedOut \subseteq HandedOut' /\ live' \subseteq HandedOut'
  BY <1>1, HeapAssumption DEF HandedOut, Addresses
<1>3. Zeroed \in Objects
  BY DEF Zeroed, Objects, Ends
<1>4. object' \in [Addresses -> Objects]
  BY <1>2, <1>3 DEF Shape
<1>5. ASSUME NEW p \in Addresses
      PROVE  Links'[p] = NULL \/ (Links'[p] \in Addresses /\ Links'[p] < p)
  <2>1. object'[p] = IF p = Allocated THEN Zeroed ELSE object[p]
    BY <1>2 DEF Shape
  <2>2. Links'[p] = object'[p].next /\ Links[p] = object[p].next
    BY DEF Links
  <2> QED
    BY <2>1, <2>2 DEF Zeroed, Shape, Descending
<1> QED
  BY <1>1, <1>2, <1>4, <1>5 DEF Descending

(* What is seen of the lists and of the objects after it.                  *)
LEMMA FreshView ==
  ASSUME Shape, NEW s, NEW kind \in Kinds, Reach(Links, s), Sound(s, kind),
         Malloc, object' = [object EXCEPT ![Allocated] = Zeroed], g_DriverList' = g_DriverList,
         NEW t, Reach(Links', t), NEW n, n = Allocated
  PROVE  /\ n \in Addresses /\ n \notin live /\ n # NULL /\ object'[n] = Zeroed
         /\ live' = live \cup {n} /\ heap_current' = n /\ \A p \in live : p < n
         /\ t[g_DriverList'] = s[g_DriverList] /\ t[NULL] = {}
         /\ \A d \in AllDrivers(s) : d \in live /\ t[object'[d].first] = s[object[d].first]
         /\ \A d, x : Owns(s, d, x) => x \in live
         /\ \A p \in live : p # n /\ object'[p] = object[p]
<1>1. /\ n \in Addresses /\ n \notin live /\ live' = live \cup {n} /\ heap_current' = n
      /\ HandedOut \subseteq HandedOut'
  BY ZeroedShape
<1>2. Fresh(t, s)
  BY <1>1, FreshLists
<1>3. /\ s[NULL] = {} /\ AllDrivers(s) \subseteq live /\ s[g_DriverList] \subseteq live
      /\ live \subseteq Addresses /\ NULL \notin Addresses
      /\ \A d \in live : object[d].first \in Ends
      /\ \A d \in AllDrivers(s) : s[object[d].first] \subseteq live
  BY ListFacts
<1>4. object'[n] = Zeroed /\ \A p \in Addresses \ {n} : object'[p] = object[p]
  BY <1>1 DEF Shape
<1>5. t[g_DriverList'] = s[g_DriverList] /\ t[NULL] = {}
  BY <1>2, <1>3 DEF Fresh, Shape, Ends
<1>6. \A p \in live : p # n /\ object'[p] = object[p]
  BY <1>1, <1>3, <1>4
<1>7. \A d \in AllDrivers(s) : d \in live /\ t[object'[d].first] = s[object[d].first]
  BY <1>2, <1>3, <1>6 DEF Fresh
<1>8. \A d, x : Owns(s, d, x) => x \in live
  BY <1>3 DEF Owns
<1>9. \A p \in live : p < n
  <2>1. live \subseteq 1 .. heap_current /\ heap_current \in Nat /\ n = heap_current + 1
    BY HeapAssumption DEF Shape, HandedOut, Allocated
  <2> QED
    BY <2>1
<1> QED
  BY <1>1, <1>3, <1>4, <1>5, <1>6, <1>7, <1>8, <1>9

(* A new object disturbs nothing that was there.                           *)
LEMMA FreshPlaced ==
  ASSUME Shape, NEW s, NEW kind \in Kinds, Reach(Links, s), Sound(s, kind),
         Malloc, object' = [object EXCEPT ![Allocated] = Zeroed], g_DriverList' = g_DriverList,
         NEW t, Reach(Links', t), NEW n, n = Allocated, NEW k, \A p \in live : k[p] = kind[p],
         \A d, x : Owns(t, d, x)' <=> Owns(s, d, x),
         \A d \in AllDrivers(t)' : d \in live' /\ k[d] = "driver",
         Pending' => Device' = n /\ k[n] = "device"
  PROVE  Placed(t, k)'
<1>1. /\ live' = live \cup {n} /\ object'[n] = Zeroed
      /\ \A d, x : Owns(s, d, x) => x \in live
      /\ \A p \in live : object'[p] = object[p]
  BY FreshView
<1>2. ASSUME NEW d \in Addresses, NEW x \in Addresses, Owns(s, d, x)
      PROVE  /\ x \in live' /\ k[x] = "device" /\ object'[x].owner = d
             /\ object'[x].extension # NULL =>
                  object'[x].extension \in live' /\ k[object'[x].extension] = "extension"
  BY <1>1, <1>2 DEF Sound, Placed
<1>3. ASSUME NEW d \in Addresses, NEW e \in Addresses, NEW x \in Addresses, NEW y \in Addresses,
             Owns(s, d, x), Owns(s, e, y), object'[x].extension = object'[y].extension
      PROVE  x = y \/ object'[x].extension = NULL
  BY <1>1, <1>3 DEF Sound, Placed
<1>4. Pending' => Device' \in live' /\ k[Device'] = "device" /\ object'[Device'].owner = NULL
  BY <1>1 DEF Zeroed
<1> QED
  BY <1>2, <1>3, <1>4 DEF Placed

LEMMA NewDriverInv ==
  ASSUME Shape, NEW s, NEW kind \in Kinds, Reach(Links, s), Sound(s, kind),
         CreateDriver, Malloc, object' = [object EXCEPT ![Allocated] = Zeroed],
         DriverObject' = Allocated, pc' = "entry", Device' = Device
  PROVE  ListInv'
<1>1. /\ pc = "idle" /\ g_IoInitialized /\ DriverObject = NULL
      /\ UNCHANGED <<g_DriverList, g_DriverCount, g_IoInitialized>>
  BY DEF CreateDriver, Sound, Progress
<1>2. PICK n : n = Allocated
  OBVIOUS
<1>3. Shape'
  BY <1>1, ZeroedShape DEF Shape, Ends
<1>4. PICK t : Reach(Links', t)
  BY <1>3, ReachExists DEF Shape
<1>5. /\ n \in Addresses /\ n \notin live /\ n # NULL /\ object'[n] = Zeroed
      /\ live' = live \cup {n} /\ \A p \in live : p < n
      /\ t[g_DriverList'] = s[g_DriverList] /\ t[NULL] = {}
      /\ \A d \in AllDrivers(s) : d \in live /\ t[object'[d].first] = s[object[d].first]
      /\ \A d, x : Owns(s, d, x) => x \in live
      /\ \A p \in live : p # n /\ object'[p] = object[p]
  BY <1>1, <1>2, <1>4, FreshView
<1>6. AllDrivers(t)' = AllDrivers(s) \cup {n} /\ n \notin AllDrivers(s)
  BY <1>1, <1>2, <1>5 DEF AllDrivers
<1>7. \A d, x : Owns(t, d, x)' <=> Owns(s, d, x)
  <2>1. t[object'[n].first] = {}
    BY <1>5 DEF Zeroed
  <2> QED
    BY <1>5, <1>6, <2>1 DEF Owns
<1> DEFINE k == [kind EXCEPT ![n] = "driver"]
<1>8. k \in Kinds /\ k[n] = "driver" /\ \A p \in live : k[p] = kind[p]
  BY <1>5, ListFacts DEF Kinds
<1> HIDE DEF k
<1>9. Placed(t, k)'
  <2>1. \A d \in AllDrivers(t)' : d \in live' /\ k[d] = "driver"
    BY <1>5, <1>6, <1>8 DEF Sound, Placed
  <2>2. ~Pending'
    BY DEF Pending
  <2> QED
    BY <1>1, <1>2, <1>4, <1>7, <1>8, <2>1, <2>2, FreshPlaced
<1>10. Accounted(t)'
  BY <1>1, <1>5, <1>6, <1>7 DEF Sound, Accounted, Pending
<1>11. Progress(t)'
  <2>1. object'[n].first = NULL
    BY <1>5 DEF Zeroed
  <2>2. \A d \in s[g_DriverList] : d < n
    BY <1>5, ListFacts
  <2> QED
    BY <1>1, <1>2, <1>5, <2>1, <2>2 DEF Progress, Pending
<1>12. Counted(t)'
  BY <1>1, <1>5 DEF Sound, Counted
<1> QED
  BY <1>3, <1>4, <1>8, <1>9, <1>10, <1>11, <1>12 DEF ListInv, Sound

LEMMA NewDeviceInv ==
  ASSUME Shape, NEW s, NEW kind \in Kinds, Reach(Links, s), Sound(s, kind),
         AllocateDevice, Malloc, object' = [object EXCEPT ![Allocated] = Zeroed],
         IF pc = "entry" THEN UNCHANGED DriverObject ELSE DriverObject' \in Drivers,
         Device' = Allocated,
         pc' = IF pc = "entry" THEN "vga_extension" ELSE "extension"
  PROVE  ListInv'
<1>1. pc \in {"entry", "idle"} /\ UNCHANGED <<g_DriverList, g_DriverCount, g_IoInitialized>> /\ Pending'
  BY DEF AllocateDevice, Pending
<1>2. PICK n : n = Allocated
  OBVIOUS
<1>3. Drivers = s[g_DriverList]
  BY ChainFacts DEF Drivers, InList, Shape
<1>4. DriverObject' \in AllDrivers(s) /\ AllDrivers(s) \subseteq Addresses
  BY <1>1, <1>3, ListFacts DEF Sound, Progress, AllDrivers
<1>5. Shape'
  BY <1>1, <1>4, ZeroedShape DEF Shape, Ends
<1>6. PICK t : Reach(Links', t)
  BY <1>5, ReachExists DEF Shape
<1>7. /\ n \in Addresses /\ n \notin live /\ n # NULL /\ object'[n] = Zeroed
      /\ live' = live \cup {n} /\ heap_current' = n
      /\ t[g_DriverList'] = s[g_DriverList] /\ t[NULL] = {}
      /\ \A d \in AllDrivers(s) : d \in live /\ t[object'[d].first] = s[object[d].first]
      /\ \A d, x : Owns(s, d, x) => x \in live
      /\ \A p \in live : p # n /\ object'[p] = object[p]
  BY <1>1, <1>2, <1>6, FreshView
<1>8. DriverObject' # NULL
  BY <1>4, ListFacts
<1>9. AllDrivers(t)' = AllDrivers(s)
  BY <1>1, <1>3, <1>7, <1>8 DEF AllDrivers, Sound, Progress
<1>10. \A d, x : Owns(t, d, x)' <=> Owns(s, d, x)
  BY <1>7, <1>9 DEF Owns
<1> DEFINE k == [kind EXCEPT ![n] = "device"]
<1>11. k \in Kinds /\ k[n] = "device" /\ \A p \in live : k[p] = kind[p]
  BY <1>7, ListFacts DEF Kinds
<1> HIDE DEF k
<1>12. Placed(t, k)'
  <2>1. \A d \in AllDrivers(t)' : d \in live' /\ k[d] = "driver"
    BY <1>7, <1>9, <1>11 DEF Sound, Placed
  <2> QED
    BY <1>1, <1>2, <1>6, <1>10, <1>11, <2>1, FreshPlaced
<1>13. Accounted(t)'
  BY <1>1, <1>2, <1>7, <1>9, <1>10 DEF Sound, Accounted, Pending
<1>14. Progress(t)'
  <2>1. pc = "entry" => object'[DriverObject'].first = NULL
    BY <1>4, <1>7 DEF Sound, Progress
  <2>2. g_IoInitialized
    <3>1. g_DriverList # NULL \/ pc # "idle"
      BY <1>3, ListFacts
    <3> QED
      BY <3>1 DEF Sound, Progress
  <2>3. pc = "entry" => \A d \in s[g_DriverList] : d < DriverObject'
    BY DEF Sound, Progress
  <2>4. pc # "entry" => DriverObject' \in s[g_DriverList]
    BY <1>3
  <2> QED
    BY <1>1, <1>2, <1>7, <1>8, <2>1, <2>2, <2>3, <2>4 DEF Progress, Pending
<1>15. Counted(t)'
  BY <1>1, <1>7 DEF Sound, Counted
<1> QED
  BY <1>5, <1>6, <1>11, <1>12, <1>13, <1>14, <1>15 DEF ListInv, Sound

(* malloc failing, in IoCreateDriver and IoCreateDevice.                   *)
LEMMA NoDeviceInv ==
  ASSUME Shape, NEW s, NEW kind \in Kinds, Reach(Links, s), Sound(s, kind),
         AllocateDevice, NoMemory, UNCHANGED <<live, object, DriverObject, Device>>,
         pc' = IF pc = "entry" THEN "refuse" ELSE "idle"
  PROVE  ListInv'
<1>1. /\ UNCHANGED <<heap, object, g_DriverList, g_DriverCount, g_IoInitialized, DriverObject, Device>>
      /\ pc \in {"entry", "idle"} /\ ~Pending /\ ~Pending'
  BY DEF AllocateDevice, NoMemory, heap, Pending
<1>2. AllDrivers(s)' = AllDrivers(s) /\ \A d, x : Owns(s, d, x)' <=> Owns(s, d, x)
  BY <1>1 DEF AllDrivers, Owns
<1>3. Placed(s, kind)' /\ Accounted(s)'
  BY <1>1, <1>2 DEF heap, Sound, Placed, Accounted
<1>4. Progress(s)' /\ Counted(s)'
  BY <1>1 DEF Sound, Progress, Counted
<1>5. Sound(s, kind)'
  BY <1>3, <1>4 DEF Sound
<1> QED
  BY <1>1, <1>5, UnchangedSound DEF Shape, HandedOut, heap

(* Of IoCreateDevice there is no room for the extension.                   *)
LEMMA NoExtensionInv ==
  ASSUME Shape, NEW s, NEW kind \in Kinds, Reach(Links, s), Sound(s, kind),
         Extend, NoMemory, Free({Device}), UNCHANGED object,
         IF pc = "extension" THEN Return ELSE pc' = "refuse" /\ UNCHANGED <<DriverObject, Device>>
  PROVE  ListInv'
<1>1. /\ UNCHANGED <<heap_current, object, g_DriverList, g_DriverCount, g_IoInitialized>>
      /\ live' = live \ {Device} /\ Pending /\ ~Pending'
  BY DEF Extend, NoMemory, Free, Pending, Return
<1>2. AllDrivers(s)' = AllDrivers(s)
  BY <1>1 DEF Extend, Return, AllDrivers, Sound, Progress
<1>3. \A d, x : Owns(s, d, x)' <=> Owns(s, d, x)
  BY <1>1, <1>2 DEF Owns
<1>4. /\ kind[Device] = "device" /\ object[Device].owner = NULL
      /\ \A d, x \in Addresses : Owns(s, d, x) =>
           /\ object[x].owner = d /\ d # NULL
           /\ object[x].extension = NULL \/ kind[object[x].extension] = "extension"
  BY <1>1, ListFacts DEF Sound, Placed
<1>5. Placed(s, kind)'
  <2>1. \A d \in AllDrivers(s) : d \in live' /\ kind[d] = "driver"
    BY <1>1, <1>4 DEF Sound, Placed
  <2>2. ASSUME NEW d \in Addresses, NEW x \in Addresses, Owns(s, d, x)
        PROVE  /\ x \in live' /\ kind[x] = "device" /\ object[x].owner = d
               /\ object[x].extension # NULL =>
                    object[x].extension \in live' /\ kind[object[x].extension] = "extension"
    <3>1. x # Device /\ object[x].extension # Device
      BY <1>1, <1>4, <2>2, ListFacts DEF Sound, Placed
    <3> QED
      BY <1>1, <2>2, <3>1 DEF Sound, Placed
  <2>3. \A d, e, x, y \in Addresses :
           Owns(s, d, x) /\ Owns(s, e, y) /\ object[x].extension = object[y].extension =>
             x = y \/ object[x].extension = NULL
    BY DEF Sound, Placed
  <2> QED
    BY <1>1, <1>2, <1>3, <2>1, <2>2, <2>3 DEF Placed
<1>6. Accounted(s)'
  BY <1>1, <1>2, <1>3 DEF Sound, Accounted
<1>7. Progress(s)' /\ Counted(s)'
  BY <1>1 DEF Extend, Return, Sound, Progress, Counted, Pending
<1>8. Sound(s, kind)'
  BY <1>5, <1>6, <1>7 DEF Sound
<1> QED
  BY <1>1, <1>8, UnchangedSound DEF Shape, HandedOut, Return, Ends

(* The device is linked, with extension e or with none.                    *)
LEMMA LinkedObjects ==
  ASSUME Shape, NEW s, NEW kind \in Kinds, Reach(Links, s), Sound(s, kind), Pending,
         NEW n \in Names \cup {NULL}, NEW e \in Ends, object' = Linked(n, e)
  PROVE  /\ DriverObject \in AllDrivers(s) /\ DriverObject \in Addresses /\ DriverObject # Device
         /\ Device \in live /\ Device \in Addresses /\ kind[Device] = "device"
         /\ \A d, x : Owns(s, d, x) => x \in live /\ x # Device /\ x # DriverObject
         /\ object' \in [Addresses -> Objects] /\ Descending(Links')
         /\ \A p \in Addresses : p # Device => object'[p].next = object[p].next
         /\ object'[Device].next = object[DriverObject].first
         /\ object'[DriverObject].first = Device
         /\ object'[Device].owner = DriverObject /\ object'[Device].extension = e
         /\ \A p \in Addresses : p # DriverObject => object'[p].first = object[p].first
         /\ \A p \in Addresses : p # Device => object'[p].owner = object[p].owner
                                            /\ object'[p].extension = object[p].extension
<1>1. DriverObject \in AllDrivers(s) /\ DriverObject \in live /\ DriverObject \in Addresses
  <2>1. DriverObject \in AllDrivers(s)
    BY DEF Sound, Progress, Pending, AllDrivers
  <2> QED
    BY <2>1, ListFacts
<1>2. /\ Device \in live /\ Device \in Addresses /\ kind[Device] = "device"
      /\ object[Device].owner = NULL /\ kind[DriverObject] = "driver"
  BY <1>1, ListFacts DEF Sound, Placed
<1>3. \A d, x : Owns(s, d, x) => x \in live /\ x # Device /\ x # DriverObject
  <2> SUFFICES ASSUME NEW d, NEW x, Owns(s, d, x) PROVE x \in live /\ x # Device /\ x # DriverObject
    OBVIOUS
  <2>1. d \in live /\ x \in live /\ d \in Addresses /\ x \in Addresses /\ d # NULL
    BY ListFacts DEF Owns
  <2> QED
    BY <1>2, <2>1 DEF Sound, Placed
<1>4. DriverObject # Device
  BY <1>2
<1>5. PICK first \in Ends : first = object[DriverObject].first /\ (first # NULL => first \in Addresses /\ first < Device)
  <2>1. object[DriverObject].first \in Ends
    BY <1>1, ListFacts
  <2>2. ASSUME object[DriverObject].first # NULL
        PROVE  object[DriverObject].first \in Addresses /\ object[DriverObject].first < Device
    <3>1. object[DriverObject].first \in s[object[DriverObject].first]
      BY <2>1, <2>2, ReachStep DEF Ends
    <3>2. object[DriverObject].first \in live /\ object[DriverObject].first # Device
      BY <1>1, <1>3, <3>1 DEF Owns
    <3>3. live \subseteq 1 .. heap_current /\ heap_current \in Nat /\ Device = heap_current
      BY HeapAssumption DEF Shape, HandedOut, Sound, Progress
    <3>4. PICK p : p = object[DriverObject].first
      OBVIOUS
    <3>5. p \in 1 .. heap_current /\ p # heap_current /\ heap_current \in Nat
      BY <3>2, <3>3, <3>4
    <3>6. p < heap_current
      BY <3>5
    <3> QED
      BY <2>1, <2>2, <3>3, <3>4, <3>6 DEF Ends
  <2> QED
    BY <2>1, <2>2
<1>6. /\ object'[Device] = [object[Device] EXCEPT !.owner = DriverObject, !.name = n,
                                                 !.extension = e, !.next = first]
      /\ object'[DriverObject] = [object[DriverObject] EXCEPT !.first = Device]
      /\ \A p \in Addresses : p # Device /\ p # DriverObject => object'[p] = object[p]
      /\ DOMAIN object' = Addresses /\ object' = [p \in Addresses |-> object'[p]]
  BY <1>1, <1>2, <1>4, <1>5 DEF Linked, Shape
<1>7. object[Device] \in Objects /\ object[DriverObject] \in Objects
  BY <1>1, <1>2 DEF Shape
<1>8. object'[Device] \in Objects /\ object'[DriverObject] \in Objects
  BY <1>1, <1>2, <1>5, <1>6, <1>7 DEF Objects, Ends
<1>9. object' \in [Addresses -> Objects]
  <2>1. \A p \in Addresses : object'[p] \in Objects
    BY <1>6, <1>8 DEF Shape
  <2> QED
    BY <1>6, <2>1
<1>10. /\ object'[Device].next = first /\ object'[DriverObject].first = Device
       /\ object'[Device].owner = DriverObject /\ object'[Device].extension = e
       /\ object'[Device].first = object[Device].first
       /\ object'[DriverObject].next = object[DriverObject].next
       /\ object'[DriverObject].owner = object[DriverObject].owner
       /\ object'[DriverObject].extension = object[DriverObject].extension
  BY <1>6, <1>7 DEF Objects
<1>11. /\ \A p \in Addresses : p # Device => object'[p].next = object[p].next
       /\ \A p \in Addresses : p # DriverObject => object'[p].first = object[p].first
       /\ \A p \in Addresses : p # Device => object'[p].owner = object[p].owner
                                          /\ object'[p].extension = object[p].extension
  BY <1>6, <1>10
<1>12. Descending(Links')
  <2>1. \A p \in Addresses : Links'[p] = object'[p].next /\ Links[p] = object[p].next
    BY DEF Links
  <2> QED
    BY <1>5, <1>10, <1>11, <2>1 DEF Shape, Descending
<1> QED
  BY <1>1, <1>2, <1>3, <1>4, <1>5, <1>9, <1>10, <1>11, <1>12

LEMMA LinkedView ==
  ASSUME Shape, NEW s, NEW kind \in Kinds, Reach(Links, s), Sound(s, kind), Pending,
         NEW n \in Names \cup {NULL}, NEW e \in Ends, object' = Linked(n, e),
         g_DriverList' = g_DriverList, NEW t, Reach(Links', t)
  PROVE  /\ t[g_DriverList'] = s[g_DriverList]
         /\ \A d \in AllDrivers(s) :
              t[object'[d].first] =
                IF d = DriverObject THEN {Device} \cup s[object[d].first] ELSE s[object[d].first]
<1>1. /\ DriverObject \in Addresses /\ Device \in Addresses /\ kind[Device] = "device"
      /\ DriverObject # Device
      /\ \A d, x : Owns(s, d, x) => x # Device
      /\ Descending(Links')
      /\ \A p \in Addresses : p # Device => object'[p].next = object[p].next
      /\ object'[Device].next = object[DriverObject].first
      /\ object'[DriverObject].first = Device
      /\ \A p \in Addresses : p # DriverObject => object'[p].first = object[p].first
  BY LinkedObjects
<1>2. /\ \A h \in Ends : s[h] \subseteq Addresses
      /\ AllDrivers(s) \subseteq Addresses /\ \A d \in AllDrivers(s) : object[d].first \in Ends
      /\ DriverObject \in AllDrivers(s)
  BY ListFacts, LinkedObjects
<1>3. ASSUME NEW h \in Ends, Device \notin s[h] PROVE t[h] = s[h]
  <2>1. \A q \in s[h] : Links'[q] = Links[q]
    BY <1>1, <1>2, <1>3 DEF Links
  <2> QED
    BY <2>1, ReachSame DEF Shape
<1>4. Device \notin s[g_DriverList]
  BY <1>1 DEF Sound, Placed, AllDrivers
<1>5. \A d \in AllDrivers(s) : Device \notin s[object[d].first]
  BY <1>1 DEF Owns
<1>6. \A d \in AllDrivers(s) : t[object[d].first] = s[object[d].first]
  BY <1>2, <1>3, <1>5
<1>7. t[Device] = {Device} \cup t[object[DriverObject].first]
  <2>1. Links'[Device] = object'[Device].next
    BY <1>1 DEF Links
  <2> QED
    BY <1>1, <2>1, ReachStep
<1>8. t[g_DriverList'] = s[g_DriverList]
  BY <1>3, <1>4 DEF Shape
<1> QED
  BY <1>1, <1>2, <1>6, <1>7, <1>8

LEMMA LinkedInv ==
  ASSUME Shape, NEW s, NEW kind \in Kinds, Reach(Links, s), Sound(s, kind), Extend,
         NEW n \in Names \cup {NULL}, NEW e \in Ends, object' = Linked(n, e),
         (e = NULL /\ UNCHANGED heap) \/ (e = Allocated /\ Malloc),
         \/ pc = "extension" /\ Return
         \/ pc = "vga_extension" /\ pc' = "initialize" /\ UNCHANGED <<DriverObject, Device>>
  PROVE  ListInv'
<1>1. UNCHANGED <<g_DriverList, g_DriverCount, g_IoInitialized>> /\ Pending /\ ~Pending'
  BY DEF Extend, Pending, Return
<1>2. /\ DriverObject \in AllDrivers(s) /\ DriverObject \in Addresses
      /\ Device \in live /\ Device \in Addresses /\ kind[Device] = "device"
      /\ \A d, x : Owns(s, d, x) => x \in live /\ x # Device /\ x # DriverObject
      /\ object' \in [Addresses -> Objects] /\ Descending(Links')
      /\ object'[Device].next = object[DriverObject].first
      /\ object'[DriverObject].first = Device
      /\ object'[Device].owner = DriverObject /\ object'[Device].extension = e
      /\ \A p \in Addresses : p # Device => object'[p].owner = object[p].owner
                                         /\ object'[p].extension = object[p].extension
  BY <1>1, LinkedObjects
<1>3. /\ live \subseteq live' /\ live' = live \cup ({e} \ {NULL})
      /\ e # NULL => e \in Addresses /\ e \notin live
      /\ heap_current' \in 0 .. HEAP_SIZE /\ live' \subseteq HandedOut'
  <2>1. CASE e = NULL /\ UNCHANGED heap
    BY <2>1, ListFacts DEF Shape, heap, HandedOut
  <2>2. CASE e = Allocated /\ Malloc
    <3>1. /\ heap_current \in Nat /\ heap_current + 1 <= HEAP_SIZE
          /\ heap_current' = heap_current + 1 /\ e = heap_current + 1
          /\ live' = live \cup {e} /\ live \subseteq HandedOut
      BY <2>2, HeapAssumption DEF Shape, Malloc, HasRoom, Allocated
    <3> QED
      BY <3>1, HeapAssumption DEF HandedOut, Addresses
  <2> QED
    BY <2>1, <2>2
<1>4. Shape'
  BY <1>1, <1>2, <1>3 DEF Shape, Return, Ends
<1>5. PICK t : Reach(Links', t)
  BY <1>4, ReachExists DEF Shape
<1>6. /\ t[g_DriverList'] = s[g_DriverList]
      /\ \A d \in AllDrivers(s) :
           t[object'[d].first] =
             IF d = DriverObject THEN {Device} \cup s[object[d].first] ELSE s[object[d].first]
  BY <1>1, <1>5, LinkedView
<1>7. AllDrivers(t)' = AllDrivers(s)
  BY <1>1, <1>6 DEF Return, AllDrivers, Sound, Progress
<1>8. \A d, x : Owns(t, d, x)' <=> Owns(s, d, x) \/ (d = DriverObject /\ x = Device)
  BY <1>2, <1>6, <1>7 DEF Owns
<1> DEFINE k == [kind EXCEPT ![e] = "extension"]
<1>9. k \in Kinds /\ (e # NULL => k[e] = "extension") /\ \A p \in live : k[p] = kind[p]
  <2>1. live \subseteq Addresses /\ e \notin live
    BY <1>3, ListFacts
  <2>2. kind \in [Addresses -> {"driver", "device", "extension"}]
    BY DEF Kinds
  <2>3. k \in Kinds
    BY <2>2 DEF Kinds
  <2>4. e # NULL => k[e] = "extension"
    BY <1>3, <2>2
  <2>5. \A p \in live : k[p] = kind[p]
    BY <2>1, <2>2
  <2> QED
    BY <2>3, <2>4, <2>5
<1> HIDE DEF k
<1>10. \A d, x \in Addresses : Owns(s, d, x) =>
         /\ object'[x].owner = object[x].owner /\ object'[x].extension = object[x].extension
         /\ object'[x].extension # e \/ e = NULL
  BY <1>2, <1>3 DEF Sound, Placed
<1>11. Placed(t, k)'
  <2>1. \A d \in AllDrivers(t)' : d \in live' /\ k[d] = "driver"
    BY <1>3, <1>7, <1>9 DEF Sound, Placed
  <2>2. ASSUME NEW d \in Addresses, NEW x \in Addresses, Owns(s, d, x)
        PROVE  /\ x \in live' /\ k[x] = "device" /\ object'[x].owner = d
               /\ object'[x].extension # NULL =>
                    object'[x].extension \in live' /\ k[object'[x].extension] = "extension"
    BY <1>3, <1>9, <1>10, <2>2 DEF Sound, Placed
  <2>3. /\ Device \in live' /\ k[Device] = "device" /\ object'[Device].owner = DriverObject
        /\ object'[Device].extension # NULL =>
             object'[Device].extension \in live' /\ k[object'[Device].extension] = "extension"
    BY <1>2, <1>3, <1>9
  <2>4. ASSUME NEW d \in Addresses, NEW c \in Addresses, NEW x \in Addresses, NEW y \in Addresses,
               Owns(t, d, x)', Owns(t, c, y)', object'[x].extension = object'[y].extension
        PROVE  x = y \/ object'[x].extension = NULL
    <3>1. CASE Owns(s, d, x) /\ Owns(s, c, y)
      BY <1>10, <2>4, <3>1 DEF Sound, Placed
    <3>2. CASE ~(Owns(s, d, x) /\ Owns(s, c, y))
      BY <1>2, <1>8, <1>10, <2>4, <3>2
    <3> QED
      BY <3>1, <3>2
  <2> QED
    BY <1>1, <1>8, <2>1, <2>2, <2>3, <2>4 DEF Placed
<1>12. Accounted(t)'
  <2> SUFFICES ASSUME NEW p \in live'
               PROVE  \/ p \in AllDrivers(t)'
                      \/ \E d \in Addresses : Owns(t, d, p)'
                      \/ \E d, x \in Addresses : Owns(t, d, x)' /\ object'[x].extension = p
    BY <1>1 DEF Accounted
  <2>1. CASE p = e
    BY <1>2, <1>8, <2>1
  <2>2. CASE p \in live
    BY <1>1, <1>2, <1>7, <1>8, <1>10, <2>2 DEF Sound, Accounted
  <2> QED
    BY <1>3, <2>1, <2>2
<1>13. Progress(t)'
  <2>1. CASE pc = "extension" /\ Return
    BY <1>1, <2>1 DEF Return, Sound, Progress, Pending
  <2>2. CASE pc = "vga_extension" /\ pc' = "initialize" /\ UNCHANGED <<DriverObject, Device>>
    <3>1. Device # NULL
      BY <1>2, ListFacts
    <3> QED
      BY <1>1, <1>2, <1>6, <2>2, <3>1 DEF Sound, Progress, Pending
  <2> QED
    BY <2>1, <2>2
<1>14. Counted(t)'
  BY <1>1, <1>6 DEF Sound, Counted
<1> QED
  BY <1>4, <1>5, <1>9, <1>11, <1>12, <1>13, <1>14 DEF ListInv, Sound

-----------------------------------------------------------------------------
(* IoDeleteDevice, of a device x in its driver's list.                     *)
LEMMA DeletedObjects ==
  ASSUME Shape, NEW s, NEW kind \in Kinds, Reach(Links, s), Sound(s, kind), ~Pending,
         NEW d \in Addresses, NEW x \in Addresses, Owns(s, d, x), DeleteDevice(x)
  PROVE  /\ object[x].owner = d /\ x # d
         /\ live' = live \ {x, object[x].extension}
         /\ object' \in [Addresses -> Objects] /\ Descending(Links')
         /\ Unlinked(Links, Links', s[object[d].first], x)
         /\ object'[d].first = IF object[d].first = x THEN object[x].next ELSE object[d].first
         /\ \A p \in Addresses : p # d => object'[p].first = object[p].first
         /\ \A p \in Addresses : /\ object'[p].owner = object[p].owner
                                 /\ object'[p].extension = object[p].extension
<1>1. object[x].owner = d /\ kind[x] = "device" /\ kind[d] = "driver"
  BY DEF Sound, Placed, Owns
<1>2. PICK h \in Ends : h = object[d].first
  BY ListFacts DEF Owns
<1>3. InList(h) = s[h]
  BY ChainFacts DEF InList
<1>4. PICK r : r = Relinked(h, x)
  OBVIOUS
<1>5. /\ object' = [r EXCEPT ![d].first = HeadWithout(h, x)]
      /\ live' = live \ {x, object[x].extension}
  BY <1>1, <1>2, <1>4 DEF DeleteDevice, Free
<1>6. \A p \in Addresses : object[p] \in Objects
  BY DEF Shape
<1>7. /\ DOMAIN r = Addresses
      /\ \A p \in Addresses :
           /\ r[p] \in Objects
           /\ r[p].next = IF p \in s[h] /\ object[p].next = x THEN object[x].next ELSE object[p].next
           /\ r[p].first = object[p].first /\ r[p].owner = object[p].owner
           /\ r[p].extension = object[p].extension
  <2>1. r = [p \in Addresses |->
               IF p \in s[h] /\ object[p].next = x
               THEN [object[p] EXCEPT !.next = object[x].next] ELSE object[p]]
    BY <1>3, <1>4 DEF Relinked
  <2>2. ASSUME NEW p \in Addresses, p \in s[h], object[p].next = x
        PROVE  /\ r[p] \in Objects /\ r[p].next = object[x].next
               /\ r[p].first = object[p].first /\ r[p].owner = object[p].owner
               /\ r[p].extension = object[p].extension
    <3>1. r[p] = [object[p] EXCEPT !.next = object[x].next]
      BY <2>1, <2>2
    <3>2. object[p] \in Objects /\ object[x].next \in Ends
      BY <1>6 DEF Objects
    <3> QED
      BY <3>1, <3>2 DEF Objects
  <2>3. ASSUME NEW p \in Addresses, ~(p \in s[h] /\ object[p].next = x) PROVE r[p] = object[p]
    BY <2>1, <2>3
  <2> QED
    BY <1>6, <2>1, <2>2, <2>3
<1>8. PICK g \in Ends : g = HeadWithout(h, x) /\ g = IF h = x THEN object[x].next ELSE h
  BY <1>2, <1>6 DEF HeadWithout, Objects
<1>9. /\ object'[d] = [r[d] EXCEPT !.first = g]
      /\ \A p \in Addresses \ {d} : object'[p] = r[p]
      /\ object' = [p \in Addresses |-> object'[p]]
  BY <1>5, <1>7, <1>8
<1>10. /\ object'[d] \in Objects /\ object'[d].first = g /\ object'[d].next = r[d].next
       /\ object'[d].owner = r[d].owner /\ object'[d].extension = r[d].extension
  <2>1. r[d] \in Objects
    BY <1>7
  <2> QED
    BY <1>8, <1>9, <2>1 DEF Objects
<1>11. object' \in [Addresses -> Objects]
  <2>1. \A p \in Addresses : object'[p] \in Objects
    BY <1>7, <1>9, <1>10
  <2> QED
    BY <1>9, <2>1
<1>12. \A p \in Addresses :
         /\ object'[p].next = IF p \in s[h] /\ object[p].next = x THEN object[x].next ELSE object[p].next
         /\ object'[p].owner = object[p].owner /\ object'[p].extension = object[p].extension
         /\ p # d => object'[p].first = object[p].first
  <2> SUFFICES ASSUME NEW p \in Addresses
               PROVE  /\ object'[p].next = r[p].next /\ object'[p].owner = r[p].owner
                      /\ object'[p].extension = r[p].extension
                      /\ p # d => object'[p].first = r[p].first
    BY <1>7
  <2> QED
    BY <1>9, <1>10
<1>13. Unlinked(Links, Links', s[object[d].first], x)
  BY <1>2, <1>12 DEF Unlinked, Links
<1>14. Descending(Links')
  BY <1>13, UnlinkedDescending DEF Shape
<1> QED
  BY <1>1, <1>2, <1>5, <1>8, <1>10, <1>11, <1>12, <1>13, <1>14

(* Two drivers' lists have no device in common, and none is a driver.      *)
LEMMA ListsApart ==
  ASSUME Shape, NEW s, NEW kind \in Kinds, Reach(Links, s), Sound(s, kind)
  PROVE  /\ \A d, x : Owns(s, d, x) => d \in Addresses /\ x \in Addresses /\ x \notin AllDrivers(s)
         /\ \A d, e, x : Owns(s, d, x) /\ Owns(s, e, x) => d = e
<1>1. \A d, x : Owns(s, d, x) => d \in Addresses /\ x \in Addresses
  BY ListFacts DEF Owns
<1> QED
  BY <1>1 DEF Sound, Placed

LEMMA DeletedView ==
  ASSUME Shape, NEW s, NEW kind \in Kinds, Reach(Links, s), Sound(s, kind), ~Pending,
         NEW d \in Addresses, NEW x \in Addresses, Owns(s, d, x), DeleteDevice(x),
         g_DriverList' = g_DriverList, NEW t, Reach(Links', t)
  PROVE  /\ t[g_DriverList'] = s[g_DriverList]
         /\ \A e \in AllDrivers(s) : t[object'[e].first] = s[object[e].first] \ {x}
<1>1. /\ Descending(Links') /\ Unlinked(Links, Links', s[object[d].first], x)
      /\ object'[d].first = IF object[d].first = x THEN object[x].next ELSE object[d].first
      /\ \A p \in Addresses : p # d => object'[p].first = object[p].first
  BY DeletedObjects
<1>2. /\ \A h \in Ends : s[h] \subseteq Addresses
      /\ AllDrivers(s) \subseteq Addresses /\ \A e \in AllDrivers(s) : object[e].first \in Ends
      /\ d \in AllDrivers(s) /\ x \in s[object[d].first]
      /\ Links[x] = object[x].next
  BY ListFacts DEF Owns, Links
<1>3. t[object'[d].first] = s[object[d].first] \ {x}
  BY <1>1, <1>2, ReachWithout DEF Shape
<1>4. ASSUME NEW h \in Ends, \A q \in s[h] : q \notin s[object[d].first] PROVE t[h] = s[h]
  <2>1. \A q \in s[h] : Links'[q] = Links[q]
    BY <1>1, <1>2, <1>4 DEF Unlinked
  <2> QED
    BY <2>1, ReachSame DEF Shape
<1>5. \A e \in AllDrivers(s) : e # d => x \notin s[object[e].first]
                                         /\ \A q \in s[object[e].first] : q \notin s[object[d].first]
  BY <1>2, ListsApart DEF Owns
<1>6. \A q \in s[g_DriverList] : q \notin s[object[d].first]
  BY <1>2, ListsApart DEF Owns, AllDrivers
<1>7. ASSUME NEW e \in AllDrivers(s), e # d
      PROVE  t[object'[e].first] = s[object[e].first] \ {x}
  <2>1. object'[e].first = object[e].first
    BY <1>1, <1>2, <1>7
  <2>2. t[object[e].first] = s[object[e].first]
    BY <1>2, <1>4, <1>5, <1>7
  <2> QED
    BY <1>5, <1>7, <2>1, <2>2
<1>8. t[g_DriverList'] = s[g_DriverList]
  BY <1>4, <1>6 DEF Shape
<1> QED
  BY <1>3, <1>7, <1>8

(* The device and its extension are gone, and nothing else.                *)
LEMMA DeletedSound ==
  ASSUME Shape, NEW s, NEW kind \in Kinds, Reach(Links, s), Sound(s, kind), ~Pending, ~Pending',
         NEW d \in Addresses, NEW x \in Addresses, Owns(s, d, x), DeleteDevice(x),
         UNCHANGED <<heap_current, g_DriverList, g_DriverCount, DriverObject>>,
         Device' \in Ends, NEW t, Reach(Links', t),
         Progress(t)'
  PROVE  ListInv'
<1>1. /\ object[x].owner = d
      /\ live' = live \ {x, object[x].extension}
      /\ object' \in [Addresses -> Objects] /\ Descending(Links')
      /\ \A p \in Addresses : object'[p].owner = object[p].owner
                              /\ object'[p].extension = object[p].extension
  BY DeletedObjects
<1>2. /\ t[g_DriverList'] = s[g_DriverList]
      /\ \A e \in AllDrivers(s) : t[object'[e].first] = s[object[e].first] \ {x}
  BY DeletedView
<1>3. AllDrivers(t)' = AllDrivers(s)
  BY <1>2 DEF AllDrivers
<1>4. \A e, y : Owns(t, e, y)' <=> Owns(s, e, y) /\ y # x
  BY <1>2, <1>3 DEF Owns
<1>5. /\ kind[x] = "device" /\ kind[d] = "driver"
      /\ object[x].extension = NULL \/ kind[object[x].extension] = "extension"
  BY DEF Sound, Placed, Owns
<1>6. Shape'
  BY <1>1 DEF Shape, HandedOut
<1>7. Placed(t, kind)'
  <2>1. \A e \in AllDrivers(s) : e \in live' /\ kind[e] = "driver"
    <3> SUFFICES ASSUME NEW e \in AllDrivers(s) PROVE e \in live' /\ kind[e] = "driver"
      OBVIOUS
    <3>1. e \in live /\ kind[e] = "driver" /\ e # NULL
      BY ListFacts DEF Sound, Placed
    <3> QED
      BY <1>1, <1>5, <3>1
  <2>2. ASSUME NEW e \in Addresses, NEW y \in Addresses, Owns(s, e, y), y # x
        PROVE  /\ y \in live' /\ kind[y] = "device" /\ object[y].owner = e
               /\ object[y].extension # NULL =>
                    object[y].extension \in live' /\ kind[object[y].extension] = "extension"
    <3>1. /\ y \in live /\ kind[y] = "device" /\ object[y].owner = e
          /\ object[y].extension # NULL =>
               object[y].extension \in live /\ kind[object[y].extension] = "extension"
      BY <2>2 DEF Sound, Placed
    <3>2. object[x].extension = object[y].extension => object[y].extension = NULL
      BY <2>2 DEF Sound, Placed
    <3>3. y # NULL
      BY ListFacts
    <3> QED
      BY <1>1, <1>5, <2>2, <3>1, <3>2, <3>3
  <2>3. \A c, e, z, y \in Addresses :
           Owns(s, c, z) /\ Owns(s, e, y) /\ object[z].extension = object[y].extension =>
             z = y \/ object[z].extension = NULL
    BY DEF Sound, Placed
  <2> QED
    BY <1>1, <1>3, <1>4, <2>1, <2>2, <2>3 DEF Placed
<1>8. Accounted(t)'
  BY <1>1, <1>3, <1>4 DEF Sound, Accounted
<1>9. Counted(t)'
  BY <1>2 DEF Sound, Counted
<1> QED
  BY <1>6, <1>7, <1>8, <1>9 DEF ListInv, Sound

LEMMA DeleteDeviceInv ==
  ASSUME Shape, NEW s, NEW kind \in Kinds, Reach(Links, s), Sound(s, kind), IoDeleteDevice
  PROVE  ListInv'
<1>1. PICK d \in Drivers : \E x \in Devices(d) : DeleteDevice(x)
  BY DEF IoDeleteDevice
<1>2. PICK x \in Devices(d) : DeleteDevice(x)
  BY <1>1
<1>3. Drivers = s[g_DriverList]
  BY ChainFacts DEF Drivers, InList, Shape
<1>4. d \in AllDrivers(s) /\ d \in Addresses /\ object[d].first \in Ends
  BY <1>3, ListFacts DEF AllDrivers
<1>5. Devices(d) = s[object[d].first]
  BY <1>4, ChainFacts DEF Devices, InList
<1>6. Owns(s, d, x) /\ x \in Addresses
  BY <1>4, <1>5, ListFacts DEF Owns
<1>7. /\ UNCHANGED <<heap_current, g_DriverList, g_DriverCount, g_IoInitialized, pc, DriverObject, Device>>
      /\ pc = "idle" /\ ~Pending /\ ~Pending'
  BY DEF IoDeleteDevice, call, Pending
<1>8. Descending(Links')
  BY <1>2, <1>4, <1>6, <1>7, DeletedObjects
<1>9. PICK t : Reach(Links', t)
  BY <1>8, ReachExists
<1>10. t[g_DriverList'] = s[g_DriverList]
  BY <1>2, <1>4, <1>6, <1>7, <1>9, DeletedView
<1>11. Progress(t)'
  BY <1>7, <1>10 DEF Sound, Progress, Pending
<1>12. Device' \in Ends
  BY <1>7 DEF Shape
<1> QED
  BY <1>2, <1>4, <1>6, <1>7, <1>9, <1>11, <1>12, DeletedSound

LEMMA DeleteDevicesInv ==
  ASSUME Shape, NEW s, NEW kind \in Kinds, Reach(Links, s), Sound(s, kind), DeleteDevices
  PROVE  ListInv'
<1>1. /\ UNCHANGED <<heap_current, g_DriverList, g_DriverCount, g_IoInitialized, pc, DriverObject>>
      /\ DeleteDevice(Device) /\ Device' = object[Device].next
      /\ pc = "devices" /\ ~Pending /\ ~Pending' /\ Device # NULL
  BY DEF DeleteDevices, Pending, Sound, Progress
<1>2. PICK d, x : d = DriverObject /\ x = Device
  OBVIOUS
<1>3. d \in AllDrivers(s) /\ d \in Addresses /\ object[d].first \in Ends /\ object[d].first = x /\ d \in s[g_DriverList]
  BY <1>1, <1>2, ListFacts DEF AllDrivers, Sound, Progress
<1>4. Owns(s, d, x) /\ x \in Addresses /\ object[x].next \in Ends
  <2>1. x \in s[x] /\ x \in Addresses
    BY <1>1, <1>2, <1>3, ReachStep DEF Ends
  <2> QED
    BY <1>3, <2>1 DEF Owns, Shape, Objects
<1>5. Descending(Links') /\ object'[d].first = object[x].next
  BY <1>1, <1>2, <1>3, <1>4, DeletedObjects
<1>6. PICK t : Reach(Links', t)
  BY <1>5, ReachExists
<1>7. t[g_DriverList'] = s[g_DriverList]
  BY <1>1, <1>2, <1>3, <1>4, <1>6, DeletedView
<1>8. Progress(t)'
  BY <1>1, <1>2, <1>3, <1>5, <1>7 DEF Sound, Progress, Pending
<1> QED
  BY <1>1, <1>2, <1>3, <1>4, <1>6, <1>8, DeletedSound

(* VgaInitializeDevice, when it fails and when it does not.                *)
LEMMA NotInitializedInv ==
  ASSUME Shape, NEW s, NEW kind \in Kinds, Reach(Links, s), Sound(s, kind),
         VgaInitializeDevice, DeleteDevice(Device), pc' = "refuse"
  PROVE  ListInv'
<1>1. /\ UNCHANGED <<heap_current, g_DriverList, g_DriverCount, g_IoInitialized, DriverObject, Device>>
      /\ pc = "initialize" /\ ~Pending /\ ~Pending'
  BY DEF VgaInitializeDevice, Pending
<1>2. PICK d, x : d = DriverObject /\ x = Device
  OBVIOUS
<1>3. d \in AllDrivers(s) /\ d \in Addresses /\ object[d].first = x /\ object[x].next = NULL /\ d # NULL
  BY <1>1, <1>2, ListFacts DEF AllDrivers, Sound, Progress
<1>4. x # NULL
  BY <1>1, <1>2 DEF Sound, Progress
<1>5. Owns(s, d, x) /\ x \in Addresses
  <2>1. x \in s[x] /\ x \in Addresses
    BY <1>2, <1>4, ReachStep DEF Ends, Shape
  <2> QED
    BY <1>3, <2>1 DEF Owns
<1>6. Descending(Links') /\ object'[d].first = NULL
  BY <1>1, <1>2, <1>3, <1>5, DeletedObjects
<1>7. PICK t : Reach(Links', t)
  BY <1>6, ReachExists
<1>8. t[g_DriverList'] = s[g_DriverList]
  BY <1>1, <1>2, <1>3, <1>5, <1>7, DeletedView
<1>9. Progress(t)'
  BY <1>1, <1>2, <1>3, <1>6, <1>8 DEF Sound, Progress, Pending
<1>10. Device' \in Ends
  BY <1>1 DEF Shape
<1> QED
  BY <1>1, <1>2, <1>3, <1>5, <1>7, <1>9, <1>10, DeletedSound

LEMMA InitializedInv ==
  ASSUME Shape, NEW s, NEW kind \in Kinds, Reach(Links, s), Sound(s, kind), VgaInitializeDevice,
         object' = [object EXCEPT ![DriverObject].unload = TRUE], pc' = "add", UNCHANGED live
  PROVE  ListInv'
<1>1. /\ UNCHANGED <<heap_current, live, g_DriverList, g_DriverCount, g_IoInitialized, DriverObject, Device>>
      /\ pc = "initialize" /\ pc' = "add" /\ ~Pending /\ ~Pending'
  BY DEF VgaInitializeDevice, Pending
<1>2. DriverObject \in Addresses
  BY <1>1, ListFacts DEF AllDrivers, Sound, Progress
<1>3. \A p \in Addresses :
        /\ object'[p] \in Objects
        /\ object'[p].next = object[p].next /\ object'[p].first = object[p].first
        /\ object'[p].owner = object[p].owner /\ object'[p].extension = object[p].extension
  <2> SUFFICES ASSUME NEW p \in Addresses
               PROVE  /\ object'[p] \in Objects
                      /\ object'[p].next = object[p].next /\ object'[p].first = object[p].first
                      /\ object'[p].owner = object[p].owner /\ object'[p].extension = object[p].extension
    OBVIOUS
  <2>1. object[p] \in Objects
    BY DEF Shape
  <2>2. object'[p] = IF p = DriverObject THEN [object[p] EXCEPT !.unload = TRUE] ELSE object[p]
    BY <1>2 DEF Shape
  <2>3. PICK r \in Objects : r = object[p]
    BY <2>1
  <2>4. PICK u : u = [r EXCEPT !.unload = TRUE]
    OBVIOUS
  <2>5. /\ u.next = r.next /\ u.first = r.first
        /\ u.owner = r.owner /\ u.extension = r.extension
    BY <2>4 DEF Objects
  <2>6. u \in Objects
    BY <2>4 DEF Objects
  <2> QED
    BY <2>2, <2>3, <2>4, <2>5, <2>6
<1>4. DOMAIN object' = Addresses /\ object' = [p \in Addresses |-> object'[p]]
  BY DEF Shape
<1>5. Links' = Links
  BY <1>3 DEF Links
<1>6. Shape'
  BY <1>1, <1>3, <1>4, <1>5 DEF Shape, HandedOut
<1>7. AllDrivers(s)' = AllDrivers(s) /\ AllDrivers(s) \subseteq Addresses
  BY <1>1, ListFacts DEF AllDrivers
<1>8. \A d, x : Owns(s, d, x)' <=> Owns(s, d, x)
  BY <1>3, <1>7 DEF Owns
<1>9. Placed(s, kind)'
  BY <1>1, <1>3, <1>7, <1>8 DEF Sound, Placed
<1>10. Accounted(s)'
  BY <1>1, <1>3, <1>7, <1>8 DEF Sound, Accounted
<1>11. Progress(s)' /\ Counted(s)'
  <2>1. Device \in Addresses
    BY <1>1 DEF Shape, Ends, Sound, Progress
  <2> QED
    BY <1>1, <1>2, <1>3, <2>1 DEF Sound, Progress, Counted
<1> QED
  BY <1>5, <1>6, <1>9, <1>10, <1>11 DEF ListInv, Sound

-----------------------------------------------------------------------------
(* The driver enters the list, and leaves it.                              *)
LEMMA AddDriverInv ==
  ASSUME Shape, NEW s, NEW kind \in Kinds, Reach(Links, s), Sound(s, kind), AddDriver
  PROVE  ListInv'
<1>1. /\ pc = "add" /\ object' = [object EXCEPT ![DriverObject].next = g_DriverList]
      /\ g_DriverList' = DriverObject /\ g_DriverCount' = g_DriverCount + 1
      /\ pc' = "idle" /\ DriverObject' = NULL /\ Device' = NULL
      /\ UNCHANGED <<heap_current, live, g_IoInitialized>> /\ ~Pending /\ ~Pending'
  BY DEF AddDriver, Return, heap, Pending
<1>2. PICK d \in Addresses : d = DriverObject /\ d \in AllDrivers(s) /\ d # NULL
  BY <1>1, ListFacts DEF AllDrivers, Sound, Progress
<1>3. /\ AllDrivers(s) \subseteq Addresses /\ \A e \in AllDrivers(s) : object[e].first \in Ends
      /\ \A h \in Ends : s[h] \subseteq Addresses
      /\ g_DriverList \in Ends
  BY ListFacts DEF Shape
<1>4. \A p \in Addresses :
        /\ object'[p] \in Objects
        /\ object'[p].next = IF p = d THEN g_DriverList ELSE object[p].next
        /\ object'[p].first = object[p].first
        /\ object'[p].owner = object[p].owner /\ object'[p].extension = object[p].extension
  <2> SUFFICES ASSUME NEW p \in Addresses
               PROVE  /\ object'[p] \in Objects
                      /\ object'[p].next = IF p = d THEN g_DriverList ELSE object[p].next
                      /\ object'[p].first = object[p].first
                      /\ object'[p].owner = object[p].owner /\ object'[p].extension = object[p].extension
    OBVIOUS
  <2>1. object[p] \in Objects
    BY DEF Shape
  <2>2. object'[p] = IF p = d THEN [object[p] EXCEPT !.next = g_DriverList] ELSE object[p]
    BY <1>1, <1>2 DEF Shape
  <2> QED
    BY <1>3, <2>1, <2>2 DEF Objects
<1>5. DOMAIN object' = Addresses /\ object' = [p \in Addresses |-> object'[p]]
  BY <1>1 DEF Shape
<1>6. g_DriverList = NULL \/ (g_DriverList \in Addresses /\ g_DriverList < d)
  <2>1. g_DriverList # NULL => g_DriverList \in s[g_DriverList]
    BY <1>3, ReachStep DEF Ends
  <2> QED
    BY <1>1, <1>2, <1>3, <2>1 DEF Sound, Progress
<1>7. \A p \in Addresses : Links'[p] = object'[p].next /\ Links[p] = object[p].next
  BY DEF Links
<1>8. Descending(Links')
  BY <1>4, <1>6, <1>7 DEF Shape, Descending
<1>9. Shape'
  BY <1>1, <1>2, <1>4, <1>5, <1>8 DEF Shape, HandedOut, Ends
<1>10. PICK t : Reach(Links', t)
  BY <1>8, ReachExists
<1>11. ASSUME NEW h \in Ends, d \notin s[h] PROVE t[h] = s[h]
  <2>1. \A q \in s[h] : Links'[q] = Links[q]
    BY <1>3, <1>4, <1>7, <1>11
  <2> QED
    BY <1>10, <2>1, ReachSame DEF Shape
<1>12. d \notin s[g_DriverList]
  BY <1>1, <1>2, HeapAssumption DEF Sound, Progress, Addresses
<1>13. t[g_DriverList'] = {d} \cup s[g_DriverList]
  <2>1. t[d] = {d} \cup t[Links'[d]] /\ Links'[d] = g_DriverList
    BY <1>4, <1>7, <1>10, ReachStep
  <2> QED
    BY <1>1, <1>2, <1>3, <1>11, <1>12, <2>1
<1>14. AllDrivers(t)' = AllDrivers(s)
  BY <1>1, <1>2, <1>13 DEF AllDrivers
<1>15. ASSUME NEW e \in AllDrivers(s) PROVE t[object'[e].first] = s[object[e].first]
  <2>1. d \notin s[object[e].first]
    BY <1>2, ListsApart DEF Owns
  <2> QED
    BY <1>3, <1>4, <1>11, <2>1
<1>16. \A e, x : Owns(t, e, x)' <=> Owns(s, e, x)
  BY <1>14, <1>15 DEF Owns
<1>17. Placed(t, kind)'
  BY <1>1, <1>3, <1>4, <1>14, <1>16 DEF Sound, Placed
<1>18. Accounted(t)'
  BY <1>1, <1>4, <1>14, <1>16 DEF Sound, Accounted
<1>19. Progress(t)'
  <2>1. g_IoInitialized
    BY <1>1 DEF Sound, Progress
  <2> QED
    BY <1>1, <2>1 DEF Progress, Pending
<1>20. Counted(t)'
  <2>1. IsFiniteSet(s[g_DriverList])
    BY <1>3, ChainFacts
  <2>2. Cardinality(s[g_DriverList] \cup {d}) = Cardinality(s[g_DriverList]) + 1
    BY <1>12, <2>1, FS_AddElement
  <2>3. {d} \cup s[g_DriverList] = s[g_DriverList] \cup {d}
    OBVIOUS
  <2> QED
    BY <1>1, <1>13, <2>2, <2>3 DEF Sound, Counted
<1> QED
  BY <1>9, <1>10, <1>17, <1>18, <1>19, <1>20 DEF ListInv, Sound

LEMMA RemoveDriverInv ==
  ASSUME Shape, NEW s, NEW kind \in Kinds, Reach(Links, s), Sound(s, kind), RemoveDriver
  PROVE  ListInv'
<1>1. /\ pc = "devices" /\ Device = NULL /\ pc' = "unload"
      /\ object' = Relinked(g_DriverList, DriverObject)
      /\ g_DriverList' = HeadWithout(g_DriverList, DriverObject)
      /\ g_DriverCount' = g_DriverCount - 1
      /\ UNCHANGED <<heap_current, live, g_IoInitialized, DriverObject>> /\ ~Pending /\ ~Pending'
  BY DEF RemoveDriver, heap, Pending
<1>2. PICK d \in Addresses : d = DriverObject /\ d \in s[g_DriverList] /\ d # NULL /\ object[d].first = NULL
  BY <1>1, ListFacts DEF Sound, Progress
<1>3. Device' = NULL
  BY <1>2 DEF RemoveDriver
<1>4. PICK h \in Ends : h = g_DriverList
  BY DEF Shape
<1>5. InList(h) = s[h]
  BY ChainFacts DEF InList
<1>6. /\ AllDrivers(s) \subseteq Addresses /\ \A e \in AllDrivers(s) : object[e].first \in Ends
      /\ \A p \in Ends : s[p] \subseteq Addresses
  BY ListFacts
<1>7. \A p \in Addresses :
        /\ object'[p] \in Objects
        /\ object'[p].next = IF p \in s[h] /\ object[p].next = d THEN object[d].next ELSE object[p].next
        /\ object'[p].first = object[p].first
        /\ object'[p].owner = object[p].owner /\ object'[p].extension = object[p].extension
  <2> SUFFICES ASSUME NEW p \in Addresses
               PROVE  /\ object'[p] \in Objects
                      /\ object'[p].next = IF p \in s[h] /\ object[p].next = d THEN object[d].next ELSE object[p].next
                      /\ object'[p].first = object[p].first
                      /\ object'[p].owner = object[p].owner /\ object'[p].extension = object[p].extension
    OBVIOUS
  <2>1. object[p] \in Objects /\ object[d].next \in Ends
    BY DEF Shape, Objects
  <2>2. object'[p] = IF p \in s[h] /\ object[p].next = d
                     THEN [object[p] EXCEPT !.next = object[d].next] ELSE object[p]
    BY <1>1, <1>2, <1>4, <1>5 DEF Relinked
  <2> QED
    BY <2>1, <2>2 DEF Objects
<1>8. DOMAIN object' = Addresses /\ object' = [p \in Addresses |-> object'[p]]
  BY <1>1 DEF Relinked
<1>9. Unlinked(Links, Links', s[h], d) /\ Links[d] = object[d].next
  BY <1>7 DEF Unlinked, Links
<1>10. Descending(Links')
  BY <1>9, UnlinkedDescending DEF Shape
<1>11. g_DriverList' = IF h = d THEN Links[d] ELSE h
  BY <1>1, <1>2, <1>4, <1>9 DEF HeadWithout
<1>12. Shape'
  <2>1. Links[d] \in Ends
    BY DEF Shape, Descending, Ends
  <2> QED
    BY <1>1, <1>2, <1>3, <1>4, <1>7, <1>8, <1>10, <1>11, <2>1 DEF Shape, HandedOut, Ends
<1>13. PICK t : Reach(Links', t)
  BY <1>10, ReachExists
<1>14. t[g_DriverList'] = s[g_DriverList] \ {d}
  <2>1. t[IF h = d THEN Links[d] ELSE h] = s[h] \ {d}
    BY <1>2, <1>4, <1>9, <1>10, <1>13, ReachWithout DEF Shape
  <2> QED
    BY <1>4, <1>11, <2>1
<1>15. AllDrivers(t)' = AllDrivers(s)
  BY <1>1, <1>2, <1>14 DEF AllDrivers
<1>16. ASSUME NEW e \in AllDrivers(s) PROVE t[object'[e].first] = s[object[e].first]
  <2>1. \A q \in s[object[e].first] : q \notin s[h]
    BY <1>4, ListsApart DEF Owns, AllDrivers
  <2>2. \A q \in s[object[e].first] : Links'[q] = Links[q]
    BY <1>6, <1>9, <2>1 DEF Unlinked
  <2>3. object'[e].first = object[e].first /\ object[e].first \in Ends
    BY <1>6, <1>7
  <2> QED
    BY <1>10, <1>13, <2>2, <2>3, ReachSame DEF Shape
<1>17. \A e, x : Owns(t, e, x)' <=> Owns(s, e, x)
  BY <1>15, <1>16 DEF Owns
<1>18. Placed(t, kind)'
  BY <1>1, <1>6, <1>7, <1>15, <1>17 DEF Sound, Placed
<1>19. Accounted(t)'
  BY <1>1, <1>7, <1>15, <1>17 DEF Sound, Accounted
<1>20. Progress(t)'
  <2>1. g_IoInitialized /\ object'[d].first = NULL
    BY <1>1, <1>2, <1>7 DEF Sound, Progress
  <2> QED
    BY <1>1, <1>2, <1>3, <1>14, <2>1 DEF Progress, Pending
<1>21. Counted(t)'
  <2>1. IsFiniteSet(s[g_DriverList])
    BY <1>4, ChainFacts
  <2>2. Cardinality(s[g_DriverList] \ {d}) = Cardinality(s[g_DriverList]) - 1
    BY <1>2, <2>1, FS_RemoveElement
  <2> QED
    BY <1>1, <1>14, <2>2 DEF Sound, Counted
<1> QED
  BY <1>12, <1>13, <1>18, <1>19, <1>20, <1>21 DEF ListInv, Sound

-----------------------------------------------------------------------------
LEMMA ListInit == Init => ListInv
<1> SUFFICES ASSUME Init PROVE ListInv
  OBVIOUS
<1>1. object \in [Addresses -> Objects] /\ \A p \in Addresses : object[p].next = NULL
  <2>1. Zeroed \in Objects /\ Zeroed.next = NULL
    BY DEF Zeroed, Objects, Ends
  <2> QED
    BY <2>1 DEF Init
<1>2. Descending(Links)
  BY <1>1 DEF Descending, Links
<1>3. Shape
  BY <1>1, <1>2, HeapAssumption DEF Init, Shape, HandedOut, Ends
<1>4. PICK s : Reach(Links, s)
  BY <1>2, ReachExists
<1>5. s[NULL] = {} /\ Cardinality({}) = 0
  BY <1>4, ReachStep, FS_EmptySet
<1>6. AllDrivers(s) = {}
  BY <1>5 DEF Init, AllDrivers
<1>7. Sound(s, [p \in Addresses |-> "driver"])
  BY <1>5, <1>6 DEF Init, Sound, Placed, Accounted, Progress, Counted, Owns, Pending
<1>8. [p \in Addresses |-> "driver"] \in Kinds
  BY DEF Kinds
<1> QED
  BY <1>3, <1>4, <1>7, <1>8 DEF ListInv

LEMMA ListStep == ListInv /\ [Next]_vars => ListInv'
<1> SUFFICES ASSUME ListInv, [Next]_vars PROVE ListInv'
  OBVIOUS
<1>1. PICK s, kind : Shape /\ Reach(Links, s) /\ kind \in Kinds /\ Sound(s, kind)
  BY DEF ListInv
<1>2. CASE IoInitSystem
  BY <1>1, <1>2, InitSystemInv
<1>3. CASE CreateDriver
  <2>1. CASE NoMemory /\ UNCHANGED <<live, object, call>>
    BY <1>1, <1>3, <2>1, NothingInv DEF CreateDriver, NoMemory, heap, lists
  <2>2. CASE /\ Malloc /\ object' = [object EXCEPT ![Allocated] = Zeroed]
             /\ DriverObject' = Allocated /\ pc' = "entry" /\ UNCHANGED Device
    BY <1>1, <1>3, <2>2, NewDriverInv
  <2> QED
    BY <1>3, <2>1, <2>2 DEF CreateDriver
<1>4. CASE AllocateDevice
  BY <1>1, <1>4, NewDeviceInv, NoDeviceInv DEF AllocateDevice
<1>5. CASE Extend
  <2>1. CASE /\ NoMemory /\ Free({Device}) /\ UNCHANGED object
             /\ IF pc = "extension" THEN Return ELSE pc' = "refuse" /\ UNCHANGED <<DriverObject, Device>>
    BY <1>1, <1>5, <2>1, NoExtensionInv
  <2>2. CASE /\ Malloc
             /\ IF pc = "extension"
                THEN \E n \in Names \cup {NULL} : object' = Linked(n, Allocated) /\ Return
                ELSE /\ object' = Linked(VGA, Allocated)
                     /\ pc' = "initialize"
                     /\ UNCHANGED <<DriverObject, Device>>
    <3>1. Allocated \in Ends /\ VGA \in Names
      BY <1>1, <2>2, HeapAssumption DEF Shape, Malloc, HasRoom, Allocated, Addresses, Ends
    <3>2. \E n \in Names \cup {NULL} :
            /\ object' = Linked(n, Allocated)
            /\ \/ pc = "extension" /\ Return
               \/ pc = "vga_extension" /\ pc' = "initialize" /\ UNCHANGED <<DriverObject, Device>>
      <4>1. CASE pc = "extension"
        BY <2>2, <4>1
      <4>2. CASE pc = "vga_extension"
        BY <2>2, <3>1, <4>2
      <4> QED
        BY <1>5, <4>1, <4>2 DEF Extend
    <3> QED
      BY <1>1, <1>5, <2>2, <3>1, <3>2, LinkedInv
  <2>3. CASE /\ pc = "extension" /\ \E n \in Names \cup {NULL} : object' = Linked(n, NULL)
             /\ Return /\ UNCHANGED heap
    <3>1. NULL \in Ends
      BY DEF Ends
    <3> QED
      BY <1>1, <1>5, <2>3, <3>1, LinkedInv
  <2> QED
    BY <1>5, <2>1, <2>2, <2>3 DEF Extend
<1>6. CASE VgaInitializeDevice
  BY <1>1, <1>6, InitializedInv, NotInitializedInv DEF VgaInitializeDevice
<1>7. CASE RefuseDriver \/ FreeDriver
  BY <1>1, <1>7, FreedDriverInv
<1>8. CASE AddDriver
  BY <1>1, <1>8, AddDriverInv
<1>9. CASE IoDeleteDevice
  BY <1>1, <1>9, DeleteDeviceInv
<1>10. CASE DeleteDriver
  BY <1>1, <1>10, DeleteDriverInv
<1>11. CASE DeleteDevices
  BY <1>1, <1>11, DeleteDevicesInv
<1>12. CASE RemoveDriver
  BY <1>1, <1>12, RemoveDriverInv
<1>13. CASE IoGetDeviceObjectPointer \/ UNCHANGED vars
  BY <1>1, <1>13, NothingInv DEF IoGetDeviceObjectPointer, vars
<1> QED
  BY <1>2, <1>3, <1>4, <1>5, <1>6, <1>7, <1>8, <1>9, <1>10, <1>11, <1>12, <1>13 DEF Next

LEMMA ListInvariance == Spec => []ListInv
BY ListInit, ListStep, PTL DEF Spec

(* What the invariant says of the chains themselves.                       *)
LEMMA SoundChains ==
  ASSUME Shape, NEW s, NEW kind \in Kinds, Reach(Links, s), Sound(s, kind)
  PROVE  /\ g_DriverCount = Len(Chain(g_DriverList)) /\ Drivers = s[g_DriverList]
         /\ \A d \in Drivers : d \in AllDrivers(s) /\ d \in Addresses /\ d \in live
         /\ \A d \in Drivers : Devices(d) = s[object[d].first]
         /\ \A d \in Drivers : \A x \in Devices(d) : x \in Addresses /\ Owns(s, d, x)
<1>1. PICK h \in Ends : h = g_DriverList
  BY DEF Shape
<1>2. ToSet(Chain(h)) = s[h] /\ Len(Chain(h)) = Cardinality(s[h])
  BY ChainFacts
<1>3. Drivers = s[g_DriverList] /\ g_DriverCount = Len(Chain(g_DriverList))
  BY <1>1, <1>2 DEF Drivers, InList, Sound, Counted
<1>4. \A d \in Drivers : d \in AllDrivers(s) /\ d \in Addresses /\ d \in live
  BY <1>3, ListFacts DEF AllDrivers
<1>5. \A d \in Drivers : Devices(d) = s[object[d].first]
  <2> SUFFICES ASSUME NEW d \in Drivers PROVE Devices(d) = s[object[d].first]
    OBVIOUS
  <2>1. object[d].first \in Ends
    BY <1>4, ListFacts
  <2> QED
    BY <2>1, ChainFacts DEF Devices, InList
<1>6. \A d \in Drivers : \A x \in Devices(d) : x \in Addresses /\ Owns(s, d, x)
  BY <1>4, <1>5, ListFacts DEF Owns
<1> QED
  BY <1>3, <1>4, <1>5, <1>6

(* io_manager.c and device.c: after every step of every call, also one that*)
(* fails half-way, no list leads to a freed object, every device is in the *)
(* list of the driver it names, and g_DriverCount is the length of the list*)
THEOREM ListsSoundAlways == Spec => []ListsSound
<1>1. ListInv => ListsSound
  <2> SUFFICES ASSUME ListInv PROVE ListsSound
    OBVIOUS
  <2>1. PICK s, kind : Shape /\ Reach(Links, s) /\ kind \in Kinds /\ Sound(s, kind)
    BY DEF ListInv
  <2>2. /\ g_DriverCount = Len(Chain(g_DriverList))
        /\ \A d \in Drivers : d \in Addresses /\ d \in live
        /\ \A d \in Drivers : \A x \in Devices(d) : x \in Addresses /\ Owns(s, d, x)
    BY <2>1, SoundChains
  <2>3. ASSUME NEW d \in Drivers, NEW x \in Devices(d)
        PROVE  object[x].owner = d /\ {x, object[x].extension} \subseteq live \cup {NULL}
    <3>1. d \in Addresses /\ x \in Addresses /\ Owns(s, d, x)
      BY <2>2
    <3> QED
      BY <2>1, <3>1 DEF Sound, Placed
  <2> QED
    BY <2>2, <2>3 DEF ListsSound
<1> QED
  BY <1>1, ListInvariance, PTL

(* Whichever allocation fails, and in whatever order drivers and devices   *)
(* are made and deleted, between calls the heap holds what the lists lead  *)
(* to and nothing else.                                                    *)
THEOREM NothingLeaksAlways == Spec => []NothingLeaks
<1>1. ListInv => NothingLeaks
  <2> SUFFICES ASSUME ListInv, pc = "idle"
               PROVE  live = (UNION {{d} \cup UNION {{x, object[x].extension} : x \in Devices(d)} :
                                       d \in Drivers}) \ {NULL}
    BY DEF NothingLeaks
  <2>1. PICK s, kind : Shape /\ Reach(Links, s) /\ kind \in Kinds /\ Sound(s, kind)
    BY DEF ListInv
  <2>2. /\ \A d \in Drivers : d \in AllDrivers(s) /\ d \in Addresses /\ d \in live
        /\ \A d \in Drivers : Devices(d) = s[object[d].first]
        /\ \A d \in Drivers : \A x \in Devices(d) : x \in Addresses /\ Owns(s, d, x)
        /\ NULL \notin live /\ AllDrivers(s) = Drivers
    <3>1. DriverObject = NULL /\ Drivers = s[g_DriverList]
      BY <2>1, SoundChains DEF Sound, Progress
    <3>2. AllDrivers(s) = Drivers
      BY <3>1 DEF AllDrivers
    <3> QED
      BY <2>1, <3>2, SoundChains, ListFacts
  <2>3. \A p : p \in live <=>
          \E d \in Drivers :
            p = d \/ \E x \in Devices(d) : p = x \/ (p = object[x].extension /\ p # NULL)
    <3>1. ASSUME NEW p \in live
          PROVE  \E d \in Drivers :
                   p = d \/ \E x \in Devices(d) : p = x \/ (p = object[x].extension /\ p # NULL)
      <4>1. ~Pending
        BY DEF Pending
      <4>2. \A d, x : Owns(s, d, x) => d \in Drivers /\ x \in Devices(d)
        BY <2>2 DEF Owns
      <4> QED
        BY <2>1, <2>2, <4>1, <4>2 DEF Sound, Accounted
    <3>2. ASSUME NEW d \in Drivers, NEW x \in Devices(d)
          PROVE  x \in live /\ (object[x].extension # NULL => object[x].extension \in live)
      <4>1. d \in Addresses /\ x \in Addresses /\ Owns(s, d, x)
        BY <2>2
      <4> QED
        BY <2>1, <4>1 DEF Sound, Placed
    <3> QED
      BY <2>2, <3>1, <3>2
  <2> QED
    BY <2>2, <2>3
<1> QED
  BY <1>1, ListInvariance, PTL
-----------------------------------------------------------------------------
(* DeviceRegistry is about the chains themselves, in their order.  c[p] is *)
(* the chain that starts at p when f links the objects.                    *)
Follows(f, c) == c[NULL] = <<>> /\ \A p \in Addresses : c[p] = <<p>> \o c[f[p]]

Chains == [p \in Ends |-> Chain(p)]

LEMMA ChainsFollow == Shape => Follows(Links, Chains)
<1> SUFFICES ASSUME Shape PROVE Follows(Links, Chains)
  OBVIOUS
<1>1. Chain(NULL) = <<>> /\ \A p \in Addresses : Chain(p) = <<p>> \o Chain(object[p].next)
  BY ChainStep
<1>2. \A p \in Addresses : Links[p] = object[p].next /\ object[p].next \in Ends
  BY DEF Shape, Objects, Links
<1>3. \A p \in Ends : Chains[p] = Chain(p)
  BY DEF Chains
<1>4. NULL \in Ends /\ Addresses \subseteq Ends
  BY DEF Ends
<1> HIDE DEF Chains
<1> QED
  BY <1>1, <1>2, <1>3, <1>4 DEF Follows

LEMMA ChainsFollowNext == Shape' => Follows(Links', Chains')
<1>1. Shape' => Follows(Links, Chains)'
  BY ChainsFollow, PTL
<1>2. Follows(Links, Chains)' => Follows(Links', Chains')
  BY DEF Follows, Addresses
<1> QED
  BY <1>1, <1>2

(* A chain goes down, so that no object is in it twice.                    *)
Distinct(u) == \A i, j \in 1 .. Len(u) : u[i] = u[j] => i = j

Holds(u, q) == \E j \in 1 .. Len(u) : u[j] = q

LEMMA PrependFacts ==
  ASSUME NEW S, NEW p \in S, NEW u \in Seq(S)
  PROVE  /\ <<p>> \o u \in Seq(S) /\ Len(u) \in Nat /\ Len(<<p>> \o u) = Len(u) + 1
         /\ (<<p>> \o u)[1] = p
         /\ \A j \in 1 .. Len(u) : (<<p>> \o u)[j + 1] = u[j]
         /\ \A j \in 2 .. Len(u) + 1 : (<<p>> \o u)[j] = u[j - 1]
         /\ \A q : Holds(<<p>> \o u, q) <=> q = p \/ Holds(u, q)
<1>1. PICK w : w = <<p>> \o u
  OBVIOUS
<1>2. /\ w \in Seq(S) /\ Len(u) \in Nat /\ Len(w) = Len(u) + 1 /\ w[1] = p
      /\ \A j \in 1 .. Len(u) : w[j + 1] = u[j]
  BY <1>1, ConcatParts
<1>3. \A j \in 2 .. Len(u) + 1 : w[j] = u[j - 1]
  <2> SUFFICES ASSUME NEW j \in 2 .. Len(u) + 1 PROVE w[j] = u[j - 1]
    OBVIOUS
  <2>1. j - 1 \in 1 .. Len(u) /\ (j - 1) + 1 = j
    BY <1>2
  <2> QED
    BY <1>2, <2>1
<1>4. ASSUME NEW q, Holds(w, q) PROVE q = p \/ Holds(u, q)
  <2>1. PICK j \in 1 .. Len(w) : w[j] = q
    BY <1>4 DEF Holds
  <2>2. j = 1 \/ (j \in 2 .. Len(u) + 1 /\ j - 1 \in 1 .. Len(u))
    BY <1>2
  <2> QED
    BY <1>2, <1>3, <2>1, <2>2 DEF Holds
<1>5. ASSUME NEW q, q = p \/ Holds(u, q) PROVE Holds(w, q)
  <2>1. 1 \in 1 .. Len(w) /\ \A j \in 1 .. Len(u) : j + 1 \in 1 .. Len(w)
    BY <1>2
  <2> QED
    BY <1>2, <1>5, <2>1 DEF Holds
<1> QED
  BY <1>1, <1>2, <1>3, <1>4, <1>5

LEMMA ChainsTyped ==
  ASSUME NEW f, NEW s, NEW c, Descending(f), Reach(f, s), Follows(f, c)
  PROVE  \A p \in Ends : /\ c[p] \in Seq(Addresses) /\ Distinct(c[p])
                         /\ \A q : Holds(c[p], q) <=> q \in s[p]
<1> DEFINE Fine(p) == /\ c[p] \in Seq(Addresses) /\ Distinct(c[p])
                      /\ \A q : Holds(c[p], q) <=> q \in s[p]
           T == {p \in Ends : Fine(p)}
<1>1. /\ s[NULL] = {} /\ \A p \in Addresses : s[p] = {p} \cup s[f[p]]
      /\ \A p \in Ends : s[p] \subseteq Addresses /\ \A q \in s[p] : q <= p
  BY ReachStep, ReachOlder
<1>2. NULL \in T
  <2>1. c[NULL] = <<>> /\ <<>> \in Seq(Addresses) /\ Len(<<>>) = 0
    BY EmptySeq DEF Follows
  <2>2. Distinct(<<>>) /\ \A q : ~Holds(<<>>, q)
    BY DEF Distinct, Holds
  <2> QED
    BY <1>1, <2>1, <2>2 DEF Ends
<1>3. ASSUME NEW p \in Addresses, \A q \in Addresses : q < p => q \in T
      PROVE  p \in T
  <2>1. PICK n \in Ends : n = f[p] /\ (n # NULL => n \in Addresses /\ n < p)
    BY DEF Descending, Ends
  <2>2. Fine(n)
    BY <1>2, <1>3, <2>1
  <2>3. PICK u : u = c[n]
    OBVIOUS
  <2>4. c[p] = <<p>> \o u /\ s[p] = {p} \cup s[n]
    BY <1>1, <2>1, <2>3 DEF Follows
  <2>5. u \in Seq(Addresses) /\ Distinct(u) /\ \A q : Holds(u, q) <=> q \in s[n]
    BY <2>2, <2>3
  <2>6. PICK w : w = <<p>> \o u
    OBVIOUS
  <2>7. /\ w \in Seq(Addresses) /\ Len(u) \in Nat /\ Len(w) = Len(u) + 1 /\ w[1] = p
        /\ \A j \in 2 .. Len(u) + 1 : w[j] = u[j - 1]
        /\ \A q : Holds(w, q) <=> q = p \/ Holds(u, q)
    BY <2>5, <2>6, PrependFacts
  <2>8. p \notin s[n]
    BY <1>1, <2>1, HeapAssumption DEF Addresses
  <2>9. Distinct(w)
    <3> SUFFICES ASSUME NEW i \in 1 .. Len(w), NEW j \in 1 .. Len(w), w[i] = w[j] PROVE i = j
      BY DEF Distinct
    <3>1. \A k \in 2 .. Len(u) + 1 : k - 1 \in 1 .. Len(u) /\ w[k] # p
      <4> SUFFICES ASSUME NEW k \in 2 .. Len(u) + 1 PROVE k - 1 \in 1 .. Len(u) /\ w[k] # p
        OBVIOUS
      <4>1. k - 1 \in 1 .. Len(u) /\ w[k] = u[k - 1]
        BY <2>7
      <4>2. Holds(u, w[k])
        BY <4>1 DEF Holds
      <4> QED
        BY <2>5, <2>8, <4>1, <4>2
    <3>2. \A k \in 1 .. Len(w) : k = 1 \/ k \in 2 .. Len(u) + 1
      BY <2>7
    <3>3. CASE i \in 2 .. Len(u) + 1 /\ j \in 2 .. Len(u) + 1
      <4>1. u[i - 1] = u[j - 1]
        BY <2>7, <3>3
      <4>2. i - 1 = j - 1
        BY <2>5, <3>1, <3>3, <4>1 DEF Distinct
      <4> QED
        BY <3>3, <4>2
    <3> QED
      BY <2>7, <3>1, <3>2, <3>3
  <2>10. Fine(p)
    BY <2>4, <2>5, <2>6, <2>7, <2>9
  <2> QED
    BY <2>10 DEF Ends
<1>4. Ends \subseteq T
  <2> HIDE DEF T
  <2> QED
    BY <1>2, <1>3, OlderFirst
<1> QED
  BY <1>4

(* A chain whose links stay does.                                          *)
LEMMA ChainsSame ==
  ASSUME NEW f, NEW s, NEW c, Descending(f), Reach(f, s), Follows(f, c),
         NEW g, NEW e, Follows(g, e), NEW h \in Ends, \A q \in s[h] : g[q] = f[q]
  PROVE  e[h] = c[h]
<1>1. s[NULL] = {} /\ \A p \in Addresses : s[p] = {p} \cup s[f[p]]
  BY ReachStep
<1> DEFINE T == {p \in Ends : s[p] \subseteq s[h] => e[p] = c[p]}
<1>2. NULL \in T
  BY DEF Follows, Ends
<1>3. ASSUME NEW p \in Addresses, \A q \in Addresses : q < p => q \in T
      PROVE  p \in T
  <2> SUFFICES ASSUME s[p] \subseteq s[h] PROVE e[p] = c[p]
    BY DEF Ends
  <2>1. s[f[p]] \subseteq s[h] /\ p \in s[h] /\ g[p] = f[p]
    BY <1>1
  <2>2. f[p] \in T
    BY <1>2, <1>3 DEF Descending
  <2>3. e[f[p]] = c[f[p]]
    BY <2>1, <2>2
  <2> QED
    BY <2>1, <2>3 DEF Follows
<1>4. Ends \subseteq T
  <2> HIDE DEF T
  <2> QED
    BY <1>2, <1>3, OlderFirst
<1> QED
  BY <1>4

(* A sequence without its k-th element, which is what RemoveAt gives.      *)
Cut(u, k) == [j \in 1 .. Len(u) - 1 |-> IF j < k THEN u[j] ELSE u[j + 1]]

LEMMA RemoveAtCuts ==
  ASSUME NEW S, NEW u \in Seq(S), NEW k \in 1 .. Len(u)
  PROVE  SubSeq(u, 1, k - 1) \o SubSeq(u, k + 1, Len(u)) = Cut(u, k)
<1>1. PICK n \in Nat : n = Len(u) /\ k \in 1 .. n
  OBVIOUS
<1>2. PICK a, b : a = SubSeq(u, 1, k - 1) /\ b = SubSeq(u, k + 1, Len(u))
  OBVIOUS
<1>3. /\ a \in Seq(S) /\ Len(a) = k - 1 /\ \A j \in 1 .. k - 1 : a[j] = u[j]
      /\ b \in Seq(S) /\ Len(b) = n - k /\ \A j \in 1 .. n - k : b[j] = u[k + j]
  <2>1. a \in Seq(S) /\ Len(a) = k - 1 /\ \A j \in 1 .. k - 1 : a[j] = u[j]
    BY <1>1, <1>2
  <2>2. b \in Seq(S) /\ Len(b) = n - k /\ \A j \in 1 .. n - k : b[j] = u[k + j]
    BY <1>1, <1>2
  <2> QED
    BY <2>1, <2>2
<1>4. PICK w : w = a \o b
  OBVIOUS
<1>5. /\ w \in Seq(S) /\ Len(w) = n - 1
      /\ \A j \in 1 .. k - 1 : w[j] = a[j]
      /\ \A j \in 1 .. n - k : w[k - 1 + j] = b[j]
  BY <1>1, <1>3, <1>4, ConcatParts
<1>6. ASSUME NEW j \in 1 .. n - 1 PROVE w[j] = IF j < k THEN u[j] ELSE u[j + 1]
  <2>1. CASE j < k
    BY <1>1, <1>3, <1>5, <2>1
  <2>2. CASE ~(j < k)
    <3>1. PICK i \in 1 .. n - k : i = j - k + 1 /\ k - 1 + i = j /\ k + i = j + 1
      BY <1>1, <2>2
    <3>2. w[k - 1 + i] = b[i] /\ b[i] = u[k + i]
      BY <1>3, <1>5
    <3> QED
      BY <2>2, <3>1, <3>2
  <2> QED
    BY <2>1, <2>2
<1>7. w = [j \in 1 .. n - 1 |-> w[j]]
  BY <1>5
<1>8. w = [j \in 1 .. n - 1 |-> IF j < k THEN u[j] ELSE u[j + 1]]
  BY <1>6, <1>7
<1> QED
  BY <1>1, <1>2, <1>4, <1>8 DEF Cut

CutAt(u, v, x) == \E k \in 1 .. Len(u) : u[k] = x /\ v = Cut(u, k)

LEMMA CutFacts ==
  ASSUME NEW S, NEW u \in Seq(S), NEW k \in 1 .. Len(u)
  PROVE  /\ Cut(u, k) \in Seq(S) /\ Len(Cut(u, k)) = Len(u) - 1
         /\ \A j \in 1 .. Len(u) - 1 : Cut(u, k)[j] = IF j < k THEN u[j] ELSE u[j + 1]
<1>1. PICK n \in Nat : n = Len(u) /\ k \in 1 .. n /\ n - 1 \in Nat
  OBVIOUS
<1>2. Cut(u, k) = [j \in 1 .. n - 1 |-> IF j < k THEN u[j] ELSE u[j + 1]]
  BY <1>1 DEF Cut
<1>3. \A j \in 1 .. n - 1 : (IF j < k THEN u[j] ELSE u[j + 1]) \in S
  BY <1>1
<1>4. Cut(u, k) \in [1 .. n - 1 -> S]
  BY <1>2, <1>3
<1>5. Cut(u, k) \in Seq(S) /\ Len(Cut(u, k)) = n - 1
  BY <1>1, <1>4
<1> QED
  BY <1>1, <1>2, <1>5

LEMMA CutFirst ==
  ASSUME NEW S, NEW x \in S, NEW u \in Seq(S)
  PROVE  CutAt(<<x>> \o u, u, x)
<1>1. PICK w : w = <<x>> \o u
  OBVIOUS
<1>2. /\ w \in Seq(S) /\ Len(u) \in Nat /\ Len(w) = Len(u) + 1 /\ w[1] = x
      /\ \A j \in 1 .. Len(u) : w[j + 1] = u[j]
  BY <1>1, PrependFacts
<1>3. Cut(w, 1) = [j \in 1 .. Len(u) |-> u[j]]
  <2>1. Len(w) - 1 = Len(u) /\ \A j \in 1 .. Len(u) : ~(j < 1)
    BY <1>2
  <2> QED
    BY <1>2, <2>1 DEF Cut
<1>4. u = [j \in 1 .. Len(u) |-> u[j]]
  OBVIOUS
<1>5. 1 \in 1 .. Len(w)
  BY <1>2
<1> QED
  BY <1>1, <1>2, <1>3, <1>4, <1>5 DEF CutAt

LEMMA CutLater ==
  ASSUME NEW S, NEW p \in S, NEW u \in Seq(S), NEW v, NEW x, CutAt(u, v, x)
  PROVE  CutAt(<<p>> \o u, <<p>> \o v, x)
<1>1. PICK k \in 1 .. Len(u) : u[k] = x /\ v = Cut(u, k)
  BY DEF CutAt
<1>2. PICK n \in Nat : n = Len(u) /\ k \in 1 .. n /\ n - 1 \in Nat
  OBVIOUS
<1>3. /\ v \in Seq(S) /\ Len(v) = n - 1
      /\ \A j \in 1 .. n - 1 : v[j] = IF j < k THEN u[j] ELSE u[j + 1]
  BY <1>1, <1>2, CutFacts
<1>4. PICK w : w = <<p>> \o u
  OBVIOUS
<1>5. PICK y : y = <<p>> \o v
  OBVIOUS
<1>6. /\ w \in Seq(S) /\ Len(w) = n + 1 /\ w[1] = p
      /\ \A j \in 1 .. n : w[j + 1] = u[j]
      /\ \A j \in 2 .. n + 1 : w[j] = u[j - 1]
  BY <1>2, <1>4, PrependFacts
<1>7. /\ y \in Seq(S) /\ Len(y) = n /\ y[1] = p
      /\ \A j \in 2 .. n : y[j] = v[j - 1]
  <2>1. /\ y \in Seq(S) /\ Len(y) = Len(v) + 1 /\ y[1] = p
        /\ \A j \in 2 .. Len(v) + 1 : y[j] = v[j - 1]
    BY <1>3, <1>5, PrependFacts
  <2> QED
    BY <1>2, <1>3, <2>1
<1>8. ASSUME NEW j \in 1 .. n PROVE y[j] = IF j < k + 1 THEN w[j] ELSE w[j + 1]
  <2>1. CASE j = 1
    BY <1>2, <1>6, <1>7, <2>1
  <2>2. CASE j # 1
    <3>1. j \in 2 .. n /\ j - 1 \in 1 .. n - 1 /\ j \in 2 .. n + 1 /\ (j - 1) + 1 = j
      BY <2>2
    <3>2. y[j] = IF j - 1 < k THEN u[j - 1] ELSE u[j]
      BY <1>3, <1>7, <3>1
    <3>3. w[j] = u[j - 1] /\ w[j + 1] = u[j] /\ (j - 1 < k <=> j < k + 1)
      BY <1>2, <1>6, <3>1
    <3> QED
      BY <3>2, <3>3
  <2> QED
    BY <2>1, <2>2
<1>9. Cut(w, k + 1) = [j \in 1 .. n |-> IF j < k + 1 THEN w[j] ELSE w[j + 1]]
  <2>1. Len(w) - 1 = n
    BY <1>6
  <2> QED
    BY <2>1 DEF Cut
<1>10. y = [j \in 1 .. n |-> y[j]]
  BY <1>7
<1>11. y = Cut(w, k + 1)
  BY <1>8, <1>9, <1>10
<1>12. k + 1 \in 1 .. Len(w) /\ w[k + 1] = x
  BY <1>1, <1>2, <1>6
<1> QED
  BY <1>4, <1>5, <1>11, <1>12 DEF CutAt

(* Unlinking x takes it out of the chain.                                  *)
LEMMA ChainsWithout ==
  ASSUME NEW f, NEW s, NEW c, Descending(f), Reach(f, s), Follows(f, c),
         NEW g, NEW e, Follows(g, e),
         NEW h \in Ends, NEW x \in s[h], Unlinked(f, g, s[h], x)
  PROVE  CutAt(c[h], e[IF h = x THEN f[x] ELSE h], x)
<1>1. s[NULL] = {} /\ \A p \in Addresses : s[p] = {p} \cup s[f[p]]
  BY ReachStep
<1>2. /\ \A p \in Ends : s[p] \subseteq Addresses /\ \A q \in s[p] : q <= p
      /\ x \in Addresses /\ Addresses \subseteq Nat /\ s[x] \subseteq s[h]
  BY ReachOlder, ReachClosed, HeapAssumption DEF Addresses
<1>3. f[x] \in Ends /\ s[f[x]] \subseteq s[h] /\ \A q \in s[f[x]] : q < x
  BY <1>1, <1>2 DEF Ends, Descending
<1>4. \A q \in s[f[x]] : g[q] = f[q]
  <2> SUFFICES ASSUME NEW q \in s[f[x]], f[q] = x PROVE FALSE
    BY <1>2, <1>3 DEF Unlinked
  <2>1. q < x /\ q \in Addresses /\ x < q
    BY <1>2, <1>3, HeapAssumption DEF Descending, Addresses
  <2> QED
    BY <1>2, <2>1
<1>5. e[f[x]] = c[f[x]]
  BY <1>3, <1>4, ChainsSame
<1>6. \A p \in Ends : c[p] \in Seq(Addresses)
  BY ChainsTyped
<1>7. CutAt(c[x], e[f[x]], x)
  <2>1. c[x] = <<x>> \o c[f[x]]
    BY <1>2 DEF Follows
  <2>2. PICK u \in Seq(Addresses) : u = c[f[x]]
    BY <1>3, <1>6
  <2>3. CutAt(<<x>> \o u, u, x)
    BY <1>2, CutFirst
  <2> QED
    BY <1>5, <2>1, <2>2, <2>3
<1> DEFINE T == {p \in Ends : s[p] \subseteq s[h] /\ x \in s[p] =>
                                CutAt(c[p], e[IF p = x THEN f[x] ELSE p], x)}
<1>8. NULL \in T
  BY <1>1 DEF Ends
<1>9. ASSUME NEW p \in Addresses, \A q \in Addresses : q < p => q \in T
      PROVE  p \in T
  <2> SUFFICES ASSUME s[p] \subseteq s[h], x \in s[p], p # x PROVE CutAt(c[p], e[p], x)
    BY <1>7 DEF Ends
  <2>1. PICK n \in Addresses : n = f[p] /\ n < p
    BY <1>1 DEF Descending
  <2>2. s[p] = {p} \cup s[n] /\ p \in s[h] /\ x \in s[n] /\ s[n] \subseteq s[h]
    BY <1>1, <2>1
  <2>3. PICK u \in Seq(Addresses) : u = c[n]
    BY <1>6, <2>1 DEF Ends
  <2>4. PICK v : v = e[IF n = x THEN f[x] ELSE n]
    OBVIOUS
  <2>5. CutAt(<<p>> \o u, <<p>> \o v, x)
    <3>1. CutAt(u, v, x)
      BY <1>9, <2>1, <2>2, <2>3, <2>4
    <3> QED
      BY <3>1, CutLater
  <2>6. c[p] = <<p>> \o u
    BY <2>1, <2>3 DEF Follows
  <2>7. e[p] = <<p>> \o v
    <3>1. e[p] = <<p>> \o e[g[p]] /\ g[p] = IF n = x THEN f[x] ELSE n
      BY <2>1, <2>2 DEF Follows, Unlinked
    <3> QED
      BY <2>4, <3>1
  <2> QED
    BY <2>5, <2>6, <2>7
<1>10. Ends \subseteq T
  <2> HIDE DEF T
  <2> QED
    BY <1>8, <1>9, OlderFirst
<1> QED
  BY <1>10
-----------------------------------------------------------------------------
(* The registry: the chain u of drivers, what each of them owns, and what  *)
(* the devices are called.                                                 *)
DevicesOf(u, called) == [k \in 1 .. Len(u) |-> [device |-> u[k], name |-> called[u[k]]]]

RegistryOf(u, owned, called) ==
  [i \in 1 .. Len(u) |-> [driver |-> u[i], devices |-> DevicesOf(owned[u[i]], called)]]

Listed == Chains[g_DriverList]
Owned == [d \in Addresses |-> Chains[object[d].first]]
Called == [x \in Addresses |-> object[x].name]

LEMMA RegisteredIs == Shape => Registered = RegistryOf(Listed, Owned, Called)
<1> SUFFICES ASSUME Shape PROVE Registered = RegistryOf(Listed, Owned, Called)
  OBVIOUS
<1>1. PICK s : Reach(Links, s)
  BY ReachExists DEF Shape
<1>2. \A p \in Ends : /\ Chains[p] = Chain(p) /\ Chain(p) \in Seq(Addresses)
                      /\ DOMAIN Chain(p) = 1 .. Len(Chain(p))
  BY <1>1, ChainFacts DEF Chains
<1>3. PICK u \in Seq(Addresses) : u = Chain(g_DriverList) /\ u = Listed /\ DOMAIN u = 1 .. Len(u)
  BY <1>2 DEF Listed, Shape
<1>4. ASSUME NEW d \in Addresses
      PROVE  [k \in DOMAIN Chain(object[d].first) |->
                [device |-> Chain(object[d].first)[k], name |-> object[Chain(object[d].first)[k]].name]]
             = DevicesOf(Owned[d], Called)
  <2>1. PICK w \in Seq(Addresses) : w = Chain(object[d].first) /\ w = Owned[d] /\ DOMAIN w = 1 .. Len(w)
    BY <1>2 DEF Owned, Shape, Objects
  <2>2. \A k \in 1 .. Len(w) : w[k] \in Addresses /\ Called[w[k]] = object[w[k]].name
    BY DEF Called
  <2>3. DevicesOf(w, Called) = [k \in DOMAIN w |-> [device |-> w[k], name |-> object[w[k]].name]]
    BY <2>1, <2>2 DEF DevicesOf
  <2> QED
    BY <2>1, <2>3
<1>5. \A i \in DOMAIN u : u[i] \in Addresses
  BY <1>3
<1>6. Registered =
        [i \in DOMAIN u |->
           [driver |-> u[i],
            devices |-> [k \in DOMAIN Chain(object[u[i]].first) |->
                           [device |-> Chain(object[u[i]].first)[k],
                            name |-> object[Chain(object[u[i]].first)[k]].name]]]]
  BY <1>3 DEF Registered
<1>7. Registered = [i \in DOMAIN u |-> [driver |-> u[i], devices |-> DevicesOf(Owned[u[i]], Called)]]
  BY <1>4, <1>5, <1>6
<1> QED
  BY <1>3, <1>7 DEF RegistryOf

LEMMA RegisteredIsNext == Shape' => Registered' = RegistryOf(Listed', Owned', Called')
<1>1. Shape' => (Registered = RegistryOf(Listed, Owned, Called))'
  BY RegisteredIs, PTL
<1> QED
  BY <1>1 DEF RegistryOf, DevicesOf

(* What the invariant says of them.                                        *)
LEMMA RegistryFacts ==
  ASSUME Shape, NEW s, NEW kind \in Kinds, Reach(Links, s), Sound(s, kind)
  PROVE  /\ Listed \in Seq(Addresses) /\ Distinct(Listed)
         /\ \A d : Holds(Listed, d) <=> d \in s[g_DriverList]
         /\ \A d \in Addresses : /\ object[d].first \in Ends
                                 /\ Owned[d] \in Seq(Addresses) /\ Distinct(Owned[d])
                                 /\ \A x : Holds(Owned[d], x) <=> x \in s[object[d].first]
         /\ \A x \in Addresses : Called[x] = object[x].name /\ Called[x] \in Names \cup {NULL}
         /\ \A i \in 1 .. Len(Listed) : Listed[i] \in Addresses /\ Listed[i] \in s[g_DriverList]
         /\ \A d \in Addresses : \A k \in 1 .. Len(Owned[d]) :
              Owned[d][k] \in Addresses /\ Owned[d][k] \in s[object[d].first]
<1>1. \A p \in Ends : /\ Chains[p] \in Seq(Addresses) /\ Distinct(Chains[p])
                      /\ \A q : Holds(Chains[p], q) <=> q \in s[p]
  BY ChainsFollow, ChainsTyped DEF Shape
<1>2. /\ Listed \in Seq(Addresses) /\ Distinct(Listed)
      /\ \A d : Holds(Listed, d) <=> d \in s[g_DriverList]
  BY <1>1 DEF Listed, Shape
<1>3. \A d \in Addresses : /\ object[d].first \in Ends
                           /\ Owned[d] \in Seq(Addresses) /\ Distinct(Owned[d])
                           /\ \A x : Holds(Owned[d], x) <=> x \in s[object[d].first]
  BY <1>1 DEF Owned, Shape, Objects
<1>4. \A x \in Addresses : Called[x] = object[x].name /\ Called[x] \in Names \cup {NULL}
  BY DEF Called, Shape, Objects
<1>5. \A i \in 1 .. Len(Listed) : Listed[i] \in Addresses /\ Listed[i] \in s[g_DriverList]
  BY <1>2 DEF Holds
<1>6. \A d \in Addresses : \A k \in 1 .. Len(Owned[d]) :
        Owned[d][k] \in Addresses /\ Owned[d][k] \in s[object[d].first]
  <2> SUFFICES ASSUME NEW d \in Addresses, NEW k \in 1 .. Len(Owned[d])
               PROVE  Owned[d][k] \in Addresses /\ Owned[d][k] \in s[object[d].first]
    OBVIOUS
  <2>1. PICK w \in Seq(Addresses) : w = Owned[d]
    BY <1>3
  <2>2. w[k] \in Addresses /\ Holds(w, w[k])
    BY <2>1 DEF Holds
  <2> QED
    BY <1>3, <2>1, <2>2
<1> QED
  BY <1>2, <1>3, <1>4, <1>5, <1>6

(* A step that leaves the links alone leaves the chains alone.             *)
LEMMA KeptChains ==
  ASSUME Shape, Shape', NEW s, Reach(Links, s), NEW h \in Ends,
         \A q \in s[h] : object'[q].next = object[q].next
  PROVE  Chains'[h] = Chains[h]
<1>1. \A q \in s[h] : Links'[q] = Links[q]
  BY ReachOlder DEF Shape, Links
<1> QED
  BY <1>1, ChainsFollow, ChainsFollowNext, ChainsSame DEF Shape

(* The same drivers, owning the same devices by the same names.            *)
SameOwned(u, owned, called, owned2, called2) ==
  \A i \in 1 .. Len(u) :
    /\ owned2[u[i]] = owned[u[i]]
    /\ \A k \in 1 .. Len(owned[u[i]]) : called2[owned[u[i]][k]] = called[owned[u[i]][k]]

LEMMA SameDevices ==
  ASSUME NEW w, NEW called, NEW called2, \A k \in 1 .. Len(w) : called2[w[k]] = called[w[k]]
  PROVE  DevicesOf(w, called2) = DevicesOf(w, called)
BY DEF DevicesOf

LEMMA SameRegistry ==
  ASSUME NEW u, NEW owned, NEW called, NEW owned2, NEW called2,
         SameOwned(u, owned, called, owned2, called2)
  PROVE  RegistryOf(u, owned2, called2) = RegistryOf(u, owned, called)
<1>1. ASSUME NEW i \in 1 .. Len(u)
      PROVE  DevicesOf(owned2[u[i]], called2) = DevicesOf(owned[u[i]], called)
  BY SameDevices DEF SameOwned
<1> QED
  BY <1>1 DEF RegistryOf

LEMMA KeptOwned ==
  ASSUME Shape, Shape', NEW s, NEW kind \in Kinds, Reach(Links, s), Sound(s, kind),
         NEW d \in Addresses, object'[d].first = object[d].first,
         \A x \in s[object[d].first] : object'[x].next = object[x].next /\ object'[x].name = object[x].name
  PROVE  Owned'[d] = Owned[d] /\ \A k \in 1 .. Len(Owned[d]) : Called'[Owned[d][k]] = Called[Owned[d][k]]
<1>1. object[d].first \in Ends
  BY RegistryFacts
<1>2. Owned'[d] = Chains'[object'[d].first] /\ Owned[d] = Chains[object[d].first]
  BY DEF Owned, Addresses
<1>3. Owned'[d] = Owned[d]
  BY <1>1, <1>2, KeptChains
<1>4. \A x \in Addresses : Called'[x] = object'[x].name /\ Called[x] = object[x].name
  BY DEF Called, Addresses
<1>5. \A k \in 1 .. Len(Owned[d]) : Owned[d][k] \in Addresses /\ Owned[d][k] \in s[object[d].first]
  BY RegistryFacts
<1> QED
  BY <1>3, <1>4, <1>5

LEMMA QuietRegistry ==
  ASSUME Shape, Shape', NEW s, NEW kind \in Kinds, Reach(Links, s), Sound(s, kind),
         g_DriverList' = g_DriverList,
         \A d \in s[g_DriverList] :
           /\ object'[d].next = object[d].next /\ object'[d].first = object[d].first
           /\ \A x \in s[object[d].first] :
                object'[x].next = object[x].next /\ object'[x].name = object[x].name
  PROVE  Registered' = Registered
<1>1. Listed' = Listed
  BY KeptChains DEF Listed, Shape
<1>2. \A i \in 1 .. Len(Listed) : Listed[i] \in Addresses /\ Listed[i] \in s[g_DriverList]
  BY RegistryFacts
<1>3. ASSUME NEW i \in 1 .. Len(Listed)
      PROVE  /\ Owned'[Listed[i]] = Owned[Listed[i]]
             /\ \A k \in 1 .. Len(Owned[Listed[i]]) :
                  Called'[Owned[Listed[i]][k]] = Called[Owned[Listed[i]][k]]
  BY <1>2, KeptOwned
<1>4. SameOwned(Listed, Owned, Called, Owned', Called')
  BY <1>3 DEF SameOwned
<1> QED
  BY <1>1, <1>4, SameRegistry, RegisteredIs, RegisteredIsNext
-----------------------------------------------------------------------------
(* Both are images of a chain, element by element.                         *)
Image(u, F) == [j \in 1 .. Len(u) |-> F[u[j]]]

LEMMA ImageFacts ==
  ASSUME NEW A, NEW u \in Seq(A), NEW F
  PROVE  /\ \E S : (\A a \in A : F[a] \in S) /\ Image(u, F) \in Seq(S)
         /\ Len(Image(u, F)) = Len(u)
         /\ \A j \in 1 .. Len(u) : Image(u, F)[j] = F[u[j]]
<1>1. PICK n \in Nat : n = Len(u)
  OBVIOUS
<1>2. PICK S : \A a \in A : F[a] \in S
  <2>1. \A a \in A : F[a] \in {F[b] : b \in A}
    OBVIOUS
  <2> QED
    BY <2>1
<1>3. Image(u, F) = [j \in 1 .. n |-> F[u[j]]]
  BY <1>1 DEF Image
<1>4. \A j \in 1 .. n : F[u[j]] \in S
  BY <1>1, <1>2
<1>5. Image(u, F) \in [1 .. n -> S]
  BY <1>3, <1>4
<1>6. Image(u, F) \in Seq(S) /\ Len(Image(u, F)) = n
  BY <1>1, <1>5
<1> QED
  BY <1>1, <1>2, <1>3, <1>6

LEMMA ImageCut ==
  ASSUME NEW A, NEW u \in Seq(A), NEW F, NEW k \in 1 .. Len(u)
  PROVE  Image(Cut(u, k), F) = Cut(Image(u, F), k)
<1>1. PICK n \in Nat : n = Len(u) /\ n - 1 \in Nat /\ k \in 1 .. n
  OBVIOUS
<1>2. PICK v : v = Cut(u, k)
  OBVIOUS
<1>3. Len(v) = n - 1 /\ \A j \in 1 .. n - 1 : v[j] = IF j < k THEN u[j] ELSE u[j + 1]
  BY <1>1, <1>2, CutFacts
<1>4. PICK w : w = Image(u, F)
  OBVIOUS
<1>5. Len(w) = n /\ \A j \in 1 .. n : w[j] = F[u[j]]
  BY <1>1, <1>4, ImageFacts
<1>6. Image(v, F) = [j \in 1 .. n - 1 |-> F[v[j]]]
  BY <1>3 DEF Image
<1>7. Cut(w, k) = [j \in 1 .. n - 1 |-> IF j < k THEN w[j] ELSE w[j + 1]]
  BY <1>5 DEF Cut
<1>8. ASSUME NEW j \in 1 .. n - 1 PROVE F[v[j]] = IF j < k THEN w[j] ELSE w[j + 1]
  <2>1. j \in 1 .. n /\ j + 1 \in 1 .. n
    BY <1>1
  <2> QED
    BY <1>3, <1>5, <2>1
<1>9. Image(v, F) = Cut(w, k)
  BY <1>6, <1>7, <1>8
<1> QED
  BY <1>2, <1>4, <1>9

LEMMA ImagePrepend ==
  ASSUME NEW A, NEW u \in Seq(A), NEW a \in A, NEW F
  PROVE  Image(<<a>> \o u, F) = <<F[a]>> \o Image(u, F)
<1>1. PICK n \in Nat : n = Len(u)
  OBVIOUS
<1>2. PICK w : w = Image(u, F)
  OBVIOUS
<1>3. PICK S : (\A b \in A : F[b] \in S) /\ w \in Seq(S)
  BY <1>2, ImageFacts
<1>4. w \in Seq(S) /\ Len(w) = n /\ \A j \in 1 .. n : w[j] = F[u[j]]
  BY <1>1, <1>2, <1>3, ImageFacts
<1>5. PICK v : v = <<a>> \o u
  OBVIOUS
<1>6. /\ v \in Seq(A) /\ Len(v) = n + 1 /\ v[1] = a
      /\ \A j \in 2 .. n + 1 : v[j] = u[j - 1]
  BY <1>1, <1>5, PrependFacts
<1>7. PICK b \in S : b = F[a]
  BY <1>3
<1>8. PICK y : y = <<b>> \o w
  OBVIOUS
<1>9. /\ y \in Seq(S) /\ Len(y) = n + 1 /\ y[1] = b
      /\ \A j \in 2 .. n + 1 : y[j] = w[j - 1]
  <2>1. /\ y \in Seq(S) /\ Len(y) = Len(w) + 1 /\ y[1] = b
        /\ \A j \in 2 .. Len(w) + 1 : y[j] = w[j - 1]
    BY <1>4, <1>8, PrependFacts
  <2> QED
    BY <1>4, <2>1
<1>10. ASSUME NEW j \in 1 .. n + 1 PROVE F[v[j]] = y[j]
  <2>1. CASE j = 1
    BY <1>6, <1>7, <1>9, <2>1
  <2>2. CASE j # 1
    <3>1. j \in 2 .. n + 1 /\ j - 1 \in 1 .. n
      BY <1>1, <2>2
    <3> QED
      BY <1>4, <1>6, <1>9, <3>1
  <2> QED
    BY <2>1, <2>2
<1>11. Image(v, F) = [j \in 1 .. n + 1 |-> F[v[j]]]
  BY <1>6 DEF Image
<1>12. y = [j \in 1 .. n + 1 |-> y[j]]
  BY <1>9
<1>13. Image(v, F) = y
  BY <1>10, <1>11, <1>12
<1> QED
  BY <1>2, <1>5, <1>7, <1>8, <1>13

DeviceOf(called) == [x \in Addresses |-> [device |-> x, name |-> called[x]]]

DriverOf(owned, called) ==
  [d \in Addresses |-> [driver |-> d, devices |-> DevicesOf(owned[d], called)]]

LEMMA RegistryImages ==
  ASSUME NEW u \in Seq(Addresses), NEW owned, NEW called
  PROVE  /\ DevicesOf(u, called) = Image(u, DeviceOf(called))
         /\ RegistryOf(u, owned, called) = Image(u, DriverOf(owned, called))
<1>1. \A j \in 1 .. Len(u) : u[j] \in Addresses
  OBVIOUS
<1>2. \A j \in 1 .. Len(u) : DeviceOf(called)[u[j]] = [device |-> u[j], name |-> called[u[j]]]
  BY <1>1 DEF DeviceOf
<1>3. \A j \in 1 .. Len(u) :
        DriverOf(owned, called)[u[j]] = [driver |-> u[j], devices |-> DevicesOf(owned[u[j]], called)]
  BY <1>1 DEF DriverOf
<1>4. DevicesOf(u, called) = Image(u, DeviceOf(called))
  BY <1>2 DEF DevicesOf, Image
<1>5. RegistryOf(u, owned, called) = Image(u, DriverOf(owned, called))
  BY <1>3 DEF RegistryOf, Image
<1> QED
  BY <1>4, <1>5

(* Taking a device or a driver out of its chain takes it out of the        *)
(* registry, and putting it first puts it first.                           *)
Without(v, k) == SubSeq(v, 1, k - 1) \o SubSeq(v, k + 1, Len(v))
Put(a, u) == <<a>> \o u

LEMMA DevicesCut ==
  ASSUME NEW u \in Seq(Addresses), NEW called, NEW k \in 1 .. Len(u)
  PROVE  DevicesOf(Cut(u, k), called) = Without(DevicesOf(u, called), k)
<1>1. PICK F : F = DeviceOf(called)
  OBVIOUS
<1>2. PICK v : v = Image(u, F)
  OBVIOUS
<1>3. Len(v) = Len(u)
  BY <1>2, ImageFacts
<1>4. PICK S : v \in Seq(S)
  BY <1>2, ImageFacts
<1>5. Without(v, k) = Cut(v, k)
  BY <1>3, <1>4, RemoveAtCuts DEF Without
<1>6. Image(Cut(u, k), F) = Cut(v, k)
  BY <1>2, ImageCut
<1>7. Cut(u, k) \in Seq(Addresses)
  BY CutFacts
<1>8. DevicesOf(Cut(u, k), called) = Image(Cut(u, k), F) /\ DevicesOf(u, called) = v
  BY <1>1, <1>2, <1>7, RegistryImages
<1> QED
  BY <1>5, <1>6, <1>8

LEMMA DriversCut ==
  ASSUME NEW u \in Seq(Addresses), NEW owned, NEW called, NEW k \in 1 .. Len(u)
  PROVE  RegistryOf(Cut(u, k), owned, called) = Without(RegistryOf(u, owned, called), k)
<1>1. PICK F : F = DriverOf(owned, called)
  OBVIOUS
<1>2. PICK v : v = Image(u, F)
  OBVIOUS
<1>3. Len(v) = Len(u)
  BY <1>2, ImageFacts
<1>4. PICK S : v \in Seq(S)
  BY <1>2, ImageFacts
<1>5. Without(v, k) = Cut(v, k)
  BY <1>3, <1>4, RemoveAtCuts DEF Without
<1>6. Image(Cut(u, k), F) = Cut(v, k)
  BY <1>2, ImageCut
<1>7. Cut(u, k) \in Seq(Addresses)
  BY CutFacts
<1>8. RegistryOf(Cut(u, k), owned, called) = Image(Cut(u, k), F) /\ RegistryOf(u, owned, called) = v
  BY <1>1, <1>2, <1>7, RegistryImages
<1> QED
  BY <1>5, <1>6, <1>8

LEMMA DevicesPrepend ==
  ASSUME NEW u \in Seq(Addresses), NEW x \in Addresses, NEW called
  PROVE  DevicesOf(Put(x, u), called) = Put([device |-> x, name |-> called[x]], DevicesOf(u, called))
<1>1. PICK F : F = DeviceOf(called)
  OBVIOUS
<1>2. F[x] = [device |-> x, name |-> called[x]]
  BY <1>1 DEF DeviceOf
<1>3. PICK v \in Seq(Addresses) : v = Put(x, u)
  BY PrependFacts DEF Put
<1>4. Image(v, F) = Put(F[x], Image(u, F))
  BY <1>3, ImagePrepend DEF Put
<1>5. DevicesOf(u, called) = Image(u, F) /\ DevicesOf(v, called) = Image(v, F)
  BY <1>1, RegistryImages
<1> QED
  BY <1>2, <1>3, <1>4, <1>5

LEMMA DriversPrepend ==
  ASSUME NEW u \in Seq(Addresses), NEW d \in Addresses, NEW owned, NEW called
  PROVE  RegistryOf(Put(d, u), owned, called)
         = Put([driver |-> d, devices |-> DevicesOf(owned[d], called)], RegistryOf(u, owned, called))
<1>1. PICK F : F = DriverOf(owned, called)
  OBVIOUS
<1>2. F[d] = [driver |-> d, devices |-> DevicesOf(owned[d], called)]
  BY <1>1 DEF DriverOf
<1>3. PICK v \in Seq(Addresses) : v = Put(d, u)
  BY PrependFacts DEF Put
<1>4. Image(v, F) = Put(F[d], Image(u, F))
  BY <1>3, ImagePrepend DEF Put
<1>5. RegistryOf(u, owned, called) = Image(u, F) /\ RegistryOf(v, owned, called) = Image(v, F)
  BY <1>1, RegistryImages
<1> QED
  BY <1>2, <1>3, <1>4, <1>5
-----------------------------------------------------------------------------
(* Steps the registry does not see.                                        *)
LEMMA SameObjectsQuiet ==
  ASSUME UNCHANGED <<object, g_DriverList>>
  PROVE  Registered' = Registered
BY DEF Registered, Chain

LEMMA FreshQuiet ==
  ASSUME Shape, Shape', NEW s, NEW kind \in Kinds, Reach(Links, s), Sound(s, kind),
         Malloc, object' = [object EXCEPT ![Allocated] = Zeroed], g_DriverList' = g_DriverList
  PROVE  Registered' = Registered
<1>1. PICK t : Reach(Links', t)
  BY ReachExists DEF Shape
<1>2. PICK n : n = Allocated
  OBVIOUS
<1>3. \A p \in live : object'[p] = object[p]
  BY <1>1, <1>2, FreshView
<1>4. /\ s[g_DriverList] \subseteq live /\ s[g_DriverList] \subseteq AllDrivers(s)
      /\ \A d \in AllDrivers(s) : s[object[d].first] \subseteq live
  BY ListFacts DEF AllDrivers
<1> QED
  BY <1>3, <1>4, QuietRegistry

(* A driver that is being loaded owns nothing that is registered.          *)
LEMMA UnlistedApart ==
  ASSUME Shape, NEW s, NEW kind \in Kinds, Reach(Links, s), Sound(s, kind),
         pc \in {"vga_extension", "initialize", "add"}
  PROVE  /\ DriverObject \in AllDrivers(s) /\ DriverObject \in Addresses
         /\ DriverObject \notin s[g_DriverList]
         /\ \A d \in s[g_DriverList] :
              /\ d \in Addresses /\ d \in AllDrivers(s) /\ d # DriverObject
              /\ d \notin s[object[DriverObject].first]
              /\ \A x \in s[object[d].first] :
                   /\ x \in Addresses /\ Owns(s, d, x)
                   /\ x # DriverObject /\ x \notin s[object[DriverObject].first]
<1>1. DriverObject \in AllDrivers(s) /\ DriverObject \in Addresses
  BY ListFacts DEF AllDrivers, Sound, Progress
<1>2. DriverObject \notin s[g_DriverList]
  BY <1>1, HeapAssumption DEF Sound, Progress, Addresses
<1>3. ASSUME NEW d \in s[g_DriverList]
      PROVE  /\ d \in Addresses /\ d \in AllDrivers(s) /\ d # DriverObject
             /\ d \notin s[object[DriverObject].first]
             /\ \A x \in s[object[d].first] :
                  /\ x \in Addresses /\ Owns(s, d, x)
                  /\ x # DriverObject /\ x \notin s[object[DriverObject].first]
  <2>1. d \in Addresses /\ d \in AllDrivers(s) /\ d # DriverObject
    BY <1>2, ListFacts DEF AllDrivers
  <2>2. \A x \in s[object[d].first] : Owns(s, d, x)
    BY <2>1 DEF Owns
  <2>3. \A x \in s[object[DriverObject].first] : Owns(s, DriverObject, x)
    BY <1>1 DEF Owns
  <2> QED
    BY <1>1, <2>1, <2>2, <2>3, ListsApart
<1> QED
  BY <1>1, <1>2, <1>3

LEMMA LinkedNames ==
  ASSUME Shape, Device \in Addresses, DriverObject \in Addresses, DriverObject # Device,
         NEW n, NEW e, object' = Linked(n, e)
  PROVE  /\ object'[Device].name = n
         /\ \A p \in Addresses : p # Device => object'[p].name = object[p].name
<1>1. /\ object'[Device] = [object[Device] EXCEPT !.owner = DriverObject, !.name = n, !.extension = e,
                                                 !.next = object[DriverObject].first]
      /\ object'[DriverObject] = [object[DriverObject] EXCEPT !.first = Device]
      /\ \A p \in Addresses : p # Device /\ p # DriverObject => object'[p] = object[p]
  BY DEF Linked, Shape
<1>2. object[Device] \in Objects /\ object[DriverObject] \in Objects
  BY DEF Shape
<1>3. object'[Device].name = n /\ object'[DriverObject].name = object[DriverObject].name
  BY <1>1, <1>2 DEF Objects
<1> QED
  BY <1>1, <1>3

LEMMA LinkedQuiet ==
  ASSUME Shape, Shape', NEW s, NEW kind \in Kinds, Reach(Links, s), Sound(s, kind),
         pc = "vga_extension", NEW n \in Names \cup {NULL}, NEW e \in Ends, object' = Linked(n, e),
         g_DriverList' = g_DriverList
  PROVE  Registered' = Registered
<1>1. Pending
  BY DEF Pending
<1>2. /\ DriverObject \in Addresses /\ DriverObject # Device /\ Device \in Addresses
      /\ kind[Device] = "device"
      /\ \A d, x : Owns(s, d, x) => x # Device /\ x # DriverObject
      /\ \A p \in Addresses : p # Device => object'[p].next = object[p].next
      /\ \A p \in Addresses : p # DriverObject => object'[p].first = object[p].first
  BY <1>1, LinkedObjects
<1>3. \A p \in Addresses : p # Device => object'[p].name = object[p].name
  BY <1>2, LinkedNames
<1>4. \A d \in s[g_DriverList] :
        /\ d \in Addresses /\ d # DriverObject /\ d # Device
        /\ \A x \in s[object[d].first] : x \in Addresses /\ x # Device
  BY <1>2, UnlistedApart DEF Sound, Placed
<1> QED
  BY <1>2, <1>3, <1>4, QuietRegistry

LEMMA InitializedQuiet ==
  ASSUME Shape, Shape', NEW s, NEW kind \in Kinds, Reach(Links, s), Sound(s, kind),
         pc = "initialize", object' = [object EXCEPT ![DriverObject].unload = TRUE],
         g_DriverList' = g_DriverList
  PROVE  Registered' = Registered
<1>1. DriverObject \in Addresses
  BY UnlistedApart
<1>2. \A p \in Addresses : p # DriverObject => object'[p] = object[p]
  BY <1>1 DEF Shape
<1>3. \A d \in s[g_DriverList] :
        /\ d \in Addresses /\ d # DriverObject
        /\ \A x \in s[object[d].first] : x \in Addresses /\ x # DriverObject
  BY UnlistedApart
<1> QED
  BY <1>2, <1>3, QuietRegistry

LEMMA DeletedNames ==
  ASSUME Shape, NEW x \in Addresses, object[x].owner \in Addresses, DeleteDevice(x)
  PROVE  \A p \in Addresses : object'[p].name = object[p].name
<1>1. PICK d \in Addresses : d = object[x].owner
  OBVIOUS
<1>2. PICK r : r = Relinked(object[d].first, x)
  OBVIOUS
<1>3. PICK g : object' = [r EXCEPT ![d].first = g]
  BY <1>1, <1>2 DEF DeleteDevice
<1>4. DOMAIN r = Addresses
  BY <1>2 DEF Relinked
<1>5. ASSUME NEW p \in Addresses PROVE r[p] \in Objects /\ r[p].name = object[p].name
  <2>1. PICK o \in Objects : o = object[p]
    BY DEF Shape
  <2>2. PICK q \in Ends : q = object[x].next
    BY DEF Shape, Objects
  <2>3. r[p] = o \/ r[p] = [o EXCEPT !.next = q]
    BY <1>2, <2>1, <2>2 DEF Relinked
  <2>4. [o EXCEPT !.next = q] \in Objects /\ [o EXCEPT !.next = q].name = o.name
    BY DEF Objects
  <2> QED
    BY <2>1, <2>3, <2>4
<1>6. ASSUME NEW p \in Addresses PROVE object'[p].name = r[p].name
  <2>1. object'[p] = IF p = d THEN [r[p] EXCEPT !.first = g] ELSE r[p]
    BY <1>3, <1>4
  <2>2. [r[p] EXCEPT !.first = g].name = r[p].name
    BY <1>5 DEF Objects
  <2> QED
    BY <2>1, <2>2
<1> QED
  BY <1>5, <1>6

(* Deleting a device of d touches the chain of d only.                     *)
LEMMA DeletedElsewhere ==
  ASSUME Shape, NEW s, NEW kind \in Kinds, Reach(Links, s), Sound(s, kind), ~Pending,
         NEW d \in Addresses, NEW x \in Addresses, Owns(s, d, x), DeleteDevice(x)
  PROVE  /\ \A p \in Addresses : object'[p].name = object[p].name
         /\ \A p \in Addresses : p \notin s[object[d].first] => object'[p].next = object[p].next
         /\ \A p \in Addresses : p # d => object'[p].first = object[p].first
<1>1. /\ object[x].owner = d
      /\ Unlinked(Links, Links', s[object[d].first], x)
      /\ \A p \in Addresses : p # d => object'[p].first = object[p].first
  BY DeletedObjects
<1>2. \A p \in Addresses : Links[p] = object[p].next /\ Links'[p] = object'[p].next
  BY DEF Links, Addresses
<1>3. \A p \in Addresses : object'[p].name = object[p].name
  BY <1>1, DeletedNames
<1> QED
  BY <1>1, <1>2, <1>3 DEF Unlinked

LEMMA NotInitializedQuiet ==
  ASSUME Shape, Shape', NEW s, NEW kind \in Kinds, Reach(Links, s), Sound(s, kind),
         pc = "initialize", DeleteDevice(Device), g_DriverList' = g_DriverList
  PROVE  Registered' = Registered
<1>1. PICK d, x : d = DriverObject /\ x = Device
  OBVIOUS
<1>2. d \in AllDrivers(s) /\ d \in Addresses /\ object[d].first = x /\ x # NULL /\ ~Pending
  BY <1>1, UnlistedApart DEF Sound, Progress, Pending
<1>3. Owns(s, d, x) /\ x \in Addresses
  <2>1. x \in s[x] /\ x \in Addresses
    BY <1>1, <1>2, ReachStep DEF Ends, Shape
  <2> QED
    BY <1>2, <2>1 DEF Owns
<1>4. /\ \A p \in Addresses : object'[p].name = object[p].name
      /\ \A p \in Addresses : p \notin s[object[d].first] => object'[p].next = object[p].next
      /\ \A p \in Addresses : p # d => object'[p].first = object[p].first
  BY <1>1, <1>2, <1>3, DeletedElsewhere
<1>5. \A e \in s[g_DriverList] :
        /\ e \in Addresses /\ e # d /\ e \notin s[object[d].first]
        /\ \A y \in s[object[e].first] : y \in Addresses /\ y \notin s[object[d].first]
  BY <1>1, UnlistedApart
<1> QED
  BY <1>4, <1>5, QuietRegistry
-----------------------------------------------------------------------------
(* When one driver's devices change, so does one element of the registry.  *)
LEMMA RegistryPut ==
  ASSUME NEW u \in Seq(Addresses), NEW i \in 1 .. Len(u),
         NEW owned, NEW called, NEW owned2, NEW called2,
         \A j \in 1 .. Len(u) : j # i =>
           DevicesOf(owned2[u[j]], called2) = DevicesOf(owned[u[j]], called)
  PROVE  /\ i \in DOMAIN RegistryOf(u, owned, called)
         /\ RegistryOf(u, owned, called)[i].devices = DevicesOf(owned[u[i]], called)
         /\ RegistryOf(u, owned2, called2)
            = [RegistryOf(u, owned, called) EXCEPT ![i].devices = DevicesOf(owned2[u[i]], called2)]
<1>1. PICK r : r = RegistryOf(u, owned, called)
  OBVIOUS
<1>2. PICK z : z = RegistryOf(u, owned2, called2)
  OBVIOUS
<1>3. /\ r = [j \in 1 .. Len(u) |-> [driver |-> u[j], devices |-> DevicesOf(owned[u[j]], called)]]
      /\ z = [j \in 1 .. Len(u) |-> [driver |-> u[j], devices |-> DevicesOf(owned2[u[j]], called2)]]
  BY <1>1, <1>2 DEF RegistryOf
<1>4. /\ DOMAIN r = 1 .. Len(u) /\ r[i] = [driver |-> u[i], devices |-> DevicesOf(owned[u[i]], called)]
      /\ r[i].devices = DevicesOf(owned[u[i]], called)
  BY <1>3
<1>5. PICK y : y = [r EXCEPT ![i].devices = DevicesOf(owned2[u[i]], called2)]
  OBVIOUS
<1>6. DOMAIN y = 1 .. Len(u) /\ y = [j \in 1 .. Len(u) |-> y[j]]
  BY <1>4, <1>5
<1>7. ASSUME NEW j \in 1 .. Len(u)
      PROVE  y[j] = [driver |-> u[j], devices |-> DevicesOf(owned2[u[j]], called2)]
  <2>1. CASE j = i
    <3>1. y[i] = [r[i] EXCEPT !.devices = DevicesOf(owned2[u[i]], called2)]
      BY <1>4, <1>5
    <3> QED
      BY <1>4, <2>1, <3>1
  <2>2. CASE j # i
    BY <1>3, <1>4, <1>5, <2>2
  <2> QED
    BY <2>1, <2>2
<1>8. z = y
  BY <1>3, <1>6, <1>7
<1> QED
  BY <1>1, <1>2, <1>4, <1>5, <1>8

(* IoDeleteDevice, and the loop of IoDeleteDriver.                         *)
Removes == \E i \in DOMAIN Registered : \E k \in DOMAIN Registered[i].devices : Registry!RemoveDevice(i, k)

LEMMA DeletedMaps ==
  ASSUME Shape, Shape', NEW s, NEW kind \in Kinds, Reach(Links, s), Sound(s, kind), ~Pending,
         NEW d \in s[g_DriverList], NEW x \in s[object[d].first], DeleteDevice(x),
         g_DriverList' = g_DriverList
  PROVE  Removes
<1>1. /\ d \in Addresses /\ d \in AllDrivers(s) /\ x \in Addresses /\ Owns(s, d, x)
      /\ object[d].first \in Ends
  <2>1. d \in Addresses /\ d \in AllDrivers(s)
    BY ListFacts DEF AllDrivers
  <2> QED
    BY <2>1, ListsApart, ListFacts DEF Owns
<1>2. /\ \A p \in Addresses : object'[p].name = object[p].name
      /\ \A p \in Addresses : p \notin s[object[d].first] => object'[p].next = object[p].next
      /\ \A p \in Addresses : p # d => object'[p].first = object[p].first
      /\ Unlinked(Links, Links', s[object[d].first], x)
      /\ object'[d].first = IF object[d].first = x THEN object[x].next ELSE object[d].first
  BY <1>1, DeletedElsewhere, DeletedObjects
<1>3. Called' = Called
  BY <1>2 DEF Called, Addresses
<1>4. \A e \in s[g_DriverList] :
        /\ e \in Addresses /\ e \notin s[object[d].first]
        /\ e # d => \A y \in s[object[e].first] : y \in Addresses /\ y \notin s[object[d].first]
  <2>1. \A e \in s[g_DriverList] : e \in AllDrivers(s) /\ e \in Addresses
    BY ListFacts DEF AllDrivers
  <2>2. \A e \in s[g_DriverList] : \A y \in s[object[e].first] : Owns(s, e, y)
    BY <2>1 DEF Owns
  <2> QED
    BY <1>1, <2>1, <2>2, ListsApart
<1>5. Listed' = Listed
  BY <1>2, <1>4, KeptChains DEF Listed, Shape
<1>6. PICK u \in Seq(Addresses) : u = Listed
  BY RegistryFacts
<1>7. PICK i \in 1 .. Len(u) : u[i] = d
  BY <1>6, RegistryFacts DEF Holds
<1>8. PICK a, b : a = Owned /\ b = Owned'
  OBVIOUS
<1>9. ASSUME NEW j \in 1 .. Len(u), j # i PROVE b[u[j]] = a[u[j]]
  <2>1. PICK e : e = u[j] /\ e \in s[g_DriverList] /\ e # d
    BY <1>6, <1>7, <1>9, RegistryFacts DEF Distinct
  <2>2. Owned'[e] = Owned[e]
    BY <1>2, <1>4, <2>1, KeptOwned
  <2> QED
    BY <1>8, <2>1, <2>2
<1>10. PICK w \in Seq(Addresses) : w = a[d]
  BY <1>1, <1>8, RegistryFacts
<1>11. CutAt(w, b[d], x)
  <2>1. PICK h \in Ends : h = object[d].first
    BY <1>1
  <2>2. a[d] = Chains[h] /\ b[d] = Chains'[IF h = x THEN Links[x] ELSE h]
    BY <1>1, <1>2, <1>8, <2>1 DEF Owned, Links, Addresses
  <2> QED
    BY <1>2, <1>10, <2>1, <2>2, ChainsFollow, ChainsFollowNext, ChainsWithout DEF Shape
<1>12. PICK k \in 1 .. Len(w) : b[d] = Cut(w, k)
  BY <1>11 DEF CutAt
<1>13. PICK c : c = Called
  OBVIOUS
<1>14. PICK v : v = DevicesOf(w, c)
  OBVIOUS
<1>15. DevicesOf(Cut(w, k), c) = Without(v, k)
  BY <1>14, DevicesCut
<1>16. Registered = RegistryOf(u, a, c) /\ Registered' = RegistryOf(u, b, c)
  BY <1>3, <1>5, <1>6, <1>8, <1>13, RegisteredIs, RegisteredIsNext
<1>17. /\ i \in DOMAIN RegistryOf(u, a, c) /\ RegistryOf(u, a, c)[i].devices = DevicesOf(a[u[i]], c)
       /\ RegistryOf(u, b, c) = [RegistryOf(u, a, c) EXCEPT ![i].devices = DevicesOf(b[u[i]], c)]
  BY <1>9, RegistryPut
<1>18. /\ i \in DOMAIN Registered /\ Registered[i].devices = v /\ k \in DOMAIN v
       /\ Registered' = [Registered EXCEPT ![i].devices = Without(v, k)]
  <2>1. DOMAIN v = 1 .. Len(w)
    BY <1>14 DEF DevicesOf
  <2> QED
    BY <1>7, <1>10, <1>12, <1>14, <1>15, <1>16, <1>17, <2>1
<1>19. Registry!RemoveDevice(i, k)
  BY <1>18 DEF Registry!RemoveDevice, Registry!RemoveAt, Without
<1> QED
  BY <1>18, <1>19 DEF Removes

(* IoCreateDevice, of a driver in the list.                                *)
Adds == \E i \in DOMAIN Registered, y \in Registry!NewDevice : Registry!AddDevice(i, y)

(* What is in use are the drivers in the list and what they own.           *)
LEMMA InUseIs ==
  ASSUME Shape, NEW s, NEW kind \in Kinds, Reach(Links, s), Sound(s, kind)
  PROVE  \A p : p \in Registry!InUse =>
           p \in s[g_DriverList] \/ \E d \in s[g_DriverList] : p \in s[object[d].first]
<1>1. PICK u \in Seq(Addresses) : u = Listed
  BY RegistryFacts
<1>2. PICK a, c : a = Owned /\ c = Called
  OBVIOUS
<1>3. \A i \in 1 .. Len(u) : u[i] \in Addresses /\ u[i] \in s[g_DriverList]
  BY <1>1, RegistryFacts
<1>4. \A d \in Addresses : \A k \in 1 .. Len(a[d]) : a[d][k] \in s[object[d].first]
  BY <1>2, RegistryFacts
<1>5. PICK r : r = Registered
  OBVIOUS
<1>6. r = [i \in 1 .. Len(u) |-> [driver |-> u[i], devices |-> DevicesOf(a[u[i]], c)]]
  BY <1>1, <1>2, <1>5, RegisteredIs DEF RegistryOf
<1>7. \A i \in DOMAIN r : r[i].driver \in s[g_DriverList]
  BY <1>3, <1>6
<1>8. ASSUME NEW i \in DOMAIN r, NEW k \in DOMAIN r[i].devices
      PROVE  \E d \in s[g_DriverList] : r[i].devices[k].device \in s[object[d].first]
  <2>1. PICK d : d = u[i] /\ d \in Addresses /\ d \in s[g_DriverList] /\ r[i].devices = DevicesOf(a[d], c)
    BY <1>3, <1>6
  <2>2. PICK w : w = a[d]
    OBVIOUS
  <2>3. r[i].devices = [j \in 1 .. Len(w) |-> [device |-> w[j], name |-> c[w[j]]]]
    BY <2>1, <2>2 DEF DevicesOf
  <2>4. k \in 1 .. Len(w) /\ r[i].devices[k].device = w[k]
    BY <2>3
  <2> QED
    BY <1>4, <2>1, <2>2, <2>4
<1> QED
  BY <1>5, <1>7, <1>8 DEF Registry!InUse
-----------------------------------------------------------------------------
LEMMA LinkedMaps ==
  ASSUME Shape, Shape', NEW s, NEW kind \in Kinds, Reach(Links, s), Sound(s, kind),
         pc = "extension", NEW n \in Names \cup {NULL}, NEW e \in Ends, object' = Linked(n, e),
         g_DriverList' = g_DriverList
  PROVE  Adds
<1>1. PICK d, x : d = DriverObject /\ x = Device
  OBVIOUS
<1>2. /\ d \in Addresses /\ x \in Addresses /\ d # x /\ d \in s[g_DriverList] /\ kind[x] = "device"
      /\ \A c, y : Owns(s, c, y) => y # x /\ y # d
      /\ \A p \in Addresses : p # x => object'[p].next = object[p].next
      /\ \A p \in Addresses : p # d => object'[p].first = object[p].first
      /\ object'[x].next = object[d].first /\ object'[d].first = x
  <2>1. Pending /\ d \in s[g_DriverList]
    BY <1>1 DEF Pending, Sound, Progress
  <2> QED
    BY <1>1, <2>1, LinkedObjects
<1>3. object'[x].name = n /\ \A p \in Addresses : p # x => object'[p].name = object[p].name
  BY <1>1, <1>2, LinkedNames
<1>4. \A c \in s[g_DriverList] :
        /\ c \in Addresses /\ c # x
        /\ \A y \in s[object[c].first] : y \in Addresses /\ y # x
  <2>1. \A c \in s[g_DriverList] : c \in AllDrivers(s) /\ c \in Addresses /\ c # x
    BY <1>2, ListFacts DEF AllDrivers, Sound, Placed
  <2>2. \A c \in s[g_DriverList] : \A y \in s[object[c].first] : Owns(s, c, y)
    BY <2>1 DEF Owns
  <2> QED
    BY <1>2, <2>1, <2>2, ListsApart
<1>5. Listed' = Listed
  BY <1>2, <1>4, KeptChains DEF Listed, Shape
<1>6. PICK u \in Seq(Addresses) : u = Listed
  BY RegistryFacts
<1>7. PICK i \in 1 .. Len(u) : u[i] = d
  BY <1>2, <1>6, RegistryFacts DEF Holds
<1>8. PICK a, b : a = Owned /\ b = Owned'
  OBVIOUS
<1>9. PICK c, m : c = Called /\ m = Called'
  OBVIOUS
<1>10. ASSUME NEW j \in 1 .. Len(u), j # i PROVE DevicesOf(b[u[j]], m) = DevicesOf(a[u[j]], c)
  <2>1. PICK f : f = u[j] /\ f \in s[g_DriverList] /\ f # d
    BY <1>6, <1>7, <1>10, RegistryFacts DEF Distinct
  <2>2. Owned'[f] = Owned[f] /\ \A k \in 1 .. Len(Owned[f]) : Called'[Owned[f][k]] = Called[Owned[f][k]]
    BY <1>2, <1>3, <1>4, <2>1, KeptOwned
  <2> QED
    BY <1>8, <1>9, <2>1, <2>2, SameDevices
<1>11. PICK w \in Seq(Addresses) : w = a[d]
  BY <1>2, <1>8, RegistryFacts
<1>12. b[d] = <<x>> \o w
  <2>1. PICK h \in Ends : h = object[d].first /\ h = object'[x].next
    BY <1>2, RegistryFacts
  <2>2. a[d] = Chains[h] /\ b[d] = Chains'[x] /\ Links'[x] = h
    BY <1>2, <1>8, <2>1 DEF Owned, Links, Addresses
  <2>3. Chains'[h] = Chains[h]
    BY <1>2, <1>4, <2>1, KeptChains
  <2>4. Chains'[x] = <<x>> \o Chains'[Links'[x]]
    BY <1>2, ChainsFollowNext DEF Follows
  <2> QED
    BY <1>11, <2>2, <2>3, <2>4
<1>13. DevicesOf(w, m) = DevicesOf(w, c) /\ m[x] = n
  <2>1. \A p \in Addresses : c[p] = object[p].name /\ m[p] = object'[p].name
    BY <1>9 DEF Called, Addresses
  <2>2. \A k \in 1 .. Len(w) : w[k] \in Addresses /\ w[k] # x
    BY <1>2, <1>4, <1>8, <1>11, RegistryFacts
  <2>3. \A k \in 1 .. Len(w) : m[w[k]] = c[w[k]]
    BY <1>3, <2>1, <2>2
  <2> QED
    BY <1>2, <1>3, <2>1, <2>3, SameDevices
<1>14. DevicesOf(b[d], m) = <<[device |-> x, name |-> n]>> \o DevicesOf(w, c)
  <2>1. x \in Addresses
    BY <1>2
  <2>2. DevicesOf(Put(x, w), m) = Put([device |-> x, name |-> m[x]], DevicesOf(w, m))
    BY <2>1, DevicesPrepend
  <2> QED
    BY <1>12, <1>13, <2>2 DEF Put
<1>15. Registered = RegistryOf(u, a, c) /\ Registered' = RegistryOf(u, b, m)
  BY <1>5, <1>6, <1>8, <1>9, RegisteredIs, RegisteredIsNext
<1>16. /\ i \in DOMAIN RegistryOf(u, a, c) /\ RegistryOf(u, a, c)[i].devices = DevicesOf(a[u[i]], c)
       /\ RegistryOf(u, b, m) = [RegistryOf(u, a, c) EXCEPT ![i].devices = DevicesOf(b[u[i]], m)]
  BY <1>10, RegistryPut
<1>17. PICK y \in Registry!NewDevice : y = [device |-> x, name |-> n]
  BY <1>2 DEF Registry!NewDevice
<1>18. /\ i \in DOMAIN Registered
       /\ Registered' = [Registered EXCEPT ![i].devices = <<y>> \o @]
  BY <1>7, <1>11, <1>14, <1>15, <1>16, <1>17
<1>19. y.device \notin Registry!InUse
  BY <1>4, <1>17, InUseIs
<1> QED
  BY <1>18, <1>19 DEF Adds, Registry!AddDevice

(* The end of IoCreateDriver.                                              *)
Loads == \E d \in Addresses, y \in Registry!NewDevice : Registry!Load(d, y)

LEMMA AddDriverMaps ==
  ASSUME Shape, Shape', NEW s, NEW kind \in Kinds, Reach(Links, s), Sound(s, kind), AddDriver
  PROVE  Loads
<1>1. PICK d, x : d = DriverObject /\ x = Device
  OBVIOUS
<1>2. /\ pc = "add" /\ object' = [object EXCEPT ![d].next = g_DriverList] /\ g_DriverList' = d
      /\ d \in Addresses /\ d \in AllDrivers(s) /\ d \notin s[g_DriverList]
      /\ object[d].first = x /\ x # NULL /\ x \in Addresses /\ object[x].next = NULL
      /\ x \in s[x] /\ Owns(s, d, x) /\ x # d
  <2>1. /\ pc = "add" /\ object' = [object EXCEPT ![d].next = g_DriverList] /\ g_DriverList' = d
    BY <1>1 DEF AddDriver
  <2>2. d \in Addresses /\ d \in AllDrivers(s) /\ d \notin s[g_DriverList]
    BY <1>1, <2>1, UnlistedApart
  <2>3. object[d].first = x /\ x # NULL /\ x \in Addresses /\ object[x].next = NULL
    BY <1>1, <2>1 DEF Sound, Progress, Shape, Ends
  <2>4. x \in s[x]
    BY <2>3, ReachStep
  <2>5. Owns(s, d, x) /\ x # d
    BY <2>2, <2>3, <2>4, ListsApart DEF Owns
  <2> QED
    BY <2>1, <2>2, <2>3, <2>4, <2>5
<1>3. \A p \in Addresses :
        /\ object'[p].next = IF p = d THEN g_DriverList ELSE object[p].next
        /\ object'[p].first = object[p].first /\ object'[p].name = object[p].name
  <2> SUFFICES ASSUME NEW p \in Addresses
               PROVE  /\ object'[p].next = IF p = d THEN g_DriverList ELSE object[p].next
                      /\ object'[p].first = object[p].first /\ object'[p].name = object[p].name
    OBVIOUS
  <2>1. PICK o \in Objects : o = object[p]
    BY DEF Shape
  <2>2. object'[p] = IF p = d THEN [o EXCEPT !.next = g_DriverList] ELSE o
    BY <1>2, <2>1 DEF Shape
  <2> QED
    BY <2>1, <2>2 DEF Objects
<1>4. \A c \in s[g_DriverList] :
        /\ c \in Addresses /\ c # d /\ c # x
        /\ \A y \in s[object[c].first] : y \in Addresses /\ y # d /\ y # x
  BY <1>1, <1>2, UnlistedApart
<1>5. PICK u \in Seq(Addresses) : u = Listed
  BY RegistryFacts
<1>6. Listed' = Put(d, u)
  <2>1. PICK h \in Ends : h = g_DriverList
    BY DEF Shape
  <2>2. Chains'[h] = Chains[h]
    BY <1>3, <1>4, <2>1, KeptChains
  <2>3. Chains'[d] = <<d>> \o Chains'[h]
    BY <1>2, <1>3, <2>1, ChainsFollowNext DEF Follows, Links, Addresses
  <2> QED
    BY <1>2, <1>5, <2>1, <2>2, <2>3 DEF Listed, Put
<1>7. PICK a, b : a = Owned /\ b = Owned'
  OBVIOUS
<1>8. PICK c : c = Called
  OBVIOUS
<1>9. Called' = c
  BY <1>3, <1>8 DEF Called, Addresses
<1>10. ASSUME NEW i \in 1 .. Len(u) PROVE b[u[i]] = a[u[i]]
  <2>1. PICK f : f = u[i] /\ f \in s[g_DriverList]
    BY <1>5, RegistryFacts
  <2>2. Owned'[f] = Owned[f]
    BY <1>3, <1>4, <2>1, KeptOwned
  <2> QED
    BY <1>7, <2>1, <2>2
<1>11. RegistryOf(u, b, c) = RegistryOf(u, a, c)
  <2>1. SameOwned(u, a, c, b, c)
    BY <1>10 DEF SameOwned
  <2> QED
    BY <2>1, SameRegistry
<1>12. b[d] = <<x>>
  <2>1. Chains'[x] = <<x>> \o Chains'[NULL] /\ Chains'[NULL] = <<>>
    BY <1>2, <1>3, ChainsFollowNext DEF Follows, Links, Addresses
  <2>2. b[d] = Chains'[x]
    BY <1>2, <1>3, <1>7 DEF Owned, Addresses
  <2>3. <<x>> \o <<>> = <<x>>
    OBVIOUS
  <2> QED
    BY <2>1, <2>2, <2>3
<1>13. PICK y \in Registry!NewDevice : y = [device |-> x, name |-> c[x]]
  BY <1>2, <1>8, RegistryFacts DEF Registry!NewDevice
<1>14. DevicesOf(<<x>>, c) = <<y>>
  BY <1>13 DEF DevicesOf
<1>15. RegistryOf(Put(d, u), b, c)
         = Put([driver |-> d, devices |-> DevicesOf(b[d], c)], RegistryOf(u, b, c))
  <2>1. d \in Addresses
    BY <1>2
  <2> QED
    BY <2>1, DriversPrepend
<1>16. Registered = RegistryOf(u, a, c) /\ Registered' = RegistryOf(Put(d, u), b, c)
  BY <1>5, <1>6, <1>7, <1>8, <1>9, RegisteredIs, RegisteredIsNext
<1>17. Registered' = <<[driver |-> d, devices |-> <<y>>]>> \o Registered
  BY <1>11, <1>12, <1>14, <1>15, <1>16 DEF Put
<1>18. d # y.device /\ {d, y.device} \cap Registry!InUse = {}
  BY <1>2, <1>4, <1>13, InUseIs
<1> QED
  BY <1>2, <1>17, <1>18 DEF Loads, Registry!Load
-----------------------------------------------------------------------------
(* IoDeleteDriver, when the devices are gone.                              *)
Unloads == \E i \in DOMAIN Registered : Registry!Unload(i)

LEMMA RemoveDriverMaps ==
  ASSUME Shape, Shape', NEW s, NEW kind \in Kinds, Reach(Links, s), Sound(s, kind), RemoveDriver
  PROVE  Unloads
<1>1. PICK d \in Addresses : d = DriverObject /\ d \in s[g_DriverList] /\ object[d].first = NULL
  BY ListFacts DEF RemoveDriver, Sound, Progress
<1>2. PICK h \in Ends : h = g_DriverList
  BY DEF Shape
<1>3. InList(h) = s[h]
  BY ChainFacts DEF InList
<1>4. /\ object' = Relinked(h, d)
      /\ g_DriverList' = IF h = d THEN object[d].next ELSE h
  BY <1>1, <1>2 DEF RemoveDriver, HeadWithout
<1>5. \A p \in Addresses :
        /\ object'[p].next = IF p \in s[h] /\ object[p].next = d THEN object[d].next ELSE object[p].next
        /\ object'[p].first = object[p].first /\ object'[p].name = object[p].name
  <2> SUFFICES ASSUME NEW p \in Addresses
               PROVE  /\ object'[p].next = IF p \in s[h] /\ object[p].next = d
                                           THEN object[d].next ELSE object[p].next
                      /\ object'[p].first = object[p].first /\ object'[p].name = object[p].name
    OBVIOUS
  <2>1. PICK o \in Objects : o = object[p]
    BY DEF Shape
  <2>2. object'[p] = IF p \in s[h] /\ o.next = d THEN [o EXCEPT !.next = object[d].next] ELSE o
    BY <1>3, <1>4, <2>1 DEF Relinked
  <2> QED
    BY <2>1, <2>2 DEF Objects
<1>6. Unlinked(Links, Links', s[h], d) /\ Links[d] = object[d].next
  BY <1>5 DEF Unlinked, Links, Addresses
<1>7. \A e \in s[g_DriverList] :
        e \in Addresses /\ \A x \in s[object[e].first] : x \in Addresses /\ x \notin s[h]
  <2>1. \A e \in s[g_DriverList] : e \in AllDrivers(s) /\ e \in Addresses
    BY ListFacts DEF AllDrivers
  <2>2. \A e \in s[g_DriverList] : \A x \in s[object[e].first] : Owns(s, e, x)
    BY <2>1 DEF Owns
  <2> QED
    BY <1>2, <2>1, <2>2, ListsApart DEF AllDrivers
<1>8. PICK u \in Seq(Addresses) : u = Listed
  BY RegistryFacts
<1>9. CutAt(u, Listed', d)
  <2>1. u = Chains[h] /\ Listed' = Chains'[IF h = d THEN Links[d] ELSE h]
    BY <1>2, <1>4, <1>6, <1>8 DEF Listed
  <2> QED
    BY <1>1, <1>2, <1>6, <2>1, ChainsFollow, ChainsFollowNext, ChainsWithout DEF Shape
<1>10. PICK i \in 1 .. Len(u) : u[i] = d /\ Listed' = Cut(u, i)
  BY <1>9 DEF CutAt
<1>11. PICK a, b : a = Owned /\ b = Owned'
  OBVIOUS
<1>12. PICK c : c = Called
  OBVIOUS
<1>13. Called' = c
  BY <1>5, <1>12 DEF Called, Addresses
<1>14. ASSUME NEW j \in 1 .. Len(u) PROVE b[u[j]] = a[u[j]]
  <2>1. PICK e : e = u[j] /\ e \in s[g_DriverList]
    BY <1>8, RegistryFacts
  <2>2. \A x \in s[object[e].first] : object'[x].next = object[x].next
    BY <1>5, <1>7, <2>1
  <2>3. Owned'[e] = Owned[e]
    BY <1>5, <1>7, <2>1, <2>2, KeptOwned
  <2> QED
    BY <1>11, <2>1, <2>3
<1>15. RegistryOf(u, b, c) = RegistryOf(u, a, c)
  <2>1. SameOwned(u, a, c, b, c)
    BY <1>14 DEF SameOwned
  <2> QED
    BY <2>1, SameRegistry
<1>16. PICK r : r = RegistryOf(u, a, c)
  OBVIOUS
<1>17. RegistryOf(Cut(u, i), b, c) = Without(r, i)
  BY <1>15, <1>16, DriversCut
<1>18. Registered = r /\ Registered' = RegistryOf(Cut(u, i), b, c)
  BY <1>8, <1>10, <1>11, <1>12, <1>13, <1>16, RegisteredIs, RegisteredIsNext
<1>19. i \in DOMAIN r /\ r[i].devices = <<>>
  <2>1. a[d] = <<>>
    BY <1>1, <1>11, ChainsFollow DEF Owned, Follows
  <2>2. i \in DOMAIN r /\ r[i].devices = DevicesOf(a[d], c)
    BY <1>10, <1>16 DEF RegistryOf
  <2>3. DevicesOf(<<>>, c) = <<>>
    BY DEF DevicesOf
  <2> QED
    BY <2>1, <2>2, <2>3
<1> QED
  BY <1>17, <1>18, <1>19 DEF Unloads, Registry!Unload, Registry!RemoveAt, Without

-----------------------------------------------------------------------------
(* The lookup.  A search goes down a chain to the first object of a set,   *)
(* and answers what is known of it.                                        *)
Searches(search, stop, answer) ==
  search = [p \in Ends |-> IF p = NULL THEN NULL
                           ELSE IF p \in stop THEN answer[p] ELSE search[object[p].next]]

First(u, stop, j) == j \in 1 .. Len(u) /\ u[j] \in stop /\ \A k \in 1 .. j - 1 : u[k] \notin stop

Finds(u, stop, answer, y) ==
  \/ y = NULL /\ \A j \in 1 .. Len(u) : u[j] \notin stop
  \/ \E j \in 1 .. Len(u) : First(u, stop, j) /\ y = answer[u[j]]

LEMMA FindsPrepend ==
  ASSUME NEW p \in Addresses, NEW u \in Seq(Addresses), NEW stop, NEW answer, NEW y,
         IF p \in stop THEN y = answer[p] ELSE Finds(u, stop, answer, y)
  PROVE  Finds(<<p>> \o u, stop, answer, y)
<1>1. PICK w : w = <<p>> \o u
  OBVIOUS
<1>2. /\ w \in Seq(Addresses) /\ Len(u) \in Nat /\ Len(w) = Len(u) + 1 /\ w[1] = p
      /\ \A j \in 1 .. Len(u) : w[j + 1] = u[j]
      /\ \A j \in 2 .. Len(u) + 1 : w[j] = u[j - 1]
  BY <1>1, PrependFacts
<1>3. CASE p \in stop
  <2>1. 1 \in 1 .. Len(w) /\ First(w, stop, 1)
    BY <1>2, <1>3 DEF First
  <2> QED
    BY <1>1, <1>2, <1>3, <2>1 DEF Finds
<1>4. CASE p \notin stop /\ y = NULL /\ \A j \in 1 .. Len(u) : u[j] \notin stop
  <2> SUFFICES ASSUME NEW j \in 1 .. Len(w) PROVE w[j] \notin stop
    BY <1>1, <1>4 DEF Finds
  <2>1. j = 1 \/ (j \in 2 .. Len(u) + 1 /\ j - 1 \in 1 .. Len(u))
    BY <1>2
  <2> QED
    BY <1>2, <1>4, <2>1
<1>5. CASE p \notin stop /\ \E j \in 1 .. Len(u) : First(u, stop, j) /\ y = answer[u[j]]
  <2>1. PICK j \in 1 .. Len(u) : First(u, stop, j) /\ y = answer[u[j]]
    BY <1>5
  <2>2. ASSUME NEW k \in 1 .. j PROVE w[k] \notin stop
    <3>1. k = 1 \/ (k \in 2 .. Len(u) + 1 /\ k - 1 \in 1 .. j - 1)
      BY <1>2
    <3> QED
      BY <1>2, <1>5, <2>1, <3>1 DEF First
  <2>3. j + 1 \in 1 .. Len(w) /\ w[j + 1] = u[j] /\ (j + 1) - 1 = j
    BY <1>2
  <2>4. First(w, stop, j + 1)
    BY <2>1, <2>2, <2>3 DEF First
  <2> QED
    BY <1>1, <2>1, <2>3, <2>4 DEF Finds
<1> QED
  BY <1>3, <1>4, <1>5 DEF Finds

LEMMA SearchFinds ==
  ASSUME Shape, NEW search, NEW stop, NEW answer, Searches(search, stop, answer)
  PROVE  \A p \in Ends : Finds(Chains[p], stop, answer, search[p])
<1> DEFINE T == {p \in Ends : Finds(Chains[p], stop, answer, search[p])}
<1>1. Follows(Links, Chains) /\ NULL \notin Addresses
  BY ChainsFollow, HeapAssumption DEF Addresses
<1>2. \A p \in Ends : Chains[p] \in Seq(Addresses)
  <2>1. PICK s : Reach(Links, s)
    BY ReachExists DEF Shape
  <2> QED
    BY <1>1, <2>1, ChainsTyped DEF Shape
<1>3. \A p \in Ends : search[p] = IF p = NULL THEN NULL
                                  ELSE IF p \in stop THEN answer[p] ELSE search[object[p].next]
  BY DEF Searches
<1>4. NULL \in T
  <2>1. Finds(<<>>, stop, answer, NULL)
    BY DEF Finds
  <2> QED
    BY <1>1, <1>3, <2>1 DEF Follows, Ends
<1>5. ASSUME NEW p \in Addresses, \A q \in Addresses : q < p => q \in T
      PROVE  p \in T
  <2>1. PICK n \in Ends : n = object[p].next /\ n = Links[p] /\ (n # NULL => n \in Addresses /\ n < p)
    BY DEF Shape, Descending, Links, Ends
  <2>2. n \in T
    BY <1>4, <1>5, <2>1
  <2>3. PICK u \in Seq(Addresses) : u = Chains[n]
    BY <1>2
  <2>4. Finds(u, stop, answer, search[n])
    BY <2>2, <2>3
  <2>5. search[p] = IF p \in stop THEN answer[p] ELSE search[n]
    BY <1>1, <1>3, <2>1 DEF Ends
  <2>6. Finds(<<p>> \o u, stop, answer, search[p])
    BY <2>4, <2>5, FindsPrepend
  <2>7. Chains[p] = <<p>> \o u
    BY <1>1, <2>1, <2>3 DEF Follows
  <2> QED
    BY <2>6, <2>7 DEF Ends
<1>6. Ends \subseteq T
  <2> HIDE DEF T
  <2> QED
    BY <1>4, <1>5, OlderFirst
<1> QED
  BY <1>6
-----------------------------------------------------------------------------
(* There is one answer, and so the search is well defined.                 *)
LEMMA FindsOne ==
  ASSUME NEW u \in Seq(Addresses), NEW stop, NEW answer, NEW y, NEW z,
         Finds(u, stop, answer, y), Finds(u, stop, answer, z)
  PROVE  y = z
<1>1. ASSUME NEW i \in 1 .. Len(u), NEW j \in 1 .. Len(u), First(u, stop, i), First(u, stop, j)
      PROVE  i = j
  <2>1. ~(i < j) /\ ~(j < i)
    BY <1>1 DEF First
  <2> QED
    BY <2>1
<1>2. CASE \A j \in 1 .. Len(u) : u[j] \notin stop
  BY <1>2 DEF Finds, First
<1>3. CASE ~\A j \in 1 .. Len(u) : u[j] \notin stop
  <2>1. PICK i \in 1 .. Len(u) : First(u, stop, i) /\ y = answer[u[i]]
    BY <1>3 DEF Finds
  <2>2. PICK j \in 1 .. Len(u) : First(u, stop, j) /\ z = answer[u[j]]
    BY <1>3 DEF Finds
  <2> QED
    BY <1>1, <2>1, <2>2
<1> QED
  BY <1>2, <1>3

LEMMA FindsSome ==
  ASSUME NEW u \in Seq(Addresses), NEW stop, NEW answer
  PROVE  \E y : Finds(u, stop, answer, y)
<1>1. CASE \A j \in 1 .. Len(u) : u[j] \notin stop
  BY <1>1 DEF Finds
<1>2. CASE \E j \in 1 .. Len(u) : u[j] \in stop
  <2> DEFINE J == {j \in 1 .. Len(u) : u[j] \in stop}
  <2>1. J \in SUBSET Nat /\ J # {}
    BY <1>2
  <2>2. PICK j \in J : \A k \in J : j <= k
    <3> HIDE DEF J
    <3> QED
      BY <2>1, Smallest
  <2>3. j \in 1 .. Len(u) /\ u[j] \in stop
    OBVIOUS
  <2>4. \A k \in 1 .. j - 1 : k \in 1 .. Len(u) /\ ~(j <= k)
    BY <2>3
  <2>5. First(u, stop, j)
    BY <2>2, <2>3, <2>4 DEF First
  <2> QED
    BY <2>3, <2>5 DEF Finds
<1> QED
  BY <1>1, <1>2

LEMMA SearchExists ==
  ASSUME Shape, NEW stop, NEW answer
  PROVE  \E search : Searches(search, stop, answer)
<1> DEFINE search == [p \in Ends |-> CHOOSE y : Finds(Chains[p], stop, answer, y)]
<1>1. Follows(Links, Chains) /\ NULL \notin Addresses
  BY ChainsFollow, HeapAssumption DEF Addresses
<1>2. \A p \in Ends : Chains[p] \in Seq(Addresses)
  <2>1. PICK s : Reach(Links, s)
    BY ReachExists DEF Shape
  <2> QED
    BY <1>1, <2>1, ChainsTyped DEF Shape
<1>3. \A p \in Ends : Finds(Chains[p], stop, answer, search[p])
  <2> SUFFICES ASSUME NEW p \in Ends PROVE Finds(Chains[p], stop, answer, search[p])
    OBVIOUS
  <2>1. \E y : Finds(Chains[p], stop, answer, y)
    BY <1>2, FindsSome
  <2> QED
    BY <2>1
<1>4. search = [p \in Ends |-> search[p]]
  OBVIOUS
<1> HIDE DEF search
<1>5. ASSUME NEW p \in Ends
      PROVE  search[p] = IF p = NULL THEN NULL
                         ELSE IF p \in stop THEN answer[p] ELSE search[object[p].next]
  <2>1. CASE p = NULL
    <3>1. Finds(<<>>, stop, answer, search[NULL])
      BY <1>1, <1>3, <2>1 DEF Follows
    <3> QED
      BY <2>1, <3>1 DEF Finds
  <2>2. CASE p # NULL
    <3>1. PICK n \in Ends : n = object[p].next /\ n = Links[p] /\ p \in Addresses
      BY <2>2 DEF Shape, Descending, Links, Ends
    <3>2. PICK u \in Seq(Addresses) : u = Chains[n]
      BY <1>2
    <3>3. PICK y : y = IF p \in stop THEN answer[p] ELSE search[n]
      OBVIOUS
    <3>4. Finds(<<p>> \o u, stop, answer, y)
      <4>1. Finds(u, stop, answer, search[n])
        BY <1>3, <3>2
      <4> QED
        BY <3>1, <3>3, <4>1, FindsPrepend
    <3>5. Chains[p] = <<p>> \o u
      BY <1>1, <3>1, <3>2 DEF Follows
    <3>6. search[p] = y
      BY <1>2, <1>3, <3>4, <3>5, FindsOne
    <3> QED
      BY <2>2, <3>1, <3>3, <3>6
  <2> QED
    BY <2>1, <2>2
<1>6. Searches(search, stop, answer)
  BY <1>4, <1>5 DEF Searches
<1> QED
  BY <1>6

Named(n) == {x \in Addresses : object[x].name = n}
Itself == [x \in Addresses |-> x]

LEMMA FirstCalledFinds ==
  ASSUME Shape, NEW n, NEW d \in Addresses
  PROVE  Finds(Owned[d], Named(n), Itself, FirstCalled(n, d))
<1> DEFINE Calls(from) == from = [x \in Addresses \cup {NULL} |->
                                    IF x = NULL \/ object[x].name = n THEN x ELSE from[object[x].next]]
           c == CHOOSE from : Calls(from)
<1>1. NULL \notin Addresses
  BY HeapAssumption DEF Addresses
<1>2. ASSUME NEW from PROVE Calls(from) <=> Searches(from, Named(n), Itself)
  <2>1. ASSUME NEW x \in Ends
        PROVE  (IF x = NULL \/ object[x].name = n THEN x ELSE from[object[x].next])
               = IF x = NULL THEN NULL
                 ELSE IF x \in Named(n) THEN Itself[x] ELSE from[object[x].next]
    BY <1>1 DEF Named, Itself, Ends
  <2> QED
    BY <2>1 DEF Searches, Ends
<1>3. \E from : Calls(from)
  <2> HIDE DEF Calls
  <2> QED
    BY <1>2, SearchExists
<1>4. Calls(c)
  <2> HIDE DEF Calls
  <2> QED
    BY <1>3
<1>5. Searches(c, Named(n), Itself)
  <2> HIDE DEF Calls, c
  <2> QED
    BY <1>2, <1>4
<1>6. FirstCalled(n, d) = c[object[d].first]
  BY DEF FirstCalled
<1> HIDE DEF c
<1>7. object[d].first \in Ends /\ Owned[d] = Chains[object[d].first]
  BY DEF Owned, Shape, Objects
<1> QED
  BY <1>5, <1>6, <1>7, SearchFinds

Answering(n) == {d \in Addresses : FirstCalled(n, d) # NULL}
Answers(n) == [d \in Addresses |-> FirstCalled(n, d)]

LEMMA FoundFinds ==
  ASSUME Shape, NEW n
  PROVE  Finds(Listed, Answering(n), Answers(n), Found(n))
<1> DEFINE Calls(from) == from = [d \in Addresses \cup {NULL} |->
                                    IF d = NULL THEN NULL
                                    ELSE IF FirstCalled(n, d) # NULL THEN FirstCalled(n, d)
                                    ELSE from[object[d].next]]
           c == CHOOSE from : Calls(from)
<1>1. NULL \notin Addresses
  BY HeapAssumption DEF Addresses
<1>2. ASSUME NEW from PROVE Calls(from) <=> Searches(from, Answering(n), Answers(n))
  <2>1. ASSUME NEW d \in Ends
        PROVE  (IF d = NULL THEN NULL
                ELSE IF FirstCalled(n, d) # NULL THEN FirstCalled(n, d) ELSE from[object[d].next])
               = IF d = NULL THEN NULL
                 ELSE IF d \in Answering(n) THEN Answers(n)[d] ELSE from[object[d].next]
    BY <1>1 DEF Answering, Answers, Ends
  <2> QED
    BY <2>1 DEF Searches, Ends
<1>3. \E from : Calls(from)
  <2> HIDE DEF Calls
  <2> QED
    BY <1>2, SearchExists
<1>4. Calls(c)
  <2> HIDE DEF Calls
  <2> QED
    BY <1>3
<1>5. Searches(c, Answering(n), Answers(n))
  <2> HIDE DEF Calls, c
  <2> QED
    BY <1>2, <1>4
<1>6. Found(n) = c[g_DriverList]
  BY DEF Found
<1> HIDE DEF c
<1> QED
  BY <1>5, <1>6, SearchFinds DEF Listed, Shape
-----------------------------------------------------------------------------
(* The places where devices called n are registered.                       *)
IsPlace(n, u, owned, i, k) ==
  i \in 1 .. Len(u) /\ k \in 1 .. Len(owned[u[i]]) /\ object[owned[u[i]][k]].name = n

LEMMA PlacesAre ==
  ASSUME Shape, NEW s, NEW kind \in Kinds, Reach(Links, s), Sound(s, kind), NEW n
  PROVE  /\ \A p \in Registry!Places(n) : /\ p = <<p[1], p[2]>>
                                          /\ IsPlace(n, Listed, Owned, p[1], p[2])
         /\ \A i, k : IsPlace(n, Listed, Owned, i, k) =>
              /\ <<i, k>> \in Registry!Places(n)
              /\ Registered[i].devices[k].device = Owned[Listed[i]][k]
<1>1. PICK r : r = Registered
  OBVIOUS
<1>2. PICK u, a : u = Listed /\ a = Owned
  OBVIOUS
<1>3. r = [i \in 1 .. Len(u) |-> [driver |-> u[i], devices |-> DevicesOf(a[u[i]], Called)]]
  BY <1>1, <1>2, RegisteredIs DEF RegistryOf
<1>4. ASSUME NEW i \in 1 .. Len(u)
      PROVE  /\ DOMAIN r[i].devices = 1 .. Len(a[u[i]])
             /\ \A k \in 1 .. Len(a[u[i]]) :
                  /\ r[i].devices[k].device = a[u[i]][k]
                  /\ r[i].devices[k].name = object[a[u[i]][k]].name
  <2>1. PICK w : w = a[u[i]]
    OBVIOUS
  <2>2. \A k \in 1 .. Len(w) : Called[w[k]] = object[w[k]].name
    BY <1>2, <2>1, RegistryFacts
  <2>3. r[i].devices = [k \in 1 .. Len(w) |-> [device |-> w[k], name |-> Called[w[k]]]]
    BY <1>3, <2>1 DEF DevicesOf
  <2> QED
    BY <2>1, <2>2, <2>3
<1>5. DOMAIN r = 1 .. Len(u)
  BY <1>3
<1>6. Registry!Places(n) =
        {p \in UNION {{i} \X DOMAIN r[i].devices : i \in DOMAIN r} : r[p[1]].devices[p[2]].name = n}
  BY <1>1 DEF Registry!Places
<1>7. ASSUME NEW p \in Registry!Places(n)
      PROVE  p = <<p[1], p[2]>> /\ IsPlace(n, u, a, p[1], p[2])
  <2>1. PICK i \in DOMAIN r : p \in {i} \X DOMAIN r[i].devices
    BY <1>6
  <2>2. p = <<p[1], p[2]>> /\ p[1] = i /\ p[2] \in DOMAIN r[i].devices /\ r[i].devices[p[2]].name = n
    BY <1>6, <2>1
  <2> QED
    BY <1>4, <1>5, <2>2 DEF IsPlace
<1>8. ASSUME NEW i, NEW k, IsPlace(n, u, a, i, k)
      PROVE  <<i, k>> \in Registry!Places(n) /\ r[i].devices[k].device = a[u[i]][k]
  <2>1. /\ i \in DOMAIN r /\ k \in DOMAIN r[i].devices
        /\ r[i].devices[k].name = n /\ r[i].devices[k].device = a[u[i]][k]
    BY <1>4, <1>5, <1>8 DEF IsPlace
  <2>2. <<i, k>> \in {i} \X DOMAIN r[i].devices
    BY <2>1
  <2> QED
    BY <1>6, <2>1, <2>2
<1> QED
  BY <1>1, <1>2, <1>7, <1>8

(* IoGetDeviceObjectPointer.                                               *)
LEMMA LookupMaps ==
  ASSUME Shape, NEW s, NEW kind \in Kinds, Reach(Links, s), Sound(s, kind), NEW n, found' = Found(n)
  PROVE  Registry!Lookup(n)
<1>1. PICK u \in Seq(Addresses) : u = Listed
  BY RegistryFacts
<1>2. PICK a : a = Owned
  OBVIOUS
<1>3. /\ NULL \notin Addresses /\ \A i \in 1 .. Len(u) : u[i] \in Addresses
      /\ \A d \in Addresses : a[d] \in Seq(Addresses) /\ \A k \in 1 .. Len(a[d]) : a[d][k] \in Addresses
  BY <1>1, <1>2, RegistryFacts, ListFacts
<1>4. ASSUME NEW d \in Addresses
      PROVE  \/ /\ FirstCalled(n, d) = NULL
                /\ \A k \in 1 .. Len(a[d]) : object[a[d][k]].name # n
             \/ \E k \in 1 .. Len(a[d]) :
                  /\ object[a[d][k]].name = n /\ FirstCalled(n, d) = a[d][k] /\ FirstCalled(n, d) # NULL
                  /\ \A j \in 1 .. k - 1 : object[a[d][j]].name # n
  <2>1. PICK w \in Seq(Addresses) : w = a[d]
    BY <1>3
  <2>2. Finds(w, Named(n), Itself, FirstCalled(n, d))
    BY <1>2, <2>1, FirstCalledFinds
  <2>3. \A k \in 1 .. Len(w) : /\ w[k] \in Named(n) <=> object[w[k]].name = n
                               /\ Itself[w[k]] = w[k] /\ w[k] # NULL
    BY <1>3 DEF Named, Itself
  <2>4. CASE FirstCalled(n, d) = NULL /\ \A k \in 1 .. Len(w) : w[k] \notin Named(n)
    BY <2>1, <2>3, <2>4
  <2>5. CASE \E k \in 1 .. Len(w) : First(w, Named(n), k) /\ FirstCalled(n, d) = Itself[w[k]]
    <3>1. PICK k \in 1 .. Len(w) : First(w, Named(n), k) /\ FirstCalled(n, d) = Itself[w[k]]
      BY <2>5
    <3>2. \A j \in 1 .. k - 1 : j \in 1 .. Len(w)
      OBVIOUS
    <3>3. object[w[k]].name = n /\ \A j \in 1 .. k - 1 : object[w[j]].name # n
      BY <2>3, <3>1, <3>2 DEF First
    <3> QED
      BY <2>1, <2>3, <3>1, <3>3
  <2> QED
    BY <2>2, <2>4, <2>5 DEF Finds
<1>5. Finds(u, Answering(n), Answers(n), Found(n))
  BY <1>1, FoundFinds
<1>6. \A i \in 1 .. Len(u) : /\ u[i] \in Answering(n) <=> FirstCalled(n, u[i]) # NULL
                             /\ Answers(n)[u[i]] = FirstCalled(n, u[i])
  BY <1>3 DEF Answering, Answers
<1>7. /\ \A p \in Registry!Places(n) : p = <<p[1], p[2]>> /\ IsPlace(n, u, a, p[1], p[2])
      /\ \A i, k : IsPlace(n, u, a, i, k) =>
           <<i, k>> \in Registry!Places(n) /\ Registered[i].devices[k].device = a[u[i]][k]
  BY <1>1, <1>2, PlacesAre
<1>8. \A i, k : IsPlace(n, u, a, i, k) => u[i] \in Answering(n)
  <2> SUFFICES ASSUME NEW i, NEW k, IsPlace(n, u, a, i, k) PROVE u[i] \in Answering(n)
    OBVIOUS
  <2>1. /\ i \in 1 .. Len(u) /\ u[i] \in Addresses
        /\ k \in 1 .. Len(a[u[i]]) /\ object[a[u[i]][k]].name = n
    BY <1>3 DEF IsPlace
  <2>2. FirstCalled(n, u[i]) # NULL
    BY <1>4, <2>1
  <2> QED
    BY <1>6, <2>1, <2>2
<1>9. CASE Found(n) = NULL /\ \A i \in 1 .. Len(u) : u[i] \notin Answering(n)
  <2>1. \A i, k : ~IsPlace(n, u, a, i, k)
    BY <1>8, <1>9 DEF IsPlace
  <2>2. Registry!Places(n) = {}
    BY <1>7, <2>1
  <2> QED
    BY <1>9, <2>2 DEF Registry!Lookup
<1>10. CASE \E i \in 1 .. Len(u) : First(u, Answering(n), i) /\ Found(n) = Answers(n)[u[i]]
  <2>1. PICK i \in 1 .. Len(u) : First(u, Answering(n), i) /\ Found(n) = Answers(n)[u[i]]
    BY <1>10
  <2>2. PICK d \in Addresses : d = u[i] /\ FirstCalled(n, d) # NULL /\ Found(n) = FirstCalled(n, d)
    BY <1>3, <1>6, <2>1 DEF First
  <2>3. PICK k \in 1 .. Len(a[d]) : /\ object[a[d][k]].name = n /\ FirstCalled(n, d) = a[d][k]
                                    /\ \A j \in 1 .. k - 1 : object[a[d][j]].name # n
    BY <1>4, <2>2
  <2>4. IsPlace(n, u, a, i, k)
    BY <2>2, <2>3 DEF IsPlace
  <2>5. PICK p : p = <<i, k>> /\ p \in Registry!Places(n)
    BY <1>7, <2>4
  <2>6. p[1] = i /\ p[2] = k /\ found' = Registered[p[1]].devices[p[2]].device
    BY <1>7, <2>2, <2>3, <2>4, <2>5
  <2>7. ASSUME NEW q \in Registry!Places(n) \ {p} PROVE Registry!Earlier(p, q)
    <3>1. q = <<q[1], q[2]>> /\ IsPlace(n, u, a, q[1], q[2]) /\ u[q[1]] \in Answering(n)
      BY <1>7, <1>8
    <3>2. q[1] \in 1 .. Len(u) /\ q[2] \in 1 .. Len(a[u[q[1]]]) /\ object[a[u[q[1]]][q[2]]].name = n
      BY <3>1 DEF IsPlace
    <3>3. q[1] \notin 1 .. i - 1
      BY <2>1, <3>1 DEF First
    <3>4. CASE q[1] = i
      <4>1. q[2] \in 1 .. Len(a[d]) /\ q[2] \notin 1 .. k - 1 /\ q[2] # k
        BY <2>2, <2>3, <2>5, <3>1, <3>2, <3>4
      <4>2. \A x \in 1 .. Len(a[d]) : x \notin 1 .. k - 1 /\ x # k => k < x
        OBVIOUS
      <4> QED
        BY <2>6, <3>4, <4>1, <4>2 DEF Registry!Earlier
    <3>5. CASE q[1] # i
      <4>1. \A x \in 1 .. Len(u) : x \notin 1 .. i - 1 /\ x # i => i < x
        OBVIOUS
      <4> QED
        BY <2>6, <3>2, <3>3, <3>5, <4>1 DEF Registry!Earlier
    <3> QED
      BY <3>4, <3>5
  <2> QED
    BY <2>5, <2>6, <2>7 DEF Registry!Lookup
<1> QED
  BY <1>5, <1>9, <1>10 DEF Finds

LEMMA RegistryInit == Init => Registry!Init
<1> SUFFICES ASSUME Init PROVE Registered = <<>> /\ found = NULL
  BY DEF Registry!Init
<1>1. Shape
  BY ListInit DEF ListInv
<1>2. Listed = <<>>
  BY <1>1, ChainsFollow DEF Listed, Follows, Init
<1>3. RegistryOf(<<>>, Owned, Called) = <<>>
  BY DEF RegistryOf
<1> QED
  BY <1>1, <1>2, <1>3, RegisteredIs DEF Init

LEMMA RegistryStep ==
  ASSUME ListInv, ListInv', [Next]_vars
  PROVE  [Registry!Next]_<<Registered, found>>
<1>1. PICK s, kind : Shape /\ Reach(Links, s) /\ kind \in Kinds /\ Sound(s, kind)
  BY DEF ListInv
<1>2. Shape'
  BY DEF ListInv
<1> DEFINE Seen == /\ UNCHANGED found
                   /\ UNCHANGED Registered \/ Loads \/ Adds \/ Removes \/ Unloads
<1>3. Seen => [Registry!Next]_<<Registered, found>>
  BY DEF Registry!Next, Loads, Adds, Removes, Unloads
<1>4. CASE IoInitSystem
  <2>1. UNCHANGED <<object, g_DriverList, found>>
    BY <1>1, <1>4 DEF IoInitSystem, FirstTime, lists, Sound, Progress
  <2> QED
    BY <2>1, SameObjectsQuiet
<1>5. CASE CreateDriver
  <2>1. \/ UNCHANGED <<object, g_DriverList>>
        \/ Malloc /\ object' = [object EXCEPT ![Allocated] = Zeroed] /\ g_DriverList' = g_DriverList
    BY <1>5 DEF CreateDriver
  <2>2. UNCHANGED Registered
    BY <1>1, <1>2, <2>1, SameObjectsQuiet, FreshQuiet
  <2> QED
    BY <1>5, <2>2 DEF CreateDriver
<1>6. CASE AllocateDevice
  <2>1. \/ UNCHANGED <<object, g_DriverList>>
        \/ Malloc /\ object' = [object EXCEPT ![Allocated] = Zeroed] /\ g_DriverList' = g_DriverList
    BY <1>6 DEF AllocateDevice
  <2>2. UNCHANGED Registered
    BY <1>1, <1>2, <2>1, SameObjectsQuiet, FreshQuiet
  <2> QED
    BY <1>6, <2>2 DEF AllocateDevice
<1>7. CASE Extend
  <2>1. UNCHANGED <<g_DriverList, found>> /\ VGA \in Names
    BY <1>7, HeapAssumption DEF Extend
  <2>2. Malloc => Allocated \in Ends
    BY <1>1, HeapAssumption DEF Shape, Malloc, HasRoom, Allocated, Addresses, Ends
  <2>3. \/ UNCHANGED object
        \/ \E n \in Names \cup {NULL}, e \in Ends :
             object' = Linked(n, e) /\ pc \in {"extension", "vga_extension"}
    BY <1>7, <2>1, <2>2 DEF Extend, Ends
  <2>4. UNCHANGED Registered \/ Adds
    BY <1>1, <1>2, <2>1, <2>3, SameObjectsQuiet, LinkedQuiet, LinkedMaps
  <2> QED
    BY <1>3, <2>1, <2>4
<1>8. CASE VgaInitializeDevice
  <2>1. UNCHANGED <<g_DriverList, found>> /\ pc = "initialize"
    BY <1>8 DEF VgaInitializeDevice
  <2>2. object' = [object EXCEPT ![DriverObject].unload = TRUE] \/ DeleteDevice(Device)
    BY <1>8 DEF VgaInitializeDevice
  <2>3. UNCHANGED Registered
    BY <1>1, <1>2, <2>1, <2>2, InitializedQuiet, NotInitializedQuiet
  <2> QED
    BY <2>1, <2>3
<1>9. CASE RefuseDriver \/ DeleteDriver \/ FreeDriver \/ UNCHANGED vars
  <2>1. UNCHANGED <<object, g_DriverList, found>>
    BY <1>9 DEF RefuseDriver, DeleteDriver, FreeDriver, vars, lists
  <2> QED
    BY <2>1, SameObjectsQuiet
<1>10. CASE AddDriver
  BY <1>1, <1>2, <1>10, <1>3, AddDriverMaps DEF AddDriver
<1>11. CASE IoDeleteDevice
  <2>1. PICK d \in Drivers : \E x \in Devices(d) : DeleteDevice(x)
    BY <1>11 DEF IoDeleteDevice
  <2>2. d \in s[g_DriverList] /\ Devices(d) = s[object[d].first] /\ ~Pending
    BY <1>1, <1>11, SoundChains DEF IoDeleteDevice, Pending
  <2>3. PICK x \in s[object[d].first] : DeleteDevice(x)
    BY <2>1, <2>2
  <2>4. UNCHANGED <<g_DriverList, found>>
    BY <1>11 DEF IoDeleteDevice
  <2>5. Removes
    BY <1>1, <1>2, <2>2, <2>3, <2>4, DeletedMaps
  <2> QED
    BY <1>3, <2>4, <2>5
<1>12. CASE DeleteDevices
  <2>1. /\ DeleteDevice(Device) /\ UNCHANGED <<g_DriverList, found>> /\ Device # NULL
        /\ pc = "devices" /\ ~Pending
    BY <1>1, <1>12 DEF DeleteDevices, Pending, Sound, Progress
  <2>2. PICK d, x : d = DriverObject /\ x = Device
    OBVIOUS
  <2>3. d \in s[g_DriverList] /\ x = object[d].first /\ x \in Addresses
    BY <1>1, <2>1, <2>2 DEF Sound, Progress, Shape, Ends
  <2>4. x \in s[object[d].first]
    BY <1>1, <2>3, ReachStep
  <2>5. Removes
    BY <1>1, <1>2, <2>1, <2>2, <2>3, <2>4, DeletedMaps
  <2> QED
    BY <1>3, <2>1, <2>5
<1>13. CASE RemoveDriver
  BY <1>1, <1>2, <1>13, <1>3, RemoveDriverMaps DEF RemoveDriver
<1>14. CASE IoGetDeviceObjectPointer
  <2>1. PICK n \in Names : found' = Found(n)
    BY <1>14 DEF IoGetDeviceObjectPointer
  <2>2. UNCHANGED Registered
    BY <1>14, SameObjectsQuiet DEF IoGetDeviceObjectPointer, lists
  <2>3. Registry!Lookup(n)
    BY <1>1, <2>1, LookupMaps
  <2> QED
    BY <2>2, <2>3 DEF Registry!Next
<1> QED
  BY <1>4, <1>5, <1>6, <1>7, <1>8, <1>9, <1>10, <1>11, <1>12, <1>13, <1>14 DEF Next

(* io_manager.c and device.c: drivers appear with their first device and   *)
(* disappear without any, devices are added and deleted one by one and one *)
(* at a time, no address is given out twice, and IoGetDeviceObjectPointer  *)
(* finds the newest driver's newest device of that name.                   *)
THEOREM IoManagerIsRegistry == Spec => ImplementsRegistry
<1>1. Init => Registry!Init
  BY RegistryInit
<1>2. ListInv /\ ListInv' /\ [Next]_vars => [Registry!Next]_<<Registered, found>>
  BY RegistryStep
<1> QED
  BY <1>1, <1>2, ListInvariance, PTL DEF Spec, ImplementsRegistry, Registry!Spec
=============================================================================
