----------------------------- MODULE IoManager -----------------------------
(***************************************************************************)
(* The driver framework: drivers/framework/io_manager.c and device.c, the  *)
(* entry and unload routines of the VGA driver (vga_driver.c) and the      *)
(* kernel heap they allocate from (lib/memory.c).                          *)
(*                                                                         *)
(* Calls are made one after the other: kernel_main initialises the system  *)
(* and loads the VGA driver, with interrupts off.  The other calls are     *)
(* those of io_manager.h, which nothing in the kernel makes yet.  A driver *)
(* is given by its entry routine, and there is one, so every driver is a   *)
(* VGA driver.  VgaInitializeDevice may fail: it returns a status and its  *)
(* caller is written for both, though the mode it asks for is always set.  *)
(*                                                                         *)
(* Every object takes one address of the heap: what the sizes decide is    *)
(* which malloc is the first to fail, and HEAP_SIZE decides that here.     *)
(***************************************************************************)
EXTENDS Naturals, Sequences, SequencesExt

CONSTANTS
  HEAP_SIZE,
  Names,  \* of devices
  VGA,    \* the one VgaDriverEntry gives
  NULL

ASSUME HeapAssumption == HEAP_SIZE \in Nat /\ VGA \in Names /\ NULL \notin Names \cup Nat

VARIABLES
  heap_current,  \* addresses handed out
  object,        \* what is at an address: a DRIVER_OBJECT, a DEVICE_OBJECT...
  g_DriverList, g_DriverCount, g_IoInitialized, g_VgaDevice,
  pc,                    \* where the call in progress is
  DriverObject, Device,  \* its variables
  found,         \* the device IoGetDeviceObjectPointer found last
  live           \* addresses allocated and not freed (an observer)

heap == <<heap_current, live>>
lists == <<object, g_DriverList, g_DriverCount, g_IoInitialized>>
call == <<pc, DriverObject, Device>>
vars == <<heap, lists, g_VgaDevice, call, found>>

Addresses == 1 .. HEAP_SIZE

(* Both kinds of object; memset clears every field.                        *)
Zeroed == [next |-> NULL, first |-> NULL, unload |-> FALSE,
           owner |-> NULL, extension |-> NULL, name |-> NULL]

(* heap_init and the initial values of the statics.                        *)
Init ==
  /\ heap_current = 0
  /\ object = [p \in Addresses |-> Zeroed]
  /\ g_DriverList = NULL
  /\ g_DriverCount = 0
  /\ g_IoInitialized = FALSE
  /\ g_VgaDevice = NULL
  /\ pc = "idle"
  /\ DriverObject = NULL
  /\ Device = NULL
  /\ found = NULL
  /\ live = {}

(* malloc, when there is room; free gives nothing back.                    *)
HasRoom == heap_current + 1 <= HEAP_SIZE

Allocated == heap_current + 1

Malloc ==
  /\ HasRoom
  /\ heap_current' = Allocated
  /\ live' = live \cup {Allocated}

NoMemory == ~HasRoom /\ UNCHANGED heap_current

Free(freed) == live' = live \ freed

(* The list that starts at head.                                           *)
Chain(head) ==
  LET from[p \in Addresses \cup {NULL}] ==
        IF p = NULL THEN <<>> ELSE <<p>> \o from[object[p].next]
  IN  from[head]

InList(head) == ToSet(Chain(head))

(* Removing x from the list that starts at head: whatever points at it     *)
(* points past it.                                                         *)
Relinked(head, x) ==
  [p \in Addresses |->
     IF p \in InList(head) /\ object[p].next = x
     THEN [object[p] EXCEPT !.next = object[x].next]
     ELSE object[p]]

HeadWithout(head, x) == IF head = x THEN object[x].next ELSE head

Drivers == InList(g_DriverList)
Devices(d) == InList(object[d].first)

-----------------------------------------------------------------------------
Return == pc' = "idle" /\ DriverObject' = NULL /\ Device' = NULL

Always == TRUE
FirstTime == ~g_IoInitialized

IoInitSystem ==
  /\ pc = "idle"
  /\ IF FirstTime
     THEN /\ g_DriverList' = NULL
          /\ g_DriverCount' = 0
          /\ g_IoInitialized' = TRUE
          /\ UNCHANGED object
     ELSE UNCHANGED lists
  /\ UNCHANGED <<heap, g_VgaDevice, call, found>>

(* IoCreateDriver: the driver object, and on to VgaDriverEntry.            *)
CreateDriver ==
  /\ pc = "idle" /\ g_IoInitialized
  /\ \/ NoMemory /\ UNCHANGED <<live, object, call>>
     \/ /\ Malloc
        /\ object' = [object EXCEPT ![Allocated] = Zeroed]
        /\ DriverObject' = Allocated
        /\ pc' = "entry"
        /\ UNCHANGED Device
  /\ UNCHANGED <<g_DriverList, g_DriverCount, g_IoInitialized, g_VgaDevice, found>>

(* IoCreateDevice: the device, its extension, and the link.  VgaDriverEntry*)
(* goes on; a driver that is loaded returns.                               *)
AllocateDevice ==
  /\ pc = "entry" \/ (pc = "idle" /\ Drivers # {})
  /\ \/ /\ NoMemory
        /\ pc' = IF pc = "entry" THEN "refuse" ELSE "idle"
        /\ UNCHANGED <<live, object, DriverObject, Device>>
     \/ /\ Malloc
        /\ object' = [object EXCEPT ![Allocated] = Zeroed]
        /\ IF pc = "entry" THEN UNCHANGED DriverObject ELSE DriverObject' \in Drivers
        /\ Device' = Allocated
        /\ pc' = IF pc = "entry" THEN "vga_extension" ELSE "extension"
  /\ UNCHANGED <<g_DriverList, g_DriverCount, g_IoInitialized, g_VgaDevice, found>>

(* The device with its last fields set, at the head of the driver's list.  *)
Linked(n, extension) ==
  [object EXCEPT ![Device].owner = DriverObject,
                 ![Device].name = n,
                 ![Device].extension = extension,
                 ![Device].next = object[DriverObject].first,
                 ![DriverObject].first = Device]

Extend ==
  /\ pc \in {"extension", "vga_extension"}
  /\ \/ /\ NoMemory
        /\ Free({Device})
        /\ IF pc = "extension" THEN Return ELSE pc' = "refuse" /\ UNCHANGED <<DriverObject, Device>>
        /\ UNCHANGED object
     \/ /\ Malloc
        /\ IF pc = "extension"
           THEN \E n \in Names \cup {NULL} : object' = Linked(n, Allocated) /\ Return
           ELSE /\ object' = Linked(VGA, Allocated)
                /\ pc' = "initialize"
                /\ UNCHANGED <<DriverObject, Device>>
     \/ /\ pc = "extension" \* DeviceExtensionSize = 0
        /\ \E n \in Names \cup {NULL} : object' = Linked(n, NULL)
        /\ Return
        /\ UNCHANGED heap
  /\ UNCHANGED <<g_DriverList, g_DriverCount, g_IoInitialized, g_VgaDevice, found>>

(* IoDeleteDevice.                                                         *)
DeleteDeviceOnly(x) ==
  /\ object' = object
  /\ Free({x, object[x].extension})

DeleteDevice(x) ==
  LET d == object[x].owner IN
  /\ object' = [Relinked(object[d].first, x)
                  EXCEPT ![d].first = HeadWithout(object[d].first, x)]
  /\ Free({x, object[x].extension})

IoDeleteDevice ==
  /\ pc = "idle"
  /\ \E d \in Drivers : \E x \in Devices(d) : DeleteDevice(x)
  /\ UNCHANGED <<heap_current, g_DriverList, g_DriverCount, g_IoInitialized, g_VgaDevice, call, found>>

(* The rest of VgaDriverEntry, which publishes the device last.            *)
PublishedEarly(ok) == Device
Published(ok) == IF ok THEN Device ELSE g_VgaDevice

VgaInitializeDevice ==
  /\ pc = "initialize"
  /\ \E ok \in BOOLEAN :
       /\ g_VgaDevice' = Published(ok)
       /\ \/ /\ ok
             /\ object' = [object EXCEPT ![DriverObject].unload = TRUE]
             /\ pc' = "add"
             /\ UNCHANGED live
          \/ /\ ~ok
             /\ DeleteDevice(Device)
             /\ pc' = "refuse"
  /\ UNCHANGED <<heap_current, g_DriverList, g_DriverCount, g_IoInitialized, DriverObject, Device, found>>

(* The end of IoCreateDriver.                                              *)
RefuseDriver ==
  /\ pc = "refuse"
  /\ Free({DriverObject})
  /\ Return
  /\ UNCHANGED <<heap_current, lists, g_VgaDevice, found>>

AddDriver ==
  /\ pc = "add"
  /\ object' = [object EXCEPT ![DriverObject].next = g_DriverList]
  /\ g_DriverList' = DriverObject
  /\ g_DriverCount' = g_DriverCount + 1
  /\ Return
  /\ UNCHANGED <<heap, g_IoInitialized, g_VgaDevice, found>>

(* IoDeleteDriver: the devices, the driver's place in the list, the unload *)
(* routine, which goes through the devices that are left, and the driver.  *)
DeleteDriver ==
  /\ pc = "idle"
  /\ \E d \in Drivers : DriverObject' = d /\ Device' = object[d].first
  /\ pc' = "devices"
  /\ UNCHANGED <<heap, lists, g_VgaDevice, found>>

DeleteDevices ==
  /\ pc \in {"devices", "unload"} /\ Device # NULL
  /\ DeleteDevice(Device)
  /\ Device' = object[Device].next
  /\ UNCHANGED <<heap_current, g_DriverList, g_DriverCount, g_IoInitialized, g_VgaDevice, pc, DriverObject, found>>

RemoveDriver ==
  /\ pc = "devices" /\ Device = NULL
  /\ object' = Relinked(g_DriverList, DriverObject)
  /\ g_DriverList' = HeadWithout(g_DriverList, DriverObject)
  /\ g_DriverCount' = g_DriverCount - 1
  /\ pc' = "unload"
  /\ Device' = IF object[DriverObject].unload THEN object[DriverObject].first ELSE NULL
  /\ UNCHANGED <<heap, g_IoInitialized, g_VgaDevice, DriverObject, found>>

FreeDriver ==
  /\ pc = "unload" /\ Device = NULL
  /\ Free({DriverObject})
  /\ Return
  /\ UNCHANGED <<heap_current, lists, g_VgaDevice, found>>

(* IoGetDeviceObjectPointer: every device of every driver in turn.         *)
FirstCalled(n, d) ==
  LET from[x \in Addresses \cup {NULL}] ==
        IF x = NULL \/ object[x].name = n THEN x ELSE from[object[x].next]
  IN  from[object[d].first]

FoundInFirst(n) == IF g_DriverList = NULL THEN NULL ELSE FirstCalled(n, g_DriverList)

Found(n) ==
  LET from[d \in Addresses \cup {NULL}] ==
        IF d = NULL THEN NULL
        ELSE IF FirstCalled(n, d) # NULL THEN FirstCalled(n, d)
        ELSE from[object[d].next]
  IN  from[g_DriverList]

IoGetDeviceObjectPointer ==
  /\ pc = "idle"
  /\ \E n \in Names : found' = Found(n)
  /\ UNCHANGED <<heap, lists, g_VgaDevice, call>>

Next ==
  \/ IoInitSystem
  \/ CreateDriver \/ AllocateDevice \/ Extend \/ VgaInitializeDevice \/ RefuseDriver \/ AddDriver
  \/ IoDeleteDevice
  \/ DeleteDriver \/ DeleteDevices \/ RemoveDriver \/ FreeDriver
  \/ IoGetDeviceObjectPointer

Spec == Init /\ [][Next]_vars

-----------------------------------------------------------------------------
(* No list leads to a freed object, a device is in the list of the driver  *)
(* it names (IoDeleteDevice looks for it there), and the count is the      *)
(* length of the list, in the middle of every call too.                    *)
ListsSound ==
  /\ g_DriverCount = Len(Chain(g_DriverList))
  /\ Drivers \subseteq live
  /\ \A d \in Drivers : \A x \in Devices(d) :
       /\ object[x].owner = d
       /\ {x, object[x].extension} \subseteq live \cup {NULL}

(* Between calls, what is allocated is what the lists lead to: whichever   *)
(* malloc fails, and whether VgaInitializeDevice does, what was set up     *)
(* before is freed.                                                        *)
NothingLeaks ==
  pc = "idle" =>
    live = (UNION {{d} \cup UNION {{x, object[x].extension} : x \in Devices(d)} : d \in Drivers}) \ {NULL}

Creating == pc \in {"entry", "vga_extension", "initialize", "refuse"}

(* A driver that fails to load does not take the device of the screen      *)
(* away: g_VgaDevice is never what IoCreateDriver frees.                   *)
ScreenKeepsDevice == [][Creating => g_VgaDevice' \notin live \ live']_vars

(* Drivers appear whole and disappear device by device, and the lookup is  *)
(* the one of DeviceRegistry.                                              *)
Registered ==
  LET listed == Chain(g_DriverList) IN
  [i \in DOMAIN listed |->
     [driver |-> listed[i],
      devices |-> LET own == Chain(object[listed[i]].first) IN
                  [k \in DOMAIN own |-> [device |-> own[k], name |-> object[own[k]].name]]]]

Registry == INSTANCE DeviceRegistry WITH Objects <- Addresses, registered <- Registered

ImplementsRegistry == Registry!Spec
=============================================================================
