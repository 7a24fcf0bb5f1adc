--------------------------- MODULE DeviceRegistry ---------------------------
(***************************************************************************)
(* What the driver framework promises: drivers and their devices appear    *)
(* when they have been set up, disappear when they are deleted, and a      *)
(* device is found by its name, the newest driver's newest device first.   *)
(***************************************************************************)
EXTENDS Naturals, Sequences, SequencesExt

CONSTANTS Objects, Names, NULL

VARIABLES
  registered, \* the drivers, each with its devices, the newest first
  found       \* the answer to the last lookup

NewDevice == [device : Objects, name : Names \cup {NULL}]

InUse == {registered[i].driver : i \in DOMAIN registered}
         \cup UNION {{registered[i].devices[k].device : k \in DOMAIN registered[i].devices} :
                       i \in DOMAIN registered}

Init == registered = <<>> /\ found = NULL

Load(d, x) ==
  /\ d # x.device /\ {d, x.device} \cap InUse = {}
  /\ registered' = <<[driver |-> d, devices |-> <<x>>]>> \o registered

AddDevice(i, x) ==
  /\ x.device \notin InUse
  /\ registered' = [registered EXCEPT ![i].devices = <<x>> \o @]

RemoveDevice(i, k) == registered' = [registered EXCEPT ![i].devices = RemoveAt(@, k)]

Unload(i) ==
  /\ registered[i].devices = <<>>
  /\ registered' = RemoveAt(registered, i)

(* Places of the devices called n, and which of two is looked at first.    *)
Places(n) ==
  {p \in UNION {{i} \X DOMAIN registered[i].devices : i \in DOMAIN registered} :
     registered[p[1]].devices[p[2]].name = n}

Earlier(p, q) == p[1] < q[1] \/ (p[1] = q[1] /\ p[2] < q[2])

Lookup(n) ==
  \/ Places(n) = {} /\ found' = NULL
  \/ \E p \in Places(n) :
       /\ \A q \in Places(n) \ {p} : Earlier(p, q)
       /\ found' = registered[p[1]].devices[p[2]].device

Next ==
  \/ /\ \/ \E d \in Objects, x \in NewDevice : Load(d, x)
        \/ \E i \in DOMAIN registered :
             \/ \E x \in NewDevice : AddDevice(i, x)
             \/ \E k \in DOMAIN registered[i].devices : RemoveDevice(i, k)
             \/ Unload(i)
     /\ UNCHANGED found
  \/ \E n \in Names : Lookup(n) /\ UNCHANGED registered

Spec == Init /\ [][Next]_<<registered, found>>
=============================================================================
