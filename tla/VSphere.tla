------------------------------ MODULE VSphere -------------------------------
(***************************************************************************)
(* The VMware provider (internal/provider/vmware).  On vCenter DeployVM is *)
(* one clone task that carries every setting and the power-on.  A          *)
(* standalone ESXi host does not support it: there the template's disk is  *)
(* copied into a directory named after the machine, grown, registered with *)
(* its settings and powered on, one request after the other, and nothing   *)
(* is undone.  Requests may be refused or go through with their answer     *)
(* lost.  Sizes, placements and network adapters are left out.             *)
(***************************************************************************)
EXTENDS Naturals, FiniteSets

CONSTANTS
  Guests,       \* calls of DeployVM, and the machines they make
  OnHost,       \* those on a standalone host (esxiMode)
  GuestName(_), \* the name a call gives its machine
  MaxUses       \* bound: power operations and deletions by users

ASSUME VSphereAssumption == OnHost \subseteq Guests /\ MaxUses \in Nat

VARIABLES
  guest,        \* per call: its machine, and whose copy its disk is
  disks,        \* per name: the copies in the directory, grown or not
  flow,         \* per call: where DeployVM stands
  uses          \* operations of users so far
vsphereVars == <<guest, disks, flow, uses>>

GuestNames == {GuestName(g) : g \in Guests}
NoGuest == [power |-> "none", disk |-> {}, grown |-> FALSE, booted |-> FALSE]
NoDisk == [of |-> {}, grown |-> FALSE]
Exists(g) == guest[g].power # "none"
NameTaken(g) == \E h \in Guests : Exists(h) /\ GuestName(h) = GuestName(g)
File(g) == disks[GuestName(g)]
FlowTo(g, at) == flow' = [flow EXCEPT ![g] = at]
Fails(g) == FlowTo(g, "failed") /\ UNCHANGED <<guest, disks, uses>>

VSphereInit ==
  /\ guest = [g \in Guests |-> NoGuest]
  /\ disks = [n \in GuestNames |-> NoDisk]
  /\ flow = [g \in Guests |-> "place"]
  /\ uses = 0

-----------------------------------------------------------------------------
\* Every object the request names is looked up before anything is created.
ResolvePlacement(g) ==
  /\ flow[g] = "place"
  /\ FlowTo(g, IF g \in OnHost THEN "copy" ELSE "clone") \/ FlowTo(g, "failed")
  /\ UNCHANGED <<guest, disks, uses>>
Running(disk, grown) == [power |-> "on", disk |-> disk, grown |-> grown, booted |-> TRUE]
\* The clone has its own copy of the disk; a power-on that fails leaves it off.
CloneTask(g) ==
  /\ flow[g] = "clone"
  /\ \/ /\ ~NameTaken(g)
        /\ guest' = [guest EXCEPT ![g] = Running({g}, TRUE)]
        /\ FlowTo(g, "connectNICs") \/ FlowTo(g, "failed")
        /\ UNCHANGED <<disks, uses>>
     \/ /\ ~NameTaken(g)
        /\ guest' = [guest EXCEPT ![g] = [Running({g}, TRUE) EXCEPT !.power = "off", !.booted = FALSE]]
        /\ FlowTo(g, "failed") /\ UNCHANGED <<disks, uses>>
     \/ Fails(g)
\* Best effort: the machine is there and on.
EnsureClonedNICsConnected(g) ==
  /\ flow[g] = "connectNICs" /\ FlowTo(g, "ok")
  /\ UNCHANGED <<guest, disks, uses>>

\* A file that is there already is never overwritten; a copy that is refused
\* is tried again without a format.
Overwrites(g) == File(g) = NoDisk
CopyVirtualDisk(g) ==
  /\ flow[g] = "copy"
  /\ \/ /\ Overwrites(g)
        /\ disks' = [disks EXCEPT ![GuestName(g)] =
                       [of |-> File(g).of \cup {g}, grown |-> FALSE]]
        /\ FlowTo(g, "extend") \/ FlowTo(g, "failed")
        /\ UNCHANGED <<guest, uses>>
     \/ Fails(g)
\* Slip: an error is logged only.
ExtendVirtualDiskLogged(g) ==
  /\ flow[g] = "extend" /\ FlowTo(g, "register")
  /\ \/ disks' = [disks EXCEPT ![GuestName(g)].grown = TRUE]
     \/ UNCHANGED disks
  /\ UNCHANGED <<guest, uses>>
ExtendVirtualDisk(g) ==
  /\ flow[g] = "extend"
  /\ \/ /\ disks' = [disks EXCEPT ![GuestName(g)].grown = TRUE]
        /\ FlowTo(g, "register") \/ FlowTo(g, "failed")
        /\ UNCHANGED <<guest, uses>>
     \/ Fails(g)
\* The adapter is looked up, and the machine registered on the copied disk.
CreateVM(g) ==
  /\ flow[g] = "register"
  /\ \/ /\ guest' = [guest EXCEPT ![g] = [power |-> "off", disk |-> File(g).of,
                       grown |-> File(g).grown, booted |-> FALSE]]
        /\ FlowTo(g, "power") \/ FlowTo(g, "failed")
        /\ UNCHANGED <<disks, uses>>
     \/ Fails(g)
Powered(g) == [guest EXCEPT ![g].power = "on", ![g].booted = TRUE]
PowerOnCreated(g) ==
  /\ flow[g] = "power"
  /\ \/ guest' = Powered(g) /\ (FlowTo(g, "ok") \/ FlowTo(g, "partial"))
     \/ UNCHANGED guest /\ FlowTo(g, "partial")
  /\ UNCHANGED <<disks, uses>>

-----------------------------------------------------------------------------
\* Operations on machines that the service tracks.
Use(g) ==
  /\ uses < MaxUses /\ uses' = uses + 1
  /\ flow[g] \in {"ok", "partial"} /\ Exists(g)
Power(g, state) == guest' = [guest EXCEPT ![g].power = state]
PowerOnGuest(g) == Use(g) /\ guest' = Powered(g) /\ UNCHANGED <<disks, flow>>
\* A guest that cannot shut down within 90 s is switched off.
PowerOffGuest(g) ==
  /\ Use(g) /\ guest[g].power = "on" /\ Power(g, "off")
  /\ UNCHANGED <<disks, flow>>
SuspendGuest(g) ==
  /\ Use(g) /\ guest[g].power = "on" /\ Power(g, "paused")
  /\ UNCHANGED <<disks, flow>>
\* A machine is switched off and destroyed with its files; either request may
\* fail on its own.
DestroyGuest(g) ==
  /\ Use(g) /\ UNCHANGED flow
  /\ \/ /\ guest' = [guest EXCEPT ![g] = NoGuest]
        /\ disks' = [n \in GuestNames |-> IF g \in disks[n].of THEN NoDisk ELSE disks[n]]
     \/ Power(g, "off") /\ UNCHANGED disks

VSphereNext == \E g \in Guests :
  \/ ResolvePlacement(g) \/ CloneTask(g) \/ EnsureClonedNICsConnected(g)
  \/ CopyVirtualDisk(g) \/ ExtendVirtualDisk(g) \/ CreateVM(g) \/ PowerOnCreated(g)
  \/ PowerOnGuest(g) \/ PowerOffGuest(g) \/ SuspendGuest(g) \/ DestroyGuest(g)
VSphereSpec == VSphereInit /\ [][VSphereNext]_vsphereVars

-----------------------------------------------------------------------------
VSphereTypeOK ==
  /\ guest \in [Guests -> [power : {"none", "on", "off", "paused"}, disk : SUBSET Guests,
                           grown : BOOLEAN, booted : BOOLEAN]]
  /\ disks \in [GuestNames -> [of : SUBSET Guests, grown : BOOLEAN]]
  /\ flow \in [Guests -> {"place", "clone", "connectNICs", "copy", "extend", "register",
                          "power", "ok", "partial", "failed"}]
  /\ uses \in 0..MaxUses

GuestStage(g) ==
  IF ~Exists(g) THEN "absent"
  ELSE IF guest[g].disk # {g} THEN "wrong"
  ELSE IF guest[g].grown /\ guest[g].booted THEN "whole" ELSE "configured"
Promise == INSTANCE DeployContract WITH
  Deployments <- Guests,
  outcome <- [g \in Guests |-> IF flow[g] \in {"ok", "partial", "failed"} THEN flow[g] ELSE "none"],
  built <- [g \in Guests |-> GuestStage(g)]
\* DeployVM keeps the same word on vCenter and on a standalone host, where it
\* takes four requests: a success is powered on with the disk it asked for, a
\* partial machine is registered, and no machine runs on the disk that another
\* deployment of its name has copied (DeployVM, esxiDeployFallback).
VSphereKeepsContract == Promise!Spec
=============================================================================
