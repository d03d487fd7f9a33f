------------------------------ MODULE Proxmox -------------------------------
(***************************************************************************)
(* The Proxmox provider (internal/provider/proxmox): a deployment clones a *)
(* template, writes the hardware and then the cloud-init settings, grows   *)
(* the disk and starts the machine, each by a request of its own that may  *)
(* be refused, find the clone still locked, or go through with its answer  *)
(* lost; calls of users power machines, add adapters and remove them at    *)
(* the same time.  Machines are named by number, and Proxmox refuses to    *)
(* clone into a number that is taken.  Polling, nodes and the renewal of   *)
(* the session are part of a request; sizes and addresses are left out.    *)
(***************************************************************************)
EXTENDS Naturals, FiniteSets

CONSTANTS
  Ids,          \* numbers of machines
  Deployments,  \* calls of DeployVM
  WithActions,  \* those that bring user data of their own (UserDataOverride)
  Name(_),      \* the name a deployment gives its machine
  Attempts,     \* attempts at a setting while the clone is locked (10 in the code)
  Slots,        \* numbers of network adapters (32 in the code)
  Callers,      \* calls of users on machines
  Nobody        \* no deployment, no caller

ASSUME ProxmoxAssumption ==
  /\ Attempts \in Nat \ {0} /\ Ids \subseteq Nat /\ Slots \subseteq Nat
  /\ WithActions \subseteq Deployments
  /\ Nobody \notin Deployments \cup Callers

VARIABLES
  machine,      \* per number: the machine, or NoMachine
  snippet,      \* per name: the deployment whose user data the file holds
  deploy,       \* per deployment: where it stands, its machine, attempts left, whether cancelled
  call          \* per call of a user: where it stands, its machine, the slot it chose
proxmoxVars == <<machine, snippet, deploy, call>>

Names == {Name(d) : d \in Deployments}
NoMachine == [there |-> FALSE]
Clone(d) == [there |-> TRUE, of |-> d, locked |-> TRUE, hardware |-> Nobody,
  cloudInit |-> Nobody, grown |-> FALSE, power |-> "off", booted |-> Nobody,
  adapters |-> [s \in Slots |-> Nobody]]
There(i) == machine[i].there
Made(d, i) == There(i) /\ machine[i].of = d
Change(i, field, value) == machine' = [machine EXCEPT ![i][field] = value]

Step(d) == deploy[d].at
DeployTo(d, at) == deploy' = [deploy EXCEPT ![d].at = at, ![d].tries = Attempts]
Id(d) == deploy[d].id
Over == {"none", "ok", "failed", "removed", "left", "partial"}
\* A request is sent unless the deployment's context has ended.
Sends(d) == ~deploy[d].cancelled

ProxmoxInit ==
  /\ machine = [i \in Ids |-> NoMachine]
  /\ snippet = [n \in Names |-> Nobody]
  /\ deploy = [d \in Deployments |->
       [at |-> "none", id |-> 0, tries |-> Attempts, cancelled |-> FALSE]]
  /\ call = [c \in Callers |-> [at |-> "none", id |-> 0, slot |-> 0]]

-----------------------------------------------------------------------------
\* The template is found and Proxmox names a free number, which it does not keep.
NextVMID(d) ==
  /\ Step(d) = "none"
  /\ \/ \E i \in Ids : ~There(i) /\ Sends(d) /\
          deploy' = [deploy EXCEPT ![d].at = "clone", ![d].id = i]
     \/ DeployTo(d, "failed")
  /\ UNCHANGED <<machine, snippet, call>>
\* A request may be answered, be refused, or take effect without an answer.
CloneVM(d) ==
  /\ Step(d) = "clone"
  /\ \/ /\ Sends(d) /\ ~There(Id(d))
        /\ machine' = [machine EXCEPT ![Id(d)] = Clone(d)]
        /\ DeployTo(d, "await") \/ DeployTo(d, "failed")
     \/ DeployTo(d, "failed") /\ UNCHANGED machine
  /\ UNCHANGED <<snippet, call>>
Cloned(i) == Change(i, "locked", FALSE)
\* Proxmox finishes the copy, or gives up and removes it.
TaskEnds(i) ==
  /\ There(i) /\ machine[i].locked
  /\ Cloned(i) \/ machine' = [machine EXCEPT ![i] = NoMachine]
  /\ UNCHANGED <<snippet, deploy, call>>
\* A poll fails, 300 of them are not enough, or the context ends: the deployment
\* fails, and the copy goes on.
AwaitTask(d) ==
  /\ Step(d) = "await"
  /\ \/ /\ Sends(d) /\ Made(d, Id(d)) /\ ~machine[Id(d)].locked
        /\ DeployTo(d, IF d \in WithActions THEN "snippet" ELSE "hardware")
     \/ DeployTo(d, "failed")
  /\ UNCHANGED <<machine, snippet, call>>
\* The user data goes over SSH, without the context, into a file named after
\* the machine.
UploadSnippet(d) ==
  /\ Step(d) = "snippet"
  /\ \/ /\ snippet' = [snippet EXCEPT ![Name(d)] = d]
        /\ DeployTo(d, "hardware")
     \/ DeployTo(d, "failed") /\ UNCHANGED snippet
  /\ UNCHANGED <<machine, call>>

\* Slip: an error is logged only.
ApplyVMConfigLogged(d, setting, next) ==
  /\ \/ /\ Sends(d) /\ There(Id(d))
        /\ Change(Id(d), setting, d) /\ DeployTo(d, next)
     \/ DeployTo(d, next) /\ UNCHANGED machine
  /\ UNCHANGED <<snippet, call>>
\* One group of settings: tried again while the clone is locked, given up at
\* once on any other error.
ApplyVMConfig(d, setting, next) ==
  /\ \/ /\ Sends(d) /\ There(Id(d))
        /\ Change(Id(d), setting, d)
        /\ DeployTo(d, next) \/ DeployTo(d, "rollback")
     \/ /\ Sends(d) /\ deploy[d].tries > 1
        /\ deploy' = [deploy EXCEPT ![d].tries = @ - 1] /\ UNCHANGED machine
     \/ DeployTo(d, "rollback") /\ UNCHANGED machine
  /\ UNCHANGED <<snippet, call>>
HardwareConfig(d) == Step(d) = "hardware" /\ ApplyVMConfig(d, "hardware", "cloudInit")
CloudInitConfig(d) == Step(d) = "cloudInit" /\ ApplyVMConfig(d, "cloudInit", "resize")

\* DeleteVM stops the machine at once and destroys it.
Destroyed(i) == [machine EXCEPT ![i] = NoMachine]
RollbackClone(d) ==
  /\ Step(d) = "rollback"
  /\ \/ /\ Sends(d) /\ There(Id(d))
        /\ machine' = Destroyed(Id(d))
        /\ DeployTo(d, "removed") \/ DeployTo(d, "left")
     \/ DeployTo(d, "left") /\ UNCHANGED machine
  /\ UNCHANGED <<snippet, call>>
ResizeDisk(d) ==
  /\ Step(d) = "resize"
  /\ \/ /\ Sends(d) /\ There(Id(d))
        /\ Change(Id(d), "grown", TRUE)
        /\ DeployTo(d, "start") \/ DeployTo(d, "partial")
     \/ DeployTo(d, "partial") /\ UNCHANGED machine
  /\ UNCHANGED <<snippet, call>>
\* A machine that starts runs the user data its settings name.
Booted(i) == [machine EXCEPT ![i].power = "on", ![i].booted =
  LET d == machine[i].cloudInit IN
    IF @ # Nobody THEN @ ELSE IF d \in WithActions THEN snippet[Name(d)] ELSE d]
StartVM(d) ==
  /\ Step(d) = "start"
  /\ \/ /\ Sends(d) /\ There(Id(d)) /\ machine' = Booted(Id(d))
        /\ DeployTo(d, "ok") \/ DeployTo(d, "partial")
     \/ DeployTo(d, "partial") /\ UNCHANGED machine
  /\ UNCHANGED <<snippet, call>>
\* The user cancels the deployment, or its deadline passes.
ContextEnds(d) ==
  /\ Step(d) \notin Over /\ Sends(d)
  /\ deploy' = [deploy EXCEPT ![d].cancelled = TRUE]
  /\ UNCHANGED <<machine, snippet, call>>

-----------------------------------------------------------------------------
\* Calls on machines that the inventory holds: those of ended deployments.
Tracked(i) == \E d \in Deployments : Made(d, i) /\ Step(d) \in {"ok", "partial"}
CallTo(c, at) == call' = [call EXCEPT ![c].at = at]
Begins(c, i, at) ==
  /\ call[c].at = "none" /\ Tracked(i)
  /\ call' = [call EXCEPT ![c] = [at |-> at, id |-> i, slot |-> 0]]
Called(c) == call[c].id
\* A suspended machine is resumed, for Proxmox refuses to start it.
PowerOn(c) ==
  /\ \E i \in Ids : /\ Begins(c, i, "done")
                    /\ machine' = IF machine[i].power = "paused"
                                    THEN [machine EXCEPT ![i].power = "on"] ELSE Booted(i)
  /\ UNCHANGED <<snippet, deploy>>
\* A guest that does not react to the shutdown is stopped.
PowerOff(c) ==
  /\ \E i \in Ids : Begins(c, i, "done") /\ Change(i, "power", "off")
  /\ UNCHANGED <<snippet, deploy>>
Suspend(c) ==
  /\ \E i \in Ids : Begins(c, i, "done") /\ machine[i].power = "on" /\ Change(i, "power", "paused")
  /\ UNCHANGED <<snippet, deploy>>
\* A reboot that fails becomes a stop and a start, and may end in between.
Restart(c) ==
  /\ \/ \E i \in Ids : Begins(c, i, "done") /\ machine[i].power = "on" /\ UNCHANGED machine
     \/ \E i \in Ids : Begins(c, i, "restart") /\ Change(i, "power", "off")
     \/ /\ call[c].at = "restart" /\ CallTo(c, "done")
        /\ \/ There(Called(c)) /\ machine' = Booted(Called(c))
           \/ UNCHANGED machine
  /\ UNCHANGED <<snippet, deploy>>
DeleteVM(c) ==
  /\ \E i \in Ids : Begins(c, i, "done") /\ machine' = Destroyed(i)
  /\ UNCHANGED <<snippet, deploy>>

\* An adapter is added in two requests: one reads the settings for the lowest
\* slot that is free, one writes that slot.  Disks are added the same way.
Free(i) == {s \in Slots : machine[i].adapters[s] = Nobody}
Lowest(i) == CHOOSE s \in Free(i) : \A t \in Free(i) : s <= t
NextFreeNetSlot(c) ==
  /\ \E i \in Ids : /\ Tracked(i) /\ call[c].at = "none" /\ Free(i) # {}
                    /\ call' = [call EXCEPT ![c] = [at |-> "slot", id |-> i, slot |-> Lowest(i)]]
  /\ UNCHANGED <<machine, snippet, deploy>>
Plug(c, what) == machine' = [machine EXCEPT ![Called(c)].adapters[call[c].slot] = what]
AddNIC(c) ==
  /\ call[c].at = "slot"
  /\ \/ There(Called(c)) /\ Plug(c, c) /\ (CallTo(c, "added") \/ CallTo(c, "unplug"))
     \/ CallTo(c, "done") /\ UNCHANGED machine
  /\ UNCHANGED <<snippet, deploy>>
\* A hot-plug that fails leaves the setting for the next boot; it is taken out.
RemovePending(c) ==
  /\ call[c].at = "unplug" /\ CallTo(c, "done")
  /\ \/ There(Called(c)) /\ Plug(c, Nobody)
     \/ UNCHANGED machine
  /\ UNCHANGED <<snippet, deploy>>

ProxmoxNext ==
  \/ \E d \in Deployments :
       \/ NextVMID(d) \/ CloneVM(d) \/ AwaitTask(d) \/ UploadSnippet(d) \/ HardwareConfig(d)
       \/ CloudInitConfig(d) \/ RollbackClone(d) \/ ResizeDisk(d) \/ StartVM(d) \/ ContextEnds(d)
  \/ \E i \in Ids : TaskEnds(i)
  \/ \E c \in Callers :
       \/ PowerOn(c) \/ PowerOff(c) \/ Suspend(c) \/ Restart(c) \/ DeleteVM(c)
       \/ NextFreeNetSlot(c) \/ AddNIC(c) \/ RemovePending(c)
ProxmoxSpec == ProxmoxInit /\ [][ProxmoxNext]_proxmoxVars

-----------------------------------------------------------------------------
Clones == [there : {TRUE}, of : Deployments, locked : BOOLEAN,
  hardware : Deployments \cup {Nobody}, cloudInit : Deployments \cup {Nobody},
  grown : BOOLEAN, power : {"off", "on", "paused"}, booted : Deployments \cup {Nobody},
  adapters : [Slots -> Callers \cup {Nobody}]]
ProxmoxTypeOK ==
  /\ machine \in [Ids -> Clones \cup {NoMachine}]
  /\ snippet \in [Names -> Deployments \cup {Nobody}]
  /\ deploy \in [Deployments -> [at : Over \cup {"clone", "await", "snippet", "hardware",
         "cloudInit", "rollback", "resize", "start"},
       id : Ids \cup {0}, tries : 1..Attempts, cancelled : BOOLEAN]]
  /\ call \in [Callers -> [at : {"none", "done", "restart", "slot", "added", "unplug"},
       id : Ids \cup {0}, slot : Slots \cup {0}]]

\* How far the machine of a deployment has come; settings or user data of
\* another deployment are no stage at all.
Stage(m, d) ==
  IF ~({m.hardware, m.cloudInit, m.booted} \subseteq {d, Nobody}) THEN "wrong"
  ELSE IF Nobody \in {m.hardware, m.cloudInit} THEN "raw"
  ELSE IF m.grown /\ m.booted = d THEN "whole" ELSE "configured"
Contract == INSTANCE DeployContract WITH
  outcome <- [d \in Deployments |->
    CASE Step(d) \in {"ok", "partial", "removed"} -> Step(d)
      [] Step(d) \in {"failed", "left"} -> "failed"
      [] OTHER -> "none"],
  built <- [d \in Deployments |->
    IF \E i \in Ids : Made(d, i) THEN Stage(machine[CHOOSE i \in Ids : Made(d, i)], d)
                                 ELSE "absent"]
\* DeployVM keeps its word: a success has its own hardware, cloud-init settings
\* and disk and has run its own user data, a partial machine was configured
\* before it was started, one reported removed is gone, and none ever gets
\* another's settings although numbers are reused and the snippet directory is
\* shared (DeployVM, rollbackClone, PartialDeployError).
ProxmoxKeepsContract == Contract!Spec
=============================================================================
