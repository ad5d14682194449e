---------------------------- MODULE NetworkChange ----------------------------
(* Changing the IPv4 settings: validation (network_manager.py), the privileged*)
(* helper (deploy/ptz-network-helper.py) and the NetworkManager profile.      *)
(*                                                                            *)
(* The web handler runs the helper and waits 30 s for it; a helper that takes *)
(* longer goes on. An operator runs it for a restore (scripts/                *)
(* restore_network_config.py). A helper is a sequence of nmcli calls, each of *)
(* which may fail. Settings are a method and an address; addresses have Width *)
(* bits.                                                                      *)
EXTENDS Integers

CONSTANTS
    Width,       \* bits of an address
    Addresses,   \* addresses an operator asks for
    Interfaces,  \* values of network.interface, a free text, and of the script's --interface
    Helpers,     \* helper processes that may run at a time
    MaxStarts    \* bound: helpers started

VARIABLES
    interface,   \* NetworkManagerBackend.interface, read when the web process starts
    profile,     \* settings of the connection profile
    active,      \* settings in use
    backup,      \* network-backup.json, or NoSettings
    helper,      \* what each helper does
    waiting,     \* the helper the web handler waits for, or 0
    answer,      \* the handler's last answer, and what it was asked for
    had,         \* all settings the profile ever had
    starts

vars == <<interface, profile, active, backup, helper, waiting, answer, had, starts>>
nm == <<interface, profile, active, had>>
web == <<waiting, answer, starts>>

NoSettings == [method |-> "none", address |-> 0]
Dhcp == [method |-> "auto", address |-> 0]
Static(address) == [method |-> "manual", address |-> address]
Idle == [pc |-> "idle", op |-> "apply", to |-> NoSettings, snapshot |-> NoSettings]

(* ------------------------------- validation ------------------------------- *)
AllAddresses == 0..(2^Width - 1)
HostPart(prefix) == 2^(Width - prefix)
NetworkOf(address, prefix) == address - (address % HostPart(prefix))
BroadcastOf(address, prefix) == NetworkOf(address, prefix) + HostPart(prefix) - 1

(* validate_static of the web process ... *)
WebAccepts(address, prefix, gateway) ==
    /\ prefix \in 0..Width
    /\ address # 0 /\ address # NetworkOf(address, prefix) /\ address # BroadcastOf(address, prefix)
    /\ gateway # 0 /\ NetworkOf(gateway, prefix) = NetworkOf(address, prefix)

AllowedInterfaces == {"eth0"}

(* Mutant: the helper refuses the first address after the network address. *)
HelperAcceptsFewer(i, address, prefix, gateway) ==
    /\ i \in AllowedInterfaces
    /\ prefix \in 0..Width
    /\ address \notin {NetworkOf(address, prefix), NetworkOf(address, prefix) + 1}
    /\ NetworkOf(gateway, prefix) = NetworkOf(address, prefix)

(* ... and validate of the helper. *)
HelperAccepts(i, address, prefix, gateway) ==
    /\ i \in AllowedInterfaces
    /\ prefix \in 0..Width
    /\ address \notin {NetworkOf(address, prefix), BroadcastOf(address, prefix)}
    /\ NetworkOf(gateway, prefix) = NetworkOf(address, prefix)

(* --------------------------------- helper --------------------------------- *)
Init ==
    /\ interface \in Interfaces
    /\ profile = Dhcp /\ active = Dhcp /\ backup = NoSettings
    /\ helper = [h \in Helpers |-> Idle]
    /\ waiting = 0 /\ answer = [status |-> "none", to |-> NoSettings]
    /\ had = {Dhcp} /\ starts = 0

Start(h, op, to, first) ==
    /\ helper[h].pc = "idle" /\ starts < MaxStarts
    /\ starts' = starts + 1
    /\ helper' = [helper EXCEPT ![h] = [pc |-> first, op |-> op, to |-> to, snapshot |-> NoSettings]]
    /\ UNCHANGED <<backup, nm>>

FirstStep(accepted, first) == IF accepted THEN first ELSE "refused"

(* The handler blocks the event loop until the helper ends. *)
Request(h) ==
    /\ waiting = 0 /\ waiting' = h
    /\ \/ Start(h, "apply", Dhcp, FirstStep(interface \in AllowedInterfaces, "method"))
       \/ \E address \in Addresses, prefix \in 0..Width, gateway \in AllAddresses :
            /\ WebAccepts(address, prefix, gateway)
            /\ Start(h, "apply", Static(address),
                     FirstStep(HelperAccepts(interface, address, prefix, gateway), "method"))
    /\ answer' = [status |-> "none", to |-> helper'[h].to]

Restore(h) ==
    /\ \E i \in Interfaces : Start(h, "restore", NoSettings, FirstStep(i \in AllowedInterfaces, "read"))
    /\ UNCHANGED <<waiting, answer>>

Goes(h, from, to) == helper[h].pc = from /\ helper' = [helper EXCEPT ![h].pc = to]

(* Mutant: the method is that of the device, not that of the profile. *)
MethodInUse == active.method

MethodShown == profile.method

(* snapshot reads one field after the other; save_backup replaces the file. *)
ReadMethod(h) ==
    /\ helper[h].pc = "method"
    /\ helper' = [helper EXCEPT ![h].pc = "address", ![h].snapshot.method = MethodShown]
    /\ UNCHANGED <<backup, nm, web>>

ReadAddress(h) ==
    /\ helper[h].pc = "address"
    /\ helper' = [helper EXCEPT ![h].pc = "save", ![h].snapshot.address = profile.address]
    /\ UNCHANGED <<backup, nm, web>>

SaveBackup(h) ==
    /\ Goes(h, "save", "modify")
    /\ backup' = helper[h].snapshot
    /\ UNCHANGED <<nm, web>>

BackupThere == backup # NoSettings

ReadBackup(h) ==
    /\ helper[h].pc = "read" /\ BackupThere
    /\ helper' = [helper EXCEPT ![h].pc = "modify", ![h].to = backup]
    /\ UNCHANGED <<backup, nm, web>>

(* Mutant: a change to DHCP leaves the static address in the profile. *)
ModifiedKeepsAddress(to) ==
    [method |-> to.method, address |-> IF to = Dhcp THEN profile.address ELSE to.address]

Modified(to) == to

Modify(h) ==
    /\ Goes(h, "modify", "up")
    /\ profile' = Modified(helper[h].to)
    /\ had' = had \cup {profile'}
    /\ UNCHANGED <<interface, active, backup, web>>

Up(h) ==
    /\ Goes(h, "up", "done")
    /\ active' = profile
    /\ UNCHANGED <<interface, profile, had, backup, web>>

(* Mutant: a failed activation is not reported. *)
FailedUnlessUp(h) == IF helper[h].pc = "up" THEN "done" ELSE "failed"

Failed(h) == "failed"

(* An nmcli call, or the reading of the backup, fails. *)
Fail(h) ==
    /\ helper[h].pc \notin {"idle", "refused", "done", "failed"}
    /\ helper' = [helper EXCEPT ![h].pc = Failed(h)]
    /\ UNCHANGED <<backup, nm, web>>

Exit(h) ==
    /\ helper[h].pc \in {"refused", "done", "failed"}
    /\ helper' = [helper EXCEPT ![h] = Idle]
    /\ IF waiting = h
       THEN waiting' = 0 /\ answer' = [answer EXCEPT !.status = IF helper[h].pc = "done" THEN "done" ELSE "failed"]
       ELSE UNCHANGED <<waiting, answer>>
    /\ UNCHANGED <<starts, backup, nm>>

(* subprocess.run gives up after 30 s. *)
TimeOut ==
    /\ waiting # 0
    /\ waiting' = 0 /\ answer' = [answer EXCEPT !.status = "failed"]
    /\ UNCHANGED <<helper, starts, backup, nm>>

(* The machine restarts: the profile is activated, and the web process starts *)
(* with the configuration as it then is.                                      *)
Reboot ==
    /\ active' = profile /\ interface' \in Interfaces
    /\ helper' = [h \in Helpers |-> Idle] /\ waiting' = 0
    /\ answer' = [status |-> "none", to |-> NoSettings]
    /\ UNCHANGED <<profile, had, backup, starts>>

Next ==
    \/ \E h \in Helpers :
         \/ Request(h) \/ Restore(h) \/ ReadMethod(h) \/ ReadAddress(h) \/ SaveBackup(h)
         \/ ReadBackup(h) \/ Modify(h) \/ Up(h) \/ Fail(h) \/ Exit(h)
    \/ TimeOut \/ Reboot

Spec == Init /\ [][Next]_vars

(* ------------------------------- properties ------------------------------- *)
TypeOK ==
    /\ profile \in had /\ active \in had
    /\ answer.status \in {"none", "done", "failed"} /\ waiting \in Helpers \cup {0}
    /\ \A h \in Helpers : helper[h].pc = "done" => helper[h].to # NoSettings

(* The two validations agree but for the interface: on one the helper allows, *)
(* it refuses no change asked for, and no address, subnet and gateway at all  *)
(* that the web process accepts.                                              *)
HelperAgrees ==
    /\ interface \in AllowedInterfaces =>
           \A h \in Helpers : helper[h].pc = "refused" => helper[h].op = "restore"
    /\ \A i \in AllowedInterfaces, address, gateway \in AllAddresses, prefix \in 0..Width :
           WebAccepts(address, prefix, gateway) => HelperAccepts(i, address, prefix, gateway)

(* Settings in use are DHCP without an address or an address that was asked   *)
(* for, also after failures, restores and reboots: no mixture of two.         *)
SettingsWhole == {profile, active} \subseteq {Dhcp} \cup {Static(a) : a \in Addresses}

(* When the handler reports success, the machine uses what was asked for. *)
AnswerIsReal == [][answer'.status = "done" /\ answer.status # "done" => active' = answer'.to]_vars

(* The backup never mixes two settings, whichever calls fail, while one       *)
(* helper runs at a time.                                                     *)
BackupWhole == backup \in had \cup {NoSettings}

(* Profile, device and backup hold whole settings, and those the web process  *)
(* accepted.                                                                  *)
NetworkInv ==
    /\ TypeOK
    /\ HelperAgrees
    /\ SettingsWhole
    /\ BackupWhole
==============================================================================
