------------------------------ MODULE CpacfPerf ------------------------------
(***************************************************************************)
(* The perf events of cpacfstatsd (cpacfstats/perf_crypto.c): one list     *)
(* entry per CPU with the file descriptors of its events, the state of     *)
(* every counter, and the thread that follows CPUs coming and going.       *)
(*                                                                         *)
(* What a function does while it holds rootmux is one step. The PAI events *)
(* of a CPU are opened, switched and read together, and stand for one      *)
(* descriptor per space; it is "none" as soon as one of them is missing.   *)
(***************************************************************************)
EXTENDS Integers, Sequences, FiniteSets

CONSTANTS
    Cpu,            \* the CPUs of the machine
    CpuMf,          \* the CPU-MF counters (DES_FUNCTIONS .. ECC_FUNCTIONS)
    OpenFails,      \* whether perf_event_open may fail for a CPU that is online
    StartupHotplug, \* whether CPUs come and go while the daemon starts
    MaxHotplug      \* bound: CPUs that come or go

PAI == {"PAI_USER", "PAI_KERNEL"}
Counter == CpuMf \cup PAI
State == {"DISABLED", "ENABLED", "UNSUPPORTED", "UNAUTHORIZED"}
Fd == {"none", "off", "on"}

ASSUME CounterAssumption ==
    /\ IsFiniteSet(CpuMf)
    /\ CpuMf \cap PAI = {}
    /\ {OpenFails, StartupHotplug} \subseteq BOOLEAN
    /\ MaxHotplug \in Nat

VARIABLES
    root,            \* the list of percpucounter entries
    ctr_state,
    enabledcounter,
    hotplugdetected,
    stoprequested,
    hotplugthread,   \* where hotplughandler is
    online,          \* the kernel: CPUs that are online,
    events,          \* uevents the monitor has not delivered,
    hotplugs         \* and how often a CPU came or went

counters == <<root, ctr_state, enabledcounter, hotplugdetected>>
kernel == <<online, events, hotplugs>>

Entry == [cpunum : Cpu, fds : [Counter -> Fd]]
Event == [action : {"online", "offline"}, cpunum : Cpu]

Enabled == {c \in Counter : ctr_state[c] = "ENABLED"}
Attached(cpu) == {k \in DOMAIN root : root[k].cpunum = cpu}
Supported(c) == ctr_state[c] \notin {"UNSUPPORTED", "UNAUTHORIZED"}

\* What perf_init finds: CPU-MF counters that are not authorized or not there,
\* PAI counters that are there or not.
InitialState(s) ==
    /\ s \in [Counter -> {"DISABLED", "UNSUPPORTED", "UNAUTHORIZED"}]
    /\ \/ \A c \in CpuMf : s[c] = "UNAUTHORIZED"
       \/ \A c \in CpuMf : s[c] # "UNAUTHORIZED"
    /\ s["PAI_USER"] = s["PAI_KERNEL"]
    /\ s["PAI_USER"] # "UNAUTHORIZED"

-----------------------------------------------------------------------------
(***************************************************************************)
(* Attaching and detaching a CPU.                                          *)
(***************************************************************************)

\* The events activatecpu opens: PAI_USER decides for both PAI spaces.
Opened == {c \in CpuMf : Supported(c)}
          \cup (IF ctr_state["PAI_USER"] # "UNSUPPORTED" THEN PAI ELSE {})

\* The sets of events that may turn out not to open. All do so for a CPU that
\* has gone meanwhile; the PAI spaces fail together.
FailedOpens(cpu) ==
    IF cpu \notin online THEN {Opened}
    ELSE {F \in SUBSET Opened : /\ F # {} => OpenFails
                                /\ F \cap PAI \in {{}, PAI}}

\* The descriptors that are missing then. The first PAI event that fails ends
\* the opening: a space may be complete, or almost, and marked all the same.
MissingFds(cpu, F) ==
    IF cpu \notin online THEN {F}
    ELSE {M \in SUBSET F : M \cap CpuMf = F \cap CpuMf}

opened_fd_StartsOff(c, M) == IF c \notin Opened \ M THEN "none" ELSE "off"

opened_fd(c, M) ==
    IF c \notin Opened \ M THEN "none"
    ELSE IF ctr_state[c] = "DISABLED" THEN "off" ELSE "on"

\* if (enabledcounter) hotplugdetected = 1;
report_hotplug == hotplugdetected \/ enabledcounter # 0

activatecpu(cpu, F) ==
    /\ \E M \in MissingFds(cpu, F) :
          root' = <<[cpunum |-> cpu, fds |-> [c \in Counter |-> opened_fd(c, M)]]>> \o root
    /\ ctr_state' = [c \in Counter |-> IF c \in F THEN "UNSUPPORTED" ELSE ctr_state[c]]
    /\ hotplugdetected' = report_hotplug
    /\ UNCHANGED enabledcounter

deactivatecpu_KeepsEntry(cpu) ==
    /\ hotplugdetected' = report_hotplug
    /\ UNCHANGED <<root, ctr_state, enabledcounter>>

\* findcpu: the entry that was added last is found first.
deactivatecpu(cpu) ==
    \/ Attached(cpu) = {} /\ UNCHANGED counters
    \/ \E found \in Attached(cpu) :
          /\ \A k \in Attached(cpu) : found <= k
          /\ root' = SubSeq(root, 1, found - 1) \o SubSeq(root, found + 1, Len(root))
          /\ hotplugdetected' = report_hotplug
          /\ UNCHANGED <<ctr_state, enabledcounter>>

-----------------------------------------------------------------------------
(***************************************************************************)
(* Operations on one counter. Complete(c) is their return code: an ioctl   *)
(* or a read fails on the descriptors that could not be opened.            *)
(***************************************************************************)

Complete(c) == \A k \in DOMAIN root : root[k].fds[c] # "none"

Switched(c, fd) ==
    [k \in DOMAIN root |->
        [cpunum |-> root[k].cpunum,
         fds |-> [e \in Counter |->
                     IF e = c /\ root[k].fds[e] # "none" THEN fd ELSE root[k].fds[e]]]]

perf_enable_ctr(c) ==
    /\ root' = Switched(c, "on")
    /\ ctr_state' = [ctr_state EXCEPT ![c] = "ENABLED"]
    /\ enabledcounter' = enabledcounter + 1
    /\ UNCHANGED hotplugdetected

perf_disable_ctr_ForgetsHotplug(c) ==
    /\ root' = Switched(c, "off")
    /\ ctr_state' = [ctr_state EXCEPT ![c] = "DISABLED"]
    /\ enabledcounter' = enabledcounter - 1
    /\ hotplugdetected' = FALSE

perf_disable_ctr(c) ==
    /\ root' = Switched(c, "off")
    /\ ctr_state' = [ctr_state EXCEPT ![c] = "DISABLED"]
    /\ enabledcounter' = enabledcounter - 1
    /\ hotplugdetected' = (hotplugdetected /\ enabledcounter' # 0)

-----------------------------------------------------------------------------
(***************************************************************************)
(* hotplughandler. "loop" is the test of stoprequested, "poll" the wait    *)
(* for an event; a signal makes poll return, unless it comes before the    *)
(* call.                                                                   *)
(***************************************************************************)

\* The monitor is set up and receives from now on, or udev is not available.
HotplugStart ==
    /\ hotplugthread = "start"
    /\ hotplugthread' \in {"loop", "closed"}
    /\ UNCHANGED <<counters, stoprequested, kernel>>

HotplugLoop ==
    /\ hotplugthread = "loop"
    /\ hotplugthread' = IF stoprequested THEN "closed" ELSE "poll"
    /\ UNCHANGED <<counters, stoprequested, kernel>>

HotplugEvent ==
    /\ hotplugthread = "poll"
    /\ events # <<>>
    /\ IF Head(events).action = "online"
       THEN \E F \in FailedOpens(Head(events).cpunum) : activatecpu(Head(events).cpunum, F)
       ELSE deactivatecpu(Head(events).cpunum)
    /\ events' = Tail(events)
    /\ hotplugthread' = "loop"
    /\ UNCHANGED <<stoprequested, online, hotplugs>>

HotplugThread == HotplugStart \/ HotplugLoop \/ HotplugEvent

Interrupted(pc) == IF pc = "poll" THEN {"poll", "loop"} ELSE {pc}

\* The kernel takes a CPU online or offline, and tells the monitor if it receives.
CpuChange(cpu) ==
    /\ hotplugs < MaxHotplug
    /\ StartupHotplug \/ hotplugthread \notin {"none", "start"}
    /\ hotplugs' = hotplugs + 1
    /\ \/ cpu \notin online /\ online' = online \cup {cpu}
       \/ online \ {cpu} # {} /\ cpu \in online /\ online' = online \ {cpu}
    /\ events' = IF hotplugthread \in {"loop", "poll"}
                 THEN Append(events, [action |-> IF cpu \in online THEN "offline" ELSE "online",
                                      cpunum |-> cpu])
                 ELSE events
    /\ UNCHANGED <<counters, stoprequested, hotplugthread>>

-----------------------------------------------------------------------------
(***************************************************************************)
(* Properties.                                                             *)
(***************************************************************************)

\* On every CPU that is attached, an event counts exactly when its counter is
\* enabled: a CPU that comes while counters are enabled starts counting
\* (activatecpu's pfm_event.disabled), and one switched later follows.
FdsFollowState ==
    \A k \in DOMAIN root : \A c \in Counter :
        root[k].fds[c] # "none" =>
            /\ ctr_state[c] = "ENABLED" => root[k].fds[c] = "on"
            /\ ctr_state[c] = "DISABLED" => root[k].fds[c] = "off"

\* enabledcounter covers every counter that is enabled, so the unsigned
\* decrement of perf_disable_ctr never wraps around and a change of CPUs is
\* never taken for one that happened with all counters disabled.
EnabledCovered == enabledcounter >= Cardinality(Enabled)

\* A change of the attached CPUs while a counter is enabled is reported by
\* hotplugdetected, and the report is kept until no counter is enabled.
AttachedCpus == [k \in DOMAIN root |-> root[k].cpunum]
HotplugReported ==
    [][/\ (AttachedCpus' # AttachedCpus /\ Enabled # {}) => hotplugdetected'
       /\ (hotplugdetected /\ ~hotplugdetected') => Enabled' = {}]_counters
=============================================================================
