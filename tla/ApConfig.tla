------------------------------ MODULE ApConfig ------------------------------
(***************************************************************************)
(* The configuration of AP queues for mediated devices: the mdevctl        *)
(* callout ap-check (ap_tools/ap-check.c) and the ap device type of chzdev *)
(* (zdev/src/ap.c), which share the lock, the conflict analysis and the    *)
(* readers of libap/ap.c.  The lock is LockSpec, what Lockfile implements. *)
(*                                                                         *)
(* A pid stands for all the commands that run under it, one after another. *)
(* A list of adapters or domains and a mask are both the set of their ids: *)
(* the lists are sorted and without duplicates wherever they are compared. *)
(* What is read and written while the lock is held, and by its holders     *)
(* only, is one step; the writes of a commit are one step each.            *)
(***************************************************************************)
EXTENDS Naturals, FiniteSets

CONSTANTS
    Mdevctl,  \* pids of mdevctl
    Chzdev,   \* pids of chzdev
    Mortal,   \* those that may be killed
    Mdev,     \* the uuids
    Adapter,
    Domain,
    Requests, \* the devices mdevctl is asked for
    ApInput,  \* what apmask may be set to with chzdev,
    AqInput,  \* and aqmask
    Scopes,   \* the configurations chzdev is called for
    Faults,   \* the writes of chzdev that may fail
    NONE

Pid == Mdevctl \cup Chzdev
Device == [manual : BOOLEAN, adapters : SUBSET Adapter, domains : SUBSET Domain,
           controls : SUBSET Domain]
Attr == {"apmask", "aqmask"}

\* The writes of a commit, and their order.
Writes == Attr \cup {"remove", "udev"}
Order == [apmask |-> 1, aqmask |-> 2, remove |-> 3, udev |-> 4]

\* An input is a list of ids, or a list of changes to the current mask.
Input(Id) == [assign : BOOLEAN, on : SUBSET Id, off : SUBSET Id]

ASSUME ApAssumption ==
    /\ Mdevctl \cap Chzdev = {}
    /\ NONE \notin Pid
    /\ NONE \notin Device
    /\ \A S \in SUBSET Adapter \cup SUBSET Domain : S # NONE
    /\ Requests \subseteq Device
    /\ ApInput \subseteq Input(Adapter)
    /\ AqInput \subseteq Input(Domain)
    /\ Scopes \subseteq SUBSET {"active", "persistent"}
    /\ Faults \subseteq Writes

VARIABLES
    holder, holding, alive, \* of the lock
    cfg,     \* mdevctl's configuration files
    active,  \* the mediated devices in sysfs
    apmask,  \* the masks in sysfs
    aqmask,
    udev,    \* the masks in 41-ap.rules
    pc,      \* where a process is
    req,     \* the command of an mdevctl
    masks    \* what a chzdev has read, or is about to write

lock == <<holder, holding, alive>>
persistent == <<cfg, udev>>
sysfs == <<active, apmask, aqmask>>
vars == <<lock, persistent, sysfs, pc, req, masks>>

Lock == INSTANCE LockSpec WITH Stale <- {}

Goto(p, l) == pc' = [pc EXCEPT ![p] = l]

-----------------------------------------------------------------------------
(***************************************************************************)
(* The conflict analysis. A device has the queues adapters x domains.      *)
(***************************************************************************)

Queues(A, D) == [adapters |-> A, domains |-> D]
Matrix(d) == Queues(d.adapters, d.domains)

find_apqn_conflicts(d, e) ==
    /\ d.adapters \cap e.adapters # {}
    /\ d.domains \cap e.domains # {}

\* A mask that the udev rule does not set has the value of sysfs.
ap_read_udev_masks ==
    Queues(IF udev.apmask = NONE THEN apmask ELSE udev.apmask,
           IF udev.aqmask = NONE THEN aqmask ELSE udev.aqmask)

Autostart(u) == cfg[u] # NONE /\ ~cfg[u].manual

check_other_mdevs_cfg(u, d) ==
    \A v \in Mdev \ {u} : Autostart(v) => ~find_apqn_conflicts(d, cfg[v])

check_other_mdevs_sysfs(u, d) ==
    \A v \in Mdev \ {u} : active[v] # NONE => ~find_apqn_conflicts(d, active[v])

ap_check_changes_MasksOnly(u, d) ==
    ~d.manual => ~find_apqn_conflicts(d, ap_read_udev_masks)

ap_check_changes(u, d) ==
    ~d.manual => /\ check_other_mdevs_cfg(u, d)
                 /\ ~find_apqn_conflicts(d, ap_read_udev_masks)

ap_check_active_MasksOnly(u, d) ==
    /\ d.domains = {} => d.controls = {}
    /\ ~find_apqn_conflicts(d, Queues(apmask, aqmask))

ap_check_active(u, d) ==
    /\ d.domains = {} => d.controls = {}
    /\ check_other_mdevs_sysfs(u, d)
    /\ ~find_apqn_conflicts(d, Queues(apmask, aqmask))

-----------------------------------------------------------------------------
(***************************************************************************)
(* mdevctl and its callouts. The pc is "lock" in ap_get_lock_callout,      *)
(* "check" when it has returned, "commit" when the PRE callout has ended,  *)
(* and "post" when mdevctl has made the change.                            *)
(***************************************************************************)

Action == {"define", "modify", "start", "stop", "undefine", "live", "attributes"}
HasDevice == {"define", "modify", "start", "live"}

\* The process ends, and another one follows.
Exit(p) ==
    /\ pc' = [pc EXCEPT ![p] = "idle"]
    /\ req' = [req EXCEPT ![p] = NONE]
    /\ masks' = [masks EXCEPT ![p] = NONE]

\* Whether the configuration file exists is tested before the lock is taken.
TestConfig(m, action, u) ==
    /\ pc[m] = "idle"
    /\ m \in alive
    /\ \/ action = "define" /\ cfg[u] = NONE
       \/ action = "modify" /\ cfg[u] # NONE
    /\ req' = [req EXCEPT ![m] = [action |-> action, uuid |-> u, dev |-> NONE]]
    /\ Goto(m, "lock")
    /\ UNCHANGED <<lock, persistent, sysfs, masks>>

\* The handlers first of all take the lock, and then read the device from stdin.
ap_get_lock_callout(m, action, u, d) ==
    /\ m \in alive
    /\ \/ pc[m] = "lock" /\ req[m].action = action /\ req[m].uuid = u
       \/ pc[m] = "idle" /\ action \notin {"define", "modify"}
    /\ (d # NONE) = (action \in HasDevice)
    /\ Lock!Acquire(m)
    /\ req' = [req EXCEPT ![m] = [action |-> action, uuid |-> u, dev |-> d]]
    /\ Goto(m, "check")
    /\ UNCHANGED <<persistent, sysfs, masks>>

\* All retries are used up, or the lock file cannot be created; or a chzdev has
\* nothing to write.
LockFails(p) ==
    /\ pc[p] \in {"lock", "settings"}
    /\ p \in alive
    /\ Exit(p)
    /\ UNCHANGED <<lock, persistent, sysfs>>

\* The conditions under which the handlers of PRE callouts return 0.
PreSucceeds(r) ==
    /\ r.action \in {"define", "modify", "start", "stop", "undefine"}
    /\ r.action \in {"define", "modify"} => ap_check_changes(r.uuid, r.dev)
    /\ r.action = "start" => ap_check_active(r.uuid, r.dev)
    /\ r.action = "undefine" => cfg[r.uuid] # NONE

\* The lock remains held until the POST callout. mdevctl may ask for the
\* attributes of the device it is defining meanwhile, depending on its version.
PreOk(m) ==
    /\ pc[m] = "check"
    /\ m \in alive
    /\ PreSucceeds(req[m])
    /\ \/ Goto(m, "commit")
       \/ req[m].action = "define" /\ Goto(m, "query")
    /\ UNCHANGED <<lock, persistent, sysfs, req, masks>>

PreFails_KeepsLock(m) ==
    /\ pc[m] = "check"
    /\ m \in alive
    /\ req[m].action \in {"define", "modify", "start", "undefine"}
    /\ Exit(m)
    /\ UNCHANGED <<lock, persistent, sysfs>>

\* A conflict, or a configuration that cannot be read: cleanup_lock is set.
PreFails(m) ==
    /\ pc[m] = "check"
    /\ m \in alive
    /\ req[m].action \in {"define", "modify", "start", "undefine"}
    /\ Lock!Release(m)
    /\ Exit(m)
    /\ UNCHANGED <<persistent, sysfs>>

\* The device takes the new masks, or refuses them.
ap_do_dynamic_config(u, d) ==
    \/ active' = [active EXCEPT ![u] = Matrix(d)]
    \/ UNCHANGED active

\* LIVE changes the device itself, if it is active and nothing conflicts. The
\* lock is given back in every case.
ap_check_handle_live_modify(m) ==
    /\ pc[m] = "check"
    /\ m \in alive
    /\ req[m].action = "live"
    /\ \/ /\ active[req[m].uuid] # NONE
          /\ ap_check_active(req[m].uuid, req[m].dev)
          /\ ap_do_dynamic_config(req[m].uuid, req[m].dev)
       \/ UNCHANGED active
    /\ Lock!Release(m)
    /\ Exit(m)
    /\ UNCHANGED <<persistent, apmask, aqmask>>

ap_check_handle_get_attributes(m) ==
    /\ pc[m] = "check"
    /\ m \in alive
    /\ req[m].action = "attributes"
    /\ Lock!Release(m)
    /\ Exit(m)
    /\ UNCHANGED <<persistent, sysfs>>

ap_try_lock_callout_Cleanup(m) ==
    /\ pc[m] = "query"
    /\ m \in alive
    /\ Lock!Release(m)
    /\ Goto(m, "commit")
    /\ UNCHANGED <<persistent, sysfs, req, masks>>

\* The same callout within a definition: the lock is the parent's already, and
\* the callout leaves it alone.
ap_try_lock_callout(m) ==
    /\ pc[m] = "query"
    /\ m \in alive
    /\ holder = m
    /\ Goto(m, "commit")
    /\ UNCHANGED <<lock, persistent, sysfs, req, masks>>

\* mdevctl makes the change, unless something fails.
Commit(m) ==
    /\ pc[m] = "commit"
    /\ m \in alive
    /\ \/ /\ req[m].action \in {"define", "modify"}
          /\ cfg' = [cfg EXCEPT ![req[m].uuid] = req[m].dev]
          /\ UNCHANGED active
       \/ /\ req[m].action = "undefine"
          /\ cfg' = [cfg EXCEPT ![req[m].uuid] = NONE]
          /\ UNCHANGED active
       \/ /\ req[m].action = "start"
          /\ active[req[m].uuid] = NONE
          /\ active' = [active EXCEPT ![req[m].uuid] = Matrix(req[m].dev)]
          /\ UNCHANGED cfg
       \/ /\ req[m].action = "stop"
          /\ active' = [active EXCEPT ![req[m].uuid] = NONE]
          /\ UNCHANGED cfg
       \/ UNCHANGED <<cfg, active>>
    /\ Goto(m, "post")
    /\ UNCHANGED <<lock, udev, apmask, aqmask, req, masks>>

ap_check_handle_post(m) ==
    /\ pc[m] = "post"
    /\ m \in alive
    /\ Lock!Release(m)
    /\ Exit(m)
    /\ UNCHANGED <<persistent, sysfs>>

Command(m) ==
    \/ \E action \in Action, u \in Mdev :
          \/ TestConfig(m, action, u)
          \/ \E d \in Requests \cup {NONE} : ap_get_lock_callout(m, action, u, d)
    \/ PreOk(m) \/ PreFails(m)
    \/ ap_check_handle_live_modify(m) \/ ap_check_handle_get_attributes(m)
    \/ ap_try_lock_callout(m) \/ Commit(m) \/ ap_check_handle_post(m)

-----------------------------------------------------------------------------
(***************************************************************************)
(* chzdev. The pc is "settings" between the two functions it calls, and    *)
(* "write" while it makes its changes.                                     *)
(***************************************************************************)

ap_devtype_read_settings(z, scope) ==
    /\ pc[z] = "idle"
    /\ z \in alive
    /\ holder = NONE
    /\ masks' = [masks EXCEPT ![z] =
                    [scope |-> scope, sys |-> Queues(apmask, aqmask), p |-> ap_read_udev_masks,
                     valid |-> {a \in Attr : udev[a] # NONE}, todo |-> {}]]
    /\ Goto(z, "settings")
    /\ UNCHANGED <<lock, persistent, sysfs, req>>

ap_validate_mask_input(mask, in) ==
    IF in = NONE THEN mask
    ELSE IF in.assign THEN in.on ELSE (mask \cup in.on) \ in.off

HasRule_Always(valid) == TRUE

\* If no mask is valid there is no need for a udev rule.
HasRule(valid) == valid # {}

\* What write_settings makes of the masks that were read: in[a] is the value
\* specified for the attribute a, removed the settings that are to be removed.
NewMasks(old, in, removed) ==
    LET Set(q, s) == IF s \notin old.scope THEN q
                     ELSE Queues(ap_validate_mask_input(q.adapters, in["apmask"]),
                                 ap_validate_mask_input(q.domains, in["aqmask"]))
        specified == {a \in Attr : in[a] # NONE}
        valid == (old.valid \cup specified) \ removed
        write_udev == "persistent" \in old.scope /\ specified \cup removed # {}
        Wanted(w) == CASE w \in Attr -> "active" \in old.scope /\ w \in specified
                       [] w = "remove" -> write_udev
                       [] w = "udev" -> write_udev /\ HasRule(valid)
    IN  [scope |-> old.scope, sys |-> Set(old.sys, "active"), p |-> Set(old.p, "persistent"),
         valid |-> IF "persistent" \in old.scope THEN valid ELSE old.valid,
         todo |-> {w \in Writes : Wanted(w)}]

ChangeConflicts_AdaptersOnly(old, new, dev) ==
    find_apqn_conflicts(Queues(new.adapters \ old.adapters, new.domains), dev)

\* The queues of mask changes: new adapters x domains, adapters x new domains.
ChangeConflicts(old, new, dev) ==
    \/ find_apqn_conflicts(Queues(new.adapters \ old.adapters, new.domains), dev)
    \/ find_apqn_conflicts(Queues(new.adapters, new.domains \ old.domains), dev)

ap_check_mask_changes(old, new) ==
    \A v \in Mdev :
        /\ active[v] # NONE => ~ChangeConflicts(old.sys, new.sys, active[v])
        /\ Autostart(v) => ~ChangeConflicts(old.p, new.p, cfg[v])

\* The lock is released at once if the input is invalid or in conflict.
ap_devtype_write_settings(z, in, removed) ==
    LET new == NewMasks(masks[z], in, removed)
    IN  /\ pc[z] = "settings"
        /\ z \in alive
        /\ removed \subseteq masks[z].valid
        /\ \A a \in removed : in[a] = NONE
        /\ \/ /\ ap_check_mask_changes(masks[z], new)
              /\ Lock!Acquire(z)
              /\ masks' = [masks EXCEPT ![z] = new]
              /\ Goto(z, "write")
              /\ UNCHANGED req
           \/ /\ holder = NONE
              /\ UNCHANGED lock
              /\ Exit(z)
        /\ UNCHANGED <<persistent, sysfs>>

\* The rule that is written for the masks that are valid.
ap_write_type_udev(new) ==
    LET Persistent(a, mask) == IF a \in new.valid THEN mask ELSE NONE
    IN  [apmask |-> Persistent("apmask", new.p.adapters),
         aqmask |-> Persistent("aqmask", new.p.domains)]

\* One write of the commit. The rule is removed before it is written again. The
\* result of a write is ignored, except that a rule which cannot be removed is
\* not written.
CommitMask(z) ==
    LET new == masks[z]
    IN  /\ pc[z] = "write"
        /\ z \in alive
        /\ \E w \in new.todo :
              /\ \A x \in new.todo : Order[w] <= Order[x]
              /\ \/ /\ apmask' = IF w = "apmask" THEN new.sys.adapters ELSE apmask
                    /\ aqmask' = IF w = "aqmask" THEN new.sys.domains ELSE aqmask
                    /\ udev' = CASE w = "remove" -> [a \in Attr |-> NONE]
                                 [] w = "udev" -> ap_write_type_udev(new)
                                 [] OTHER -> udev
                    /\ masks' = [masks EXCEPT ![z].todo = @ \ {w}]
                 \/ /\ w \in Faults
                    /\ masks' = [masks EXCEPT ![z].todo = IF w = "remove" THEN {} ELSE @ \ {w}]
                    /\ UNCHANGED <<apmask, aqmask, udev>>
        /\ UNCHANGED <<lock, cfg, active, pc, req>>

EndWrite(z) ==
    /\ pc[z] = "write"
    /\ z \in alive
    /\ masks[z].todo = {}
    /\ Lock!Release(z)
    /\ Exit(z)
    /\ UNCHANGED <<persistent, sysfs>>

Settings(z) ==
    \/ \E scope \in Scopes : ap_devtype_read_settings(z, scope)
    \/ \E in \in [apmask : ApInput \cup {NONE}, aqmask : AqInput \cup {NONE}],
          removed \in SUBSET Attr : ap_devtype_write_settings(z, in, removed)
    \/ CommitMask(z) \/ EndWrite(z)

-----------------------------------------------------------------------------
\* The kernel gives all queues to the host until it is told otherwise.
Init ==
    /\ Lock!Init
    /\ cfg = [u \in Mdev |-> NONE]
    /\ active = [u \in Mdev |-> NONE]
    /\ apmask = Adapter
    /\ aqmask = Domain
    /\ udev = [a \in Attr |-> NONE]
    /\ pc = [p \in Pid |-> "idle"]
    /\ req = [p \in Pid |-> NONE]
    /\ masks = [p \in Pid |-> NONE]

Kill(p) ==
    /\ p \in alive
    /\ Lock!Die(p)
    /\ Exit(p)
    /\ UNCHANGED <<persistent, sysfs>>

\* Whoever wants the lock removes that of a process which does not exist.
Expire ==
    /\ holder # NONE
    /\ Lock!Expire
    /\ UNCHANGED <<persistent, sysfs, pc, req, masks>>

Next ==
    \/ \E m \in Mdevctl : Command(m)
    \/ \E z \in Chzdev : Settings(z)
    \/ \E p \in Pid : LockFails(p) \/ Kill(p)
    \/ Expire

Spec == Init /\ [][Next]_vars

-----------------------------------------------------------------------------
(***************************************************************************)
(* Properties.                                                             *)
(***************************************************************************)

QueueSet == [adapters : SUBSET Adapter, domains : SUBSET Domain]
Request == [action : Action, uuid : Mdev, dev : Device \cup {NONE}]
Masks == [scope : SUBSET {"active", "persistent"}, sys : QueueSet, p : QueueSet,
          valid : SUBSET Attr, todo : SUBSET Writes]

\* The types of the variables; and a udev rule that sets no mask is not written.
TypeOK ==
    /\ holder \in Pid \cup {NONE}
    /\ holding \subseteq Pid
    /\ alive \subseteq Pid
    /\ cfg \in [Mdev -> Device \cup {NONE}]
    /\ active \in [Mdev -> QueueSet \cup {NONE}]
    /\ apmask \in SUBSET Adapter
    /\ aqmask \in SUBSET Domain
    /\ udev \in [apmask : {NONE} \cup SUBSET Adapter, aqmask : {NONE} \cup SUBSET Domain]
    /\ pc \in [Pid -> {"idle", "lock", "check", "query", "commit", "post", "settings", "write"}]
    /\ req \in [Pid -> Request \cup {NONE}]
    /\ masks \in [Pid -> Masks \cup {NONE}]
    /\ \A z \in Chzdev : masks[z] # NONE /\ masks[z].valid = {} => "udev" \notin masks[z].todo

\* No queue belongs to two active devices, whatever commands start and change
\* devices at the same time (ap_check_active).
ActiveDisjoint ==
    \A u \in Mdev, v \in Mdev :
        u # v /\ active[u] # NONE /\ active[v] # NONE => ~find_apqn_conflicts(active[u], active[v])

\* No queue is configured for two devices that are started automatically, so
\* that all of them can be (ap_check_changes).
AutoDisjoint ==
    \A u \in Mdev, v \in Mdev :
        u # v /\ Autostart(u) /\ Autostart(v) => ~find_apqn_conflicts(cfg[u], cfg[v])

\* A process that exists has the lock exactly while it needs it: a callout that
\* fails gives it back, one that succeeds keeps it until the POST callout, and
\* a callout within a command leaves the lock of the command alone.
LockKept ==
    \A p \in alive : holder = p <=> pc[p] \in {"check", "query", "commit", "post", "write"}

\* With one chzdev that is not interrupted and whose writes to sysfs succeed, no
\* queue of an active device belongs to the host: ap_check_mask_changes looks at
\* the changes only, and that is enough.
HostMasksFree ==
    (\A z \in Chzdev : pc[z] # "write") =>
        \A u \in Mdev : active[u] # NONE => ~find_apqn_conflicts(active[u], Queues(apmask, aqmask))

\* What the PRE callout found still holds when mdevctl makes the change: a device
\* appears or changes only if the others and the host's masks leave it its
\* queues, and likewise for configurations that are started automatically.
ChangesChecked ==
    [][\A u \in Mdev :
          /\ active'[u] \notin {active[u], NONE} =>
                /\ check_other_mdevs_sysfs(u, active'[u])
                /\ ~find_apqn_conflicts(active'[u], Queues(apmask, aqmask))
          /\ cfg'[u] \notin {cfg[u], NONE} => ap_check_changes(u, cfg'[u])]_vars
=============================================================================
