------------------------------ MODULE ApProofs ------------------------------
(***************************************************************************)
(* Proofs about the configuration of AP queues, for any number of devices, *)
(* adapters, domains and processes, any of which may be killed.            *)
(***************************************************************************)
EXTENDS ApConfig, TLAPS

Held == {"check", "query", "commit", "post", "write"}

\* The part of the type invariant that the proof needs.
Types ==
    /\ holder \in Pid \cup {NONE}
    /\ alive \subseteq Pid
    /\ cfg \in [Mdev -> Device \cup {NONE}]
    /\ active \in [Mdev -> QueueSet \cup {NONE}]
    /\ pc \in [Pid -> Held \cup {"idle", "lock", "settings"}]
    /\ req \in [Pid -> Request \cup {NONE}]

\* A callout that has read its input has a device where its action needs one.
DeviceRead ==
    \A m \in Mdevctl : pc[m] \in {"check", "query", "commit"} =>
        /\ req[m] \in Request
        /\ req[m].action \in HasDevice => req[m].dev \in Device

\* What a PRE callout has found holds until mdevctl has made the change.
Checked ==
    \A m \in Mdevctl : m \in alive /\ pc[m] \in {"query", "commit"} => PreSucceeds(req[m])

\* The inductive invariant.
Inv ==
    /\ Types
    /\ DeviceRead
    /\ LockKept
    /\ Checked
    /\ ActiveDisjoint
    /\ AutoDisjoint

-----------------------------------------------------------------------------
\* The first state satisfies the invariant.
LEMMA InitInv == Init => Inv
<1> SUFFICES ASSUME Init PROVE Inv
  OBVIOUS
<1>1. Types
  BY DEF Init, Lock!Init, Types, Pid
<1>2. DeviceRead /\ Checked
  BY DEF Init, DeviceRead, Checked, Pid
<1>3. LockKept
  BY ApAssumption DEF Init, Lock!Init, LockKept, Pid
<1>4. \A u \in Mdev : active[u] = NONE /\ cfg[u] = NONE
  BY DEF Init
<1>5. ActiveDisjoint
  BY <1>4 DEF ActiveDisjoint
<1>6. \A u \in Mdev : ~Autostart(u)
  BY <1>4 DEF Autostart
<1>7. AutoDisjoint
  BY <1>6, Zenon DEF AutoDisjoint
<1> QED
  BY <1>1, <1>2, <1>3, <1>5, <1>7 DEF Inv

\* A device has adapters and domains.
LEMMA MatrixType ==
    ASSUME NEW d \in Device
    PROVE  Matrix(d) \in QueueSet
BY DEF Device, Matrix, Queues, QueueSet

\* Every step of mdevctl keeps the variables of their types.
LEMMA CommandTypes ==
    ASSUME Types, DeviceRead, NEW m \in Mdevctl, Command(m)
    PROVE  Types' /\ DeviceRead'
<1> m \in Pid
  BY DEF Pid
<1> USE DEF Types, DeviceRead, Goto, Exit, persistent, sysfs, lock
<1>1. CASE \E action \in Action, u \in Mdev : TestConfig(m, action, u)
  <2> PICK action \in Action, u \in Mdev : TestConfig(m, action, u)
    BY <1>1
  <2> [action |-> action, uuid |-> u, dev |-> NONE] \in Request
    BY DEF Request
  <2> QED
    BY DEF TestConfig
<1>2. CASE \E action \in Action, u \in Mdev, d \in Requests \cup {NONE} :
              ap_get_lock_callout(m, action, u, d)
  <2> PICK action \in Action, u \in Mdev, d \in Requests \cup {NONE} :
              ap_get_lock_callout(m, action, u, d)
    BY <1>2
  <2> DEFINE r == [action |-> action, uuid |-> u, dev |-> d]
  <2>1. r \in Request /\ (r.action \in HasDevice => r.dev \in Device)
    BY ApAssumption DEF Request, ap_get_lock_callout
  <2>2. /\ holder' = m
        /\ pc' = [pc EXCEPT ![m] = "check"]
        /\ req' = [req EXCEPT ![m] = r]
        /\ UNCHANGED <<alive, cfg, active>>
    BY DEF ap_get_lock_callout, Lock!Acquire
  <2> HIDE DEF r
  <2>3. Types'
    BY <2>1, <2>2 DEF Held
  <2>4. DeviceRead'
    BY <2>1, <2>2
  <2> QED
    BY <2>3, <2>4
<1>3. CASE PreOk(m)
  <2>1. /\ pc' \in {[pc EXCEPT ![m] = "commit"], [pc EXCEPT ![m] = "query"]}
        /\ pc[m] = "check"
        /\ UNCHANGED <<holder, alive, cfg, active, req>>
    BY <1>3 DEF PreOk
  <2>2. Types'
    BY <2>1 DEF Held
  <2>3. \A n \in Mdevctl : req'[n] = req[n] /\ (n # m => pc'[n] = pc[n])
    BY <2>1 DEF Pid
  <2>4. DeviceRead'
    BY <2>1, <2>3
  <2> QED
    BY <2>2, <2>4
<1>4. CASE PreFails(m)
  BY <1>4 DEF PreFails, Lock!Release
<1>5. CASE ap_check_handle_live_modify(m)
  <2>1. Matrix(req[m].dev) \in QueueSet
    BY <1>5, MatrixType DEF ap_check_handle_live_modify, HasDevice, Device, Matrix, Queues, QueueSet
  <2>2. active' \in [Mdev -> QueueSet \cup {NONE}]
    BY <1>5, <2>1 DEF ap_check_handle_live_modify, ap_do_dynamic_config
  <2> QED
    BY <1>5, <2>2 DEF ap_check_handle_live_modify, Lock!Release
<1>6. CASE ap_check_handle_get_attributes(m)
  BY <1>6 DEF ap_check_handle_get_attributes, Lock!Release
<1>7. CASE ap_try_lock_callout(m)
  BY <1>7 DEF ap_try_lock_callout, Held
<1>8. CASE Commit(m)
  <2>1. req[m].action \in HasDevice => Matrix(req[m].dev) \in QueueSet
    BY <1>8 DEF Commit, Device, Matrix, Queues, QueueSet
  <2>2. active' \in [Mdev -> QueueSet \cup {NONE}]
    BY <1>8, <2>1 DEF Commit, HasDevice
  <2>3. cfg' \in [Mdev -> Device \cup {NONE}]
    BY <1>8 DEF Commit, HasDevice
  <2> QED
    BY <1>8, <2>2, <2>3 DEF Commit, Held
<1>9. CASE ap_check_handle_post(m)
  BY <1>9 DEF ap_check_handle_post, Lock!Release
<1> QED
  BY <1>1, <1>2, <1>3, <1>4, <1>5, <1>6, <1>7, <1>8, <1>9 DEF Command

\* Every step keeps the variables of their types.
LEMMA TypesStep ==
    ASSUME Types, DeviceRead, [Next]_vars
    PROVE  Types' /\ DeviceRead'
<1>1. CASE \E m \in Mdevctl : Command(m)
  BY <1>1, CommandTypes
<1> USE DEF Types, DeviceRead, Goto, Exit, persistent, sysfs, lock
<1>2. CASE \E z \in Chzdev : Settings(z)
  <2> PICK z \in Chzdev : Settings(z)
    BY <1>2
  <2> z \in Pid /\ z \notin Mdevctl
    BY ApAssumption DEF Pid
  <2>1. CASE \E scope \in Scopes : ap_devtype_read_settings(z, scope)
    BY <2>1 DEF ap_devtype_read_settings
  <2>2. CASE \E in \in [apmask : ApInput \cup {NONE}, aqmask : AqInput \cup {NONE}],
                removed \in SUBSET Attr : ap_devtype_write_settings(z, in, removed)
    <3>1. /\ \/ /\ holder' = z
                /\ pc' = [pc EXCEPT ![z] = "write"]
                /\ req' = req
             \/ /\ holder' = holder
                /\ pc' = [pc EXCEPT ![z] = "idle"]
                /\ req' = [req EXCEPT ![z] = NONE]
          /\ UNCHANGED <<alive, cfg, active>>
      BY <2>2 DEF ap_devtype_write_settings, Lock!Acquire
    <3>2. Types'
      BY <3>1 DEF Held
    <3>3. \A n \in Mdevctl : req'[n] = req[n] /\ pc'[n] = pc[n]
      BY <3>1 DEF Pid
    <3>4. DeviceRead'
      BY <3>3
    <3> QED
      BY <3>2, <3>4
  <2>3. CASE CommitMask(z)
    BY <2>3 DEF CommitMask
  <2>4. CASE EndWrite(z)
    BY <2>4 DEF EndWrite, Lock!Release
  <2> QED
    BY <2>1, <2>2, <2>3, <2>4 DEF Settings
<1>3. CASE \E p \in Pid : LockFails(p) \/ Kill(p)
  BY <1>3 DEF LockFails, Kill, Lock!Die, Pid
<1>4. CASE Expire
  BY <1>4 DEF Expire, Lock!Expire
<1>5. CASE UNCHANGED vars
  BY <1>5 DEF vars
<1> QED
  BY <1>1, <1>2, <1>3, <1>4, <1>5 DEF Next

-----------------------------------------------------------------------------
(***************************************************************************)
(* The lock.                                                               *)
(***************************************************************************)

\* A process that takes, keeps or gives back the lock is where LockKept says.
LEMMA LockMoves ==
    ASSUME Types, LockKept, NEW p \in Pid, p \in alive, UNCHANGED alive,
           NEW l \in Held \cup {"idle", "lock", "settings"},
           pc' = [pc EXCEPT ![p] = l],
           \/ /\ holder = NONE
              /\ holder' = p
              /\ l \in Held
           \/ /\ holder = p
              /\ holder' = NONE
              /\ l \notin Held
           \/ /\ holder' = holder
              /\ l \in Held <=> pc[p] \in Held
    PROVE  LockKept'
BY ApAssumption DEF Types, LockKept, Held

\* The lock is held exactly where it is needed, whatever step is taken.
LEMMA LockStep ==
    ASSUME Types, LockKept, [Next]_vars
    PROVE  LockKept'
<1>1. CASE \E m \in Mdevctl : Command(m)
  <2> PICK m \in Mdevctl : Command(m)
    BY <1>1
  <2> m \in Pid
    BY DEF Pid
  <2> USE DEF Goto, Exit, lock, Held
  <2>1. CASE \E action \in Action, u \in Mdev : TestConfig(m, action, u)
    BY <2>1, LockMoves, ZenonT(30) DEF TestConfig
  <2>2. CASE \E action \in Action, u \in Mdev, d \in Requests \cup {NONE} :
                ap_get_lock_callout(m, action, u, d)
    BY <2>2, LockMoves, ZenonT(30) DEF ap_get_lock_callout, Lock!Acquire
  <2>3. CASE PreOk(m)
    BY <2>3, LockMoves DEF PreOk
  <2>4. CASE PreFails(m)
    BY <2>4, LockMoves, ZenonT(30) DEF PreFails, Lock!Release
  <2>5. CASE ap_check_handle_live_modify(m)
    BY <2>5, LockMoves, ZenonT(30) DEF ap_check_handle_live_modify, Lock!Release
  <2>6. CASE ap_check_handle_get_attributes(m)
    BY <2>6, LockMoves, ZenonT(30) DEF ap_check_handle_get_attributes, Lock!Release
  <2>7. CASE ap_try_lock_callout(m)
    BY <2>7, LockMoves, ZenonT(30) DEF ap_try_lock_callout
  <2>8. CASE Commit(m)
    BY <2>8, LockMoves, ZenonT(30) DEF Commit
  <2>9. CASE ap_check_handle_post(m)
    BY <2>9, LockMoves, ZenonT(30) DEF ap_check_handle_post, Lock!Release
  <2> QED
    BY <2>1, <2>2, <2>3, <2>4, <2>5, <2>6, <2>7, <2>8, <2>9 DEF Command
<1>2. CASE \E z \in Chzdev : Settings(z)
  <2> PICK z \in Chzdev : Settings(z)
    BY <1>2
  <2> z \in Pid
    BY DEF Pid
  <2> USE DEF Goto, Exit, lock, Held
  <2>1. CASE \E scope \in Scopes : ap_devtype_read_settings(z, scope)
    BY <2>1, LockMoves, ZenonT(30) DEF ap_devtype_read_settings
  <2>2. CASE \E in \in [apmask : ApInput \cup {NONE}, aqmask : AqInput \cup {NONE}],
                removed \in SUBSET Attr : ap_devtype_write_settings(z, in, removed)
    BY <2>2, LockMoves DEF ap_devtype_write_settings, Lock!Acquire
  <2>3. CASE CommitMask(z)
    BY <2>3 DEF CommitMask, LockKept
  <2>4. CASE EndWrite(z)
    BY <2>4, LockMoves, ZenonT(30) DEF EndWrite, Lock!Release
  <2> QED
    BY <2>1, <2>2, <2>3, <2>4 DEF Settings
<1>3. CASE \E p \in Pid : LockFails(p) \/ Kill(p)
  BY <1>3 DEF LockFails, Kill, Lock!Die, LockKept, Types, Exit, lock
<1>4. CASE Expire
  BY <1>4, ApAssumption DEF Expire, Lock!Expire, LockKept, Types
<1>5. CASE UNCHANGED vars
  BY <1>5, ZenonT(30) DEF vars, lock, LockKept
<1> QED
  BY <1>1, <1>2, <1>3, <1>4, <1>5 DEF Next

-----------------------------------------------------------------------------
(***************************************************************************)
(* What was checked still holds.                                           *)
(***************************************************************************)

\* While a PRE callout's result waits to be used, nobody changes what it is
\* about: every step that does needs the lock.
LEMMA LockProtects ==
    ASSUME Types, LockKept, [Next]_vars,
           NEW m \in Mdevctl, m \in alive, pc[m] \in {"query", "commit"},
           pc'[m] \in {"query", "commit"}
    PROVE  UNCHANGED <<cfg, active, apmask, aqmask, udev>> /\ req'[m] = req[m]
<1> m \in Pid
  BY DEF Pid
<1>0. holder = m
  BY ZenonT(30) DEF LockKept
<1> USE DEF Types, LockKept, Goto, Exit, persistent, sysfs, Held
<1>1. CASE \E n \in Mdevctl : Command(n)
  <2> PICK n \in Mdevctl : Command(n)
    BY <1>1
  <2> n \in Pid
    BY DEF Pid
  <2>1. CASE \E action \in Action, u \in Mdev : TestConfig(n, action, u)
    BY <2>1 DEF TestConfig
  <2>2. CASE \E action \in Action, u \in Mdev, d \in Requests \cup {NONE} :
                ap_get_lock_callout(n, action, u, d)
    BY <1>0, <2>2, ApAssumption DEF ap_get_lock_callout, Lock!Acquire
  <2>3. CASE PreOk(n)
    BY <2>3 DEF PreOk
  <2>4. CASE PreFails(n)
    BY <2>4 DEF PreFails
  <2>5. CASE ap_check_handle_live_modify(n)
    BY <1>0, <2>5 DEF ap_check_handle_live_modify
  <2>6. CASE ap_check_handle_get_attributes(n)
    BY <2>6 DEF ap_check_handle_get_attributes
  <2>7. CASE ap_try_lock_callout(n)
    BY <2>7 DEF ap_try_lock_callout
  <2>8. CASE Commit(n)
    <3>1. n = m
      BY <1>0, <2>8 DEF Commit
    <3>2. pc'[m] = "post"
      BY <2>8, <3>1 DEF Commit
    <3> QED
      BY <3>2
  <2>9. CASE ap_check_handle_post(n)
    BY <2>9, ZenonT(30) DEF ap_check_handle_post
  <2> QED
    BY <2>1, <2>2, <2>3, <2>4, <2>5, <2>6, <2>7, <2>8, <2>9 DEF Command
<1>2. CASE \E z \in Chzdev : Settings(z)
  <2> PICK z \in Chzdev : Settings(z)
    BY <1>2
  <2> z \in Pid /\ z # m
    BY ApAssumption DEF Pid
  <2>1. CASE \E scope \in Scopes : ap_devtype_read_settings(z, scope)
    BY <2>1 DEF ap_devtype_read_settings
  <2>2. CASE \E in \in [apmask : ApInput \cup {NONE}, aqmask : AqInput \cup {NONE}],
                removed \in SUBSET Attr : ap_devtype_write_settings(z, in, removed)
    BY <2>2 DEF ap_devtype_write_settings
  <2>3. CASE CommitMask(z)
    BY <1>0, <2>3, ZenonT(30) DEF CommitMask
  <2>4. CASE EndWrite(z)
    BY <2>4 DEF EndWrite
  <2> QED
    BY <2>1, <2>2, <2>3, <2>4 DEF Settings
<1>3. CASE \E p \in Pid : LockFails(p) \/ Kill(p)
  BY <1>3 DEF LockFails, Kill
<1>4. CASE Expire
  BY <1>4 DEF Expire
<1>5. CASE UNCHANGED vars
  BY <1>5 DEF vars
<1> QED
  BY <1>1, <1>2, <1>3, <1>4, <1>5 DEF Next

\* A result that is about to be used is one that PreOk has just found, or one
\* that was there before.
LEMMA PreOkOnly ==
    ASSUME Types, [Next]_vars, NEW m \in Mdevctl, pc'[m] \in {"query", "commit"}
    PROVE  pc[m] \in {"query", "commit"} \/ PreOk(m)
<1> m \in Pid
  BY ZenonT(30) DEF Pid
<1> USE DEF Types, Goto, Exit
<1>1. CASE \E n \in Mdevctl : Command(n)
  <2> PICK n \in Mdevctl : Command(n)
    BY <1>1
  <2> n \in Pid
    BY DEF Pid
  <2> QED
    BY DEF Command, TestConfig, ap_get_lock_callout, PreOk, PreFails, ap_check_handle_live_modify,
           ap_check_handle_get_attributes, ap_try_lock_callout, Commit, ap_check_handle_post
<1>2. CASE \E z \in Chzdev : Settings(z)
  BY <1>2 DEF Pid, Settings, ap_devtype_read_settings, ap_devtype_write_settings, CommitMask,
              EndWrite
<1>3. CASE \E p \in Pid : LockFails(p) \/ Kill(p)
  BY <1>3 DEF LockFails, Kill
<1>4. CASE Expire
  BY <1>4 DEF Expire
<1>5. CASE UNCHANGED vars
  BY <1>5 DEF vars
<1> QED
  BY <1>1, <1>2, <1>3, <1>4, <1>5 DEF Next

\* A process that has been killed does not come back.
LEMMA AliveShrinks ==
    ASSUME [Next]_vars
    PROVE  alive' \subseteq alive
<1>1. CASE \E m \in Mdevctl : Command(m)
  BY <1>1, ZenonT(60) DEF lock, Command, TestConfig, ap_get_lock_callout, PreOk, PreFails,
       ap_check_handle_live_modify, ap_check_handle_get_attributes, ap_try_lock_callout, Commit,
       ap_check_handle_post, Lock!Acquire, Lock!Release
<1>2. CASE \E z \in Chzdev : Settings(z)
  BY <1>2 DEF lock, Settings, ap_devtype_read_settings, ap_devtype_write_settings, CommitMask,
       EndWrite, Lock!Acquire, Lock!Release
<1>3. CASE (\E p \in Pid : LockFails(p) \/ Kill(p)) \/ Expire \/ UNCHANGED vars
  BY <1>3 DEF vars, lock, LockFails, Kill, Expire, Lock!Die, Lock!Expire
<1> QED
  BY <1>1, <1>2, <1>3 DEF Next

\* What a PRE callout has checked stays true until its mdevctl makes the change:
\* nobody else has the lock, and only its holder changes what was checked.
LEMMA CheckedStep ==
    ASSUME Types, LockKept, Checked, [Next]_vars
    PROVE  Checked'
<1> SUFFICES ASSUME NEW m \in Mdevctl, m \in alive', pc'[m] \in {"query", "commit"}
             PROVE  PreSucceeds(req[m])'
  BY DEF Checked
<1>1. m \in alive
  BY AliveShrinks
<1>2. PreSucceeds(req[m]) /\ UNCHANGED <<cfg, active, apmask, aqmask, udev>> /\ req'[m] = req[m]
  <2>1. CASE pc[m] \in {"query", "commit"}
    BY <1>1, <2>1, LockProtects DEF Checked
  <2>2. CASE PreOk(m)
    BY <2>2 DEF PreOk, persistent, sysfs
  <2> QED
    BY <2>1, <2>2, PreOkOnly
<1> QED
  BY <1>2 DEF PreSucceeds, ap_check_changes, ap_check_active, check_other_mdevs_cfg,
              check_other_mdevs_sysfs, ap_read_udev_masks, Autostart, find_apqn_conflicts, Queues

-----------------------------------------------------------------------------
(***************************************************************************)
(* Changes.                                                                *)
(***************************************************************************)

\* What ChangesChecked says of one device.
ChangeOK(u) ==
    /\ active'[u] \notin {active[u], NONE} =>
          /\ check_other_mdevs_sysfs(u, active'[u])
          /\ ~find_apqn_conflicts(active'[u], Queues(apmask, aqmask))
    /\ cfg'[u] \notin {cfg[u], NONE} => ap_check_changes(u, cfg'[u])

\* A step changes one device, and that one as it was checked.
LEMMA ChangeStep ==
    ASSUME Types, DeviceRead, Checked, [Next]_vars
    PROVE  \/ UNCHANGED <<cfg, active>>
           \/ \E u \in Mdev : /\ ChangeOK(u)
                              /\ \A v \in Mdev \ {u} : active'[v] = active[v] /\ cfg'[v] = cfg[v]
<1> DEFINE Goal == \/ UNCHANGED <<cfg, active>>
                   \/ \E u \in Mdev : /\ ChangeOK(u)
                                      /\ \A v \in Mdev \ {u} : active'[v] = active[v] /\ cfg'[v] = cfg[v]
<1>1. CASE \E m \in Mdevctl : ap_check_handle_live_modify(m)
  <2> PICK m \in Mdevctl : ap_check_handle_live_modify(m)
    BY <1>1
  <2> DEFINE u == req[m].uuid
  <2>1. u \in Mdev
    BY ZenonT(30) DEF ap_check_handle_live_modify, DeviceRead, Request
  <2>2. CASE UNCHANGED active
    BY <2>2 DEF ap_check_handle_live_modify, persistent
  <2>3. CASE /\ ap_check_active(u, req[m].dev)
             /\ active' = [active EXCEPT ![u] = Matrix(req[m].dev)]
    <3>1. active'[u] = Matrix(req[m].dev) /\ cfg' = cfg
      BY <2>1, <2>3, ZenonT(30) DEF Types, ap_check_handle_live_modify, persistent
    <3>2. ChangeOK(u)
      BY <2>3, <3>1 DEF ChangeOK, ap_check_active, check_other_mdevs_sysfs, find_apqn_conflicts,
                        Matrix, Queues
    <3>3. \A v \in Mdev \ {u} : active'[v] = active[v] /\ cfg'[v] = cfg[v]
      BY <2>1, <2>3, <3>1, ZenonT(30) DEF Types
    <3> QED
      BY <2>1, <3>2, <3>3
  <2> QED
    BY <2>2, <2>3 DEF ap_check_handle_live_modify, ap_do_dynamic_config
<1>2. CASE \E m \in Mdevctl : Commit(m)
  <2> PICK m \in Mdevctl : Commit(m)
    BY <1>2
  <2> DEFINE u == req[m].uuid
  <2>1. u \in Mdev /\ PreSucceeds(req[m])
    BY ZenonT(30) DEF Commit, DeviceRead, Request, Checked
  <2>2. \A v \in Mdev \ {u} : active'[v] = active[v] /\ cfg'[v] = cfg[v]
    BY <2>1, ZenonT(30) DEF Types, Commit
  <2>3. cfg'[u] \notin {cfg[u], NONE} => cfg'[u] = req[m].dev /\ req[m].action \in {"define", "modify"}
    BY <2>1 DEF Types, Commit
  <2>4. active'[u] \notin {active[u], NONE} => active'[u] = Matrix(req[m].dev) /\ req[m].action = "start"
    BY <2>1, ZenonT(30) DEF Types, Commit
  <2>5. active'[u] \notin {active[u], NONE} => ap_check_active(u, req[m].dev)
    BY <2>1, <2>4, ZenonT(30) DEF PreSucceeds
  <2>6. active'[u] \notin {active[u], NONE} =>
            /\ check_other_mdevs_sysfs(u, active'[u])
            /\ ~find_apqn_conflicts(active'[u], Queues(apmask, aqmask))
    BY <2>4, <2>5, SMTT(30) DEF ap_check_active, check_other_mdevs_sysfs, find_apqn_conflicts, Matrix, Queues
  <2>7. cfg'[u] \notin {cfg[u], NONE} => ap_check_changes(u, cfg'[u])
    BY <2>1, <2>3, ZenonT(30) DEF PreSucceeds
  <2>8. ChangeOK(u)
    BY <2>6, <2>7 DEF ChangeOK
  <2> QED
    BY <2>1, <2>2, <2>8, ZenonT(30)
<1>3. ASSUME ~\E m \in Mdevctl : ap_check_handle_live_modify(m), ~\E m \in Mdevctl : Commit(m)
      PROVE  UNCHANGED <<cfg, active>>
  BY <1>3, ZenonT(60) DEF Next, vars, persistent, sysfs, Command, TestConfig, ap_get_lock_callout, PreOk, PreFails,
              ap_check_handle_get_attributes, ap_try_lock_callout, ap_check_handle_post, Settings,
              ap_devtype_read_settings, ap_devtype_write_settings, CommitMask, EndWrite, LockFails,
              Kill, Expire
<1> QED
  BY <1>1, <1>2, <1>3

\* No step makes two devices share a queue.
LEMMA DisjointStep ==
    ASSUME Types, DeviceRead, Checked, ActiveDisjoint, AutoDisjoint, [Next]_vars
    PROVE  ActiveDisjoint' /\ AutoDisjoint'
<1>1. CASE UNCHANGED <<cfg, active>>
  BY <1>1 DEF ActiveDisjoint, AutoDisjoint, Autostart, find_apqn_conflicts
<1>2. CASE \E u \in Mdev : /\ ChangeOK(u)
                           /\ \A v \in Mdev \ {u} : active'[v] = active[v] /\ cfg'[v] = cfg[v]
  <2> PICK u \in Mdev : /\ ChangeOK(u)
                        /\ \A v \in Mdev \ {u} : active'[v] = active[v] /\ cfg'[v] = cfg[v]
    BY <1>2
  <2>1. ActiveDisjoint'
    <3> SUFFICES ASSUME NEW v \in Mdev, v # u, active'[u] # NONE, active'[v] # NONE
                 PROVE  ~find_apqn_conflicts(active'[u], active'[v])
      BY DEF ActiveDisjoint, find_apqn_conflicts
    <3>1. active'[v] = active[v]
      OBVIOUS
    <3>2. CASE active'[u] = active[u]
      BY <3>1, <3>2, ZenonT(30) DEF ActiveDisjoint
    <3>3. CASE active'[u] # active[u]
      BY <3>1, <3>3 DEF ChangeOK, check_other_mdevs_sysfs
    <3> QED
      BY <3>2, <3>3
  <2>2. AutoDisjoint'
    <3> SUFFICES ASSUME NEW v \in Mdev, v # u, Autostart(u)', Autostart(v)'
                 PROVE  ~find_apqn_conflicts(cfg'[u], cfg'[v])
      BY DEF AutoDisjoint, Autostart, find_apqn_conflicts
    <3>1. cfg'[v] = cfg[v] /\ Autostart(v)
      BY ZenonT(30) DEF Autostart
    <3>2. CASE cfg'[u] = cfg[u]
      BY <3>1, <3>2, ZenonT(30) DEF AutoDisjoint, Autostart
    <3>3. CASE cfg'[u] # cfg[u]
      BY <3>1, <3>3 DEF ChangeOK, ap_check_changes, check_other_mdevs_cfg, Autostart
    <3> QED
      BY <3>2, <3>3, ZenonT(30)
  <2> QED
    BY <2>1, <2>2
<1> QED
  BY <1>1, <1>2, ChangeStep

-----------------------------------------------------------------------------
\* The invariant holds always.
THEOREM InvAlways == Spec => []Inv
<1>1. Inv /\ [Next]_vars => Inv'
  BY TypesStep, LockStep, CheckedStep, DisjointStep DEF Inv
<1> QED
  BY <1>1, InitInv, PTL DEF Spec

\* No queue belongs to two active devices, for any number of mdevctl and chzdev
\* processes.
THEOREM QueuesDisjoint == Spec => []ActiveDisjoint
<1>1. Inv => ActiveDisjoint
  BY DEF Inv
<1> QED
  BY <1>1, InvAlways, PTL

\* No queue is configured for two devices that are started automatically.
THEOREM AutostartDisjoint == Spec => []AutoDisjoint
<1>1. Inv => AutoDisjoint
  BY DEF Inv
<1> QED
  BY <1>1, InvAlways, PTL

\* The lock is held exactly where it is needed.
THEOREM LockIsKept == Spec => []LockKept
<1>1. Inv => LockKept
  BY DEF Inv
<1> QED
  BY <1>1, InvAlways, PTL

\* A change is made only as long as what was checked before it holds.
THEOREM ChangesAreChecked == Spec => ChangesChecked
<1>1. Inv /\ [Next]_vars => [\A u \in Mdev : ChangeOK(u)]_vars
  <2> SUFFICES ASSUME Inv, [Next]_vars, vars' # vars, NEW u \in Mdev
               PROVE  ChangeOK(u)
    OBVIOUS
  <2>1. CASE UNCHANGED <<cfg, active>>
    BY <2>1 DEF ChangeOK
  <2>2. CASE active'[u] = active[u] /\ cfg'[u] = cfg[u]
    BY <2>2, ZenonT(30) DEF ChangeOK
  <2> QED
    BY <2>1, <2>2, ChangeStep DEF Inv
<1> QED
  BY <1>1, InvAlways, PTL DEF Spec, ChangesChecked, ChangeOK

-----------------------------------------------------------------------------
(***************************************************************************)
(* The types of what chzdev reads and writes.                              *)
(***************************************************************************)

UdevRule == [apmask : {NONE} \cup SUBSET Adapter, aqmask : {NONE} \cup SUBSET Domain]

\* While chzdev z works it has read the masks, and it writes a rule only if that
\* sets one.
MasksAt(z) ==
    IF pc[z] \in {"settings", "write"}
    THEN masks[z] \in Masks /\ (masks[z].valid = {} => "udev" \notin masks[z].todo)
    ELSE masks[z] = NONE

\* The rest of the type invariant.
MaskTypes ==
    /\ holding \subseteq Pid
    /\ apmask \in SUBSET Adapter
    /\ aqmask \in SUBSET Domain
    /\ udev \in UdevRule
    /\ masks \in [Pid -> Masks \cup {NONE}]
    /\ \A z \in Chzdev : MasksAt(z)

\* The two parts make up the type invariant.
LEMMA TypesComplete == Types /\ MaskTypes => TypeOK
BY DEF Types, MaskTypes, MasksAt, TypeOK, Held, UdevRule

\* A rule that sets no mask.
LEMMA NoRule == [a \in Attr |-> NONE] \in UdevRule
BY DEF Attr, UdevRule

\* The first state has these types.
LEMMA MaskTypesInit == Init => MaskTypes
<1> SUFFICES ASSUME Init PROVE MaskTypes
  OBVIOUS
<1>1. holding \subseteq Pid /\ apmask \in SUBSET Adapter /\ aqmask \in SUBSET Domain /\ udev \in UdevRule
  BY NoRule DEF Init, Lock!Init
<1>2. \A p \in Pid : masks[p] = NONE /\ pc[p] = "idle"
  BY DEF Init
<1>3. Chzdev \subseteq Pid
  BY DEF Pid
<1>4. masks \in [Pid -> Masks \cup {NONE}]
  BY DEF Init
<1> QED
  BY <1>1, <1>2, <1>3, <1>4 DEF MaskTypes, MasksAt

\* Changes of a mask give a mask.
LEMMA InputMask ==
    ASSUME NEW Id, NEW mask \in SUBSET Id, NEW in \in Input(Id) \cup {NONE}
    PROVE  ap_validate_mask_input(mask, in) \in SUBSET Id
BY ZenonT(30) DEF ap_validate_mask_input, Input

\* What is to be written after a change: a mask that has changed is written to
\* sysfs, and a rule is written only if it sets a mask.
LEMMA NewMasksSound ==
    ASSUME NEW old \in Masks, NEW removed \in SUBSET Attr,
           NEW in \in [apmask : ApInput \cup {NONE}, aqmask : AqInput \cup {NONE}]
    PROVE  LET new == NewMasks(old, in, removed)
           IN  /\ new \in Masks
               /\ "apmask" \in new.todo \/ new.sys.adapters = old.sys.adapters
               /\ "aqmask" \in new.todo \/ new.sys.domains = old.sys.domains
               /\ new.valid = {} => "udev" \notin new.todo
<1> DEFINE new == NewMasks(old, in, removed)
           Changed(q) == Queues(ap_validate_mask_input(q.adapters, in["apmask"]),
                                ap_validate_mask_input(q.domains, in["aqmask"]))
           specified == {a \in Attr : in[a] # NONE}
           write_udev == "persistent" \in old.scope /\ specified \cup removed # {}
<1>1. \A q \in QueueSet : Changed(q) \in QueueSet
  <2> SUFFICES ASSUME NEW q \in QueueSet PROVE Changed(q) \in QueueSet
    OBVIOUS
  <2>1. q.adapters \in SUBSET Adapter /\ q.domains \in SUBSET Domain
    BY DEF QueueSet
  <2>2. in["apmask"] \in Input(Adapter) \cup {NONE} /\ in["aqmask"] \in Input(Domain) \cup {NONE}
    BY ApAssumption
  <2>3. /\ ap_validate_mask_input(q.adapters, in["apmask"]) \in SUBSET Adapter
        /\ ap_validate_mask_input(q.domains, in["aqmask"]) \in SUBSET Domain
    BY <2>1, <2>2, InputMask
  <2> QED
    BY <2>3 DEF Queues, QueueSet
<1>2. /\ new.scope = old.scope
      /\ new.sys = IF "active" \in old.scope THEN Changed(old.sys) ELSE old.sys
      /\ new.p = IF "persistent" \in old.scope THEN Changed(old.p) ELSE old.p
      /\ new.valid = IF "persistent" \in old.scope THEN (old.valid \cup specified) \ removed ELSE old.valid
      /\ DOMAIN new = {"scope", "sys", "p", "valid", "todo"}
      /\ new.todo \subseteq Writes
  BY ZenonT(30) DEF NewMasks
<1>3. /\ "apmask" \in new.todo <=> "active" \in old.scope /\ "apmask" \in specified
      /\ "aqmask" \in new.todo <=> "active" \in old.scope /\ "aqmask" \in specified
      /\ "udev" \in new.todo => write_udev /\ new.valid # {}
  BY DEF NewMasks, Writes, Attr, HasRule
<1>4. new \in Masks
  BY <1>1, <1>2, ZenonT(30) DEF Masks, NewMasks
<1>5. \A q \in QueueSet : /\ "apmask" \in specified \/ Changed(q).adapters = q.adapters
                          /\ "aqmask" \in specified \/ Changed(q).domains = q.domains
  BY DEF Queues, ap_validate_mask_input, Attr
<1>6. old.sys \in QueueSet
  BY DEF Masks
<1> HIDE DEF new, Changed, specified
<1> QED
  BY <1>2, <1>3, <1>4, <1>5, <1>6 DEF new

\* A step of mdevctl leaves what chzdev reads and writes alone; only a process
\* that has the lock changes a device.
LEMMA CommandFrame ==
    ASSUME Types, NEW m \in Mdevctl, Command(m)
    PROVE  /\ UNCHANGED <<apmask, aqmask, udev, alive>>
           /\ masks' = masks \/ masks' = [masks EXCEPT ![m] = NONE]
           /\ holding' \subseteq holding \cup {m}
           /\ \A p \in Pid \ {m} : pc'[p] = pc[p]
           /\ active' # active => m \in alive /\ pc[m] \in Held
<1> USE DEF Goto, Exit, persistent, sysfs, lock, Types
<1>1. CASE \E action \in Action, u \in Mdev :
              \/ TestConfig(m, action, u)
              \/ \E d \in Requests \cup {NONE} : ap_get_lock_callout(m, action, u, d)
  BY <1>1, ZenonT(30) DEF TestConfig, ap_get_lock_callout, Lock!Acquire
<1>2. CASE PreOk(m) \/ PreFails(m)
  BY <1>2, ZenonT(30) DEF PreOk, PreFails, Lock!Release
<1>3. CASE ap_check_handle_live_modify(m)
  BY <1>3, ZenonT(30) DEF ap_check_handle_live_modify, Lock!Release, Held
<1>4. CASE Commit(m)
  BY <1>4, ZenonT(30) DEF Commit, Held
<1>5. CASE \/ ap_check_handle_get_attributes(m) \/ ap_try_lock_callout(m) \/ ap_check_handle_post(m)
  BY <1>5, ZenonT(30) DEF ap_check_handle_get_attributes, ap_try_lock_callout, ap_check_handle_post, Lock!Release
<1> QED
  BY <1>1, <1>2, <1>3, <1>4, <1>5, ZenonT(30) DEF Command

\* What a chzdev has read, or is about to write, after a write.
LEMMA WriteTypes ==
    ASSUME Types, MaskTypes, NEW z \in Chzdev, CommitMask(z)
    PROVE  /\ masks[z] \in Masks
           /\ \A p \in Pid \ {z} : masks'[p] = masks[p]
           /\ masks' \in [Pid -> Masks \cup {NONE}]
           /\ masks'[z] \in Masks
           /\ masks'[z].sys = masks[z].sys /\ masks'[z].valid = masks[z].valid
           /\ masks'[z].todo \subseteq masks[z].todo
<1>1. z \in Pid /\ masks[z] \in Masks
  BY DEF CommitMask, Pid, MaskTypes, MasksAt
<1>2. PICK T \in SUBSET masks[z].todo : masks' = [masks EXCEPT ![z].todo = T]
  BY DEF CommitMask
<1>3. [masks[z] EXCEPT !.todo = T] \in Masks
  BY <1>1 DEF Masks
<1>4. masks' = [masks EXCEPT ![z] = [masks[z] EXCEPT !.todo = T]]
  BY <1>2
<1>5. masks'[z] = [masks[z] EXCEPT !.todo = T] /\ \A p \in Pid \ {z} : masks'[p] = masks[p]
  BY <1>1, <1>4 DEF MaskTypes
<1>6. masks' \in [Pid -> Masks \cup {NONE}]
  BY <1>3, <1>4, ZenonT(30) DEF MaskTypes
<1> QED
  BY <1>1, <1>3, <1>5, <1>6 DEF Masks

\* A step of a chzdev leaves devices and the other processes alone.
LEMMA SettingsFrame ==
    ASSUME Types, MaskTypes, NEW z \in Chzdev, Settings(z)
    PROVE  /\ UNCHANGED <<cfg, active, alive>>
           /\ \A p \in Pid \ {z} : pc'[p] = pc[p] /\ masks'[p] = masks[p]
           /\ ~CommitMask(z) => UNCHANGED <<apmask, aqmask, udev>>
<1> z \in Pid
  BY ZenonT(30) DEF Pid
<1> USE DEF Goto, Exit, lock, persistent, sysfs, Types, MaskTypes
<1>1. CASE \E scope \in Scopes : ap_devtype_read_settings(z, scope)
  BY <1>1, ZenonT(30) DEF ap_devtype_read_settings
<1>2. CASE \E in \in [apmask : ApInput \cup {NONE}, aqmask : AqInput \cup {NONE}],
              removed \in SUBSET Attr : ap_devtype_write_settings(z, in, removed)
  BY <1>2, ZenonT(30) DEF ap_devtype_write_settings, Lock!Acquire
<1>3. CASE CommitMask(z)
  <2>1. UNCHANGED <<cfg, active, alive, pc>>
    BY <1>3, ZenonT(30) DEF CommitMask
  <2> QED
    BY <1>3, <2>1, WriteTypes
<1>4. CASE EndWrite(z)
  BY <1>4, ZenonT(30) DEF EndWrite, Lock!Release
<1> QED
  BY <1>1, <1>2, <1>3, <1>4, ZenonT(30) DEF Settings

\* What read_settings has read.
LEMMA ReadMasks ==
    ASSUME MaskTypes, NEW scope \in Scopes
    PROVE  [scope |-> scope, sys |-> Queues(apmask, aqmask), p |-> ap_read_udev_masks,
            valid |-> {a \in Attr : udev[a] # NONE}, todo |-> {}] \in Masks
<1>1. scope \in SUBSET {"active", "persistent"}
  BY ApAssumption
<1>2. Queues(apmask, aqmask) \in QueueSet /\ ap_read_udev_masks \in QueueSet
  BY DEF MaskTypes, UdevRule, Queues, QueueSet, ap_read_udev_masks
<1> QED
  BY <1>1, <1>2 DEF Masks

\* The rule that is written sets masks.
LEMMA RuleType ==
    ASSUME NEW new \in Masks
    PROVE  ap_write_type_udev(new) \in UdevRule
BY ZenonT(30) DEF Masks, QueueSet, ap_write_type_udev, UdevRule

\* What a chzdev takes from an input, or drops, is of its type.
LEMMA WriteSettingsTypes ==
    ASSUME MaskTypes, NEW z \in Chzdev, NEW removed \in SUBSET Attr,
           NEW in \in [apmask : ApInput \cup {NONE}, aqmask : AqInput \cup {NONE}],
           ap_devtype_write_settings(z, in, removed)
    PROVE  /\ masks[z] \in Masks
           /\ \/ /\ ap_check_mask_changes(masks[z], NewMasks(masks[z], in, removed))
                 /\ Lock!Acquire(z)
                 /\ masks' = [masks EXCEPT ![z] = NewMasks(masks[z], in, removed)]
                 /\ pc' = [pc EXCEPT ![z] = "write"]
              \/ /\ masks' = [masks EXCEPT ![z] = NONE]
                 /\ pc' = [pc EXCEPT ![z] = "idle"]
                 /\ UNCHANGED lock
BY DEF MaskTypes, MasksAt, ap_devtype_write_settings, Exit, Goto

\* Every step keeps these types.
LEMMA MaskTypesStep ==
    ASSUME Types, MaskTypes, [Next]_vars
    PROVE  MaskTypes'
<1>0. Mdevctl \subseteq Pid /\ Chzdev \subseteq Pid /\ Mdevctl \cap Chzdev = {}
  BY ApAssumption, ZenonT(30) DEF Pid
<1>1. CASE \E m \in Mdevctl : Command(m)
  <2> PICK m \in Mdevctl : Command(m)
    BY <1>1, ZenonT(30)
  <2>1. masks' \in [Pid -> Masks \cup {NONE}] /\ \A z \in Chzdev : masks'[z] = masks[z] /\ pc'[z] = pc[z]
    BY <1>0, CommandFrame, SMTT(30) DEF MaskTypes
  <2>2. holding' \subseteq Pid /\ UNCHANGED <<apmask, aqmask, udev>>
    BY <1>0, CommandFrame DEF MaskTypes
  <2> QED
    BY <2>1, <2>2 DEF MaskTypes, MasksAt
<1>2. CASE \E z \in Chzdev : Settings(z)
  <2> PICK z \in Chzdev : Settings(z)
    BY <1>2, ZenonT(30)
  <2>1. \A y \in Chzdev \ {z} : pc'[y] = pc[y] /\ masks'[y] = masks[y]
    BY <1>0, SettingsFrame
  <2>2. SUFFICES /\ holding' \subseteq Pid /\ apmask' \in SUBSET Adapter /\ aqmask' \in SUBSET Domain
                 /\ udev' \in UdevRule /\ masks' \in [Pid -> Masks \cup {NONE}] /\ MasksAt(z)'
    BY <2>1, ZenonT(30) DEF MaskTypes, MasksAt
  <2>3. CASE \E scope \in Scopes : ap_devtype_read_settings(z, scope)
    <3> PICK scope \in Scopes : ap_devtype_read_settings(z, scope)
      BY <2>3, ZenonT(30)
    <3> DEFINE r == [scope |-> scope, sys |-> Queues(apmask, aqmask), p |-> ap_read_udev_masks,
                     valid |-> {a \in Attr : udev[a] # NONE}, todo |-> {}]
    <3>1. r \in Masks /\ r.todo = {}
      BY ReadMasks
    <3>2. /\ masks' = [masks EXCEPT ![z] = r] /\ pc' = [pc EXCEPT ![z] = "settings"]
          /\ UNCHANGED <<holding, apmask, aqmask, udev>>
      BY ZenonT(30) DEF ap_devtype_read_settings, Goto, lock, persistent, sysfs
    <3> HIDE DEF r
    <3> QED
      BY <1>0, <3>1, <3>2 DEF MaskTypes, MasksAt, Types
  <2>4. CASE \E in \in [apmask : ApInput \cup {NONE}, aqmask : AqInput \cup {NONE}],
                removed \in SUBSET Attr : ap_devtype_write_settings(z, in, removed)
    <3> PICK in \in [apmask : ApInput \cup {NONE}, aqmask : AqInput \cup {NONE}],
             removed \in SUBSET Attr : ap_devtype_write_settings(z, in, removed)
      BY <2>4, ZenonT(30)
    <3> DEFINE new == NewMasks(masks[z], in, removed)
    <3>1. new \in Masks /\ (new.valid = {} => "udev" \notin new.todo)
      BY WriteSettingsTypes, NewMasksSound, ZenonT(30)
    <3>2. /\ \/ masks' = [masks EXCEPT ![z] = new] /\ pc' = [pc EXCEPT ![z] = "write"]
             \/ masks' = [masks EXCEPT ![z] = NONE] /\ pc' = [pc EXCEPT ![z] = "idle"]
          /\ holding' \subseteq holding \cup {z}
      BY WriteSettingsTypes, ZenonT(30) DEF Lock!Acquire, lock
    <3>3. UNCHANGED <<apmask, aqmask, udev>>
      BY DEF ap_devtype_write_settings, persistent, sysfs
    <3> HIDE DEF new
    <3> QED
      BY <1>0, <3>1, <3>2, <3>3 DEF MaskTypes, MasksAt, Types
  <2>5. CASE CommitMask(z)
    <3>1. holding' = holding /\ masks' \in [Pid -> Masks \cup {NONE}] /\ MasksAt(z)'
      BY <2>5, WriteTypes, ZenonT(30) DEF MaskTypes, MasksAt, CommitMask, lock
    <3>2. masks[z].sys \in QueueSet
      BY <2>5, WriteTypes DEF Masks
    <3>3. apmask' \in SUBSET Adapter /\ aqmask' \in SUBSET Domain
      BY <2>5, <3>2 DEF CommitMask, QueueSet, MaskTypes
    <3>4. udev' \in UdevRule
      BY <2>5, NoRule, RuleType, WriteTypes DEF CommitMask, MaskTypes
    <3> QED
      BY <3>1, <3>3, <3>4 DEF MaskTypes
  <2>6. CASE EndWrite(z)
    <3>1. /\ holding' = holding \ {z} /\ UNCHANGED <<apmask, aqmask, udev>>
          /\ masks' = [masks EXCEPT ![z] = NONE] /\ pc' = [pc EXCEPT ![z] = "idle"]
      BY <2>6, ZenonT(30) DEF EndWrite, Exit, Lock!Release, persistent, sysfs
    <3>2. masks' \in [Pid -> Masks \cup {NONE}] /\ masks'[z] = NONE /\ pc'[z] = "idle"
      BY <1>0, <3>1 DEF MaskTypes, Types
    <3>3. MasksAt(z)'
      BY <3>2, ZenonT(30) DEF MasksAt
    <3> QED
      BY <3>1, <3>2, <3>3 DEF MaskTypes
  <2> QED
    BY <2>3, <2>4, <2>5, <2>6, ZenonT(30) DEF Settings
<1>3. CASE \E p \in Pid : LockFails(p) \/ Kill(p)
  BY <1>0, <1>3, ZenonT(30) DEF LockFails, Kill, Lock!Die, Exit, lock, persistent, sysfs, MaskTypes, MasksAt, Types
<1>4. CASE Expire
  BY <1>4, ZenonT(30) DEF Expire, Lock!Expire, persistent, sysfs, MaskTypes, MasksAt
<1>5. CASE UNCHANGED vars
  BY <1>5 DEF vars, lock, persistent, sysfs, MaskTypes, MasksAt
<1> QED
  BY <1>1, <1>2, <1>3, <1>4, <1>5 DEF Next

\* The variables keep their types.
THEOREM ApTypeCorrect == Spec => []TypeOK
<1>1. Inv /\ MaskTypes /\ [Next]_vars => MaskTypes'
  BY MaskTypesStep DEF Inv
<1>2. Inv /\ MaskTypes => TypeOK
  BY TypesComplete, ZenonT(30) DEF Inv
<1> QED
  BY <1>1, <1>2, InvAlways, MaskTypesInit, PTL DEF Spec

-----------------------------------------------------------------------------
(***************************************************************************)
(* The masks of the host.                                                  *)
(***************************************************************************)

\* One chzdev, which is not interrupted, and whose writes to sysfs succeed.
Undisturbed ==
    /\ \A y, z \in Chzdev : y = z
    /\ Chzdev \cap Mortal = {}
    /\ Faults \cap Attr = {}

\* No queue of q belongs to an active device.
Free(q) == \A u \in Mdev : active[u] # NONE => ~find_apqn_conflicts(active[u], q)

\* The masks that a chzdev has read are those of sysfs still; those it is to write
\* leave the active devices their queues, and each of them has been written or
\* will be.
HostAt(z) ==
    /\ pc[z] = "settings" => masks[z].sys = Queues(apmask, aqmask)
    /\ pc[z] = "write" =>
          /\ "apmask" \in masks[z].todo \/ apmask = masks[z].sys.adapters
          /\ "aqmask" \in masks[z].todo \/ aqmask = masks[z].sys.domains
          /\ Free(masks[z].sys)

\* The inductive invariant.
HostInv ==
    /\ Chzdev \subseteq alive
    /\ \A z \in Chzdev : HostAt(z)
    /\ HostMasksFree

\* The analysis of mask changes is enough: masks that leave the active devices
\* their queues do so after a change that ap_check_mask_changes accepts.
LEMMA ChangesSuffice ==
    ASSUME NEW old \in Masks, NEW new \in Masks,
           Free(old.sys), ap_check_mask_changes(old, new)
    PROVE  Free(new.sys)
<1> SUFFICES ASSUME NEW u \in Mdev, active[u] # NONE, find_apqn_conflicts(active[u], new.sys)
             PROVE  FALSE
  BY DEF Free
<1>1. PICK a \in active[u].adapters \cap new.sys.adapters, d \in active[u].domains \cap new.sys.domains : TRUE
  BY DEF find_apqn_conflicts
<1>2. ~ChangeConflicts(old.sys, new.sys, active[u])
  BY ZenonT(30) DEF ap_check_mask_changes
<1>3. a \in old.sys.adapters
  BY <1>1, <1>2, ZenonT(30) DEF ChangeConflicts, find_apqn_conflicts, Queues
<1>4. d \in old.sys.domains
  BY <1>1, <1>2, ZenonT(30) DEF ChangeConflicts, find_apqn_conflicts, Queues
<1>5. find_apqn_conflicts(active[u], old.sys)
  BY <1>1, <1>3, <1>4 DEF find_apqn_conflicts
<1> QED
  BY <1>5 DEF Free

\* mdevctl and others leave the masks alone, and no device changes while a chzdev
\* has the lock.
LEMMA OthersHost ==
    ASSUME Inv, HostInv, [Next]_vars, UNCHANGED <<apmask, aqmask>>, Chzdev \subseteq alive',
           \A z \in Chzdev : pc'[z] = pc[z] /\ masks'[z] = masks[z],
           \/ UNCHANGED active
           \/ \E m \in Mdevctl : m \in alive /\ pc[m] \in Held
    PROVE  HostInv'
<1>1. CASE UNCHANGED active
  BY <1>1, ZenonT(30) DEF HostInv, HostAt, HostMasksFree, Free, find_apqn_conflicts, Queues
<1>2. CASE ~UNCHANGED active
  <2>1. PICK m \in Mdevctl : m \in alive /\ pc[m] \in Held
    BY <1>2
  <2>2. ASSUME NEW z \in Chzdev PROVE pc[z] # "write"
    <3>1. z # m /\ z \in alive
      BY <2>1, ApAssumption, ZenonT(30) DEF HostInv
    <3>2. holder = m
      BY <2>1, ZenonT(30) DEF Inv, LockKept, Held
    <3>3. pc[z] = "write" => holder = z
      BY <3>1, ZenonT(30) DEF Inv, LockKept
    <3> QED
      BY <3>1, <3>2, <3>3, ZenonT(30)
  <2>3. \A z \in Chzdev : HostAt(z)'
    BY <2>2, ZenonT(30) DEF HostInv, HostAt, Queues
  <2>4. PICK u \in Mdev : ChangeOK(u) /\ \A v \in Mdev \ {u} : active'[v] = active[v]
    BY <1>2, ChangeStep, ZenonT(30) DEF Inv
  <2>5. \A v \in Mdev : active'[v] # NONE => ~find_apqn_conflicts(active'[v], Queues(apmask, aqmask))
    BY <2>2, <2>4, ZenonT(30) DEF ChangeOK, HostInv, HostMasksFree
  <2>6. HostMasksFree'
    BY <2>5 DEF HostMasksFree, Queues, find_apqn_conflicts
  <2> QED
    BY <2>3, <2>6, ZenonT(30) DEF HostInv
<1> QED
  BY <1>1, <1>2, ZenonT(30)

\* The steps of the only chzdev: it accepts a change of the masks under the lock,
\* and the masks are those that it has checked when it gives the lock back.
LEMMA SettingsHost ==
    ASSUME Undisturbed, Inv, MaskTypes, HostInv, NEW z \in Chzdev, Settings(z)
    PROVE  HostInv'
<1>0. /\ z \in Pid /\ Chzdev = {z} /\ UNCHANGED <<active, alive>>
      /\ pc \in [Pid -> Held \cup {"idle", "lock", "settings"}] /\ masks \in [Pid -> Masks \cup {NONE}]
  BY SettingsFrame, ZenonT(30) DEF Undisturbed, Pid, Inv, Types, MaskTypes
<1>1. SUFFICES HostAt(z)' /\ HostMasksFree'
  BY <1>0, ZenonT(30) DEF HostInv
<1>2. \A q : Free(q)' = Free(q)
  BY <1>0 DEF Free, find_apqn_conflicts
<1>3. pc[z] # "write" => Free(Queues(apmask, aqmask))
  BY <1>0, ZenonT(30) DEF HostInv, HostMasksFree, Free
<1>4. CASE \E scope \in Scopes : ap_devtype_read_settings(z, scope)
  <2> PICK scope \in Scopes : ap_devtype_read_settings(z, scope)
    BY <1>4
  <2> DEFINE read == [scope |-> scope, sys |-> Queues(apmask, aqmask), p |-> ap_read_udev_masks,
                      valid |-> {a \in Attr : udev[a] # NONE}, todo |-> {}]
  <2>1. /\ pc[z] = "idle" /\ pc' = [pc EXCEPT ![z] = "settings"]
        /\ masks' = [masks EXCEPT ![z] = read]
        /\ UNCHANGED <<apmask, aqmask>>
    BY ZenonT(30) DEF ap_devtype_read_settings, Goto, sysfs
  <2>2. read.sys = Queues(apmask, aqmask)
    OBVIOUS
  <2> HIDE DEF read
  <2>3. pc'[z] = "settings" /\ masks'[z] = read
    BY <1>0, <2>1, ZenonT(30)
  <2> QED
    BY <2>2, <2>3, <1>0, <1>3, <2>1, ZenonT(30) DEF HostAt, HostMasksFree, Free, Queues, find_apqn_conflicts
<1>5. CASE \E in \in [apmask : ApInput \cup {NONE}, aqmask : AqInput \cup {NONE}],
              removed \in SUBSET Attr : ap_devtype_write_settings(z, in, removed)
  <2> PICK in \in [apmask : ApInput \cup {NONE}, aqmask : AqInput \cup {NONE}],
           removed \in SUBSET Attr : ap_devtype_write_settings(z, in, removed)
    BY <1>5
  <2> DEFINE old == masks[z]
             new == NewMasks(masks[z], in, removed)
  <2>1. pc[z] = "settings" /\ UNCHANGED <<apmask, aqmask>>
    BY ZenonT(30) DEF ap_devtype_write_settings, sysfs
  <2>2. old \in Masks /\ old.sys = Queues(apmask, aqmask) /\ Free(old.sys)
    BY <1>3, <2>1, WriteSettingsTypes, ZenonT(30) DEF HostInv, HostAt
  <2>3. /\ new \in Masks
        /\ "apmask" \in new.todo \/ new.sys.adapters = apmask
        /\ "aqmask" \in new.todo \/ new.sys.domains = aqmask
    <3>1. old.sys.adapters = apmask /\ old.sys.domains = aqmask
      BY <2>2 DEF Queues
    <3>2. /\ new \in Masks
          /\ "apmask" \in new.todo \/ new.sys.adapters = old.sys.adapters
          /\ "aqmask" \in new.todo \/ new.sys.domains = old.sys.domains
      BY <2>2, NewMasksSound, ZenonT(30)
    <3> QED
      BY <3>1, <3>2, ZenonT(30)
  <2>4. CASE /\ ap_check_mask_changes(old, new)
             /\ masks' = [masks EXCEPT ![z] = new]
             /\ pc' = [pc EXCEPT ![z] = "write"]
    <3>1. masks'[z] = new /\ pc'[z] = "write"
      BY <1>0, <2>4
    <3>2. Free(new.sys)
      BY <2>2, <2>3, <2>4, ChangesSuffice, ZenonT(30)
    <3> HIDE DEF new
    <3> QED
      BY <1>0, <1>2, <2>1, <2>3, <3>1, <3>2, ZenonT(30) DEF HostAt, HostMasksFree
  <2>5. CASE pc' = [pc EXCEPT ![z] = "idle"]
    <3>1. pc'[z] = "idle"
      BY <1>0, <2>5, ZenonT(30)
    <3> QED
      BY <1>0, <1>3, <2>1, <3>1 DEF HostAt, HostMasksFree, Free, Queues, find_apqn_conflicts
  <2> QED
    BY <2>4, <2>5, WriteSettingsTypes
<1>6. CASE CommitMask(z)
  <2>1. pc[z] = "write" /\ pc'[z] = "write" /\ masks'[z].sys = masks[z].sys /\ HostAt(z)
    BY <1>6, WriteTypes DEF CommitMask, Inv, HostInv
  <2>2. PICK w \in masks[z].todo :
          /\ \A x \in masks[z].todo : Order[w] <= Order[x]
          /\ \/ /\ apmask' = IF w = "apmask" THEN masks[z].sys.adapters ELSE apmask
                /\ aqmask' = IF w = "aqmask" THEN masks[z].sys.domains ELSE aqmask
                /\ masks' = [masks EXCEPT ![z].todo = masks[z].todo \ {w}]
             \/ /\ w \in Faults
                /\ masks' = [masks EXCEPT ![z].todo = IF w = "remove" THEN {} ELSE masks[z].todo \ {w}]
                /\ UNCHANGED <<apmask, aqmask>>
    BY <1>0, <1>6 DEF CommitMask
  <2>3. w = "remove" => \A a \in Attr : a \notin masks[z].todo
    BY <2>2 DEF Order, Attr
  <2>4. w \in Faults => w \notin Attr
    BY ZenonT(30) DEF Undisturbed
  <2>5. masks[z] \in Masks
    BY <1>6, WriteTypes DEF Inv
  <2>6. \A T : masks' = [masks EXCEPT ![z].todo = T] => masks'[z].todo = T
    BY <1>0, <2>5 DEF Masks
  <2>7. /\ "apmask" \in masks'[z].todo \/ apmask' = masks[z].sys.adapters
        /\ "aqmask" \in masks'[z].todo \/ aqmask' = masks[z].sys.domains
    <3>1. CASE /\ apmask' = IF w = "apmask" THEN masks[z].sys.adapters ELSE apmask
               /\ aqmask' = IF w = "aqmask" THEN masks[z].sys.domains ELSE aqmask
               /\ masks' = [masks EXCEPT ![z].todo = masks[z].todo \ {w}]
      BY <2>1, <2>6, <3>1 DEF HostAt
    <3>2. CASE /\ w \in Faults
               /\ masks' = [masks EXCEPT ![z].todo = IF w = "remove" THEN {} ELSE masks[z].todo \ {w}]
               /\ UNCHANGED <<apmask, aqmask>>
      <4>1. \A a \in Attr : a \in masks[z].todo => a \in masks'[z].todo
        BY <2>3, <2>4, <2>6, <3>2, ZenonT(30)
      <4> QED
        BY <2>1, <3>2, <4>1 DEF HostAt, Attr
    <3> QED
      BY <2>2, <3>1, <3>2
  <2> QED
    BY <1>0, <1>2, <2>1, <2>7 DEF HostAt, HostMasksFree
<1>7. CASE EndWrite(z)
  <2>1. /\ pc[z] = "write" /\ pc'[z] = "idle" /\ masks[z].todo = {} /\ UNCHANGED <<apmask, aqmask>>
    BY <1>0, <1>7, ZenonT(30) DEF EndWrite, Exit, sysfs
  <2>2. apmask = masks[z].sys.adapters /\ aqmask = masks[z].sys.domains /\ Free(masks[z].sys)
    BY <2>1 DEF HostInv, HostAt
  <2> QED
    BY <1>0, <2>1, <2>2, ZenonT(30) DEF HostAt, HostMasksFree, Free, Queues, find_apqn_conflicts
<1> QED
  BY <1>4, <1>5, <1>6, <1>7, ZenonT(30) DEF Settings

\* No step gives the host a queue of an active device.
LEMMA HostStep ==
    ASSUME Undisturbed, Inv, MaskTypes, HostInv, [Next]_vars
    PROVE  HostInv'
<1>0. Mdevctl \subseteq Pid /\ Chzdev \subseteq Pid /\ Mdevctl \cap Chzdev = {} /\ Chzdev \subseteq alive
  BY ApAssumption, ZenonT(30) DEF Pid, HostInv
<1>1. CASE \E m \in Mdevctl : Command(m)
  <2> PICK m \in Mdevctl : Command(m)
    BY <1>1, ZenonT(30)
  <2>1. \A z \in Chzdev : pc'[z] = pc[z] /\ masks'[z] = masks[z]
    BY <1>0, CommandFrame DEF Inv, MaskTypes
  <2> QED
    BY <1>0, <2>1, CommandFrame, OthersHost DEF Inv
<1>2. CASE \E z \in Chzdev : Settings(z)
  BY <1>2, SettingsHost
<1>3. CASE \E p \in Pid : LockFails(p) \/ Kill(p)
  <2> PICK p \in Pid : LockFails(p) \/ Kill(p)
    BY <1>3, ZenonT(30)
  <2>1. /\ UNCHANGED <<active, apmask, aqmask>>
        /\ pc' = [pc EXCEPT ![p] = "idle"] /\ masks' = [masks EXCEPT ![p] = NONE]
        /\ Chzdev \subseteq alive'
    BY <1>0 DEF LockFails, Kill, Exit, lock, sysfs, Lock!Die, Undisturbed
  <2>2. CASE p \in Mdevctl
    <3>1. \A z \in Chzdev : pc'[z] = pc[z] /\ masks'[z] = masks[z]
      BY <1>0, <2>1, <2>2 DEF Inv, Types, MaskTypes
    <3> QED
      BY <2>1, <3>1, OthersHost, ZenonT(30)
  <2>3. CASE p \in Chzdev
    <3>1. pc[p] # "write" /\ pc'[p] = "idle" /\ Chzdev = {p}
      BY <1>0, <2>1, <2>3, ZenonT(30) DEF LockFails, Kill, Lock!Die, Undisturbed, Inv, Types, MaskTypes
    <3>2. HostAt(p)' /\ HostMasksFree'
      BY <2>1, <3>1, ZenonT(30) DEF HostAt, HostInv, HostMasksFree, Queues, find_apqn_conflicts
    <3> QED
      BY <2>1, <3>1, <3>2 DEF HostInv
  <2> QED
    BY <2>2, <2>3 DEF Pid
<1>4. CASE Expire \/ UNCHANGED vars
  <2>1. UNCHANGED <<active, apmask, aqmask, pc, masks, alive>>
    BY <1>4 DEF Expire, Lock!Expire, vars, lock, sysfs
  <2> QED
    BY <1>0, <2>1, OthersHost
<1> QED
  BY <1>1, <1>2, <1>3, <1>4 DEF Next

\* With one chzdev that is not interrupted and whose writes to sysfs succeed, no
\* queue of an active device belongs to the host, except while the chzdev writes
\* one mask after the other.
THEOREM HostLeavesQueues ==
    ASSUME Undisturbed
    PROVE  Spec => []HostMasksFree
<1>1. Init => HostInv
  <2> SUFFICES ASSUME Init PROVE HostInv
    OBVIOUS
  <2>1. Chzdev \subseteq alive /\ \A z \in Chzdev : pc[z] = "idle"
    BY DEF Init, Lock!Init, Pid
  <2>2. \A u \in Mdev : active[u] = NONE
    BY DEF Init
  <2> QED
    BY <2>1, <2>2 DEF HostInv, HostAt, HostMasksFree
<1>2. Inv /\ MaskTypes /\ HostInv /\ [Next]_vars => HostInv'
  BY HostStep
<1>3. Inv /\ MaskTypes /\ [Next]_vars => MaskTypes'
  BY MaskTypesStep DEF Inv
<1>4. HostInv => HostMasksFree
  BY DEF HostInv
<1> QED
  BY <1>1, <1>2, <1>3, <1>4, InvAlways, MaskTypesInit, PTL DEF Spec
=============================================================================
