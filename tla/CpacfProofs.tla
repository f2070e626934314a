----------------------------- MODULE CpacfProofs -----------------------------
(***************************************************************************)
(* Proofs about cpacfstatsd and the client that reads its answers, for any *)
(* set of CPUs and counters and any number of clients and hotplug events.  *)
(***************************************************************************)
EXTENDS CpacfClient, FiniteSetTheorems, TLAPS

\* Within a query the loop variable names a counter.
Busy ==
    main \in {"perf_ctr_state", "operate", "perf_read_ctr", "send_answer", "do_send_pai"}
        => i <= Len(Order)

\* A counter that is about to be disabled is still counted, even if a CPU whose
\* event does not open has made it unsupported after its state was read.
Pending ==
    (main = "operate" /\ req.cmd = "DISABLE")
        => enabledcounter >= Cardinality(Enabled \ {Order[i]}) + 1

\* The inductive invariant.
Inv == TypeOK /\ Busy /\ FdsFollowState /\ EnabledCovered /\ Pending

\* The part of the type invariant that the counters need.
CountersOK ==
    /\ root \in Seq(Entry)
    /\ ctr_state \in [Counter -> State]
    /\ enabledcounter \in Int
    /\ hotplugdetected \in BOOLEAN

\* Of the rest, the part that says where the threads are and what they work on.
ControlOK ==
    /\ hotplugthread \in {"none", "start", "loop", "poll", "closed"}
    /\ online \subseteq Cpu
    /\ events \in Seq(Event)
    /\ hotplugs \in 0 .. MaxHotplug
    /\ main \in {"perf_init", "addallcpus", "activate", "open_socket", "loop",
                 "accept", "perf_ctr_state", "operate", "perf_read_ctr", "send_answer",
                 "do_send_pai", "hotplug_answer", "close", "perf_close", "join",
                 "end", "failed"}
    /\ todo \subseteq Cpu
    /\ req \in Query
    /\ i \in 1 .. Len(Order) + 1
    /\ state \in State
    /\ rc \in {-1, 0}
    /\ details \in Nat
    /\ requests \in 0 .. MaxRequests

-----------------------------------------------------------------------------
(***************************************************************************)
(* What the operations of CpacfPerf do to the counters.                    *)
(***************************************************************************)

\* There are finitely many counters,
LEMMA CounterFinite == IsFiniteSet(Counter)
<1>1. IsFiniteSet({"PAI_USER"}) /\ IsFiniteSet({"PAI_KERNEL"})
  BY FS_Singleton, ZenonT(30)
<1>2. PAI = {"PAI_USER"} \cup {"PAI_KERNEL"}
  BY DEF PAI
<1>3. IsFiniteSet(PAI)
  BY <1>1, <1>2, FS_Union, ZenonT(30)
<1> QED
  BY <1>3, FS_Union, CounterAssumption, ZenonT(30) DEF Counter

\* so those that are enabled can be counted, before and after a step,
LEMMA EnabledFinite ==
    /\ IsFiniteSet(Enabled) /\ Cardinality(Enabled) \in Nat
    /\ IsFiniteSet(Enabled') /\ Cardinality(Enabled') \in Nat
<1>1. Enabled \in SUBSET Counter /\ Enabled' \in SUBSET Counter
  BY DEF Enabled
<1>2. IsFiniteSet(Enabled) /\ IsFiniteSet(Enabled')
  BY <1>1, CounterFinite, FS_Subset, ZenonT(30)
<1> QED
  BY <1>2, FS_CardinalityType, ZenonT(30)

\* activatecpu keeps the types, leaves an event counting exactly when its counter
\* is enabled, and enables no counter.
LEMMA ActivateCpu ==
    ASSUME NEW cpu \in Cpu, NEW F, CountersOK, FdsFollowState, activatecpu(cpu, F)
    PROVE  CountersOK' /\ FdsFollowState' /\ Enabled' \subseteq Enabled
<1>1. PICK M : root' = <<[cpunum |-> cpu, fds |-> [c \in Counter |-> opened_fd(c, M)]]>> \o root
  BY ZenonT(30) DEF activatecpu
<1> DEFINE new == [cpunum |-> cpu, fds |-> [c \in Counter |-> opened_fd(c, M)]]
<1>2. new \in Entry
  BY ZenonT(30) DEF Entry, opened_fd, Fd
<1>3. root' \in Seq(Entry)
  BY <1>1, <1>2, SMTT(30) DEF CountersOK
<1>4. /\ ctr_state' \in [Counter -> State]
      /\ \A c \in Counter : ctr_state'[c] \in {ctr_state[c], "UNSUPPORTED"}
  BY ZenonT(30) DEF activatecpu, CountersOK, State
<1>5. hotplugdetected' \in BOOLEAN
  BY DEF activatecpu, report_hotplug, CountersOK
<1>6. enabledcounter' \in Int
  BY ZenonT(30) DEF activatecpu, CountersOK
<1>7. CountersOK'
  BY <1>3, <1>4, <1>5, <1>6, ZenonT(30) DEF CountersOK
<1>8. Enabled' \subseteq Enabled
  BY <1>4, ZenonT(30) DEF Enabled
<1>9. ASSUME NEW k \in DOMAIN root', NEW c \in Counter, root'[k].fds[c] # "none"
      PROVE  /\ ctr_state'[c] = "ENABLED" => root'[k].fds[c] = "on"
             /\ ctr_state'[c] = "DISABLED" => root'[k].fds[c] = "off"
  <2>1. CASE k = 1
    <3>1. root'[k] = new
      BY <1>1, <1>2, <2>1, SMTT(30) DEF CountersOK
    <3>2. root'[k].fds[c] = opened_fd(c, M)
      BY <3>1, SMTT(30)
    <3> QED
      BY <3>2, <1>4, <1>9, ZenonT(30) DEF opened_fd
  <2>2. CASE k # 1
    <3>1. k - 1 \in DOMAIN root /\ root'[k] = root[k - 1]
      BY <1>1, <1>2, <1>9, <2>2, SMTT(30) DEF CountersOK
    <3> QED
      BY <3>1, <1>4, <1>9, ZenonT(30) DEF FdsFollowState
  <2> QED
    BY <2>1, <2>2, ZenonT(30)
<1> QED
  BY <1>7, <1>8, <1>9, ZenonT(30) DEF FdsFollowState

\* What deactivatecpu leaves of the list: the entries after the one it takes away
\* move up.
LEMMA Detached ==
    ASSUME CountersOK, NEW found \in DOMAIN root
    PROVE  root' = SubSeq(root, 1, found - 1) \o SubSeq(root, found + 1, Len(root)) =>
               /\ root' \in Seq(Entry) /\ DOMAIN root' = 1 .. Len(root) - 1
               /\ \A k \in 1 .. Len(root) - 1 :
                     root'[k] = IF k < found THEN root[k] ELSE root[k + 1]
<1> DEFINE before == SubSeq(root, 1, found - 1)
           after == SubSeq(root, found + 1, Len(root))
<1>1. found \in 1 .. Len(root) /\ root \in Seq(Entry) /\ Len(root) \in Nat
  BY DEF CountersOK
<1>2. /\ before \in Seq(Entry) /\ Len(before) = found - 1
      /\ \A k \in 1 .. found - 1 : before[k] = root[k]
  BY <1>1, SMTT(30)
<1>3. /\ after \in Seq(Entry) /\ Len(after) = Len(root) - found
      /\ \A k \in 1 .. Len(root) - found : after[k] = root[found + k]
  BY <1>1, SMTT(30)
<1>4. SUFFICES ASSUME root' = before \o after
               PROVE  /\ root' \in Seq(Entry) /\ DOMAIN root' = 1 .. Len(root) - 1
                      /\ \A k \in 1 .. Len(root) - 1 :
                            root'[k] = IF k < found THEN root[k] ELSE root[k + 1]
  BY ZenonT(30)
<1> HIDE DEF before, after
<1>5. root' \in Seq(Entry) /\ DOMAIN root' = 1 .. Len(root) - 1
  <2>0. before \in Seq(Entry) /\ after \in Seq(Entry)
    BY <1>2, <1>3
  <2>1. root' \in Seq(Entry)
    BY <1>4, <2>0, SMTT(30)
  <2>2. Len(root') = Len(before) + Len(after)
    BY <1>4, <2>0, SMTT(30)
  <2>3. Len(root') = Len(root) - 1
    BY <2>2, <1>1, <1>2, <1>3, SMTT(30)
  <2>4. DOMAIN root' = 1 .. Len(root')
    BY <2>1
  <2> QED
    BY <2>1, <2>3, <2>4
<1>6. ASSUME NEW k \in 1 .. Len(root) - 1
      PROVE  root'[k] = IF k < found THEN root[k] ELSE root[k + 1]
  <2>1. CASE k <= found - 1
    <3>1. root'[k] = before[k]
      BY <1>4, <1>1, <1>2, <1>3, <2>1
    <3> QED
      BY <3>1, <1>1, <1>2, <2>1, SMTT(30)
  <2>2. CASE k > found - 1
    <3>0. k \in Len(before) + 1 .. Len(before) + Len(after)
      BY <1>1, <1>2, <1>3, <2>2, SMTT(30)
    <3>1. root'[k] = after[k - Len(before)]
      <4>1. before \in Seq(Entry) /\ after \in Seq(Entry)
        BY <1>2, <1>3
      <4> QED
        BY <1>4, <3>0, <4>1
    <3>2. after[k - Len(before)] = root[k + 1]
      BY <1>1, <1>2, <1>3, <2>2, SMTT(30)
    <3> QED
      BY <3>1, <3>2, <1>1, <2>2
  <2> QED
    BY <2>1, <2>2, <1>1
<1> QED
  BY <1>5, <1>6, ZenonT(30)

\* So does deactivatecpu.
LEMMA DeactivateCpu ==
    ASSUME NEW cpu \in Cpu, CountersOK, FdsFollowState, deactivatecpu(cpu)
    PROVE  CountersOK' /\ FdsFollowState' /\ Enabled' = Enabled
<1>1. CASE UNCHANGED counters
  BY <1>1 DEF counters, CountersOK, FdsFollowState, Enabled
<1>2. CASE \E found \in Attached(cpu) :
              /\ root' = SubSeq(root, 1, found - 1) \o SubSeq(root, found + 1, Len(root))
              /\ hotplugdetected' = report_hotplug
              /\ UNCHANGED <<ctr_state, enabledcounter>>
  <2>1. PICK found \in Attached(cpu) :
              /\ root' = SubSeq(root, 1, found - 1) \o SubSeq(root, found + 1, Len(root))
              /\ hotplugdetected' = report_hotplug
              /\ UNCHANGED <<ctr_state, enabledcounter>>
    BY <1>2, ZenonT(30)
  <2>5. /\ root' \in Seq(Entry) /\ DOMAIN root' = 1 .. Len(root) - 1
        /\ \A k \in DOMAIN root' : \E j \in DOMAIN root : root'[k] = root[j]
    <3>1. found \in DOMAIN root /\ DOMAIN root = 1 .. Len(root) /\ Len(root) \in Nat
      BY DEF Attached, CountersOK
    <3>2. /\ root' \in Seq(Entry) /\ DOMAIN root' = 1 .. Len(root) - 1
          /\ \A k \in 1 .. Len(root) - 1 :
                root'[k] = IF k < found THEN root[k] ELSE root[k + 1]
      BY <2>1, <3>1, Detached, ZenonT(30)
    <3> QED
      BY <3>1, <3>2, SMTT(30)
  <2>6. hotplugdetected' \in BOOLEAN
    BY <2>1 DEF report_hotplug, CountersOK
  <2>7. CountersOK'
    BY <2>1, <2>5, <2>6 DEF CountersOK
  <2>8. ASSUME NEW k \in DOMAIN root', NEW c \in Counter, root'[k].fds[c] # "none"
        PROVE  /\ ctr_state'[c] = "ENABLED" => root'[k].fds[c] = "on"
               /\ ctr_state'[c] = "DISABLED" => root'[k].fds[c] = "off"
    <3>1. PICK j \in DOMAIN root : root'[k] = root[j]
      BY <2>5, <2>8
    <3>2. ctr_state' = ctr_state
      BY <2>1
    <3>3. root[j].fds[c] # "none"
      BY <3>1, <2>8
    <3> QED
      BY <3>1, <3>2, <3>3 DEF FdsFollowState
  <2> QED
    BY <2>1, <2>7, <2>8, ZenonT(30) DEF Enabled, FdsFollowState
<1> QED
  BY <1>1, <1>2, ZenonT(30) DEF deactivatecpu

\* Switching a counter keeps the types; its events follow.
LEMMA Switch ==
    ASSUME NEW c \in Counter, NEW fd \in {"on", "off"}, CountersOK, FdsFollowState,
           root' = Switched(c, fd),
           ctr_state' = [ctr_state EXCEPT ![c] = IF fd = "on" THEN "ENABLED" ELSE "DISABLED"]
    PROVE  /\ root' \in Seq(Entry)
           /\ ctr_state' \in [Counter -> State]
           /\ FdsFollowState'
           /\ DOMAIN root' = DOMAIN root
           /\ \A k \in DOMAIN root : root'[k].cpunum = root[k].cpunum
           /\ Enabled' = IF fd = "on" THEN Enabled \cup {c} ELSE Enabled \ {c}
<1>1. ctr_state' \in [Counter -> State]
  BY DEF CountersOK, State
<1>2. Enabled' = IF fd = "on" THEN Enabled \cup {c} ELSE Enabled \ {c}
  BY DEF Enabled, CountersOK
<1>3. DOMAIN root = 1 .. Len(root) /\ Len(root) \in Nat /\ DOMAIN root' = DOMAIN root
  BY DEF CountersOK, Switched
<1>4. ASSUME NEW k \in DOMAIN root
      PROVE  /\ root'[k] \in Entry
             /\ root'[k].cpunum = root[k].cpunum
             /\ root[k].fds \in [Counter -> Fd]
             /\ \A e \in Counter : root'[k].fds[e] =
                    IF e = c /\ root[k].fds[e] # "none" THEN fd ELSE root[k].fds[e]
  <2> DEFINE fds == [e \in Counter |->
                        IF e = c /\ root[k].fds[e] # "none" THEN fd ELSE root[k].fds[e]]
  <2>1. root[k] \in Entry
    BY <1>3, <1>4 DEF CountersOK
  <2>2. root[k].cpunum \in Cpu /\ root[k].fds \in [Counter -> Fd]
    BY <2>1 DEF Entry
  <2>3. fds \in [Counter -> Fd]
    BY <2>2 DEF Fd
  <2>4. root'[k] = [cpunum |-> root[k].cpunum, fds |-> fds]
    BY <1>4 DEF Switched
  <2>5. \A e \in Counter : fds[e] =
            IF e = c /\ root[k].fds[e] # "none" THEN fd ELSE root[k].fds[e]
    OBVIOUS
  <2> HIDE DEF fds
  <2>6. root'[k].cpunum = root[k].cpunum /\ root'[k].fds = fds
    BY <2>4
  <2>7. root'[k] \in Entry
    BY <2>2, <2>3, <2>4 DEF Entry
  <2> QED
    BY <2>2, <2>5, <2>6, <2>7
<1>6. root' \in Seq(Entry)
  <2>1. root' \in [1 .. Len(root) -> Entry]
    BY <1>3, <1>4 DEF Switched
  <2> QED
    BY <2>1, <1>3
<1>7. ASSUME NEW k \in DOMAIN root, NEW e \in Counter, root'[k].fds[e] # "none"
      PROVE  /\ ctr_state'[e] = "ENABLED" => root'[k].fds[e] = "on"
             /\ ctr_state'[e] = "DISABLED" => root'[k].fds[e] = "off"
  <2>1. root'[k].fds[e] = IF e = c /\ root[k].fds[e] # "none" THEN fd ELSE root[k].fds[e]
    BY <1>4, <1>7
  <2>2. CASE e = c
    BY <2>1, <2>2, <1>4, <1>7 DEF CountersOK
  <2>3. CASE e # c
    BY <2>1, <2>3, <1>4, <1>7 DEF FdsFollowState, CountersOK
  <2> QED
    BY <2>2, <2>3
<1> QED
  BY <1>1, <1>2, <1>3, <1>4, <1>6, <1>7 DEF FdsFollowState

-----------------------------------------------------------------------------
(***************************************************************************)
(* Types.                                                                  *)
(***************************************************************************)

\* What is in Order are counters.
LEMMA OrderOK ==
    /\ Len(Order) \in Nat
    /\ \A n \in 1 .. Len(Order) : Order[n] \in Counter
BY OrderAssumption

\* Going on to the next counter that is selected keeps the loop variable in range.
LEMMA ForCounterRange ==
    ASSUME NEW q, NEW r, i \in 1 .. Len(Order), ForCounter(q, i + 1, r)
    PROVE  /\ i' \in 1 .. Len(Order) + 1
           /\ main' \in {"perf_ctr_state", "hotplug_answer", "close"}
           /\ Busy'
<1>1. i' \in i + 1 .. Len(Order) + 1
  BY ZenonT(30) DEF ForCounter
<1>2. i' \in 1 .. Len(Order) + 1
  BY <1>1, OrderOK
<1>3. \/ main' = "perf_ctr_state" /\ i' <= Len(Order)
      \/ main' \in {"hotplug_answer", "close"}
  BY ZenonT(30) DEF ForCounter
<1> QED
  BY <1>2, <1>3, ZenonT(30) DEF Busy

\* Every step keeps the types of the control state and the loop variable in range.
LEMMA ControlStep ==
    ASSUME ControlOK, Busy, CountersOK, [Next]_vars
    PROVE  ControlOK' /\ Busy'
<1> USE OrderOK, OrderAssumption, CounterAssumption
<1>1. CASE perf_init
  BY <1>1 DEF perf_init, Goto, request, kernel, ControlOK, Busy
<1>2. CASE addallcpus
  BY <1>2, ZenonT(30) DEF addallcpus, KeepThread, OtherThread, request, kernel, ControlOK, Busy
<1>3. CASE addallcpus_activate
  BY <1>3 DEF addallcpus_activate, KeepThread, OtherThread, request, kernel, ControlOK, Busy
<1>4. CASE open_socket
  BY <1>4 DEF open_socket, Goto, KeepThread, OtherThread, request, kernel, ControlOK, Busy
<1>5. CASE Loop
  BY <1>5 DEF Loop, Goto, KeepThread, OtherThread, request, kernel, ControlOK, Busy
<1>6. CASE AcceptFails
  BY <1>6 DEF AcceptFails, Goto, KeepThread, OtherThread, request, kernel, ControlOK, Busy
<1>7. ASSUME NEW q \in Queries, accept(q)
      PROVE  ControlOK' /\ Busy'
  <2>1. q \in Query
    OBVIOUS
  <2> QED
    BY <1>7, <2>1 DEF accept, ForCounter, KeepThread, OtherThread, kernel, ControlOK, Busy
<1>8. CASE perf_ctr_state
  <2>1. state' \in State
    BY <1>8 DEF perf_ctr_state, ControlOK, Busy, CountersOK
  <2> QED
    BY <1>8, <2>1, ZenonT(30) DEF perf_ctr_state, Goto, KeepThread, OtherThread, kernel, ControlOK, Busy
<1>9. CASE operate
  BY <1>9, ZenonT(30) DEF operate, Failed, Goto, State, OtherThread, kernel, ControlOK, Busy
<1>10. CASE perf_read_ctr
  BY <1>10, ZenonT(30) DEF perf_read_ctr, Failed, Goto, OtherThread, kernel, ControlOK, Busy
<1>11. CASE send_answer
  <2>1. i \in 1 .. Len(Order)
    BY <1>11 DEF send_answer, ControlOK, Busy
  <2>2. CASE main' = "do_send_pai" /\ UNCHANGED <<i, rc>> /\ details' = NumPai[Order[i]]
                /\ Order[i] \in PAI
    BY <1>11, <2>1, <2>2, ZenonT(30) DEF send_answer, OtherThread, kernel, ControlOK, Busy
  <2>3. CASE ForCounter(req, i + 1, rc') /\ rc' \in {-1, 0} /\ UNCHANGED details
    <3>1. /\ i' \in 1 .. Len(Order) + 1
          /\ main' \in {"perf_ctr_state", "hotplug_answer", "close"}
          /\ Busy'
      BY <2>1, <2>3, ForCounterRange, ZenonT(30)
    <3>2. UNCHANGED <<hotplugthread, online, events, hotplugs, todo, req, state, requests>>
      BY <1>11, ZenonT(30) DEF send_answer, OtherThread, kernel
    <3>3. details' \in Nat
      BY <2>3, ZenonT(30) DEF ControlOK
    <3> QED
      BY <2>3, <3>1, <3>2, <3>3, ZenonT(30) DEF ControlOK
  <2> QED
    BY <1>11, <2>1, <2>2, <2>3, ZenonT(30) DEF send_answer, ControlOK
<1>12. CASE do_send_pai
  <2>1. i \in 1 .. Len(Order)
    BY <1>12 DEF do_send_pai, ControlOK, Busy
  <2>2. CASE main' = main /\ UNCHANGED <<i, rc>> /\ details' = details - 1 /\ details # 0
    <3>1. details' \in Nat
      <4>1. details \in Nat
        BY ZenonT(30) DEF ControlOK
      <4> QED
        BY <2>2, <4>1, SMTT(30)
    <3>2. /\ UNCHANGED <<hotplugthread, online, events, hotplugs, todo, req, state, requests>>
          /\ UNCHANGED <<main, i, rc>>
      BY <1>12, <2>2, ZenonT(30) DEF do_send_pai, OtherThread, kernel
    <3> QED
      BY <3>1, <3>2, ZenonT(30) DEF ControlOK, Busy
  <2>3. CASE ForCounter(req, i + 1, rc') /\ rc' \in {-1, 0} /\ details' \in {details, 0}
    <3>1. /\ i' \in 1 .. Len(Order) + 1
          /\ main' \in {"perf_ctr_state", "hotplug_answer", "close"}
          /\ Busy'
      BY <2>1, <2>3, ForCounterRange, ZenonT(30)
    <3>2. UNCHANGED <<hotplugthread, online, events, hotplugs, todo, req, state, requests>>
      BY <1>12, ZenonT(30) DEF do_send_pai, OtherThread, kernel
    <3>3. details' \in Nat
      BY <2>3 DEF ControlOK
    <3> QED
      BY <2>3, <3>1, <3>2, <3>3, ZenonT(30) DEF ControlOK
  <2> QED
    BY <1>12, <2>1, <2>2, <2>3, ZenonT(30) DEF do_send_pai
<1>13. CASE hotplug_answer
  BY <1>13 DEF hotplug_answer, Goto, OtherThread, kernel, ControlOK, Busy
<1>14. CASE Close
  BY <1>14, SMTT(30) DEF Close, Goto, KeepThread, OtherThread, kernel, ControlOK, Busy, NoQuery, Query,
               State
<1>15. CASE Signal
  BY <1>15, ZenonT(30) DEF Signal, Interrupted, request, kernel, ControlOK, Busy
<1>16. CASE perf_close
  BY <1>16, ZenonT(30) DEF perf_close, Interrupted, Goto, request, kernel, ControlOK, Busy
<1>17. CASE Join
  BY <1>17 DEF Join, Goto, KeepThread, OtherThread, request, kernel, ControlOK, Busy
<1>18. CASE Thread
  <2>1. CASE HotplugStart \/ HotplugLoop
    BY <1>18, <2>1, ZenonT(30) DEF Thread, HotplugStart, HotplugLoop, request, kernel, ControlOK, Busy
  <2>2. CASE HotplugEvent
    BY <1>18, <2>2, SMTT(30) DEF Thread, HotplugEvent, request, ControlOK, Busy
  <2> QED
    BY <1>18, <2>1, <2>2, ZenonT(30) DEF Thread, HotplugThread
<1>19. CASE Hotplug
  <2>1. PICK cpu \in Cpu : CpuChange(cpu)
    BY <1>19 DEF Hotplug
  <2>2. events' \in Seq(Event)
    <3> DEFINE e == [action |-> IF cpu \in online THEN "offline" ELSE "online", cpunum |-> cpu]
    <3>1. e \in Event
      BY DEF Event
    <3>2. events' = Append(events, e) \/ events' = events
      BY <2>1 DEF CpuChange
    <3>3. events \in Seq(Event)
      BY DEF ControlOK
    <3> HIDE DEF e
    <3>4. Append(events, e) \in Seq(Event)
      BY <3>1, <3>3
    <3> QED
      BY <3>2, <3>3, <3>4, ZenonT(30)
  <2>3. online' \subseteq Cpu /\ hotplugs' \in 0 .. MaxHotplug
    BY <2>1, SMTT(30) DEF CpuChange, ControlOK
  <2> QED
    BY <1>19, <2>1, <2>2, <2>3, ZenonT(30) DEF Hotplug, CpuChange, request, ControlOK, Busy
<1>20. CASE UNCHANGED vars
  BY <1>20 DEF vars, request, kernel, ControlOK, Busy
<1> QED
  BY <1>1, <1>2, <1>3, <1>4, <1>5, <1>6, <1>7, <1>8, <1>9, <1>10, <1>11, <1>12, <1>13,
     <1>14, <1>15, <1>16, <1>17, <1>18, <1>19, <1>20, ZenonT(30)
     DEF Next, Main, Startup, Serve

\* The stop flags stay Boolean: signalhandler is all that changes them.
LEMMA FlagStep ==
    ASSUME stoprequested \in BOOLEAN, stopsig \in BOOLEAN, [Next]_vars
    PROVE  stoprequested' \in BOOLEAN /\ stopsig' \in BOOLEAN
<1>1. signalhandler \/ NoSignal
  <2>1. CASE Startup \/ Loop \/ AcceptFails \/ Close \/ Join \/ perf_ctr_state
             \/ \E q \in Queries : accept(q)
    BY <2>1 DEF Startup, perf_init, addallcpus, addallcpus_activate, open_socket, Loop,
                AcceptFails, Close, Join, perf_ctr_state, accept, KeepThread, NoSignal
  <2>2. CASE operate
    BY <2>2 DEF operate, Failed, Send, Handled
  <2>3. CASE perf_read_ctr
    BY <2>3, ZenonT(30) DEF perf_read_ctr, Failed, Send, Handled
  <2>4. CASE send_answer
    BY <2>4 DEF send_answer, Send, Handled
  <2>5. CASE do_send_pai
    BY <2>5 DEF do_send_pai, Send, Handled
  <2>6. CASE hotplug_answer
    BY <2>6 DEF hotplug_answer, Send, Handled
  <2>7. CASE Signal \/ perf_close
    BY <2>7 DEF Signal, Handled, perf_close
  <2>8. CASE Thread
    BY <2>8, ZenonT(30) DEF Thread, HotplugThread, HotplugStart, HotplugLoop, HotplugEvent, NoSignal
  <2>9. CASE Hotplug
    BY <2>9 DEF Hotplug, CpuChange, NoSignal
  <2>10. CASE UNCHANGED vars
    BY <2>10 DEF vars, NoSignal
  <2> QED
    BY <2>1, <2>2, <2>3, <2>4, <2>5, <2>6, <2>7, <2>8, <2>9, <2>10, ZenonT(30) DEF Next, Main, Serve
<1> QED
  BY <1>1, ZenonT(30) DEF signalhandler, NoSignal

-----------------------------------------------------------------------------
(***************************************************************************)
(* The counters.                                                           *)
(***************************************************************************)

\* A step either leaves the counters alone, attaches or detaches a CPU (and then
\* the query stays where it is, unless the daemon only starts), or is the
\* operation of a query.
LEMMA CounterSteps ==
    ASSUME TypeOK, [Next]_vars
    PROVE  \/ UNCHANGED counters
           \/ /\ \/ \E cpu \in Cpu, F \in SUBSET Counter : activatecpu(cpu, F)
                 \/ \E cpu \in Cpu : deactivatecpu(cpu)
              /\ main' # "operate" \/ UNCHANGED <<main, req, i>>
           \/ operate
<1>1. CASE perf_init \/ addallcpus \/ open_socket \/ Loop \/ AcceptFails \/ Close \/ Join
           \/ perf_ctr_state \/ perf_read_ctr \/ send_answer \/ do_send_pai
           \/ hotplug_answer \/ Signal \/ perf_close \/ \E q \in Queries : accept(q)
  BY <1>1 DEF perf_init, addallcpus, open_socket, Loop, AcceptFails, Close, Join,
              perf_ctr_state, perf_read_ctr, send_answer, do_send_pai, hotplug_answer,
              Signal, perf_close, accept
<1>2. ASSUME NEW cpu
      PROVE  FailedOpens(cpu) \subseteq SUBSET Counter
  BY DEF FailedOpens, Opened, Counter, PAI
<1>3. CASE addallcpus_activate
  <2>1. PICK cpu \in todo : \E F \in FailedOpens(cpu) :
            /\ activatecpu(cpu, F)
            /\ main' # "operate"
    BY <1>3 DEF addallcpus_activate
  <2> QED
    BY <2>1, <1>2 DEF TypeOK
<1>4. CASE Thread
  <2>1. CASE HotplugStart \/ HotplugLoop
    BY <2>1, ZenonT(30) DEF HotplugStart, HotplugLoop
  <2>2. CASE HotplugEvent
    <3>1. Head(events).cpunum \in Cpu
      <4>1. Head(events) \in Event
        BY <2>2 DEF HotplugEvent, TypeOK
      <4> QED
        BY <4>1 DEF Event
    <3>2. UNCHANGED <<main, req, i>>
      BY <1>4 DEF Thread, request
    <3> QED
      BY <2>2, <3>1, <3>2, <1>2 DEF HotplugEvent
  <2> QED
    BY <1>4, <2>1, <2>2 DEF Thread, HotplugThread
<1>5. CASE Hotplug \/ UNCHANGED vars
  BY <1>5, ZenonT(30) DEF Hotplug, CpuChange, vars
<1> QED
  BY <1>1, <1>3, <1>4, <1>5, ZenonT(30) DEF Next, Main, Startup, Serve

\* A step that enables no counter and leaves enabledcounter alone keeps it an
\* upper bound, also for a counter about to be disabled.
LEMMA ShrinkKeepsBound ==
    ASSUME TypeOK, EnabledCovered, Pending, UNCHANGED enabledcounter,
           Enabled' \subseteq Enabled,
           main' # "operate" \/ UNCHANGED <<main, req, i>>
    PROVE  EnabledCovered' /\ Pending'
<1>1. Cardinality(Enabled') <= Cardinality(Enabled)
  BY EnabledFinite, FS_Subset
<1>2. EnabledCovered'
  BY <1>1, EnabledFinite, SMTT(30) DEF EnabledCovered, TypeOK
<1>3. ASSUME NEW c
      PROVE  /\ Cardinality(Enabled' \ {c}) <= Cardinality(Enabled \ {c})
             /\ Cardinality(Enabled' \ {c}) \in Nat
             /\ Cardinality(Enabled \ {c}) \in Nat
  <2>1. IsFiniteSet(Enabled \ {c}) /\ IsFiniteSet(Enabled' \ {c})
    BY EnabledFinite, FS_RemoveElement
  <2>2. Enabled' \ {c} \in SUBSET (Enabled \ {c})
    OBVIOUS
  <2> QED
    BY <2>1, <2>2, FS_Subset, FS_CardinalityType
<1>4. Pending'
  <2>1. SUFFICES ASSUME main' = "operate", req'.cmd = "DISABLE"
                 PROVE  enabledcounter' >= Cardinality(Enabled' \ {Order[i']}) + 1
    BY DEF Pending
  <2>2. enabledcounter >= Cardinality(Enabled \ {Order[i]}) + 1
    BY <2>1 DEF Pending
  <2>3. i' = i /\ enabledcounter' = enabledcounter
    BY <2>1
  <2>4. /\ Cardinality(Enabled' \ {Order[i]}) <= Cardinality(Enabled \ {Order[i]})
        /\ Cardinality(Enabled' \ {Order[i]}) \in Nat
        /\ Cardinality(Enabled \ {Order[i]}) \in Nat
    BY <1>3, ZenonT(30)
  <2>5. enabledcounter >= Cardinality(Enabled' \ {Order[i]}) + 1
    BY <2>2, <2>4, SMTT(30) DEF TypeOK
  <2> QED
    BY <2>3, <2>5, ZenonT(30)
<1> QED
  BY <1>2, <1>4

\* The operation of a query keeps the types, the events in step with the states,
\* and enabledcounter an upper bound of the counters that are enabled.
LEMMA OperateStep ==
    ASSUME Inv, operate
    PROVE  CountersOK' /\ FdsFollowState' /\ EnabledCovered' /\ Pending'
<1> DEFINE c == Order[i]
<1>1. c \in Counter /\ CountersOK /\ FdsFollowState /\ enabledcounter \in Int
  BY OrderOK DEF Inv, operate, TypeOK, Busy, CountersOK
<1>2. main' # "operate"
  BY DEF operate, Failed, Goto
<1>3. Pending'
  BY <1>2, ZenonT(30) DEF Pending
<1> HIDE DEF c
<1>4. CASE UNCHANGED counters
  BY <1>4, <1>1, <1>3, ZenonT(30) DEF Inv, counters, CountersOK, FdsFollowState, EnabledCovered, Enabled
<1>5. CASE perf_enable_ctr(c)
  <2>1. /\ root' \in Seq(Entry)
        /\ ctr_state' \in [Counter -> State]
        /\ FdsFollowState'
        /\ Enabled' = Enabled \cup {c}
    BY <1>1, <1>5, Switch, ZenonT(30) DEF perf_enable_ctr
  <2>2. Cardinality(Enabled') <= Cardinality(Enabled) + 1
    <3>1. Cardinality(Enabled') = Cardinality(Enabled) \/ Cardinality(Enabled') = Cardinality(Enabled) + 1
      BY <2>1, EnabledFinite, FS_AddElement, ZenonT(30)
    <3> QED
      BY <3>1, EnabledFinite, SMTT(30)
  <2>3. EnabledCovered'
    BY <2>2, <1>1, <1>5, EnabledFinite DEF Inv, EnabledCovered, perf_enable_ctr
  <2>4. hotplugdetected' \in BOOLEAN
    BY <1>1, <1>5 DEF perf_enable_ctr, CountersOK
  <2> QED
    BY <2>1, <2>3, <2>4, <1>1, <1>3, <1>5 DEF CountersOK, perf_enable_ctr
<1>6. CASE req.cmd = "DISABLE" /\ perf_disable_ctr(c)
  <2>1. /\ root' \in Seq(Entry)
        /\ ctr_state' \in [Counter -> State]
        /\ FdsFollowState'
        /\ Enabled' = Enabled \ {c}
    BY <1>1, <1>6, Switch, ZenonT(30) DEF perf_disable_ctr
  <2>2. enabledcounter >= Cardinality(Enabled \ {c}) + 1
    BY <1>6 DEF Inv, Pending, operate, c
  <2>3. EnabledCovered'
    BY <2>1, <2>2, <1>1, <1>6, EnabledFinite DEF EnabledCovered, perf_disable_ctr
  <2>4. hotplugdetected' \in BOOLEAN
    BY <1>1, <1>6 DEF perf_disable_ctr, CountersOK
  <2> QED
    BY <2>1, <2>3, <2>4, <1>1, <1>3, <1>6 DEF CountersOK, perf_disable_ctr
<1> QED
  BY <1>4, <1>5, <1>6, ZenonT(30) DEF operate, c

-----------------------------------------------------------------------------
(***************************************************************************)
(* The list of CPUs and the queue of hotplug events.                       *)
(***************************************************************************)

\* A CPU has an entry, has no second one, and the events about it that wait.
Has(cpu) == Attached(cpu) # {}
Unique(cpu) == \A j, k \in Attached(cpu) : j = k
EventsOf(cpu) == {k \in DOMAIN events : events[k].cpunum = cpu}

\* An empty list of CPUs, or of events, has no places.
LEMMA NothingIn == DOMAIN <<>> = {}
OBVIOUS

\* What the monitor has received are events.
LEMMA EventType ==
    ASSUME NEW s \in Seq(Event), NEW k \in DOMAIN s
    PROVE  s[k] \in Event
OBVIOUS

\* The list follows a CPU: it has at most one entry, and the events that wait lead
\* from the list as it is to the CPU as it is. The first is "online" if the CPU is
\* not in the list, each one undoes the one before, and the last one says what
\* the CPU is now.
FollowedAt(cpu) ==
    /\ Unique(cpu)
    /\ EventsOf(cpu) = {} => (Has(cpu) <=> cpu \in online)
    /\ \A k \in EventsOf(cpu) :
          /\ (\A j \in EventsOf(cpu) : j >= k) => (events[k].action = "online" <=> ~Has(cpu))
          /\ (\A j \in EventsOf(cpu) : j <= k) => (events[k].action = "online" <=> cpu \in online)
          /\ \A j \in EventsOf(cpu) :
                (j < k /\ \A m \in EventsOf(cpu) : m <= j \/ m >= k)
                    => events[j].action # events[k].action

\* While the daemon starts, the list grows by the CPUs of the "online" file; from
\* then on it follows every CPU until the hotplug thread ends.
CpuInv ==
    /\ main \in {"perf_init", "addallcpus", "activate", "open_socket"} => events = <<>>
    /\ main \in {"perf_init", "addallcpus"} => root = <<>>
    /\ main = "activate" =>
          /\ todo \subseteq online
          /\ \A cpu \in Cpu : Unique(cpu) /\ (Has(cpu) <=> cpu \in online \ todo)
    /\ (/\ main \notin {"perf_init", "addallcpus", "activate", "failed"}
        /\ hotplugthread # "closed") => \A cpu \in Cpu : FollowedAt(cpu)

\* activatecpu gives a CPU without an entry its one entry; the other CPUs keep theirs.
LEMMA ActivateAttaches ==
    ASSUME NEW cpu \in Cpu, NEW F, CountersOK, activatecpu(cpu, F), ~Has(cpu),
           NEW other \in Cpu, Unique(other)
    PROVE  /\ Unique(other)'
           /\ Has(other)' <=> (Has(other) \/ other = cpu)
<1>1. PICK M : root' = <<[cpunum |-> cpu, fds |-> [c \in Counter |-> opened_fd(c, M)]]>> \o root
  BY ZenonT(30) DEF activatecpu
<1> DEFINE new == [cpunum |-> cpu, fds |-> [c \in Counter |-> opened_fd(c, M)]]
<1>2. new \in Entry /\ new.cpunum = cpu
  BY DEF Entry, opened_fd, Fd
<1>3. root' = <<new>> \o root
  BY <1>1, ZenonT(30)
<1> HIDE DEF new
<1>4. /\ DOMAIN root' = 1 .. Len(root) + 1 /\ DOMAIN root = 1 .. Len(root) /\ Len(root) \in Nat
      /\ root'[1] = new
      /\ \A k \in 2 .. Len(root) + 1 : root'[k] = root[k - 1]
  BY <1>2, <1>3, SMTT(30) DEF CountersOK
<1>5. ASSUME NEW k
      PROVE  k \in Attached(other)' <=>
                 \/ k = 1 /\ other = cpu
                 \/ k \in 2 .. Len(root) + 1 /\ k - 1 \in Attached(other)
  BY <1>2, <1>4 DEF Attached
<1>6. Attached(other) \subseteq 1 .. Len(root)
  BY <1>4 DEF Attached
<1>7. Unique(other)'
  <2>1. SUFFICES ASSUME NEW j \in Attached(other)', NEW k \in Attached(other)'
                 PROVE  j = k
    BY ZenonT(30) DEF Unique
  <2>2. CASE other = cpu
    BY <2>1, <2>2, <1>4, <1>5, SMTT(30) DEF Has
  <2>3. CASE other # cpu
    BY <2>1, <2>3, <1>4, <1>5 DEF Unique
  <2> QED
    BY <2>2, <2>3
<1>8. ASSUME Has(other)
      PROVE  Has(other)'
  <2>1. PICK k \in Attached(other) : TRUE
    BY <1>8, ZenonT(30) DEF Has
  <2>2. k + 1 \in Attached(other)'
    BY <2>1, <1>4, <1>5, <1>6, SMTT(30)
  <2> QED
    BY <2>2 DEF Has
<1>9. other = cpu => Has(other)'
  BY <1>5 DEF Has
<1>10. (Has(other)' /\ other # cpu) => Has(other)
  BY <1>5 DEF Has
<1> QED
  BY <1>7, <1>8, <1>9, <1>10

\* deactivatecpu takes the one entry of a CPU away; the other CPUs keep theirs.
LEMMA DeactivateDetaches ==
    ASSUME NEW cpu \in Cpu, CountersOK, deactivatecpu(cpu), Unique(cpu),
           NEW other \in Cpu, Unique(other)
    PROVE  /\ Unique(other)'
           /\ Has(other)' <=> (Has(other) /\ other # cpu)
<1>1. CASE Attached(cpu) = {} /\ UNCHANGED counters
  BY <1>1 DEF counters, Attached, Has, Unique
<1>2. CASE \E found \in Attached(cpu) :
              root' = SubSeq(root, 1, found - 1) \o SubSeq(root, found + 1, Len(root))
  <2>1. PICK found \in Attached(cpu) :
              root' = SubSeq(root, 1, found - 1) \o SubSeq(root, found + 1, Len(root))
    BY <1>2, ZenonT(30)
  <2>2. /\ DOMAIN root = 1 .. Len(root) /\ Len(root) \in Nat
        /\ found \in 1 .. Len(root) /\ root[found].cpunum = cpu
    BY <2>1, SMTT(30) DEF Attached, CountersOK
  <2>3. /\ DOMAIN root' = 1 .. Len(root) - 1
        /\ \A k \in 1 .. Len(root) - 1 : root'[k] = IF k < found THEN root[k] ELSE root[k + 1]
    BY <2>1, <2>2, Detached, ZenonT(30)
  <2>4. ASSUME NEW k
        PROVE  k \in Attached(other)' <=>
                   /\ k \in 1 .. Len(root) - 1
                   /\ (IF k < found THEN k ELSE k + 1) \in Attached(other)
    BY <2>2, <2>3 DEF Attached
  <2>5. Attached(other) \subseteq 1 .. Len(root)
    BY <2>2 DEF Attached
  <2>6. Unique(other)'
    <3>1. SUFFICES ASSUME NEW j \in Attached(other)', NEW k \in Attached(other)'
                   PROVE  j = k
      BY DEF Unique
    <3>2. (IF j < found THEN j ELSE j + 1) = (IF k < found THEN k ELSE k + 1)
      BY <3>1, <2>4 DEF Unique
    <3> QED
      BY <3>1, <3>2, <2>2, <2>4
  <2>7. Has(cpu)' => other # cpu
    <3>1. SUFFICES ASSUME other = cpu, NEW k \in Attached(other)'
                   PROVE  FALSE
      BY DEF Has
    <3>2. (IF k < found THEN k ELSE k + 1) = found /\ k \in 1 .. Len(root) - 1
      BY <3>1, <2>1, <2>4 DEF Unique
    <3> QED
      BY <3>2, <2>2
  <2>8. Has(other)' => Has(other)
    BY <2>4 DEF Has
  <2>9. ASSUME Has(other), other # cpu
        PROVE  Has(other)'
    <3>1. PICK k \in Attached(other) : k # found /\ k \in 1 .. Len(root)
      BY <2>2, <2>5, <2>9 DEF Has, Attached
    <3>2. CASE k < found
      <4>1. k \in Attached(other)'
        BY <3>1, <3>2, <2>2, <2>4
      <4> QED
        BY <4>1 DEF Has
    <3>3. CASE k > found
      <4>1. k - 1 \in Attached(other)'
        BY <3>1, <3>3, <2>2, <2>4, SMTT(30)
      <4> QED
        BY <4>1 DEF Has
    <3> QED
      BY <3>1, <3>2, <3>3, <2>2
  <2> QED
    BY <2>6, <2>7, <2>8, <2>9
<1> QED
  BY <1>1, <1>2, ZenonT(30) DEF deactivatecpu

\* The first event is taken from the queue: the others move up by one place.
LEMMA HeadTaken ==
    ASSUME events \in Seq(Event), events # <<>>, events' = Tail(events), NEW cpu
    PROVE  /\ EventsOf(cpu) \subseteq Nat \ {0}
           /\ EventsOf(cpu)' \subseteq Nat \ {0}
           /\ \A k \in Nat \ {0} :
                 /\ k \in EventsOf(cpu)' <=> k + 1 \in EventsOf(cpu)
                 /\ k \in EventsOf(cpu)' => events'[k] = events[k + 1]
           /\ 1 \in EventsOf(cpu) <=> events[1].cpunum = cpu
<1>1. /\ Len(events) \in Nat \ {0} /\ DOMAIN events = 1 .. Len(events)
      /\ DOMAIN events' = 1 .. Len(events) - 1
      /\ \A k \in 1 .. Len(events) - 1 : events'[k] = events[k + 1]
  OBVIOUS
<1> QED
  BY <1>1 DEF EventsOf

\* The list still follows a CPU when the first event is taken and, if it was about
\* the CPU, applied to the list.
LEMMA TakeFollows ==
    ASSUME events \in Seq(Event), events # <<>>, events' = Tail(events), online' = online,
           NEW cpu \in Cpu, FollowedAt(cpu), Unique(cpu)',
           Has(cpu)' <=> IF events[1].cpunum = cpu THEN events[1].action = "online" ELSE Has(cpu)
    PROVE  FollowedAt(cpu)'
<1> DEFINE E == EventsOf(cpu)
           E1 == EventsOf(cpu)'
<1>1. /\ E \subseteq Nat \ {0} /\ E1 \subseteq Nat \ {0}
      /\ \A k \in Nat \ {0} : /\ k \in E1 <=> k + 1 \in E
                              /\ k \in E1 => events'[k] = events[k + 1]
      /\ 1 \in E <=> events[1].cpunum = cpu
  BY HeadTaken, ZenonT(30)
<1>2. ASSUME NEW m \in E, m # 1
      PROVE  m - 1 \in E1 /\ m - 1 \in Nat \ {0} /\ m \in Nat
  <2>0. m \in Nat \ {0}
    BY <1>1
  <2>1. m - 1 \in Nat \ {0} /\ (m - 1) + 1 = m /\ m \in Nat
    BY <2>0, <1>2
  <2> QED
    BY <2>1, <1>1, <1>2, ZenonT(30)
<1>3. ASSUME NEW k \in E
      PROVE  events[k].action \in {"online", "offline"}
  <2>1. events[k] \in Event
    BY EventType, ZenonT(30) DEF EventsOf
  <2> QED
    BY <2>1 DEF Event
<1> HIDE DEF E, E1
<1>4. E1 = {} => (Has(cpu)' <=> cpu \in online')
  <2>1. SUFFICES ASSUME E1 = {} PROVE Has(cpu)' <=> cpu \in online
    OBVIOUS
  <2>2. CASE 1 \in E
    <3>1. ASSUME NEW j \in E PROVE j <= 1
      <4>1. j = 1
        BY <1>2, <2>1, ZenonT(30)
      <4> QED
        BY <4>1
    <3> QED
      BY <3>1, <2>2, <1>1, ZenonT(30) DEF FollowedAt, E, E1
  <2>3. CASE 1 \notin E
    <3>1. E = {}
      BY <1>2, <2>1, <2>3, ZenonT(30)
    <3> QED
      BY <3>1, <2>3, <1>1, ZenonT(30) DEF FollowedAt, E, E1
  <2> QED
    BY <2>2, <2>3
<1>5. ASSUME NEW k \in E1
      PROVE  /\ (\A j \in E1 : j >= k) => (events'[k].action = "online" <=> ~Has(cpu)')
             /\ (\A j \in E1 : j <= k) => (events'[k].action = "online" <=> cpu \in online')
             /\ \A j \in E1 : (j < k /\ \A m \in E1 : m <= j \/ m >= k)
                                  => events'[j].action # events'[k].action
  <2>1. k \in Nat \ {0} /\ k + 1 \in E /\ events'[k] = events[k + 1]
    BY <1>1, <1>5, ZenonT(30)
  <2>2. ASSUME \A j \in E1 : j >= k
        PROVE  events[k + 1].action = "online" <=> ~Has(cpu)'
    <3>1. ASSUME NEW m \in E
          PROVE  m <= 1 \/ m >= k + 1
      <4>1. CASE m # 1
        BY <4>1, <1>2, <2>1, <2>2
      <4> QED
        BY <4>1
    <3>2. CASE 1 \in E
      <4>1. events[1].action # events[k + 1].action
        <5>1. 1 < k + 1
          BY <2>1
        <5> QED
          BY <5>1, <3>1, <3>2, <2>1, ZenonT(30) DEF FollowedAt, E
      <4>2. Has(cpu)' <=> events[1].action = "online"
        BY <3>2, <1>1, ZenonT(30)
      <4> QED
        BY <4>1, <4>2, <3>2, <2>1, <1>3, ZenonT(30)
    <3>3. CASE 1 \notin E
      <4>1. ASSUME NEW m \in E PROVE m >= k + 1
        <5>1. m \in Nat \ {0} /\ m # 1
          BY <1>1, <3>3, ZenonT(30)
        <5>2. ~(m <= 1)
          BY <5>1
        <5> QED
          BY <3>1, <5>2, ZenonT(30)
      <4>2. Has(cpu)' <=> Has(cpu)
        BY <3>3, <1>1, ZenonT(30)
      <4> QED
        BY <4>1, <4>2, <2>1, ZenonT(30) DEF FollowedAt, E, E1
    <3> QED
      BY <3>2, <3>3
  <2>3. ASSUME \A j \in E1 : j <= k
        PROVE  events[k + 1].action = "online" <=> cpu \in online
    <3>1. ASSUME NEW m \in E
          PROVE  m <= k + 1
      <4>1. CASE m # 1
        BY <4>1, <1>2, <2>1, <2>3
      <4> QED
        BY <4>1, <2>1, SMTT(30)
    <3> QED
      BY <3>1, <2>1, ZenonT(30) DEF FollowedAt, E, E1
  <2>4. ASSUME NEW j \in E1, j < k, \A m \in E1 : m <= j \/ m >= k
        PROVE  events'[j].action # events'[k].action
    <3>1. j \in Nat \ {0} /\ j + 1 \in E /\ events'[j] = events[j + 1]
      BY <1>1, <2>4, ZenonT(30)
    <3>2. ASSUME NEW m \in E
          PROVE  m <= j + 1 \/ m >= k + 1
      <4>1. CASE m # 1
        <5>1. m - 1 <= j \/ m - 1 >= k
          BY <4>1, <1>2, <2>4
        <5>2. m \in Nat
          BY <4>1, <1>2, ZenonT(30)
        <5>3. j \in Nat /\ k \in Nat
          BY <2>1, <3>1, ZenonT(30)
        <5> QED
          BY <5>1, <5>2, <5>3
      <4> QED
        BY <4>1, <3>1
    <3>3. j + 1 < k + 1
      BY <2>1, <2>4, <3>1
    <3> QED
      BY <3>1, <3>2, <3>3, <2>1, ZenonT(30) DEF FollowedAt, E, E1
  <2> QED
    BY <2>1, <2>2, <2>3, <2>4, ZenonT(30)
<1> QED
  BY <1>4, <1>5, ZenonT(30) DEF FollowedAt, E, E1

\* The list still follows a CPU when CPU "moved" comes or goes and the monitor is told.
LEMMA ChangeFollows ==
    ASSUME events \in Seq(Event), NEW moved \in Cpu, NEW cpu \in Cpu, FollowedAt(cpu),
           root' = root, moved \in online <=> ~(moved \in online'),
           \A c \in Cpu \ {moved} : c \in online <=> c \in online',
           events' = Append(events, [action |-> IF moved \in online THEN "offline" ELSE "online",
                                     cpunum |-> moved])
    PROVE  FollowedAt(cpu)'
<1> DEFINE E == EventsOf(cpu)
           E1 == EventsOf(cpu)'
           e == [action |-> IF moved \in online THEN "offline" ELSE "online", cpunum |-> moved]
           n == Len(events) + 1
<1>1. (Has(cpu)' <=> Has(cpu)) /\ Unique(cpu)'
  BY DEF Has, Unique, Attached, FollowedAt
<1>2. e \in Event /\ e.cpunum = moved /\ (e.action = "online" <=> ~(moved \in online))
  BY DEF Event
<1>3. events' = Append(events, e)
  BY ZenonT(30)
<1> HIDE DEF e
<1>4. /\ n \in Nat \ {0} /\ DOMAIN events = 1 .. n - 1 /\ DOMAIN events' = 1 .. n
      /\ events'[n] = e
      /\ \A k \in 1 .. n - 1 : events'[k] = events[k]
  BY <1>2, <1>3
<1> HIDE DEF n
<1>5. /\ E \subseteq 1 .. n - 1
      /\ E1 = IF cpu = moved THEN E \cup {n} ELSE E
      /\ \A k \in E : events'[k] = events[k] /\ events[k].action \in {"online", "offline"}
  <2>1. E1 = IF cpu = moved THEN E \cup {n} ELSE E
    BY <1>2, <1>4, SMTT(30) DEF EventsOf
  <2>2. E \subseteq 1 .. n - 1
    BY <1>4, ZenonT(30) DEF EventsOf
  <2>3. ASSUME NEW k \in E
        PROVE  events'[k] = events[k] /\ events[k].action \in {"online", "offline"}
    <3>1. events[k] \in Event
      BY EventType, ZenonT(30) DEF EventsOf
    <3> QED
      BY <3>1, <2>2, <1>4 DEF Event
  <2> QED
    BY <2>1, <2>2, <2>3, ZenonT(30)
<1> HIDE DEF E, E1
<1>6. CASE cpu # moved
  <2>1. E1 = E /\ (cpu \in online' <=> cpu \in online)
    BY <1>5, <1>6, ZenonT(30)
  <2>2. \A k \in E : events'[k] = events[k]
    BY <1>5, ZenonT(30)
  <2>3. E = {} => (Has(cpu)' <=> cpu \in online')
    BY <2>1, <1>1 DEF FollowedAt, E
  <2>4. ASSUME NEW k \in E
        PROVE  /\ (\A j \in E : j >= k) => (events'[k].action = "online" <=> ~Has(cpu)')
               /\ (\A j \in E : j <= k) => (events'[k].action = "online" <=> cpu \in online')
               /\ \A j \in E : (j < k /\ \A m \in E : m <= j \/ m >= k)
                                  => events'[j].action # events'[k].action
    BY <2>1, <2>2, <1>1, ZenonT(30) DEF FollowedAt, E
  <2> QED
    BY <2>1, <2>3, <2>4, <1>1, ZenonT(30) DEF FollowedAt, E1
<1>7. CASE cpu = moved
  <2>1. E1 = E \cup {n} /\ n \in E1 /\ n \notin E
    BY <1>4, <1>5, <1>7
  <2>2. ASSUME NEW k \in E
        PROVE  /\ (\A j \in E1 : j >= k) => (events'[k].action = "online" <=> ~Has(cpu)')
               /\ ~ \A j \in E1 : j <= k
               /\ \A j \in E1 : (j < k /\ \A m \in E1 : m <= j \/ m >= k)
                                  => events'[j].action # events'[k].action
    <3>1. k \in 1 .. n - 1 /\ k < n
      BY <1>4, <1>5, <2>2
    <3>2. (\A j \in E1 : j >= k) => (events'[k].action = "online" <=> ~Has(cpu)')
      BY <2>1, <2>2, <1>1, <1>5, ZenonT(30) DEF FollowedAt, E, E1
    <3>3. ~ \A j \in E1 : j <= k
      BY <2>1, <3>1, <1>4
    <3>4. ASSUME NEW j \in E1, j < k, \A m \in E1 : m <= j \/ m >= k
          PROVE  events'[j].action # events'[k].action
      <4>1. j \in E
        BY <2>1, <3>1, <3>4, <1>4, SMTT(30)
      <4>2. \A m \in E : m <= j \/ m >= k
        BY <2>1, <3>4
      <4>3. events'[j] = events[j] /\ events'[k] = events[k]
        BY <4>1, <2>2, <1>5, ZenonT(30)
      <4> QED
        BY <4>1, <4>2, <4>3, <3>4, <2>2, ZenonT(30) DEF FollowedAt, E
    <3> QED
      BY <3>2, <3>3, <3>4, ZenonT(30)
  <2>3. (\A j \in E1 : j >= n) => (events'[n].action = "online" <=> ~Has(cpu)')
    <3>1. SUFFICES ASSUME \A j \in E1 : j >= n
                   PROVE  events'[n].action = "online" <=> ~Has(cpu)
      BY <1>1, ZenonT(30)
    <3>2. E = {}
      BY <3>1, <2>1, <1>4, <1>5, SMTT(30)
    <3> QED
      BY <3>2, <1>2, <1>4, <1>7 DEF FollowedAt, E, E1
  <2>4. events'[n].action = "online" <=> cpu \in online'
    BY <1>2, <1>4, <1>7, ZenonT(30)
  <2>5. ASSUME NEW j \in E1, j < n, \A m \in E1 : m <= j \/ m >= n
        PROVE  events'[j].action # events'[n].action
    <3>1. j \in E
      <4>1. j # n
        BY <2>5, <1>4
      <4> QED
        BY <4>1, <2>1, ZenonT(30)
    <3>2. ASSUME NEW m \in E PROVE m <= j
      <4>1. m \in 1 .. n - 1 /\ m \in E1
        BY <2>1, <1>5, ZenonT(30)
      <4>2. ~(m >= n)
        BY <4>1, <1>4, SMTT(30)
      <4> QED
        BY <4>1, <4>2, <2>5, ZenonT(30)
    <3>3. events[j].action = "online" <=> cpu \in online
      BY <3>1, <3>2 DEF FollowedAt, E, E1
    <3> QED
      BY <3>1, <3>3, <1>2, <1>4, <1>5, <1>7
  <2> QED
    BY <2>1, <2>2, <2>3, <2>4, <2>5, <1>1, <1>4, ZenonT(30) DEF FollowedAt, E, E1
<1> QED
  BY <1>6, <1>7, ZenonT(30)

\* A step that moves no entry of the list, and neither events nor CPUs, changes
\* nothing for a CPU.
LEMMA SameCpus ==
    ASSUME NEW cpu, UNCHANGED <<online, events>>, DOMAIN root' = DOMAIN root,
           \A k \in DOMAIN root : root'[k].cpunum = root[k].cpunum
    PROVE  /\ Unique(cpu)' <=> Unique(cpu)
           /\ Has(cpu)' <=> Has(cpu)
           /\ FollowedAt(cpu) => FollowedAt(cpu)'
<1>1. Attached(cpu)' = Attached(cpu)
  BY ZenonT(30) DEF Attached
<1>2. (Unique(cpu)' <=> Unique(cpu)) /\ (Has(cpu)' <=> Has(cpu))
  BY <1>1 DEF Unique, Has
<1>3. EventsOf(cpu)' = EventsOf(cpu)
  BY ZenonT(30) DEF EventsOf
<1> QED
  BY <1>2, <1>3, ZenonT(30) DEF FollowedAt

\* The steps of the main thread after the startup: they move no entry.
LEMMA ServeFrame ==
    ASSUME Inv, \/ open_socket \/ Loop \/ Serve \/ AcceptFails \/ Signal \/ perf_close \/ Join
                \/ \E q \in Queries : accept(q)
    PROVE  /\ UNCHANGED <<online, events>>
           /\ DOMAIN root' = DOMAIN root
           /\ \A k \in DOMAIN root : root'[k].cpunum = root[k].cpunum
           /\ main \notin {"perf_init", "addallcpus", "activate", "failed"}
           /\ main' \notin {"perf_init", "addallcpus", "activate", "open_socket"}
           /\ hotplugthread' # "closed" => hotplugthread # "closed"
<1>1. CASE open_socket \/ Loop \/ AcceptFails \/ Close \/ Join \/ perf_ctr_state
  BY <1>1, ZenonT(30) DEF open_socket, Loop, AcceptFails, Close, Join, perf_ctr_state, Goto, KeepThread,
              OtherThread, kernel, counters
<1>2. CASE perf_read_ctr \/ hotplug_answer
  BY <1>2, ZenonT(30) DEF perf_read_ctr, hotplug_answer, Failed, Goto, OtherThread, kernel, counters
<1>3. CASE send_answer \/ do_send_pai
  BY <1>3, ZenonT(30) DEF send_answer, do_send_pai, ForCounter, OtherThread, kernel, counters
<1>4. ASSUME NEW q \in Queries, accept(q)
      PROVE  /\ UNCHANGED <<online, events, root, hotplugthread>>
             /\ main = "accept"
             /\ main' \in {"close", "perf_ctr_state", "hotplug_answer"}
  BY <1>4, ZenonT(30) DEF accept, ForCounter, KeepThread, OtherThread, kernel, counters
<1>5. CASE Signal \/ perf_close
  BY <1>5 DEF Signal, perf_close, Interrupted, Goto, kernel, counters
<1>6. CASE operate
  <2> DEFINE c == Order[i]
  <2>1. c \in Counter /\ CountersOK /\ FdsFollowState
    BY <1>6, OrderOK, SMTT(30) DEF Inv, operate, TypeOK, Busy, CountersOK
  <2>2. UNCHANGED <<online, events, hotplugthread>> /\ main = "operate"
    BY <1>6 DEF operate, OtherThread, kernel
  <2>3. main' \in {"send_answer", "perf_read_ctr", "close"}
    BY <1>6, ZenonT(30) DEF operate, Failed, Goto
  <2>4. perf_enable_ctr(c) \/ perf_disable_ctr(c) \/ UNCHANGED counters
    BY <1>6, ZenonT(30) DEF operate
  <2> HIDE DEF c
  <2>5. DOMAIN root' = DOMAIN root /\ \A k \in DOMAIN root : root'[k].cpunum = root[k].cpunum
    <3>1. CASE perf_enable_ctr(c)
      BY <3>1, <2>1, Switch, ZenonT(30) DEF perf_enable_ctr
    <3>2. CASE perf_disable_ctr(c)
      BY <3>2, <2>1, Switch, ZenonT(30) DEF perf_disable_ctr
    <3>3. CASE UNCHANGED counters
      BY <3>3 DEF counters
    <3> QED
      BY <2>4, <3>1, <3>2, <3>3
  <2> QED
    BY <2>2, <2>3, <2>5, ZenonT(30)
<1> QED
  BY <1>1, <1>2, <1>3, <1>4, <1>5, <1>6, ZenonT(30) DEF Serve

\* If no CPU comes or goes while the daemon starts, every step keeps the list in
\* step with the CPUs and the events.
LEMMA CpuStep ==
    ASSUME ~StartupHotplug, Inv, CpuInv, [Next]_vars
    PROVE  CpuInv'
<1> USE DEF CpuInv
<1>0. TypeOK /\ CountersOK
  BY ZenonT(30) DEF Inv, TypeOK, CountersOK
<1>1. CASE perf_init
  BY <1>1, ZenonT(30) DEF perf_init, Goto, counters, kernel
<1>2. CASE addallcpus
  <2>1. /\ root' = <<>> /\ events' = <<>> /\ online' = online /\ todo' = online
        /\ main' = "activate"
    BY <1>2, ZenonT(30) DEF addallcpus, KeepThread, OtherThread, counters, kernel
  <2>2. ASSUME NEW cpu \in Cpu
        PROVE  Unique(cpu)' /\ ~Has(cpu)'
    <3>1. Attached(cpu)' = {}
      BY <2>1, NothingIn, ZenonT(30) DEF Attached
    <3> QED
      BY <3>1 DEF Unique, Has
  <2> QED
    BY <2>1, <2>2, ZenonT(30)
<1>3. CASE addallcpus_activate
  <2>1. PICK cpu \in todo : \E F \in FailedOpens(cpu) :
            /\ activatecpu(cpu, F)
            /\ todo' = todo \ {cpu}
            /\ main' = IF F # {} THEN "failed"
                       ELSE IF todo = {cpu} THEN "open_socket" ELSE "activate"
    BY <1>3, ZenonT(30) DEF addallcpus_activate
  <2>2. PICK F \in FailedOpens(cpu) :
            /\ activatecpu(cpu, F)
            /\ todo' = todo \ {cpu}
            /\ main' = IF F # {} THEN "failed"
                       ELSE IF todo = {cpu} THEN "open_socket" ELSE "activate"
    BY <2>1, ZenonT(30)
  <2>3. main = "activate" /\ events' = <<>> /\ online' = online
    BY <1>3, ZenonT(30) DEF addallcpus_activate, KeepThread, OtherThread, kernel
  <2>4. cpu \in Cpu /\ todo \subseteq online /\ ~Has(cpu)
    BY <2>1, <2>3, <1>0, ZenonT(30) DEF TypeOK
  <2>5. ASSUME NEW other \in Cpu
        PROVE  Unique(other)' /\ (Has(other)' <=> other \in online' \ todo')
    <3>1. Unique(other)' /\ (Has(other)' <=> (Has(other) \/ other = cpu))
      BY <2>2, <2>3, <2>4, <1>0, ActivateAttaches, ZenonT(30)
    <3>2. Has(other) <=> other \in online \ todo
      BY <2>3, ZenonT(30)
    <3> QED
      BY <3>1, <3>2, <2>2, <2>3, <2>4
  <2>6. CASE main' = "activate"
    BY <2>2, <2>3, <2>4, <2>5, <2>6, ZenonT(30)
  <2>7. CASE main' = "open_socket"
    <3>1. todo' = {}
      BY <2>2, <2>7, ZenonT(30)
    <3>2. ASSUME NEW other \in Cpu
          PROVE  FollowedAt(other)'
      <4>1. EventsOf(other)' = {}
        BY <2>3, NothingIn, ZenonT(30) DEF EventsOf
      <4> QED
        BY <4>1, <3>1, <2>5, ZenonT(30) DEF FollowedAt
    <3> QED
      BY <3>2, <2>3, <2>7
  <2>8. CASE main' = "failed"
    BY <2>8
  <2> QED
    BY <2>2, <2>6, <2>7, <2>8
<1>4. CASE \/ open_socket \/ Loop \/ Serve \/ AcceptFails \/ Signal \/ perf_close \/ Join
           \/ \E q \in Queries : accept(q)
  <2>1. /\ UNCHANGED <<online, events>>
        /\ DOMAIN root' = DOMAIN root
        /\ \A k \in DOMAIN root : root'[k].cpunum = root[k].cpunum
        /\ main \notin {"perf_init", "addallcpus", "activate", "failed"}
        /\ main' \notin {"perf_init", "addallcpus", "activate", "open_socket"}
        /\ hotplugthread' # "closed" => hotplugthread # "closed"
    BY <1>4, ServeFrame
  <2>2. ASSUME NEW cpu \in Cpu, FollowedAt(cpu)
        PROVE  FollowedAt(cpu)'
    BY <2>1, <2>2, SameCpus, ZenonT(30)
  <2> QED
    BY <2>1, <2>2, ZenonT(30)
<1>5. CASE Thread /\ (HotplugStart \/ HotplugLoop)
  <2>1. /\ UNCHANGED <<root, online, events, main, todo>>
        /\ hotplugthread' # "closed" => hotplugthread # "closed"
    BY <1>5, ZenonT(30) DEF Thread, HotplugStart, HotplugLoop, counters, kernel
  <2>2. ASSUME NEW cpu
        PROVE  /\ Unique(cpu)' <=> Unique(cpu)
               /\ Has(cpu)' <=> Has(cpu)
               /\ FollowedAt(cpu) => FollowedAt(cpu)'
    BY <2>1, SameCpus
  <2> QED
    BY <2>1, <2>2, ZenonT(30)
<1>6. CASE Thread /\ HotplugEvent
  <2>1. /\ UNCHANGED <<online, main, todo>> /\ hotplugthread = "poll"
        /\ events # <<>> /\ events' = Tail(events) /\ main # "failed"
    BY <1>6 DEF Thread, HotplugEvent
  <2>2. /\ main \notin {"perf_init", "addallcpus", "activate", "open_socket", "failed"}
        /\ \A cpu \in Cpu : FollowedAt(cpu)
    BY <2>1, ZenonT(30)
  <2> DEFINE cpu == events[1].cpunum
  <2>3. events \in Seq(Event) /\ events[1] \in Event /\ Head(events) = events[1]
    BY <2>1, <1>0, SMTT(30) DEF TypeOK
  <2>4. cpu \in Cpu /\ events[1].action \in {"online", "offline"}
    BY <2>3 DEF Event
  <2>5. IF events[1].action = "online"
        THEN \E F \in FailedOpens(cpu) : activatecpu(cpu, F)
        ELSE deactivatecpu(cpu)
    BY <1>6, <2>3, ZenonT(30) DEF HotplugEvent
  <2>6. events[1].action = "online" <=> ~Has(cpu)
    <3>1. 1 \in EventsOf(cpu) /\ \A j \in EventsOf(cpu) : j >= 1
      <4>1. 1 \in DOMAIN events /\ \A j \in DOMAIN events : j >= 1
        BY <2>1, <2>3, SMTT(30)
      <4> QED
        BY <4>1, ZenonT(30) DEF EventsOf
    <3> QED
      BY <3>1, <2>2, <2>4 DEF FollowedAt
  <2> HIDE DEF cpu
  <2>7. ASSUME NEW other \in Cpu
        PROVE  /\ Unique(other)'
               /\ Has(other)' <=> IF cpu = other THEN events[1].action = "online" ELSE Has(other)
    <3>1. Unique(other) /\ Unique(cpu)
      BY <2>2, <2>4, ZenonT(30) DEF FollowedAt
    <3>2. CASE events[1].action = "online"
      <4>1. PICK F : activatecpu(cpu, F)
        BY <2>5, <3>2, ZenonT(30)
      <4>2. Unique(other)' /\ (Has(other)' <=> (Has(other) \/ other = cpu))
        BY <4>1, <3>1, <3>2, <2>4, <2>6, <1>0, ActivateAttaches, ZenonT(30)
      <4> QED
        BY <4>2, <3>2
    <3>3. CASE events[1].action # "online"
      <4>1. Unique(other)' /\ (Has(other)' <=> (Has(other) /\ other # cpu))
        BY <2>5, <3>1, <3>3, <2>4, <1>0, DeactivateDetaches, ZenonT(30)
      <4> QED
        BY <4>1, <3>3
    <3> QED
      BY <3>2, <3>3
  <2>8. ASSUME NEW other \in Cpu
        PROVE  FollowedAt(other)'
    <3>1. /\ Unique(other)'
          /\ Has(other)' <=> IF events[1].cpunum = other THEN events[1].action = "online"
                             ELSE Has(other)
      BY <2>7, ZenonT(30) DEF cpu
    <3> QED
      BY <3>1, <2>1, <2>2, <2>3, TakeFollows, ZenonT(30)
  <2> QED
    BY <2>1, <2>2, <2>8, ZenonT(30)
<1>7. CASE Hotplug
  <2>1. PICK moved \in Cpu : CpuChange(moved)
    BY <1>7, ZenonT(30) DEF Hotplug
  <2>2. /\ UNCHANGED <<main, root, hotplugthread>> /\ hotplugthread \notin {"none", "start"}
        /\ main \notin {"perf_init", "addallcpus", "activate", "open_socket", "failed"}
    BY <1>7, <2>1, ZenonT(30) DEF Hotplug, CpuChange, counters
  <2>3. CASE hotplugthread = "closed"
    BY <2>2, <2>3
  <2>4. CASE hotplugthread # "closed"
    <3>1. hotplugthread \in {"loop", "poll"}
      BY <2>2, <2>4, <1>0, ZenonT(30) DEF TypeOK
    <3>2. /\ moved \in online <=> ~(moved \in online')
          /\ \A c \in Cpu \ {moved} : c \in online <=> c \in online'
          /\ events' = Append(events, [action |-> IF moved \in online THEN "offline" ELSE "online",
                                       cpunum |-> moved])
      BY <2>1, <3>1, ZenonT(30) DEF CpuChange
    <3>3. events \in Seq(Event) /\ \A cpu \in Cpu : FollowedAt(cpu)
      BY <2>2, <2>4, <1>0 DEF TypeOK
    <3>4. ASSUME NEW cpu \in Cpu
          PROVE  FollowedAt(cpu)'
      BY <2>2, <3>2, <3>3, ChangeFollows, ZenonT(30)
    <3> QED
      BY <2>2, <3>4, ZenonT(30)
  <2> QED
    BY <2>3, <2>4
<1>8. CASE UNCHANGED vars
  <2>1. UNCHANGED <<root, online, events, main, todo, hotplugthread>>
    BY <1>8, ZenonT(30) DEF vars, counters, kernel
  <2>2. ASSUME NEW cpu
        PROVE  /\ Unique(cpu)' <=> Unique(cpu)
               /\ Has(cpu)' <=> Has(cpu)
               /\ FollowedAt(cpu) => FollowedAt(cpu)'
    BY <2>1, SameCpus
  <2> QED
    BY <2>1, <2>2, ZenonT(30)
<1> QED
  BY <1>1, <1>2, <1>3, <1>4, <1>5, <1>6, <1>7, <1>8, ZenonT(30)
     DEF Next, Main, Startup, Thread, HotplugThread

-----------------------------------------------------------------------------
(***************************************************************************)
(* The theorems.                                                           *)
(***************************************************************************)

\* The invariant holds when the daemon starts.
LEMMA InvInit == Init => Inv
<1> SUFFICES ASSUME Init PROVE Inv
  BY ZenonT(30)
<1>1. TypeOK
  <2>1. ctr_state \in [Counter -> State]
    BY ZenonT(30) DEF Init, InitialState, State
  <2>2. req \in Query
    BY DEF Init, Query, NoQuery
  <2>3. root \in Seq(Entry) /\ events \in Seq(Event)
    BY DEF Init
  <2>4. hotplugs \in 0 .. MaxHotplug /\ requests \in 0 .. MaxRequests /\ i \in 1 .. Len(Order) + 1
    BY CounterAssumption, OrderAssumption, OrderOK DEF Init
  <2>5. online \subseteq Cpu /\ todo \subseteq Cpu
    BY DEF Init
  <2>6. hotplugdetected \in BOOLEAN /\ stoprequested \in BOOLEAN /\ stopsig \in BOOLEAN
    BY ZenonT(30) DEF Init
  <2> QED
    BY <2>1, <2>2, <2>3, <2>4, <2>5, <2>6, SMTT(30) DEF Init, TypeOK, State
<1>2. Busy /\ Pending
  BY DEF Init, Busy, Pending
<1>3. FdsFollowState
  BY DEF Init, FdsFollowState
<1>4. Enabled = {}
  BY DEF Init, InitialState, Enabled
<1>5. EnabledCovered
  BY <1>4, FS_EmptySet DEF Init, EnabledCovered
<1> QED
  BY <1>1, <1>2, <1>3, <1>5 DEF Inv

\* Every step preserves it.
LEMMA InvStep == Inv /\ [Next]_vars => Inv'
<1> SUFFICES ASSUME Inv, [Next]_vars PROVE Inv'
  BY ZenonT(30)
<1>1. TypeOK /\ CountersOK /\ ControlOK /\ Busy /\ FdsFollowState /\ EnabledCovered /\ Pending
  BY DEF Inv, TypeOK, CountersOK, ControlOK
<1>2. ControlOK' /\ Busy'
  BY <1>1, ControlStep
<1>3. stoprequested' \in BOOLEAN /\ stopsig' \in BOOLEAN
  BY <1>1, FlagStep, ZenonT(30) DEF TypeOK
<1>4. CountersOK' /\ FdsFollowState' /\ EnabledCovered' /\ Pending'
  <2>1. CASE UNCHANGED counters /\ ~(main' = "operate" /\ main = "perf_ctr_state")
    <3>1. CountersOK' /\ FdsFollowState' /\ Enabled' = Enabled /\ enabledcounter' = enabledcounter
      BY <2>1, <1>1, ZenonT(30) DEF counters, CountersOK, FdsFollowState, Enabled
    <3>2. main' # "operate" \/ UNCHANGED <<main, req, i>>
      BY <2>1, ZenonT(30) DEF Next, Main, Startup, Serve, perf_init, addallcpus, addallcpus_activate,
                  open_socket, Loop, accept, ForCounter, AcceptFails, perf_ctr_state,
                  operate, Failed, perf_read_ctr, send_answer, do_send_pai, hotplug_answer,
                  Close, Signal, perf_close, Join, Goto, Thread, Hotplug, vars, request
    <3> QED
      BY <3>1, <3>2, <1>1, ShrinkKeepsBound, ZenonT(30)
  <2>2. CASE perf_ctr_state
    <3>1. CountersOK' /\ FdsFollowState' /\ Enabled' = Enabled /\ enabledcounter' = enabledcounter
      BY <2>2, <1>1, ZenonT(30) DEF perf_ctr_state, counters, CountersOK, FdsFollowState, Enabled
    <3>2. EnabledCovered'
      BY <3>1, <1>1 DEF EnabledCovered
    <3>3. ASSUME main' = "operate", req'.cmd = "DISABLE"
          PROVE  enabledcounter' >= Cardinality(Enabled' \ {Order[i']}) + 1
      <4>1. req' = req /\ i' = i /\ state' = ctr_state[Order[i]]
        BY <2>2, ZenonT(30) DEF perf_ctr_state
      <4>2. state' = "ENABLED" /\ Order[i] \in Counter
        BY <2>2, <3>3, <4>1, <1>1, OrderOK
           DEF perf_ctr_state, Goto, ActsOn, Busy, TypeOK
      <4>3. Order[i] \in Enabled
        BY <4>1, <4>2, ZenonT(30) DEF Enabled
      <4>4. Cardinality(Enabled \ {Order[i]}) = Cardinality(Enabled) - 1
        BY <4>3, EnabledFinite, FS_RemoveElement, ZenonT(30)
      <4>5. enabledcounter >= Cardinality(Enabled \ {Order[i]}) + 1
        BY <4>4, <1>1, EnabledFinite DEF EnabledCovered, TypeOK
      <4> QED
        BY <4>1, <4>5, <3>1, ZenonT(30)
    <3> QED
      BY <3>1, <3>2, <3>3 DEF Pending
  <2>3. CASE /\ \/ \E cpu \in Cpu, F \in SUBSET Counter : activatecpu(cpu, F)
                \/ \E cpu \in Cpu : deactivatecpu(cpu)
             /\ main' # "operate" \/ UNCHANGED <<main, req, i>>
    <3>1. CountersOK' /\ FdsFollowState' /\ Enabled' \subseteq Enabled
      BY <2>3, <1>1, ActivateCpu, DeactivateCpu, ZenonT(30)
    <3>2. enabledcounter' = enabledcounter
      BY <2>3 DEF activatecpu, deactivatecpu, counters
    <3> QED
      BY <3>1, <3>2, <2>3, <1>1, ShrinkKeepsBound, ZenonT(30)
  <2>4. CASE operate
    BY <2>4, OperateStep
  <2>5. (main' = "operate" /\ main = "perf_ctr_state") => perf_ctr_state
    BY ZenonT(30) DEF Next, Main, Startup, Serve, perf_init, addallcpus, addallcpus_activate,
           open_socket, Loop, accept, AcceptFails, operate, perf_read_ctr, send_answer,
           do_send_pai, hotplug_answer, Close, Signal, perf_close, Join, Goto, Thread,
           Hotplug, vars
  <2> QED
    BY <1>1, <2>1, <2>2, <2>3, <2>4, <2>5, CounterSteps, ZenonT(30)
<1> QED
  BY <1>2, <1>3, <1>4, ZenonT(30) DEF Inv, TypeOK, CountersOK, ControlOK

\* The inductive invariant holds throughout.
THEOREM InvAlways == Spec => []Inv
<1> QED
  BY InvInit, InvStep, PTL DEF Spec

\* Every variable of the daemon keeps its type.
THEOREM CpacfTypeCorrect == Spec => []TypeOK
<1>1. Inv => TypeOK
  BY DEF Inv
<1> QED
  BY <1>1, InvAlways, PTL

\* On every attached CPU an event counts exactly when its counter is enabled
\* (activatecpu, perf_enable_ctr, perf_disable_ctr).
THEOREM EventsFollowCounters == Spec => []FdsFollowState
<1>1. Inv => FdsFollowState
  BY DEF Inv
<1> QED
  BY <1>1, InvAlways, PTL

\* enabledcounter never falls below the number of enabled counters, so its
\* unsigned decrement in perf_disable_ctr does not wrap around.
THEOREM EnabledIsCovered == Spec => []EnabledCovered
<1>1. Inv => EnabledCovered
  BY DEF Inv
<1> QED
  BY <1>1, InvAlways, PTL

\* A change of the attached CPUs is reported as long as a counter is enabled.
THEOREM ChangesAreReported == Spec => HotplugReported
<1> DEFINE Step == /\ (AttachedCpus' # AttachedCpus /\ Enabled # {}) => hotplugdetected'
                   /\ (hotplugdetected /\ ~hotplugdetected') => Enabled' = {}
<1>1. ASSUME Inv, [Next]_vars PROVE [Step]_counters
  <2>1. Inv' /\ TypeOK /\ CountersOK /\ FdsFollowState
    BY <1>1, InvStep, ZenonT(30) DEF Inv, TypeOK, CountersOK
  <2>2. Enabled # {} => enabledcounter # 0
    BY <1>1, EnabledFinite, FS_EmptySet, SMTT(30) DEF Inv, EnabledCovered
  <2>3. enabledcounter' = 0 => Enabled' = {}
    BY <2>1, EnabledFinite, FS_EmptySet DEF Inv, EnabledCovered
  <2>4. CASE hotplugdetected' = report_hotplug
    BY <2>2, <2>4, ZenonT(30) DEF report_hotplug
  <2>5. CASE operate
    <3> DEFINE c == Order[i]
    <3>1. c \in Counter
      BY <1>1, <2>5, OrderOK DEF Inv, operate, TypeOK, Busy
    <3> HIDE DEF c
    <3>2. CASE perf_enable_ctr(c)
      <4>1. AttachedCpus' = AttachedCpus
        BY <3>1, <3>2, <2>1, Switch, ZenonT(30) DEF perf_enable_ctr, AttachedCpus
      <4> QED
        BY <3>2, <4>1 DEF perf_enable_ctr
    <3>3. CASE perf_disable_ctr(c)
      <4>1. AttachedCpus' = AttachedCpus
        BY <3>1, <3>3, <2>1, Switch, ZenonT(30) DEF perf_disable_ctr, AttachedCpus
      <4>2. (hotplugdetected /\ ~hotplugdetected') => enabledcounter' = 0
        BY <3>3, ZenonT(30) DEF perf_disable_ctr
      <4> QED
        BY <4>1, <4>2, <2>3
    <3> QED
      BY <2>5, <3>2, <3>3, ZenonT(30) DEF operate, c
  <2> QED
    BY <1>1, <2>1, <2>4, <2>5, CounterSteps DEF activatecpu, deactivatecpu
<1>2. Spec => [][Step]_counters
  BY <1>1, InvAlways, PTL DEF Spec
<1> QED
  BY <1>2, ZenonT(30) DEF HotplugReported

\* If no CPU comes or goes while the daemon starts, the list has one entry for each
\* CPU that is online, and none for the others, whenever the hotplug thread has
\* handled every event (addallcpus, hotplughandler, activatecpu, deactivatecpu).
\* Without the assumption it is false: a CPU may come between the "online" file
\* being read and the monitor being set up.
THEOREM EveryCpuCountedOnce ==
    ASSUME ~StartupHotplug
    PROVE  Spec => []CpusCountedOnce
<1>1. Init => CpuInv
  BY DEF Init, CpuInv
<1>2. Inv /\ CpuInv /\ [Next]_vars => CpuInv'
  BY CpuStep
<1>3. CpuInv => CpusCountedOnce
  <2>1. SUFFICES ASSUME CpuInv, Started, hotplugthread = "poll", events = <<>>, NEW cpu \in Cpu
                 PROVE  Cardinality(Attached(cpu)) = IF cpu \in online THEN 1 ELSE 0
    BY DEF CpusCountedOnce
  <2>2. FollowedAt(cpu)
    BY <2>1 DEF CpuInv, Started
  <2>3. EventsOf(cpu) = {}
    BY <2>1, NothingIn, ZenonT(30) DEF EventsOf
  <2>4. Unique(cpu) /\ (Has(cpu) <=> cpu \in online)
    BY <2>2, <2>3 DEF FollowedAt
  <2>5. CASE Attached(cpu) = {}
    BY <2>4, <2>5, FS_EmptySet, ZenonT(30) DEF Has
  <2>6. ASSUME NEW k \in Attached(cpu)
        PROVE  Cardinality(Attached(cpu)) = 1 /\ cpu \in online
    <3>1. Attached(cpu) = {k}
      BY <2>4, <2>6 DEF Unique
    <3> QED
      BY <3>1, <2>4, <2>6, FS_Singleton, ZenonT(30) DEF Has
  <2> QED
    BY <2>5, <2>6
<1> QED
  BY <1>1, <1>2, <1>3, InvAlways, PTL DEF Spec

-----------------------------------------------------------------------------
(***************************************************************************)
(* The client stays in step with the daemon. Its answers are counted       *)
(* against the counters that the query still selects, its details against  *)
(* those that do_send_pai still has to send.                               *)
(***************************************************************************)

\* What send_answer is called with.
Message == [ctr : Counter \cup {"detail", "HOTPLUG_DETECTED"},
            state : State \cup {"error", "ok"},
            value : Counter \cup {"zero", "one", "detail"}]

\* Where the main thread is within a query: at a counter, and further on.
AtCounter == {"perf_ctr_state", "operate", "perf_read_ctr", "send_answer"}
InQuery == AtCounter \cup {"do_send_pai", "hotplug_answer", "close"}

\* What can upset the client: a signal to stop, or a CPU that has come and whose
\* PAI events did not open. Neither is ever forgotten.
Upset == stopsig \/ (hotplugs > 0 /\ \E p \in PAI : ctr_state[p] = "UNSUPPORTED")

\* The query that is served and the counter of it that is being worked on.
QueryInv ==
    /\ answers \in Seq(Message)
    /\ value \in Counter \cup {"zero"}
    /\ main \in AtCounter \cup {"do_send_pai"} =>
          i \in 1 .. Len(Order) /\ Selected(req, i) /\ req.cmd # "invalid"
    /\ main = "hotplug_answer" => req.cmd # "invalid"
    /\ main \notin InQuery => req.cmd = "invalid"
    /\ req.cmd = "invalid" => answers = <<>>

\* A PAI space that is found unsupported while the other one is not has been so
\* when its state was read: it is not enabled now.
StuckInv ==
    /\ events # <<>> => hotplugs > 0
    /\ main = "operate" => state \in ActsOn(req.cmd)
    /\ \A p, q \in PAI : ctr_state[p] = "UNSUPPORTED" /\ ctr_state[q] # "UNSUPPORTED" =>
          ~(main = "operate" /\ Order[i] = p)

\* The state that is announced for a PAI space is the one do_send_pai finds, and
\* the value announced is that of the space.
StateInv ==
    /\ main = "do_send_pai" => Order[i] \in PAI
    /\ main = "send_answer" /\ req.cmd # "DISABLE" /\ state = "ENABLED" => value = Order[i]
    /\ main \in AtCounter \ {"perf_ctr_state"} /\ Order[i] \in PAI /\ req.cmd # "DISABLE" =>
          Upset \/ state = ctr_state[Order[i]]

\* The counters of the query from the present one on.
Left == IF req.ctr = "ALL_COUNTER" THEN Len(Order) - i + 1 ELSE 1

\* The client is in step, has not ended and expects n answers and d details.
Reading(n, d) == client = [num |-> n, details |-> d, exited |-> FALSE, instep |-> TRUE]

\* The client waits for what the daemon is going to send.
InStep ==
    /\ client.instep
    /\ main \in AtCounter => Reading(Left + 1, 0)
    /\ main = "do_send_pai" => Reading(Left, details)
    /\ main = "hotplug_answer" => Reading(1, 0)
    /\ req.cmd = "invalid" => client = ClientStart(req)
    /\ main = "close" /\ rc = 0 /\ req.cmd # "invalid" => client.num = 0 /\ client.details = 0

\* The inductive invariant of the daemon and its client.
ClientInv == QueryInv /\ StuckInv /\ StateInv /\ (Upset \/ InStep)

\* The enumeration of the counters has a length.
LEMMA OrderLength == Len(Order) \in Nat
<1>1. Order \in Seq(Counter)
  BY OrderAssumption, Zenon
<1> QED
  BY <1>1

\* The first index from n on that is not skipped.
LEMMA NotSkipped ==
    ASSUME NEW n \in Nat, NEW l \in Nat, NEW j \in n .. l, NEW k \in Nat, n <= k,
           ~(k \in n .. j - 1)
    PROVE  j <= k
BY SMTT(30)

\* What the loop over the counters comes to: the next one selected, or the end.
LEMMA NextCounter ==
    ASSUME TypeOK, i \in 1 .. Len(Order), Selected(req, i), req' = req, NEW r,
           ForCounter(req, i + 1, r)
    PROVE  /\ main' \in {"perf_ctr_state", "hotplug_answer", "close"}
           /\ main' = "perf_ctr_state" =>
                 i' \in 1 .. Len(Order) /\ Selected(req', i') /\ Left' + 1 = Left
           /\ main' = "hotplug_answer" => Left = 1 /\ r = 0
           /\ main' = "close" => r # 0
<1>1. Len(Order) \in Nat
  BY OrderLength
<1>2. /\ i' \in i + 1 .. Len(Order) + 1
      /\ i' <= Len(Order) => Selected(req, i')
      /\ \A m \in i + 1 .. i' - 1 : ~Selected(req, m)
      /\ main' = IF i' <= Len(Order) THEN "perf_ctr_state"
                 ELSE IF r = 0 THEN "hotplug_answer" ELSE "close"
  BY ZenonT(30) DEF ForCounter
<1>3. CASE req.ctr = "ALL_COUNTER"
  <2>1. \A m : Selected(req, m)
    BY <1>3 DEF Selected
  <2>2. i' = i + 1
    <3>1. ~(i + 1 \in i + 1 .. i' - 1)
      BY <1>2, <2>1, ZenonT(30)
    <3>2. i' \in i + 1 .. Len(Order) + 1
      BY <1>2, ZenonT(30)
    <3>3. i + 1 \in Nat /\ Len(Order) + 1 \in Nat /\ i + 1 <= i + 1
      BY <1>1
    <3>4. i' <= i + 1
      BY <3>1, <3>2, <3>3, NotSkipped, ZenonT(30)
    <3> QED
      BY <1>1, <3>2, <3>4
  <2> QED
    BY <1>1, <1>2, <1>3, <2>1, <2>2, SMTT(30) DEF Left
<1>4. CASE req.ctr # "ALL_COUNTER"
  <2>1. Order[i] = req.ctr
    BY <1>4 DEF Selected
  <2>2. ~(i' <= Len(Order))
    <3> SUFFICES ASSUME i' <= Len(Order) PROVE FALSE
      OBVIOUS
    <3>1. Order[i'] = req.ctr /\ i' \in 1 .. Len(Order)
      BY <1>1, <1>2, <1>4 DEF Selected
    <3>2. i' = i
      BY <2>1, <3>1, OrderAssumption, ZenonT(30)
    <3> QED
      BY <1>1, <1>2, <3>2
  <2> QED
    BY <1>2, <1>4, <2>2 DEF Left
<1> QED
  BY <1>3, <1>4, ZenonT(30)

\* The loop finds the first counter of a query.
LEMMA FirstCounter ==
    ASSUME NEW q \in Query, req' = q, q.cmd # "invalid", ForCounter(q, 1, 0)
    PROVE  /\ main' = "perf_ctr_state" /\ i' \in 1 .. Len(Order) /\ Selected(req', i')
           /\ ClientStart(q) = [num |-> Left' + 1, details |-> 0, exited |-> FALSE, instep |-> TRUE]
<1>1. Len(Order) \in Nat
  BY OrderLength
<1>2. /\ i' \in 1 .. Len(Order) + 1
      /\ i' <= Len(Order) => Selected(q, i')
      /\ \A m \in 1 .. i' - 1 : ~Selected(q, m)
      /\ main' = IF i' <= Len(Order) THEN "perf_ctr_state"
                 ELSE IF 0 = 0 THEN "hotplug_answer" ELSE "close"
  BY Zenon DEF ForCounter
<1>3. PICK n \in 1 .. Len(Order) : Selected(q, n)
  <2>1. CASE q.ctr = "ALL_COUNTER"
    <3>1. "PAI_USER" \in Counter
      BY ZenonT(30) DEF Counter, PAI
    <3> QED
      BY <2>1, <3>1, OrderAssumption, ZenonT(30) DEF Selected
  <2>2. CASE q.ctr # "ALL_COUNTER"
    <3>1. q.ctr \in Counter
      BY <2>2 DEF Query, NoQuery
    <3> QED
      BY <3>1, OrderAssumption, ZenonT(30) DEF Selected
  <2> QED
    BY <2>1, <2>2, ZenonT(30)
<1>4. i' <= n
  <2>1. ~(n \in 1 .. i' - 1)
    BY <1>2, <1>3, Zenon
  <2>2. i' \in 1 .. Len(Order) + 1
    BY <1>2
  <2>3. 1 \in Nat /\ Len(Order) + 1 \in Nat /\ n \in Nat /\ 1 <= n
    BY <1>1
  <2> QED
    BY <2>1, <2>2, <2>3, NotSkipped, Zenon
<1>5. i' \in 1 .. Len(Order) /\ main' = "perf_ctr_state" /\ Selected(req', i')
  BY <1>1, <1>2, <1>4
<1>6. CASE q.ctr = "ALL_COUNTER"
  <2>1. \A m : Selected(q, m)
    BY <1>6 DEF Selected
  <2>2. i' = 1
    <3>1. ~(1 \in 1 .. i' - 1)
      BY <1>2, <2>1, ZenonT(30)
    <3>2. i' \in 1 .. Len(Order) + 1
      BY <1>2
    <3>3. 1 \in Nat /\ Len(Order) + 1 \in Nat /\ 1 <= 1
      BY <1>1
    <3>4. i' <= 1
      BY <3>1, <3>2, <3>3, NotSkipped, ZenonT(30)
    <3> QED
      BY <1>1, <3>2, <3>4
  <2>3. Left' + 1 = Len(Order) + 1
    BY <1>1, <1>6, <2>2 DEF Left
  <2> QED
    BY <1>5, <1>6, <2>3, ZenonT(30) DEF ClientStart
<1>7. CASE q.ctr # "ALL_COUNTER"
  <2>1. Left' + 1 = 2
    BY <1>7 DEF Left
  <2> QED
    BY <1>5, <1>7, <2>1, ZenonT(30) DEF ClientStart
<1> QED
  BY <1>6, <1>7

\* The client reads what is sent.
LEMMA MessageRead ==
    ASSUME answers \in Seq(Message), NEW m \in Message, answers' = Append(answers, m),
           req' = req, ClientReads
    PROVE  client' = Receive(client, m)
<1>1. answers' # answers /\ answers'[Len(answers')] = m
  <2>1. Len(answers') = Len(answers) + 1 /\ Len(answers) \in Nat
    OBVIOUS
  <2>2. answers' # answers
    BY <2>1
  <2> QED
    BY <2>2
<1> QED
  BY <1>1, Zenon DEF ClientReads

\* The events of F cannot be opened: both PAI spaces are among them, or none.
PaiMarked(F) ==
    /\ F \subseteq Counter
    /\ PAI \subseteq F \/ PAI \cap F = {}
    /\ ctr_state' = [c \in Counter |-> IF c \in F THEN "UNSUPPORTED" ELSE ctr_state[c]]

\* activatecpu marks both PAI spaces or none.
LEMMA SpacesFailTogether ==
    ASSUME NEW cpu, NEW F \in FailedOpens(cpu), activatecpu(cpu, F)
    PROVE  PaiMarked(F)
<1>1. Opened \subseteq Counter /\ (PAI \subseteq Opened \/ PAI \cap Opened = {})
  <2>1. CASE ctr_state["PAI_USER"] # "UNSUPPORTED"
    BY <2>1, ZenonT(30) DEF Opened, Counter
  <2>2. CASE ctr_state["PAI_USER"] = "UNSUPPORTED"
    <3>1. Opened \subseteq CpuMf
      BY <2>2, ZenonT(30) DEF Opened
    <3> QED
      BY <3>1, CounterAssumption, ZenonT(30) DEF Counter
  <2> QED
    BY <2>1, <2>2
<1>2. F \subseteq Opened /\ (F = Opened \/ F \cap PAI \in {{}, PAI})
  BY ZenonT(30) DEF FailedOpens
<1>3. PAI \subseteq F \/ PAI \cap F = {}
  BY <1>1, <1>2, ZenonT(30)
<1> QED
  BY <1>1, <1>2, <1>3, ZenonT(30) DEF PaiMarked, activatecpu

\* The steps other than operate keep the states or mark events that do not open;
\* within a query only the thread does so, for a CPU that has come.
LEMMA StateFrame ==
    ASSUME TypeOK, [Next]_vars
    PROVE  /\ stopsig => stopsig'
           /\ hotplugs > 0 => hotplugs' > 0
           /\ \/ operate
              \/ ctr_state' = ctr_state
              \/ /\ \E F : PaiMarked(F)
                 /\ (Thread /\ events # <<>>) \/ addallcpus_activate
<1>1. CASE Startup
  <2>1. UNCHANGED <<stopsig, hotplugs>>
    BY <1>1, ZenonT(30) DEF Startup, perf_init, addallcpus, addallcpus_activate, open_socket,
                            KeepThread, NoSignal, OtherThread, kernel
  <2>2. ctr_state' = ctr_state \/ addallcpus_activate
    BY <1>1, ZenonT(30) DEF Startup, perf_init, addallcpus, open_socket, counters
  <2>3. addallcpus_activate => \E F : PaiMarked(F)
    BY SpacesFailTogether, ZenonT(30) DEF addallcpus_activate
  <2> QED
    BY <2>1, <2>2, <2>3
<1>2. CASE Serve
  <2>1. UNCHANGED hotplugs
    BY <1>2, ZenonT(30) DEF Serve, perf_ctr_state, operate, perf_read_ctr, send_answer,
                            do_send_pai, hotplug_answer, Close, KeepThread, OtherThread, kernel
  <2>2. stopsig => stopsig'
    BY <1>2, ZenonT(30) DEF Serve, perf_ctr_state, operate, perf_read_ctr, send_answer,
           do_send_pai, hotplug_answer, Close, KeepThread, NoSignal, Failed, Send, Handled, signalhandler
  <2>3. operate \/ ctr_state' = ctr_state
    BY <1>2, ZenonT(30) DEF Serve, perf_ctr_state, perf_read_ctr, send_answer,
                            do_send_pai, hotplug_answer, Close, counters
  <2> QED
    BY <2>1, <2>2, <2>3
<1>3. CASE Loop \/ Join \/ AcceptFails \/ \E q \in Queries : accept(q)
  <2>1. UNCHANGED <<stopsig, hotplugs, ctr_state>>
    <3>1. CASE Loop \/ Join \/ AcceptFails
      BY <3>1, ZenonT(30) DEF Loop, Join, AcceptFails, KeepThread, NoSignal, OtherThread, kernel,
                              counters
    <3>2. CASE \E q \in Queries : accept(q)
      BY <3>2, ZenonT(30) DEF accept, KeepThread, NoSignal, OtherThread, kernel, counters
    <3> QED
      BY <1>3, <3>1, <3>2, Zenon
  <2> QED
    BY <2>1, Zenon
<1>4. CASE perf_close \/ Signal
  BY <1>4, ZenonT(30) DEF perf_close, Signal, Handled, signalhandler, kernel, counters
<1>5. CASE Thread
  <2>1. UNCHANGED <<stopsig, hotplugs>>
    BY <1>5, ZenonT(30) DEF Thread, HotplugThread, HotplugStart, HotplugLoop, HotplugEvent, kernel
  <2>2. CASE HotplugEvent
    <3>1. CASE Head(events).action = "online"
      BY <1>5, <2>1, <2>2, <3>1, SpacesFailTogether, ZenonT(30) DEF HotplugEvent
    <3>2. CASE Head(events).action # "online"
      BY <2>1, <2>2, <3>2, ZenonT(30) DEF HotplugEvent, deactivatecpu, counters
    <3> QED
      BY <3>1, <3>2
  <2>3. CASE HotplugStart \/ HotplugLoop
    BY <2>1, <2>3, ZenonT(30) DEF HotplugStart, HotplugLoop, counters
  <2> QED
    BY <1>5, <2>2, <2>3, ZenonT(30) DEF Thread, HotplugThread
<1>6. CASE Hotplug
  <2>1. UNCHANGED <<stopsig, ctr_state>> /\ hotplugs' = hotplugs + 1
    BY <1>6, ZenonT(30) DEF Hotplug, CpuChange, counters
  <2> QED
    BY <2>1 DEF TypeOK
<1>7. CASE UNCHANGED vars
  BY <1>7, Zenon DEF vars, counters, kernel
<1> QED
  BY <1>1, <1>2, <1>3, <1>4, <1>5, <1>6, <1>7, ZenonT(30) DEF Next, Main

\* A client that is upset stays so.
LEMMA UpsetStays ==
    ASSUME TypeOK, StuckInv, [Next]_vars, Upset
    PROVE  Upset'
<1>1. CASE stopsig
  BY <1>1, StateFrame, Zenon DEF Upset
<1>2. CASE hotplugs > 0 /\ \E p \in PAI : ctr_state[p] = "UNSUPPORTED"
  <2>1. PICK p \in PAI : ctr_state[p] = "UNSUPPORTED"
    BY <1>2
  <2>2. hotplugs' > 0 /\ p \in Counter
    BY <1>2, StateFrame, Zenon DEF Counter
  <2>3. CASE ctr_state' = ctr_state \/ \E F : PaiMarked(F)
    <3>1. ctr_state'[p] = "UNSUPPORTED"
      BY <2>1, <2>2, <2>3, ZenonT(30) DEF PaiMarked
    <3> QED
      BY <2>2, <3>1, Zenon DEF Upset
  <2>4. CASE operate
    <3>1. main = "operate" /\ ctr_state \in [Counter -> State]
      BY <2>4, ZenonT(30) DEF operate, TypeOK
    <3>2. PICK q \in PAI : ctr_state[q] = "UNSUPPORTED" /\ q # Order[i]
      <4>1. CASE p # Order[i]
        BY <2>1, <4>1, ZenonT(30)
      <4>2. CASE p = Order[i]
        <5>1. PICK q \in PAI : q # p
          BY DEF PAI
        <5>2. ctr_state[q] = "UNSUPPORTED"
          BY <2>1, <3>1, <4>2, <5>1, Zenon DEF StuckInv
        <5> QED
          BY <4>2, <5>1, <5>2
      <4> QED
        BY <4>1, <4>2, ZenonT(30)
    <3>3. q \in Counter
      BY Zenon DEF Counter
    <3>4. \/ ctr_state' = ctr_state
          \/ \E s : ctr_state' = [ctr_state EXCEPT ![Order[i]] = s]
      BY <2>4, ZenonT(30) DEF operate, perf_enable_ctr, perf_disable_ctr, counters
    <3>5. ctr_state'[q] = "UNSUPPORTED"
      BY <3>1, <3>2, <3>3, <3>4, ZenonT(30)
    <3> QED
      BY <2>2, <3>5, Zenon DEF Upset
  <2> QED
    BY <2>3, <2>4, StateFrame, Zenon
<1> QED
  BY <1>1, <1>2, Zenon DEF Upset

\* Where the main thread comes to operate: only in perf_ctr_state.
LEMMA StuckStep ==
    ASSUME TypeOK, StuckInv, [Next]_vars
    PROVE  StuckInv'
<1>1. (events # <<>> => hotplugs > 0)'
  <2>1. CASE Hotplug
    <3>1. hotplugs' = hotplugs + 1 /\ hotplugs \in Nat
      BY <2>1, CounterAssumption DEF Hotplug, CpuChange, TypeOK
    <3> QED
      BY <3>1, SMTT(30)
  <2>2. CASE HotplugEvent
    <3>1. events # <<>> /\ UNCHANGED hotplugs
      BY <2>2, Zenon DEF HotplugEvent
    <3> QED
      BY <3>1, Zenon DEF StuckInv
  <2>3. CASE UNCHANGED kernel
    BY <2>3, ZenonT(30) DEF kernel, StuckInv
  <2>4. Hotplug \/ HotplugEvent \/ UNCHANGED kernel
    BY ZenonT(60) DEF Next, vars, Main, Startup, Serve, perf_init, addallcpus, addallcpus_activate,
       open_socket, Loop, perf_ctr_state, operate, perf_read_ctr, send_answer, do_send_pai,
       hotplug_answer, Close, perf_close, Join, AcceptFails, accept, Signal, KeepThread,
       OtherThread, Thread, HotplugThread, HotplugStart, HotplugLoop
  <2> QED
    BY <2>1, <2>2, <2>3, <2>4, ZenonT(30)
<1>2. \/ main' # "operate"
      \/ main' = main /\ UNCHANGED <<req, i, state>> /\ ~operate
      \/ perf_ctr_state
  <2>1. CASE Startup \/ Loop \/ perf_close \/ Join \/ AcceptFails
    <3>1. main' # "operate"
      BY <2>1 DEF Startup, perf_init, addallcpus, addallcpus_activate, open_socket, Loop,
                  perf_close, Join, AcceptFails, Goto
    <3> QED
      BY <3>1, ZenonT(30)
  <2>2. CASE Serve
    <3>1. CASE operate \/ perf_read_ctr \/ hotplug_answer \/ Close
      <4>1. main' # "operate"
        BY <3>1 DEF operate, perf_read_ctr, hotplug_answer, Close, Failed, Goto
      <4> QED
        BY <4>1, SMTT(30)
    <3>2. CASE send_answer
      <4>1. main' \in {"do_send_pai", "perf_ctr_state", "hotplug_answer", "close"}
        BY <3>2, ZenonT(30) DEF send_answer, ForCounter
      <4> QED
        BY <4>1
    <3>3. CASE do_send_pai
      <4>1. main' \in {"do_send_pai", "perf_ctr_state", "hotplug_answer", "close"}
        BY <3>3 DEF do_send_pai, ForCounter
      <4> QED
        BY <4>1
    <3> QED
      BY <2>2, <3>1, <3>2, <3>3, ZenonT(30) DEF Serve
  <2>3. CASE \E q \in Queries : accept(q)
    <3>1. main' \in {"perf_ctr_state", "hotplug_answer", "close"}
      BY <2>3 DEF accept, ForCounter
    <3> QED
      BY <3>1, ZenonT(30)
  <2>4. CASE Thread \/ Hotplug \/ UNCHANGED vars
    <3>1. main' = main /\ UNCHANGED <<req, i, state>>
      BY <2>4, ZenonT(30) DEF Thread, Hotplug, vars, request
    <3>2. operate => main' # main
      BY DEF operate, Failed, Goto
    <3> QED
      BY <3>1, <3>2
  <2>5. CASE Signal
    <3>1. main' # "operate" \/ (main' = main /\ UNCHANGED <<req, i, state>>)
      BY <2>5 DEF Signal, request
    <3>2. operate => main' # main
      BY DEF operate, Failed, Goto
    <3> QED
      BY <3>1, <3>2, ZenonT(30)
  <2> QED
    BY <2>1, <2>2, <2>3, <2>4, <2>5, ZenonT(30) DEF Next, Main
<1>3. CASE main' # "operate"
  BY <1>1, <1>3, Zenon DEF StuckInv
<1>4. CASE main' = main /\ UNCHANGED <<req, i, state>> /\ ~operate
  <2>1. (main = "operate" => state \in ActsOn(req.cmd))'
    BY <1>4, Zenon DEF StuckInv, ActsOn
  <2>2. ASSUME NEW p \in PAI, NEW q \in PAI, ctr_state'[p] = "UNSUPPORTED",
               ctr_state'[q] # "UNSUPPORTED", main' = "operate", Order[i'] = p
        PROVE  FALSE
    <3>1. p \in Counter /\ q \in Counter
      BY Zenon DEF Counter
    <3>2. main = "operate" /\ Order[i] = p
      BY <1>4, <2>2, Zenon
    <3>3. ctr_state[p] = "UNSUPPORTED" /\ ctr_state[q] # "UNSUPPORTED"
      BY <1>4, <2>2, <3>1, StateFrame, ZenonT(30) DEF PaiMarked
    <3> QED
      BY <3>2, <3>3, Zenon DEF StuckInv
  <2> QED
    BY <1>1, <2>1, <2>2, Zenon DEF StuckInv
<1>5. CASE perf_ctr_state
  <2>1. UNCHANGED <<req, i, ctr_state>> /\ state' = ctr_state[Order[i]]
    BY <1>5, ZenonT(30) DEF perf_ctr_state, counters
  <2>2. main' = "operate" => state' \in ActsOn(req.cmd)
    BY <1>5 DEF perf_ctr_state, Goto
  <2>3. "UNSUPPORTED" \notin ActsOn(req.cmd)
    BY DEF ActsOn
  <2>4. (main = "operate" => state \in ActsOn(req.cmd))'
    BY <2>1, <2>2, ZenonT(30) DEF ActsOn
  <2> QED
    BY <1>1, <2>1, <2>2, <2>3, <2>4, ZenonT(30) DEF StuckInv
<1> QED
  BY <1>2, <1>3, <1>4, <1>5, ZenonT(30)

\* operate moves on.
LEMMA OperateMoves == operate => main = "operate" /\ main' # main
BY DEF operate, Failed, Goto

\* The steps that serve no query, and those of the thread, the kernel and signals.
LEMMA QuietStep ==
    ASSUME TypeOK, ClientInv, [Next]_vars, ClientReads, UNCHANGED request,
           main' = main \/ (main \notin InQuery /\ main' \notin InQuery)
    PROVE  ClientInv'
<1>1. UNCHANGED <<req, i, state, value, rc, details, answers, client>>
  BY Zenon DEF request, ClientReads
<1>2. StuckInv'
  BY StuckStep, Zenon DEF ClientInv
<1>3. QueryInv'
  BY <1>1, ZenonT(30) DEF ClientInv, QueryInv, InQuery, Selected
<1>4. Upset => Upset'
  BY UpsetStays, Zenon DEF ClientInv
<1>5. StateInv'
  <2>1. (main = "do_send_pai" => Order[i] \in PAI)'
    BY <1>1, ZenonT(30) DEF ClientInv, StateInv, InQuery
  <2>2. (main = "send_answer" /\ req.cmd # "DISABLE" /\ state = "ENABLED" => value = Order[i])'
    BY <1>1, ZenonT(30) DEF ClientInv, StateInv, InQuery, AtCounter
  <2>3. ASSUME main' \in AtCounter \ {"perf_ctr_state"}, Order[i'] \in PAI, req'.cmd # "DISABLE"
        PROVE  Upset' \/ state' = ctr_state'[Order[i']]
    <3>1. main' = main /\ main \in InQuery
      BY <2>3, Zenon DEF InQuery
    <3>2. Upset \/ state = ctr_state[Order[i]]
      BY <1>1, <2>3, <3>1, Zenon DEF ClientInv, StateInv
    <3>3. CASE ctr_state' = ctr_state
      BY <1>1, <1>4, <3>2, <3>3, ZenonT(30)
    <3>4. CASE (\E F : PaiMarked(F)) /\ Thread /\ events # <<>>
      <4>1. PICK F : PaiMarked(F)
        BY <3>4
      <4>2. Order[i] \in Counter /\ "PAI_USER" \in PAI /\ "PAI_USER" \in Counter
        BY <1>1, <2>3, Zenon DEF Counter, PAI
      <4>3. hotplugs' > 0
        BY <3>4, StateFrame, Zenon DEF ClientInv, StuckInv
      <4>4. CASE PAI \subseteq F
        <5>1. ctr_state'["PAI_USER"] = "UNSUPPORTED"
          BY <4>1, <4>2, <4>4, ZenonT(30) DEF PaiMarked
        <5> QED
          BY <4>2, <4>3, <5>1, ZenonT(30) DEF Upset
      <4>5. CASE PAI \cap F = {}
        <5>1. ctr_state'[Order[i]] = ctr_state[Order[i]]
          BY <1>1, <2>3, <4>1, <4>2, <4>5, ZenonT(30) DEF PaiMarked
        <5> QED
          BY <1>1, <1>4, <3>2, <5>1, ZenonT(30)
      <4> QED
        BY <4>1, <4>4, <4>5, ZenonT(30) DEF PaiMarked
    <3>5. ~addallcpus_activate
      BY <3>1 DEF addallcpus_activate, InQuery, AtCounter
    <3> QED
      BY <3>1, <3>3, <3>4, <3>5, StateFrame, OperateMoves, ZenonT(30)
  <2> QED
    BY <2>1, <2>2, <2>3, Zenon DEF StateInv
<1>6. Upset' \/ InStep'
  <2> SUFFICES ASSUME ~Upset' PROVE InStep'
    OBVIOUS
  <2>1. InStep
    BY <1>4, Zenon DEF ClientInv
  <2>2. ClientStart(req)' = ClientStart(req) /\ Left' = Left
    BY <1>1, ZenonT(30) DEF ClientStart, Left
  <2>3. CASE main' = main
    BY <1>1, <2>1, <2>2, <2>3, ZenonT(30) DEF InStep, Reading
  <2>4. CASE main \notin InQuery /\ main' \notin InQuery
    <3>1. main' \notin AtCounter /\ main' \notin {"do_send_pai", "hotplug_answer", "close"}
      BY <2>4, Zenon DEF InQuery
    <3>2. client' = ClientStart(req)'
      BY <1>1, <2>1, <2>2, <2>4, ZenonT(30) DEF ClientInv, QueryInv, InStep
    <3>3. client'.instep
      BY <1>1, <2>1, Zenon DEF InStep
    <3> QED
      BY <3>1, <3>2, <3>3, ZenonT(30) DEF InStep
  <2> QED
    BY <2>3, <2>4, ZenonT(30)
<1> QED
  BY <1>2, <1>3, <1>5, <1>6, ZenonT(30) DEF ClientInv

\* The state of the counter is read.
LEMMA CtrStateStep ==
    ASSUME TypeOK, ClientInv, perf_ctr_state, ClientReads
    PROVE  ClientInv'
<1>1. [Next]_vars
  BY Zenon DEF Next, Main, Serve
<1>2. StuckInv'
  BY <1>1, StuckStep, Zenon DEF ClientInv
<1>3. Upset => Upset'
  BY <1>1, UpsetStays, Zenon DEF ClientInv
<1>4. /\ UNCHANGED <<req, i, value, rc, details, answers, client, ctr_state>>
      /\ main = "perf_ctr_state" /\ state' = ctr_state[Order[i]]
  BY Zenon DEF perf_ctr_state, counters, ClientReads
<1>5. main' = IF state' \in ActsOn(req.cmd) THEN "operate"
              ELSE IF Reads(req.cmd, state') THEN "perf_read_ctr" ELSE "send_answer"
  BY ZenonT(30) DEF perf_ctr_state, Goto
<1>6. main' \in {"operate", "perf_read_ctr", "send_answer"} /\ main \in AtCounter
  BY <1>4, <1>5 DEF AtCounter
<1>7. QueryInv'
  <2>1. i \in 1 .. Len(Order) /\ Selected(req, i) /\ req.cmd # "invalid"
    BY <1>6, Zenon DEF ClientInv, QueryInv
  <2>2. main' # "hotplug_answer" /\ main' \in InQuery
    BY <1>6 DEF InQuery, AtCounter
  <2> QED
    BY <1>4, <2>1, <2>2, ZenonT(30) DEF ClientInv, QueryInv, Selected
<1>8. StateInv'
  <2>1. ~(main' = "send_answer" /\ req.cmd # "DISABLE" /\ state' = "ENABLED")
    <3> SUFFICES ASSUME main' = "send_answer", req.cmd # "DISABLE", state' = "ENABLED" PROVE FALSE
      BY ZenonT(30)
    <3>1. req.cmd \in {"PRINT", "ENABLE", "RESET"}
      <4>1. req.cmd # "invalid"
        BY <1>6, Zenon DEF ClientInv, QueryInv
      <4> QED
        BY <4>1 DEF TypeOK, Query, NoQuery
    <3> QED
      BY <1>5, <3>1, ZenonT(30) DEF ActsOn, Reads
  <2>2. main' # "do_send_pai"
    BY <1>6
  <2> QED
    BY <1>4, <2>1, <2>2, ZenonT(30) DEF StateInv
<1>9. InStep => InStep'
  <2>1. main' \in AtCounter /\ main' \in InQuery /\ main \in InQuery
    BY <1>6 DEF AtCounter, InQuery
  <2>2. main' \notin {"do_send_pai", "hotplug_answer", "close"}
    BY <1>6
  <2>3. ClientStart(req)' = ClientStart(req) /\ Left' = Left
    BY <1>4, Zenon DEF ClientStart, Left
  <2> QED
    BY <1>4, <1>6, <2>1, <2>2, <2>3, ZenonT(30) DEF InStep, Reading
<1> QED
  BY <1>2, <1>3, <1>7, <1>8, <1>9, ZenonT(30) DEF ClientInv

\* What is sent is read, unless a signal loses it.
LEMMA SendStep ==
    ASSUME answers \in Seq(Message), NEW c, NEW s, NEW v,
           [ctr |-> c, state |-> s, value |-> v] \in Message, Send(c, s, v),
           req' = req, ClientReads
    PROVE  /\ answers' \in Seq(Message)
           /\ stopsig' \/ client' = Receive(client, [ctr |-> c, state |-> s, value |-> v])
<1>1. PICK m \in Message : m = [ctr |-> c, state |-> s, value |-> v]
  BY Zenon
<1>2. CASE answers' = Append(answers, m)
  <2>1. answers' \in Seq(Message)
    BY <1>2, SMTT(30)
  <2>2. client' = Receive(client, m)
    BY <1>2, MessageRead
  <2> QED
    BY <1>1, <2>1, <2>2, ZenonT(30)
<1>3. CASE Handled /\ UNCHANGED answers
  BY <1>3, Zenon DEF Handled, signalhandler
<1> QED
  BY <1>1, <1>2, <1>3, Zenon DEF Send

\* recv_answer in the main loop of the client.
LEMMA AnswerRead ==
    ASSUME NEW n \in Nat, n # 0, Reading(n, 0), NEW m, m.ctr # "detail"
    PROVE  Receive(client, m) = [num |-> n - 1, details |-> Announced(m),
                                 exited |-> m.state = "error", instep |-> TRUE]
<1>1. client.num = n /\ client.details = 0 /\ client.exited = FALSE /\ client.instep = TRUE
  BY ZenonT(30) DEF Reading
<1>2. ~(client.details > 0)
  BY <1>1
<1>3. Receive(client, m) = ReadAnswer(client, m)
  BY <1>1, <1>2, Zenon DEF Receive
<1>4. (client.instep /\ m.ctr # "detail") = TRUE
  BY <1>1, Zenon
<1> QED
  BY <1>1, <1>3, <1>4, ZenonT(30) DEF ReadAnswer

\* recv_answer in print_virtual_counter_answer.
LEMMA DetailRead ==
    ASSUME NEW n \in Nat, NEW d \in Nat, d # 0, Reading(n, d), NEW m, m.ctr = "detail"
    PROVE  Receive(client, m) = [num |-> n, details |-> IF m.state = "error" THEN 0 ELSE d - 1,
                                 exited |-> FALSE, instep |-> TRUE]
<1>1. client.num = n /\ client.details = d /\ client.exited = FALSE /\ client.instep = TRUE
  BY Zenon DEF Reading
<1>2. client.details > 0 /\ client.details # 0
  BY <1>1
<1>3. Receive(client, m) = ReadDetail(client, m)
  BY <1>1, <1>2, Zenon DEF Receive
<1>4. PICK e : e = IF m.state = "error" THEN 0 ELSE d - 1
  BY Zenon
<1>5. Receive(client, m) = [client EXCEPT !.details = e, !.instep = TRUE]
  BY <1>1, <1>3, <1>4, ZenonT(30) DEF ReadDetail
<1> QED
  BY <1>4, <1>5, ZenonT(30) DEF Reading

\* What holds of the counter a query is at.
LEMMA AtCounterFacts ==
    ASSUME TypeOK, ClientInv, main \in AtCounter \cup {"do_send_pai"}
    PROVE  /\ i \in 1 .. Len(Order) /\ Selected(req, i) /\ req.cmd # "invalid"
           /\ req.cmd \in {"PRINT", "ENABLE", "DISABLE", "RESET"}
           /\ Order[i] \in Counter /\ Order[i] # "detail"
           /\ answers \in Seq(Message) /\ value \in Counter \cup {"zero"}
           /\ Left \in Nat \ {0}
<1>1. /\ i \in 1 .. Len(Order) /\ Selected(req, i) /\ req.cmd # "invalid"
      /\ answers \in Seq(Message) /\ value \in Counter \cup {"zero"}
  BY ZenonT(30) DEF ClientInv, QueryInv
<1>2. req.cmd \in {"PRINT", "ENABLE", "DISABLE", "RESET"}
  BY <1>1 DEF TypeOK, Query, NoQuery
<1>3. Order \in Seq(Counter) /\ "detail" \notin Counter
  BY OrderAssumption, ZenonT(30)
<1>4. Order[i] \in Counter
  BY <1>1, <1>3, SMTT(30)
<1>5. Left \in Nat \ {0}
  BY <1>1, OrderLength DEF Left
<1> QED
  BY <1>1, <1>2, <1>3, <1>4, <1>5, ZenonT(30)

\* An error answer ends the client, at the end of the query.
LEMMA FailedStep ==
    ASSUME TypeOK, ClientInv, main \in AtCounter, Failed(Order[i]), req' = req, ClientReads,
           value' \in Counter \cup {"zero"}, StuckInv', Upset => Upset'
    PROVE  ClientInv'
<1>1. /\ Order[i] \in Counter /\ Order[i] # "detail" /\ answers \in Seq(Message)
      /\ Left \in Nat \ {0} /\ req.cmd # "invalid"
  BY AtCounterFacts, Zenon
<1>2. PICK m \in Message : m = [ctr |-> Order[i], state |-> "error", value |-> "zero"]
  BY <1>1, Zenon DEF Message
<1>3. /\ answers' \in Seq(Message)
      /\ stopsig' \/ client' = Receive(client, m)
  BY <1>1, <1>2, SendStep, ZenonT(30) DEF Failed
<1>4. main' = "close" /\ rc' # 0
  BY SMTT(30) DEF Failed, Goto
<1>5. main' \notin AtCounter /\ main' \in InQuery /\ main' # "do_send_pai"
      /\ main' # "hotplug_answer"
  BY <1>4 DEF AtCounter, InQuery
<1>6. QueryInv' /\ StateInv'
  BY <1>1, <1>3, <1>5, ZenonT(30) DEF QueryInv, StateInv, AtCounter
<1>7. Upset' \/ InStep'
  <2> SUFFICES ASSUME ~Upset' PROVE InStep'
    OBVIOUS
  <2>1. Reading(Left + 1, 0)
    BY ZenonT(30) DEF ClientInv, InStep
  <2>2. Left + 1 \in Nat /\ Left + 1 # 0
    BY <1>1
  <2>3. m.ctr # "detail"
    BY <1>1, <1>2, ZenonT(30)
  <2>4. client' = Receive(client, m)
    BY <1>3, Zenon DEF Upset
  <2>5. Receive(client, m) = [num |-> (Left + 1) - 1, details |-> Announced(m),
                              exited |-> m.state = "error", instep |-> TRUE]
    BY <2>1, <2>2, <2>3, AnswerRead, ZenonT(30)
  <2>6. client'.instep = TRUE
    BY <2>4, <2>5, SMTT(30)
  <2> QED
    BY <1>1, <1>4, <1>5, <2>6, ZenonT(30) DEF InStep
<1> QED
  BY <1>6, <1>7, ZenonT(30) DEF ClientInv

\* A counter is enabled, disabled or reset.
LEMMA OperateClient ==
    ASSUME TypeOK, ClientInv, operate, ClientReads
    PROVE  ClientInv'
<1>1. [Next]_vars
  BY ZenonT(30) DEF Next, Main, Serve
<1>2. StuckInv'
  BY <1>1, StuckStep, Zenon DEF ClientInv
<1>3. Upset => Upset'
  BY <1>1, UpsetStays, Zenon DEF ClientInv
<1>4. UNCHANGED <<req, i, value, details>> /\ main = "operate" /\ main \in AtCounter
  BY Zenon DEF operate, AtCounter
<1>5. /\ i \in 1 .. Len(Order) /\ Selected(req, i) /\ req.cmd # "invalid"
      /\ Order[i] \in Counter
      /\ answers \in Seq(Message) /\ value \in Counter \cup {"zero"}
  BY <1>4, AtCounterFacts, Zenon
<1>6. CASE Failed(Order[i])
  BY <1>2, <1>3, <1>4, <1>5, <1>6, FailedStep, ZenonT(30)
<1>7. CASE ~Failed(Order[i])
  <2>1. /\ UNCHANGED answers
        /\ main' = IF req.cmd = "DISABLE" THEN "send_answer" ELSE "perf_read_ctr"
        /\ state' = IF req.cmd = "ENABLE" THEN "ENABLED" ELSE state
    BY <1>7, ZenonT(30) DEF operate, Goto
  <2>2. main' \in AtCounter /\ main' \in InQuery /\ main \in InQuery
        /\ main' \notin {"do_send_pai", "hotplug_answer", "close"}
    BY <1>4, <2>1 DEF AtCounter, InQuery
  <2>3. QueryInv'
    BY <1>4, <1>5, <2>1, <2>2, ZenonT(30) DEF QueryInv, Selected
  <2>4. StateInv'
    <3>1. ASSUME Order[i] \in PAI, req.cmd # "DISABLE"
          PROVE  Upset' \/ state' = ctr_state'[Order[i]]
      <4>1. CASE req.cmd = "ENABLE"
        <5>1. ctr_state' = [ctr_state EXCEPT ![Order[i]] = "ENABLED"]
          BY <4>1 DEF operate, perf_enable_ctr
        <5>2. ctr_state \in [Counter -> State]
          BY Zenon DEF TypeOK
        <5> QED
          BY <1>5, <2>1, <4>1, <5>1, <5>2, ZenonT(30)
      <4>2. CASE req.cmd # "ENABLE"
        <5>1. ctr_state' = ctr_state
          BY <3>1, <4>2, ZenonT(30) DEF operate, counters
        <5>2. Upset \/ state = ctr_state[Order[i]]
          BY <1>4, <3>1, ZenonT(30) DEF ClientInv, StateInv, AtCounter
        <5> QED
          BY <1>3, <2>1, <4>2, <5>1, <5>2, ZenonT(30)
      <4> QED
        BY <4>1, <4>2
    <3>2. main' = "send_answer" => req.cmd = "DISABLE"
      BY <2>1
    <3> QED
      BY <1>4, <2>2, <3>1, <3>2, ZenonT(30) DEF StateInv
  <2>5. InStep => InStep'
    <3>1. ClientStart(req)' = ClientStart(req) /\ Left' = Left
      BY <1>4, Zenon DEF ClientStart, Left
    <3>2. client' = client
      BY <1>4, <2>1, Zenon DEF ClientReads
    <3> QED
      BY <1>4, <2>2, <3>1, <3>2, ZenonT(30) DEF InStep, Reading
  <2> QED
    BY <1>2, <1>3, <2>3, <2>4, <2>5, Zenon DEF ClientInv
<1> QED
  BY <1>6, <1>7

\* The value of the counter is read.
LEMMA ReadCtrStep ==
    ASSUME TypeOK, ClientInv, perf_read_ctr, ClientReads
    PROVE  ClientInv'
<1>1. [Next]_vars
  BY ZenonT(30) DEF Next, Main, Serve
<1>2. StuckInv'
  BY <1>1, StuckStep, Zenon DEF ClientInv
<1>3. Upset => Upset'
  BY <1>1, UpsetStays, Zenon DEF ClientInv
<1>4. UNCHANGED <<req, i, state, details, ctr_state>> /\ main = "perf_read_ctr"
  BY Zenon DEF perf_read_ctr, counters
<1>5. main \in AtCounter
  BY <1>4, Zenon DEF AtCounter
<1>6. /\ i \in 1 .. Len(Order) /\ Selected(req, i) /\ req.cmd # "invalid"
      /\ Order[i] \in Counter
      /\ answers \in Seq(Message) /\ value \in Counter \cup {"zero"}
  BY <1>5, AtCounterFacts, Zenon
<1>7. CASE Failed(Order[i]) /\ UNCHANGED value
  BY <1>2, <1>3, <1>4, <1>5, <1>6, <1>7, FailedStep, ZenonT(30)
<1>8. CASE value' = Order[i] /\ main' = "send_answer" /\ UNCHANGED answers
  <2>1. main' \in AtCounter /\ main' \in InQuery /\ main \in InQuery
        /\ main' \notin {"do_send_pai", "hotplug_answer", "close"}
    BY <1>4, <1>8 DEF AtCounter, InQuery
  <2>2. QueryInv'
    BY <1>4, <1>6, <1>8, <2>1, ZenonT(30) DEF QueryInv, Selected
  <2>3. StateInv'
    <3>1. ASSUME Order[i] \in PAI, req.cmd # "DISABLE"
          PROVE  Upset' \/ state' = ctr_state'[Order[i]]
      <4>1. Upset \/ state = ctr_state[Order[i]]
        BY <1>4, <3>1 DEF ClientInv, StateInv, AtCounter
      <4> QED
        BY <1>3, <1>4, <4>1, ZenonT(30)
    <3> QED
      BY <1>4, <1>8, <2>1, <3>1, ZenonT(30) DEF StateInv
  <2>4. InStep => InStep'
    <3>1. ClientStart(req)' = ClientStart(req) /\ Left' = Left
      BY <1>4, Zenon DEF ClientStart, Left
    <3>2. client' = client
      BY <1>4, <1>8, Zenon DEF ClientReads
    <3> QED
      BY <1>5, <2>1, <3>1, <3>2, <1>4, ZenonT(30) DEF InStep, Reading
  <2> QED
    BY <1>2, <1>3, <2>2, <2>3, <2>4, Zenon DEF ClientInv
<1> QED
  BY <1>7, <1>8, ZenonT(30) DEF perf_read_ctr, Goto

\* On to the next counter: the client expects one answer less.
LEMMA LoopStep ==
    ASSUME TypeOK, ClientInv, main \in AtCounter \cup {"do_send_pai"}, StuckInv',
           ForCounter(req, i + 1, rc'), req' = req,
           answers' \in Seq(Message), value' \in Counter \cup {"zero"},
           Upset' \/ client' = [num |-> Left, details |-> 0, exited |-> FALSE, instep |-> TRUE]
    PROVE  ClientInv'
<1>1. i \in 1 .. Len(Order) /\ Selected(req, i) /\ req.cmd # "invalid"
  BY AtCounterFacts, Zenon
<1>2. /\ main' \in {"perf_ctr_state", "hotplug_answer", "close"}
      /\ main' = "perf_ctr_state" =>
            i' \in 1 .. Len(Order) /\ Selected(req', i') /\ Left' + 1 = Left
      /\ main' = "hotplug_answer" => Left = 1
      /\ main' = "close" => rc' # 0
  BY <1>1, NextCounter, ZenonT(30)
<1>3. /\ main' \in AtCounter => main' = "perf_ctr_state"
      /\ main' # "do_send_pai" /\ main' # "send_answer"
      /\ main' \in InQuery
  BY <1>2 DEF AtCounter, InQuery
<1>4. QueryInv'
  BY <1>1, <1>2, <1>3, ZenonT(30) DEF QueryInv, Selected
<1>5. StateInv'
  BY <1>3, ZenonT(30) DEF StateInv
<1>6. Upset' \/ InStep'
  <2> SUFFICES ASSUME ~Upset' PROVE InStep'
    BY ZenonT(30)
  <2>1. client' = [num |-> Left, details |-> 0, exited |-> FALSE, instep |-> TRUE]
    BY ZenonT(30)
  <2>2. client'.instep = TRUE
    BY <2>1
  <2>3. main' \in AtCounter => Reading(Left + 1, 0)'
    BY <1>2, <1>3, <2>1, ZenonT(30) DEF Reading
  <2>4. main' = "hotplug_answer" => Reading(1, 0)'
    BY <1>2, <2>1, ZenonT(30) DEF Reading
  <2> QED
    BY <1>1, <1>2, <1>3, <2>2, <2>3, <2>4, ZenonT(30) DEF InStep
<1> QED
  BY <1>4, <1>5, <1>6, ZenonT(30) DEF ClientInv

\* The answer for a counter.
LEMMA SendAnswerStep ==
    ASSUME TypeOK, ClientInv, send_answer, ClientReads
    PROVE  ClientInv'
<1> DEFINE c == Order[i]
           pai == c \in PAI /\ req.cmd # "DISABLE"
<1>1. [Next]_vars
  BY ZenonT(30) DEF Next, Main, Serve
<1>2. StuckInv'
  BY <1>1, StuckStep, Zenon DEF ClientInv
<1>3. Upset => Upset'
  BY <1>1, UpsetStays, Zenon DEF ClientInv
<1>4. UNCHANGED <<req, state, value, ctr_state>> /\ main = "send_answer" /\ main \in AtCounter
  BY Zenon DEF send_answer, counters, AtCounter
<1>5. /\ i \in 1 .. Len(Order) /\ Selected(req, i) /\ req.cmd # "invalid"
      /\ c \in Counter /\ c # "detail" /\ Left \in Nat \ {0}
      /\ answers \in Seq(Message) /\ value \in Counter \cup {"zero"}
  BY <1>4, AtCounterFacts, Zenon
<1>6. PICK s, v : /\ s = (IF req.cmd = "DISABLE" THEN ctr_state[c] ELSE state)
                  /\ v = (IF req.cmd = "DISABLE" THEN "zero" ELSE value)
  BY Zenon
<1>7. s \in State /\ v \in Counter \cup {"zero"}
  <2>1. ctr_state[c] \in State /\ state \in State
    BY <1>5 DEF TypeOK
  <2> QED
    BY <1>5, <1>6, <2>1, ZenonT(30)
<1>8. PICK m \in Message : m = [ctr |-> c, state |-> s, value |-> v]
  BY <1>5, <1>7, ZenonT(30) DEF Message
<1>9. Send(c, s, v)
  BY <1>6, ZenonT(30) DEF send_answer
<1>10. answers' \in Seq(Message) /\ (stopsig' \/ client' = Receive(client, m))
  BY <1>4, <1>5, <1>8, <1>9, SendStep, ZenonT(30)
<1>11. m.ctr = c /\ m.state = s /\ m.value = v
  BY <1>8, Zenon
<1>12. ASSUME ~Upset'
       PROVE  client' = [num |-> Left, details |-> Announced(m), exited |-> FALSE, instep |-> TRUE]
  <2>1. Reading(Left + 1, 0)
    BY <1>3, <1>4, <1>12, ZenonT(30) DEF ClientInv, InStep
  <2>2. Left + 1 \in Nat /\ Left + 1 # 0 /\ (Left + 1) - 1 = Left
    BY <1>5
  <2>3. Receive(client, m) = [num |-> (Left + 1) - 1, details |-> Announced(m),
                              exited |-> m.state = "error", instep |-> TRUE]
    BY <1>5, <1>11, <2>1, <2>2, AnswerRead, ZenonT(30)
  <2>4. (m.state = "error") = FALSE
    BY <1>7, <1>11, Zenon DEF State
  <2>5. client' = Receive(client, m)
    BY <1>10, <1>12, Zenon DEF Upset
  <2> QED
    BY <2>2, <2>3, <2>4, <2>5, ZenonT(30)
<1>13. CASE pai /\ ctr_state[c] = "ENABLED"
  <2>1. details' = NumPai[c] /\ main' = "do_send_pai" /\ UNCHANGED <<i, rc>>
    BY <1>13, ZenonT(30) DEF send_answer
  <2>2. main' \notin AtCounter /\ main' \in InQuery /\ main' # "hotplug_answer" /\ main' # "close"
    BY <2>1 DEF AtCounter, InQuery
  <2>3. QueryInv'
    BY <1>4, <1>5, <1>10, <2>1, <2>2, ZenonT(30) DEF QueryInv, Selected
  <2>4. StateInv'
    BY <1>13, <2>1, <2>2, ZenonT(30) DEF StateInv, AtCounter
  <2>5. ASSUME ~Upset' PROVE InStep'
    <3>1. state = ctr_state[c] /\ value = c
      BY <1>3, <1>4, <1>13, <2>5, ZenonT(30) DEF ClientInv, StateInv
    <3>2. Announced(m) = NumPai[c]
      BY <1>6, <1>11, <1>13, <3>1, ZenonT(30) DEF Announced
    <3>3. Left' = Left
      BY <1>4, <2>1, Zenon DEF Left
    <3>4. client' = [num |-> Left', details |-> details', exited |-> FALSE, instep |-> TRUE]
      BY <1>12, <2>1, <2>5, <3>2, <3>3, ZenonT(30)
    <3>5. client'.instep = TRUE
      BY <3>4
    <3> QED
      BY <1>4, <1>5, <2>2, <3>4, <3>5, ZenonT(30) DEF InStep, Reading
  <2> QED
    BY <1>2, <2>3, <2>4, <2>5, ZenonT(30) DEF ClientInv
<1>14. CASE ~(pai /\ ctr_state[c] = "ENABLED")
  <2>1. ForCounter(req, i + 1, rc')
    BY <1>14, ZenonT(30) DEF send_answer
  <2>2. ASSUME ~Upset' PROVE Announced(m) = 0
    <3>1. CASE req.cmd = "DISABLE"
      <4>1. m.value \notin PAI
        BY <1>6, <1>11, <3>1 DEF PAI
      <4> QED
        BY <4>1, ZenonT(30) DEF Announced
    <3>2. CASE req.cmd # "DISABLE" /\ c \in PAI
      <4>1. state = ctr_state[c]
        BY <1>3, <1>4, <3>2, <2>2, ZenonT(30) DEF ClientInv, StateInv
      <4>2. m.state # "ENABLED"
        BY <1>6, <1>11, <1>14, <3>2, <4>1, ZenonT(30)
      <4> QED
        BY <4>2, Zenon DEF Announced
    <3>3. CASE c \notin PAI
      BY <1>11, <3>3, ZenonT(30) DEF Announced
    <3> QED
      BY <3>1, <3>2, <3>3
  <2>3. Upset' \/ client' = [num |-> Left, details |-> 0, exited |-> FALSE, instep |-> TRUE]
    BY <1>12, <2>2, Zenon
  <2> QED
    BY <1>2, <1>4, <1>5, <1>10, <2>1, <2>3, LoopStep, ZenonT(30)
<1> QED
  BY <1>13, <1>14

\* A detail counter, the end of the details or an error in place of one.
LEMMA SendPaiStep ==
    ASSUME TypeOK, ClientInv, do_send_pai, ClientReads
    PROVE  ClientInv'
<1>1. [Next]_vars
  BY ZenonT(30) DEF Next, Main, Serve
<1>2. StuckInv'
  BY <1>1, StuckStep, Zenon DEF ClientInv
<1>3. Upset => Upset'
  BY <1>1, UpsetStays, Zenon DEF ClientInv
<1>4. /\ UNCHANGED <<req, value>> /\ main = "do_send_pai" /\ details \in Nat
      /\ main \in AtCounter \cup {"do_send_pai"}
  BY Zenon DEF do_send_pai, TypeOK
<1>5. /\ i \in 1 .. Len(Order) /\ Selected(req, i) /\ req.cmd # "invalid" /\ Left \in Nat \ {0}
      /\ answers \in Seq(Message) /\ value \in Counter \cup {"zero"}
  BY <1>4, AtCounterFacts, Zenon
<1>6. ASSUME ~Upset' PROVE Reading(Left, details)
  BY <1>3, <1>4, <1>6, ZenonT(30) DEF ClientInv, InStep
<1>7. CASE details = 0
  <2>1. rc' = 0 /\ ForCounter(req, i + 1, 0) /\ UNCHANGED answers
    BY <1>7, ZenonT(30) DEF do_send_pai
  <2>2. Upset' \/ client' = [num |-> Left, details |-> 0, exited |-> FALSE, instep |-> TRUE]
    BY <1>4, <1>6, <1>7, <2>1, ZenonT(30) DEF ClientReads, Reading
  <2>3. ForCounter(req, i + 1, rc')
    BY <2>1, ZenonT(30)
  <2> QED
    BY <1>2, <1>4, <1>5, <2>1, <2>2, <2>3, LoopStep, ZenonT(30)
<1>8. CASE details # 0 /\ Complete(Order[i])
  <2>1. Send("detail", "ENABLED", "detail") /\ details' = details - 1 /\ UNCHANGED <<main, i, rc>>
    BY <1>8, ZenonT(30) DEF do_send_pai
  <2>2. PICK m \in Message : m = [ctr |-> "detail", state |-> "ENABLED", value |-> "detail"]
    BY ZenonT(30) DEF Message, State
  <2>3. answers' \in Seq(Message) /\ (stopsig' \/ client' = Receive(client, m))
    BY <1>4, <1>5, <2>1, <2>2, SendStep, ZenonT(30)
  <2>4. main' \notin AtCounter /\ main' \in InQuery /\ main' # "hotplug_answer" /\ main' # "close"
    BY <1>4, <2>1 DEF AtCounter, InQuery
  <2>5. QueryInv'
    BY <1>4, <1>5, <2>1, <2>3, <2>4, ZenonT(30) DEF QueryInv, Selected
  <2>6. StateInv'
    BY <1>4, <2>1, <2>4, ZenonT(30) DEF ClientInv, StateInv, AtCounter
  <2>7. ASSUME ~Upset' PROVE InStep'
    <3>1. m.ctr = "detail" /\ m.state # "error"
      BY <2>2
    <3>2. Reading(Left, details) /\ Left \in Nat
      BY <1>5, <1>6, <2>7, ZenonT(30)
    <3>3. Receive(client, m) = [num |-> Left,
                                details |-> IF m.state = "error" THEN 0 ELSE details - 1,
                                exited |-> FALSE, instep |-> TRUE]
      BY <1>4, <1>8, <3>1, <3>2, DetailRead, ZenonT(30)
    <3>4. client' = Receive(client, m)
      BY <2>3, <2>7, Zenon DEF Upset
    <3>5. Left' = Left
      BY <1>4, <2>1, ZenonT(30) DEF Left
    <3>6. client' = [num |-> Left', details |-> details', exited |-> FALSE, instep |-> TRUE]
      BY <2>1, <3>1, <3>3, <3>4, <3>5, ZenonT(30)
    <3>7. client'.instep = TRUE
      BY <3>6
    <3> QED
      BY <1>4, <1>5, <2>4, <3>6, <3>7, ZenonT(30) DEF InStep, Reading
  <2> QED
    BY <1>2, <2>5, <2>6, <2>7, Zenon DEF ClientInv
<1>9. CASE details # 0 /\ ~Complete(Order[i])
  <2>1. Send("detail", "error", "zero") /\ rc' = -1 /\ ForCounter(req, i + 1, -1)
    BY <1>9, ZenonT(30) DEF do_send_pai
  <2>2. PICK m \in Message : m = [ctr |-> "detail", state |-> "error", value |-> "zero"]
    BY ZenonT(30) DEF Message
  <2>3. answers' \in Seq(Message) /\ (stopsig' \/ client' = Receive(client, m))
    BY <1>4, <1>5, <2>1, <2>2, SendStep, ZenonT(30)
  <2>4. ASSUME ~Upset'
        PROVE  client' = [num |-> Left, details |-> 0, exited |-> FALSE, instep |-> TRUE]
    <3>1. m.ctr = "detail" /\ m.state = "error"
      BY <2>2, ZenonT(30)
    <3>2. Reading(Left, details) /\ Left \in Nat
      BY <1>5, <1>6, <2>4, Zenon
    <3>3. Receive(client, m) = [num |-> Left,
                                details |-> IF m.state = "error" THEN 0 ELSE details - 1,
                                exited |-> FALSE, instep |-> TRUE]
      BY <1>4, <1>9, <3>1, <3>2, DetailRead, ZenonT(30)
    <3>4. client' = Receive(client, m)
      BY <2>3, <2>4, Zenon DEF Upset
    <3> QED
      BY <3>1, <3>3, <3>4, ZenonT(30)
  <2>5. ForCounter(req, i + 1, rc')
    BY <2>1, Zenon
  <2> QED
    BY <1>2, <1>4, <1>5, <2>3, <2>4, <2>5, LoopStep, ZenonT(30)
<1> QED
  BY <1>7, <1>8, <1>9, ZenonT(30)

\* The last answer of a query.
LEMMA HotplugAnswerStep ==
    ASSUME TypeOK, ClientInv, hotplug_answer, ClientReads
    PROVE  ClientInv'
<1>1. [Next]_vars
  BY ZenonT(30) DEF Next, Main, Serve
<1>2. StuckInv'
  BY <1>1, StuckStep, Zenon DEF ClientInv
<1>3. Upset => Upset'
  BY <1>1, UpsetStays, Zenon DEF ClientInv
<1>4. UNCHANGED <<req, value>> /\ main = "hotplug_answer" /\ main' = "close"
  BY ZenonT(30) DEF hotplug_answer, Goto
<1>5. req.cmd # "invalid" /\ answers \in Seq(Message) /\ value \in Counter \cup {"zero"}
  BY <1>4, ZenonT(30) DEF ClientInv, QueryInv
<1>6. PICK v \in {"zero", "one"} : Send("HOTPLUG_DETECTED", "ok", v)
  BY ZenonT(30) DEF hotplug_answer
<1>7. PICK m \in Message : m = [ctr |-> "HOTPLUG_DETECTED", state |-> "ok", value |-> v]
  BY ZenonT(30) DEF Message
<1>8. answers' \in Seq(Message) /\ (stopsig' \/ client' = Receive(client, m))
  BY <1>4, <1>5, <1>6, <1>7, SendStep, ZenonT(30)
<1>9. main' \notin AtCounter /\ main' \in InQuery /\ main' \notin {"hotplug_answer", "do_send_pai"}
  BY <1>4 DEF AtCounter, InQuery
<1>10. QueryInv' /\ StateInv'
  BY <1>4, <1>5, <1>8, <1>9, ZenonT(30) DEF QueryInv, StateInv, AtCounter
<1>11. ASSUME ~Upset' PROVE InStep'
  <2>1. m.ctr = "HOTPLUG_DETECTED"
    BY <1>7, ZenonT(30)
  <2>2. m.ctr # "detail" /\ Announced(m) = 0
    BY <2>1 DEF Announced, PAI
  <2>3. Reading(1, 0)
    BY <1>3, <1>4, <1>11, ZenonT(30) DEF ClientInv, InStep
  <2>4. Receive(client, m) = [num |-> 1 - 1, details |-> Announced(m),
                              exited |-> m.state = "error", instep |-> TRUE]
    BY <2>2, <2>3, AnswerRead, SMTT(30)
  <2>5. client' = Receive(client, m)
    BY <1>8, <1>11, ZenonT(30) DEF Upset
  <2>6. client'.instep = TRUE /\ client'.num = 0 /\ client'.details = 0
    BY <2>2, <2>4, <2>5, SMTT(30)
  <2> QED
    BY <1>4, <1>5, <1>9, <2>6, ZenonT(30) DEF InStep
<1> QED
  BY <1>2, <1>10, <1>11, ZenonT(30) DEF ClientInv

\* The end of a query.
LEMMA CloseStep ==
    ASSUME TypeOK, ClientInv, Close, ClientReads
    PROVE  ClientInv'
<1>1. [Next]_vars
  BY ZenonT(30) DEF Next, Main, Serve
<1>2. StuckInv'
  BY <1>1, StuckStep, Zenon DEF ClientInv
<1>3. Upset => Upset'
  BY <1>1, UpsetStays, Zenon DEF ClientInv
<1>4. main' = "loop" /\ req' = NoQuery /\ value' = "zero" /\ answers' = <<>>
  BY ZenonT(30) DEF Close, Goto
<1>0. req'.cmd = "invalid"
  BY <1>4, ZenonT(30) DEF NoQuery
<1>5. main' \notin InQuery /\ main' \notin AtCounter
      /\ main' \notin {"hotplug_answer", "do_send_pai", "close"}
  BY <1>4, ZenonT(30) DEF AtCounter, InQuery
<1>6. <<>> \in Seq(Message)
  OBVIOUS
<1>7. QueryInv' /\ StateInv'
  BY <1>0, <1>4, <1>5, <1>6, ZenonT(30) DEF QueryInv, StateInv, AtCounter
<1>8. ASSUME ~Upset' PROVE InStep'
  <2>1. client' = ClientStart(req')
    <3>1. CASE req' # req
      BY <3>1, Zenon DEF ClientReads
    <3>2. CASE req' = req
      <4>1. req.cmd = "invalid"
        BY <1>4, <3>2 DEF NoQuery
      <4>2. answers = <<>> /\ client = ClientStart(req)
        BY <1>3, <1>8, <4>1, ZenonT(30) DEF ClientInv, QueryInv, InStep
      <4> QED
        BY <1>4, <3>2, <4>2, ZenonT(30) DEF ClientReads
    <3> QED
      BY <3>1, <3>2, ZenonT(30)
  <2>2. client'.instep = TRUE
    BY <2>1 DEF ClientStart
  <2>3. client' = ClientStart(req)'
    BY <2>1, ZenonT(30) DEF ClientStart
  <2> QED
    BY <1>5, <2>2, <2>3, ZenonT(30) DEF InStep
<1> QED
  BY <1>2, <1>7, <1>8, Zenon DEF ClientInv

\* A client is accepted.
LEMMA AcceptStep ==
    ASSUME TypeOK, ClientInv, NEW q \in Queries, accept(q), ClientReads
    PROVE  ClientInv'
<1>1. [Next]_vars
  BY Zenon DEF Next
<1>2. StuckInv'
  BY <1>1, StuckStep, ZenonT(30) DEF ClientInv
<1>3. Upset => Upset'
  BY <1>1, UpsetStays, Zenon DEF ClientInv
<1>4. UNCHANGED <<value, answers>> /\ main = "accept" /\ req' = q /\ q \in Query
  <2>1. q \in Query
    BY OrderAssumption, Zenon
  <2> QED
    BY <2>1, ZenonT(30) DEF accept
<1>5. answers \in Seq(Message) /\ value \in Counter \cup {"zero"} /\ answers = <<>>
      /\ req.cmd = "invalid"
  <2>1. main \notin InQuery
    BY <1>4 DEF InQuery, AtCounter
  <2> QED
    BY <2>1, ZenonT(30) DEF ClientInv, QueryInv
<1>6. ASSUME ~Upset' PROVE client' = ClientStart(q)
  <2>1. client = ClientStart(req)
    BY <1>3, <1>5, <1>6, ZenonT(30) DEF ClientInv, InStep
  <2> QED
    BY <1>4, <2>1, Zenon DEF ClientReads
<1>7. client' = ClientStart(q) => client'.instep = TRUE
  BY DEF ClientStart
<1>8. CASE q.cmd = "invalid"
  <2>1. main' = "close"
    BY <1>8, ZenonT(30) DEF accept
  <2>2. main' \notin AtCounter /\ main' \in InQuery
        /\ main' \notin {"hotplug_answer", "do_send_pai"}
    BY <2>1 DEF AtCounter, InQuery
  <2>3. QueryInv' /\ StateInv'
    BY <1>4, <1>5, <1>8, <2>2, ZenonT(30) DEF QueryInv, StateInv, AtCounter
  <2>4. ASSUME ~Upset' PROVE InStep'
    <3>1. client' = ClientStart(req)'
      BY <1>4, <1>6, <2>4, ZenonT(30) DEF ClientStart
    <3>2. client'.instep = TRUE
      BY <1>6, <1>7, <2>4, ZenonT(30)
    <3> QED
      BY <1>4, <1>8, <2>2, <3>1, <3>2, ZenonT(30) DEF InStep
  <2> QED
    BY <1>2, <2>3, <2>4, ZenonT(30) DEF ClientInv
<1>9. CASE q.cmd # "invalid"
  <2>1. ForCounter(q, 1, 0)
    BY <1>9, ZenonT(30) DEF accept
  <2>2. /\ main' = "perf_ctr_state" /\ i' \in 1 .. Len(Order) /\ Selected(req', i')
        /\ ClientStart(q) = [num |-> Left' + 1, details |-> 0, exited |-> FALSE, instep |-> TRUE]
    BY <1>4, <1>9, <2>1, FirstCounter, ZenonT(30)
  <2>3. main' \in AtCounter /\ main' \in InQuery
        /\ main' \notin {"hotplug_answer", "do_send_pai", "send_answer", "close"}
    BY <2>2 DEF AtCounter, InQuery
  <2>4. QueryInv'
    BY <1>4, <1>5, <1>9, <2>2, <2>3, ZenonT(30) DEF QueryInv, Selected
  <2>5. StateInv'
    BY <2>2, <2>3, ZenonT(30) DEF StateInv
  <2>6. ASSUME ~Upset' PROVE InStep'
    <3>1. Reading(Left + 1, 0)'
      BY <1>6, <2>2, <2>6, ZenonT(30) DEF Reading
    <3>2. client'.instep = TRUE
      BY <1>6, <1>7, <2>6, Zenon
    <3> QED
      BY <1>4, <1>9, <2>3, <3>1, <3>2, ZenonT(30) DEF InStep
  <2> QED
    BY <1>2, <2>4, <2>5, <2>6, ZenonT(30) DEF ClientInv
<1> QED
  BY <1>8, <1>9

\* The invariant holds at the start.
LEMMA ClientInvInit == ClientInit => ClientInv
<1> SUFFICES ASSUME ClientInit PROVE ClientInv
  OBVIOUS
<1>1. /\ main = "perf_init" /\ req = NoQuery /\ value = "zero" /\ answers = <<>>
      /\ events = <<>> /\ client = ClientStart(req)
  BY ZenonT(30) DEF ClientInit, Init
<1>2. req.cmd = "invalid" /\ <<>> \in Seq(Message) /\ client.instep = TRUE
  BY <1>1 DEF NoQuery, ClientStart
<1>3. main \notin AtCounter /\ main \notin InQuery
      /\ main \notin {"hotplug_answer", "do_send_pai", "close", "operate", "send_answer"}
  BY <1>1 DEF AtCounter, InQuery
<1>4. QueryInv
  BY <1>1, <1>2, <1>3, ZenonT(30) DEF QueryInv
<1>5. StuckInv /\ StateInv
  BY <1>1, <1>3, ZenonT(30) DEF StuckInv, StateInv
<1>6. InStep
  BY <1>1, <1>2, <1>3, ZenonT(30) DEF InStep
<1> QED
  BY <1>4, <1>5, <1>6, ZenonT(30) DEF ClientInv

\* Every step keeps it.
LEMMA ClientInvStep ==
    ASSUME TypeOK, ClientInv, [ClientNext]_clientVars
    PROVE  ClientInv'
<1>1. [Next]_vars /\ ClientReads
  BY ZenonT(30) DEF ClientNext, clientVars, ClientReads, vars, request
<1>2. CASE Serve
  BY <1>1, <1>2, CtrStateStep, OperateClient, ReadCtrStep, SendAnswerStep, SendPaiStep,
     HotplugAnswerStep, CloseStep, ZenonT(30) DEF Serve
<1>3. CASE \E q \in Queries : accept(q)
  BY <1>1, <1>3, AcceptStep, ZenonT(30)
<1>4. CASE Startup \/ Loop \/ perf_close \/ Join \/ AcceptFails
  <2>1. UNCHANGED request
    BY <1>4, ZenonT(30) DEF Startup, perf_init, addallcpus, addallcpus_activate, open_socket, Loop,
                            perf_close, Join, AcceptFails
  <2>2. main \notin InQuery /\ main' \notin InQuery
    BY <1>4 DEF Startup, perf_init, addallcpus, addallcpus_activate, open_socket, Loop,
                perf_close, Join, AcceptFails, Goto, InQuery, AtCounter
  <2> QED
    BY <1>1, <2>1, <2>2, QuietStep, ZenonT(30)
<1>5. CASE Thread \/ Hotplug \/ UNCHANGED vars
  <2>1. UNCHANGED <<request, main>>
    BY <1>5, Zenon DEF Thread, Hotplug, vars
  <2> QED
    BY <1>1, <2>1, QuietStep, ZenonT(30)
<1>6. CASE Signal
  <2>1. UNCHANGED request
    BY <1>6, ZenonT(30) DEF Signal
  <2>2. main' = main \/ (main \notin InQuery /\ main' \notin InQuery)
    BY <1>6 DEF Signal, InQuery, AtCounter
  <2> QED
    BY <1>1, <2>1, <2>2, QuietStep, ZenonT(30)
<1> QED
  BY <1>1, <1>2, <1>3, <1>4, <1>5, <1>6, ZenonT(30) DEF Next, Main

\* The client takes every message for what the daemon sent it as, and has all it
\* waits for when a query without error ends (main and print_virtual_counter_answer
\* of cpacfstats.c; do_print, do_send_pai and their like of cpacfstatsd.c): unless a
\* signal stops the daemon, or a CPU has come whose PAI events did not open.
THEOREM ClientStaysInStep == ClientSpec => []ClientInStep
<1>1. ClientInit => Init
  BY Zenon DEF ClientInit
<1>2. [ClientNext]_clientVars => [Next]_vars
  BY Zenon DEF ClientNext, clientVars
<1>3. ClientSpec => Spec
  BY <1>1, <1>2, PTL DEF ClientSpec, Spec
<1>4. ClientSpec => []TypeOK
  BY <1>3, CpacfTypeCorrect, PTL
<1>5. TypeOK /\ ClientInv /\ [ClientNext]_clientVars => ClientInv'
  BY ClientInvStep, Zenon
<1>6. ClientInv => ClientInStep
  BY ZenonT(30) DEF ClientInv, InStep, Upset, ClientInStep
<1> QED
  BY <1>4, <1>5, <1>6, ClientInvInit, PTL DEF ClientSpec
=============================================================================
