----------------------------- MODULE CpacfDaemon -----------------------------
(***************************************************************************)
(* cpacfstatsd (cpacfstats/cpacfstatsd.c): the main thread starts the      *)
(* hotplug thread, attaches the CPUs that are online, serves one client    *)
(* after the other and stops on a signal. The state of a counter is read   *)
(* without rootmux and may have changed when it is acted on.               *)
(*                                                                         *)
(* A counter value is modelled by the counter it was read for: answers     *)
(* carry what the variable "value" holds, also when it was not read.       *)
(***************************************************************************)
EXTENDS CpacfPerf

CONSTANTS
    Order,       \* the counters in the order of enum ctr_e, without ALL_COUNTER
    NumPai,      \* for each PAI space, the number of its detail counters
    Queries,     \* bound: the queries that clients send
    MaxRequests  \* bound: clients

\* "invalid" is a message that does not arrive whole or is not understood.
NoQuery == [cmd |-> "invalid", ctr |-> "ALL_COUNTER"]
Query == [cmd : {"PRINT", "ENABLE", "DISABLE", "RESET"},
          ctr : Counter \cup {"ALL_COUNTER"}] \cup {NoQuery}

\* enum ctr_e names every counter once; a detail counter is none of them.
ASSUME OrderAssumption ==
    /\ Order \in Seq(Counter)
    /\ \A c \in Counter : \E n \in 1 .. Len(Order) : Order[n] = c
    /\ \A m, n \in 1 .. Len(Order) : Order[m] = Order[n] => m = n
    /\ "detail" \notin Counter
    /\ NumPai \in [PAI -> Nat]
    /\ Queries \subseteq Query
    /\ MaxRequests \in Nat

VARIABLES
    main,     \* where the main thread is
    todo,     \* addallcpus: CPUs it has read from the "online" file
    req,      \* the query of the client that is served
    i, state, value, rc,  \* locals of do_enable, do_disable, do_reset, do_print
    details,  \* do_send_pai: counters that are still to be sent
    answers,  \* what was sent to the client that is served
    stopsig,
    requests  \* clients so far

request == <<req, i, state, value, rc, details, answers>>
vars == <<counters, stoprequested, hotplugthread, kernel, main, todo, request,
          stopsig, requests>>

Init ==
    /\ root = <<>>
    /\ InitialState(ctr_state)
    /\ enabledcounter = 0
    /\ hotplugdetected = FALSE
    /\ stoprequested = FALSE
    /\ hotplugthread = "none"
    /\ online \in SUBSET Cpu \ {{}}
    /\ events = <<>>
    /\ hotplugs = 0
    /\ main = "perf_init"
    /\ todo = {}
    /\ req = NoQuery
    /\ i = 1
    /\ state = "DISABLED"
    /\ value = "zero"
    /\ rc = 0
    /\ details = 0
    /\ answers = <<>>
    /\ stopsig = FALSE
    /\ requests = 0

Goto(pc) == main' = pc /\ UNCHANGED <<todo, requests>>
NoSignal == UNCHANGED <<stoprequested, stopsig>>
OtherThread == UNCHANGED <<hotplugthread, kernel>>
KeepThread == NoSignal /\ OtherThread

signalhandler_NoPerfStop == stopsig' = TRUE /\ UNCHANGED stoprequested

signalhandler == stopsig' = TRUE /\ stoprequested' = TRUE

\* Bound: one signal from outside.
Handled == ~stopsig /\ signalhandler

-----------------------------------------------------------------------------
(***************************************************************************)
(* Startup. A failure ends the process.                                    *)
(***************************************************************************)

\* perf_init: the counters may be unusable or the thread not start. The thread
\* runs from here on, the file of the CPUs that are online is read next.
perf_init ==
    /\ main = "perf_init"
    /\ \/ /\ hotplugthread' = "start"
          /\ Goto("addallcpus")
       \/ /\ UNCHANGED hotplugthread
          /\ Goto("failed")
    /\ UNCHANGED <<counters, stoprequested, kernel, stopsig, request>>

addallcpus ==
    /\ main = "addallcpus"
    /\ todo' = online
    /\ main' = "activate"
    /\ KeepThread
    /\ UNCHANGED <<counters, request, requests>>

\* A CPU with an event that does not open makes the start fail.
addallcpus_activate ==
    /\ main = "activate"
    /\ \E cpu \in todo : \E F \in FailedOpens(cpu) :
          /\ activatecpu(cpu, F)
          /\ todo' = todo \ {cpu}
          /\ main' = IF F # {} THEN "failed"
                     ELSE IF todo = {cpu} THEN "open_socket" ELSE "activate"
    /\ KeepThread
    /\ UNCHANGED <<request, requests>>

\* Once the signal handlers are set, an error still leads to perf_close; before,
\* the SIGINT of perf_close ends the process.
open_socket ==
    /\ main = "open_socket"
    /\ \E pc \in {"loop", "perf_close", "failed"} : Goto(pc)
    /\ KeepThread
    /\ UNCHANGED <<counters, request>>

-----------------------------------------------------------------------------
(***************************************************************************)
(* The loop over clients, and over counters within a query.                *)
(***************************************************************************)

Loop ==
    /\ main = "loop"
    /\ Goto(IF stopsig THEN "perf_close" ELSE "accept")
    /\ KeepThread
    /\ UNCHANGED <<counters, request>>

Selected(q, n) == q.ctr \in {Order[n], "ALL_COUNTER"}

\* On to the next counter from n on that the query selects, or to the end.
ForCounter(q, n, r) ==
    /\ i' \in n .. Len(Order) + 1
    /\ i' <= Len(Order) => Selected(q, i')
    /\ \A m \in n .. i' - 1 : ~Selected(q, m)
    /\ main' = IF i' <= Len(Order) THEN "perf_ctr_state"
               ELSE IF r = 0 THEN "hotplug_answer" ELSE "close"

accept(q) ==
    /\ main = "accept"
    /\ requests < MaxRequests
    /\ requests' = requests + 1
    /\ req' = q
    /\ IF q.cmd = "invalid" THEN main' = "close" /\ UNCHANGED i
       ELSE ForCounter(q, 1, 0)
    /\ KeepThread
    /\ UNCHANGED <<counters, todo, state, value, rc, details, answers>>

AcceptFails ==
    /\ main = "accept"
    /\ Goto("perf_close")
    /\ KeepThread
    /\ UNCHANGED <<counters, request>>

\* The result of send_answer is ignored: a signal that interrupts the poll of
\* __timedwrite loses the answer.
Send(c, s, v) ==
    \/ /\ answers' = Append(answers, [ctr |-> c, state |-> s, value |-> v])
       /\ NoSignal
    \/ Handled /\ UNCHANGED answers

ActsOn_DisablesAgain(cmd) ==
    IF cmd = "DISABLE" THEN {"ENABLED", "DISABLED"}
    ELSE IF cmd = "ENABLE" THEN {"DISABLED"} ELSE {"ENABLED"}

\* The states a command acts on, and those for which it then reads the value.
ActsOn(cmd) ==
    IF cmd = "ENABLE" THEN {"DISABLED"}
    ELSE IF cmd \in {"DISABLE", "RESET"} THEN {"ENABLED"} ELSE {}

Reads(cmd, s) ==
    \/ cmd = "ENABLE" /\ s \notin {"UNSUPPORTED", "UNAUTHORIZED"}
    \/ cmd \in {"PRINT", "RESET"} /\ s = "ENABLED"

perf_ctr_state ==
    /\ main = "perf_ctr_state"
    /\ state' = ctr_state[Order[i]]
    /\ Goto(IF state' \in ActsOn(req.cmd) THEN "operate"
            ELSE IF Reads(req.cmd, state') THEN "perf_read_ctr" ELSE "send_answer")
    /\ KeepThread
    /\ UNCHANGED <<counters, req, i, value, rc, details, answers>>

\* A counter an operation fails for ends the loop with an error answer.
Failed(c) ==
    /\ Send(c, "error", "zero")
    /\ rc' = -1
    /\ Goto("close")

operate ==
    /\ main = "operate"
    /\ LET c == Order[i] IN
       /\ \/ req.cmd = "ENABLE" /\ perf_enable_ctr(c)
          \/ req.cmd = "DISABLE" /\ perf_disable_ctr(c)
          \/ req.cmd = "RESET" /\ UNCHANGED counters
       /\ IF Complete(c)
          THEN /\ rc' = 0
               /\ Goto(IF req.cmd = "DISABLE" THEN "send_answer" ELSE "perf_read_ctr")
               /\ state' = IF req.cmd = "ENABLE" THEN "ENABLED" ELSE state
               /\ UNCHANGED answers /\ NoSignal
          ELSE Failed(c) /\ UNCHANGED state
    /\ OtherThread
    /\ UNCHANGED <<req, i, value, details>>

perf_read_ctr_KeepsValue ==
    /\ main = "perf_read_ctr"
    /\ Goto("send_answer")
    /\ KeepThread
    /\ UNCHANGED <<counters, request>>

\* For a PAI space the value is the number of its counters, for others a sum.
perf_read_ctr ==
    /\ main = "perf_read_ctr"
    /\ LET c == Order[i] IN
       IF c \in PAI \/ Complete(c)
       THEN /\ value' = c
            /\ rc' = 0
            /\ Goto("send_answer")
            /\ UNCHANGED answers /\ NoSignal
       ELSE Failed(c) /\ UNCHANGED value
    /\ OtherThread
    /\ UNCHANGED <<counters, req, i, state, details>>

\* do_disable sends the state as it is now. For a PAI space do_send_pai follows
\* unless the command is DISABLE; it reads the state once more.
send_answer ==
    /\ main = "send_answer"
    /\ LET c == Order[i]
           pai == c \in PAI /\ req.cmd # "DISABLE"
       IN  /\ IF req.cmd = "DISABLE" THEN Send(c, ctr_state[c], "zero")
              ELSE Send(c, state, value)
           /\ IF pai /\ ctr_state[c] = "ENABLED"
              THEN /\ details' = NumPai[c]
                   /\ main' = "do_send_pai"
                   /\ UNCHANGED <<i, rc>>
              ELSE /\ rc' = IF pai THEN 0 ELSE rc
                   /\ ForCounter(req, i + 1, rc')
                   /\ UNCHANGED details
    /\ OtherThread
    /\ UNCHANGED <<counters, todo, requests, req, state, value>>

\* One detail counter after the other, until one cannot be read.
do_send_pai ==
    /\ main = "do_send_pai"
    /\ IF details = 0
       THEN /\ rc' = 0
            /\ ForCounter(req, i + 1, 0)
            /\ UNCHANGED <<details, answers>> /\ NoSignal
       ELSE IF Complete(Order[i])
       THEN /\ Send("detail", "ENABLED", "detail")
            /\ details' = details - 1
            /\ UNCHANGED <<main, i, rc>>
       ELSE /\ Send("detail", "error", "zero")
            /\ details' = 0
            /\ rc' = -1
            /\ ForCounter(req, i + 1, -1)
    /\ OtherThread
    /\ UNCHANGED <<counters, todo, requests, req, state, value>>

hotplug_answer ==
    /\ main = "hotplug_answer"
    /\ Send("HOTPLUG_DETECTED", "ok", IF hotplugdetected THEN "one" ELSE "zero")
    /\ Goto("close")
    /\ OtherThread
    /\ UNCHANGED <<counters, req, i, state, value, rc, details>>

Close ==
    /\ main = "close"
    /\ Goto("loop")
    /\ req' = NoQuery
    /\ i' = 1
    /\ state' = "DISABLED"
    /\ value' = "zero"
    /\ rc' = 0
    /\ details' = 0
    /\ answers' = <<>>
    /\ KeepThread
    /\ UNCHANGED counters

-----------------------------------------------------------------------------
(***************************************************************************)
(* Stopping.                                                               *)
(***************************************************************************)

\* A signal is handled in either thread, once the handler is installed. The
\* thread it interrupts leaves accept or poll if it is in the call already; the
\* other one notices nothing.
Signal ==
    /\ main \notin {"perf_init", "addallcpus", "activate", "open_socket", "end", "failed"}
    /\ Handled
    /\ \/ /\ main' \in IF main = "accept" THEN {"accept", "loop"} ELSE {main}
          /\ UNCHANGED hotplugthread
       \/ /\ hotplugthread' \in Interrupted(hotplugthread)
          /\ UNCHANGED main
    /\ UNCHANGED <<counters, kernel, todo, request, requests>>

\* perf_close: pthread_kill, whose signal the thread handles, and the join.
perf_close ==
    /\ main = "perf_close"
    /\ signalhandler
    /\ hotplugthread' \in Interrupted(hotplugthread)
    /\ Goto("join")
    /\ UNCHANGED <<counters, kernel, request>>

Join ==
    /\ main = "join"
    /\ hotplugthread = "closed"
    /\ Goto("end")
    /\ KeepThread
    /\ UNCHANGED <<counters, request>>

-----------------------------------------------------------------------------
Startup == perf_init \/ addallcpus \/ addallcpus_activate \/ open_socket
Serve == \/ perf_ctr_state \/ operate \/ perf_read_ctr \/ send_answer
         \/ do_send_pai \/ hotplug_answer \/ Close
Main == Startup \/ Loop \/ Serve \/ perf_close \/ Join

\* The hotplug thread ends with the process.
Thread ==
    /\ main \notin {"end", "failed"}
    /\ HotplugThread
    /\ UNCHANGED <<main, todo, request, stopsig, requests>>

Hotplug ==
    /\ main \notin {"end", "failed"}
    /\ StartupHotplug \/ main \notin {"perf_init", "addallcpus", "activate", "open_socket"}
    /\ \E cpu \in Cpu : CpuChange(cpu)
    /\ UNCHANGED <<main, todo, request, stopsig, requests>>

Next ==
    \/ Main
    \/ Thread
    \/ Hotplug
    \/ \E q \in Queries : accept(q)
    \/ AcceptFails
    \/ Signal

Spec == Init /\ [][Next]_vars
-----------------------------------------------------------------------------
(***************************************************************************)
(* Properties.                                                             *)
(***************************************************************************)

\* The types of the variables of the daemon and its perf events.
TypeOK ==
    /\ root \in Seq(Entry)
    /\ ctr_state \in [Counter -> State]
    /\ enabledcounter \in Int
    /\ hotplugdetected \in BOOLEAN
    /\ stoprequested \in BOOLEAN
    /\ stopsig \in BOOLEAN
    /\ hotplugthread \in {"none", "start", "loop", "poll", "closed"}
    /\ online \subseteq Cpu
    /\ events \in Seq(Event)
    /\ hotplugs \in 0 .. MaxHotplug
    /\ main \in {"perf_init", "addallcpus", "activate", "open_socket", "loop",
                 "accept", "perf_ctr_state", "operate", "perf_read_ctr", "send_answer",
                 "do_send_pai", "hotplug_answer", "close", "perf_close", "join",
                 "end", "failed"}
    /\ todo \subseteq Cpu
    /\ req \in Query
    /\ i \in 1 .. Len(Order) + 1
    /\ state \in State
    /\ rc \in {-1, 0}
    /\ details \in Nat
    /\ requests \in 0 .. MaxRequests

Started == main \notin {"perf_init", "addallcpus", "activate", "open_socket",
                         "perf_close", "join", "end", "failed"}

\* Once the daemon runs and every hotplug event is handled, the list has one
\* entry for each CPU that is online and none for the others: the sums of
\* perf_read_ctr count every CPU once.
CpusCountedOnce ==
    (Started /\ hotplugthread = "poll" /\ events = <<>>) =>
        \A cpu \in Cpu : Cardinality(Attached(cpu)) = IF cpu \in online THEN 1 ELSE 0

\* After a signal the daemon ends, and all it can wait for is a client, in
\* accept, or a hotplug event, in the poll of the thread it joins: what a signal
\* that arrives just before the call, or in the other thread, leaves behind. One
\* hotplug event is then enough.
StopOnlyWaitsForInput ==
    /\ [](stopsig => <>[](\/ main = "end"
                          \/ main = "accept"
                          \/ main = "join" /\ hotplugthread = "poll" /\ events = <<>>))
    /\ (main = "join" /\ events # <<>>) ~> main = "end"
=============================================================================
