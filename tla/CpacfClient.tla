----------------------------- MODULE CpacfClient -----------------------------
(***************************************************************************)
(* cpacfstats (cpacfstats/cpacfstats.c): how the client takes the answers  *)
(* of the daemon apart. Messages do not say whether they are the answer    *)
(* for a counter or a detail of a PAI space; the client goes by the number *)
(* of details the answer for the space announces.                          *)
(*                                                                         *)
(* The socket keeps the order of the messages, and what the client makes   *)
(* of one depends on nothing but those before it: when it reads does not   *)
(* matter, and it is taken to have read all that was sent.                 *)
(***************************************************************************)
EXTENDS CpacfDaemon

VARIABLE client  \* the client of the query that is served

\* num: answers the main loop still expects; details: those the loop of
\* print_virtual_counter_answer expects; instep: whether every message was what
\* the client took it for.
ClientStart(q) ==
    [num |-> IF q.ctr = "ALL_COUNTER" THEN Len(Order) + 1 ELSE 2,
     details |-> 0, exited |-> FALSE, instep |-> TRUE]

Announced(a) ==
    IF a.ctr \in PAI /\ a.state = "ENABLED" /\ a.value \in PAI THEN NumPai[a.value] ELSE 0

\* recv_answer in print_virtual_counter_answer: an error ends the details.
ReadDetail(cl, a) ==
    [cl EXCEPT !.details = IF a.state = "error" THEN 0 ELSE @ - 1,
               !.instep = @ /\ a.ctr = "detail"]

\* recv_answer in main: an error ends the client.
ReadAnswer(cl, a) ==
    [num |-> cl.num - 1,
     details |-> Announced(a),
     exited |-> a.state = "error",
     instep |-> cl.instep /\ a.ctr # "detail"]

Receive(cl, a) ==
    IF cl.exited \/ (cl.num = 0 /\ cl.details = 0)
    THEN [cl EXCEPT !.instep = FALSE]
    ELSE IF cl.details > 0 THEN ReadDetail(cl, a) ELSE ReadAnswer(cl, a)

clientVars == <<vars, client>>

\* Its loop over the answers, next to the step of the daemon that sends one.
ClientReads ==
    client' = IF req' # req THEN ClientStart(req')
              ELSE IF answers' # answers THEN Receive(client, answers'[Len(answers')])
              ELSE client

ClientInit == Init /\ client = ClientStart(req)
ClientNext == Next /\ ClientReads
ClientSpec == ClientInit /\ [][ClientNext]_clientVars

\* Both threads run; clients, CPUs and signals come or do not come.
FairClientSpec == ClientSpec /\ WF_vars(Main) /\ WF_vars(Thread)

\* The client takes every message for what the daemon sent it as, and has all it
\* waits for when the daemon closes the connection after a query without error.
\* Two things can upset this: a CPU that comes while a query is answered and
\* whose PAI events do not open (do_send_pai then finds the space it has
\* announced unsupported), and a signal to stop.
ClientInStep ==
    \/ /\ client.instep
       /\ (main = "close" /\ rc = 0 /\ req.cmd # "invalid") =>
              client.num = 0 /\ client.details = 0
    \/ stopsig
    \/ hotplugs > 0 /\ \E p \in PAI : ctr_state[p] = "UNSUPPORTED"
=============================================================================
