------------------------------- MODULE MCCpacf -------------------------------
(***************************************************************************)
(* Small instances of the cpacfstats daemon and client for TLC.            *)
(***************************************************************************)
EXTENDS CpacfClient, TLC

CONSTANTS c1, c2

MCOrder == <<"AES_FUNCTIONS", "PAI_USER", "PAI_KERNEL">>
MCNumPai == "PAI_USER" :> 1 @@ "PAI_KERNEL" :> 1

MCQueries == {[cmd |-> "ENABLE", ctr |-> "ALL_COUNTER"],
              [cmd |-> "PRINT", ctr |-> "ALL_COUNTER"],
              [cmd |-> "ENABLE", ctr |-> "PAI_USER"],
              [cmd |-> "DISABLE", ctr |-> "PAI_USER"],
              [cmd |-> "RESET", ctr |-> "PAI_KERNEL"],
              NoQuery}
=============================================================================
