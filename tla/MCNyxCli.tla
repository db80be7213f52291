------------------------------ MODULE MCNyxCli ------------------------------
(***************************************************************************)
(* Every command of nyx-cli with its loop flag on and off (bench and       *)
(* metrics have none), and a two-second bench.                             *)
(***************************************************************************)
EXTENDS NyxCli

MCInvocations ==
  [cmd: {"connect", "status", "statistics"}, flag: BOOLEAN] \cup
  [cmd: {"bench", "metrics"}, flag: {FALSE}]

=============================================================================
