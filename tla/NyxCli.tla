------------------------------- MODULE NyxCli -------------------------------
(***************************************************************************)
(* The control flow of the nyx-cli binary (nyx-cli/src/main.rs).          *)
(*                                                                         *)
(* main spawns a task that waits on tokio::signal::ctrl_c() and then sets  *)
(* the shared AtomicBool shutdown, and runs one command.  Only the control *)
(* flow is kept: every await on the daemon (create_client, open_stream,    *)
(* send_data, get_info) is one step whose answer is ok or an error; the    *)
(* connect timeout is a step racing the open_stream answer; user input is  *)
(* a line that ends the session or carries data; printing, localisation,  *)
(* spinners and rendering are left out.  An invocation is the command with *)
(* its one loop flag (interactive, watch or realtime).                     *)
(***************************************************************************)
EXTENDS Naturals

CONSTANTS
  Invocations,    \* [cmd, flag] records the command line may give
  BenchDuration   \* bench --duration, in seconds

Commands == {"connect", "status", "statistics", "bench", "metrics"}

ASSUME Invocations \subseteq [cmd: Commands, flag: BOOLEAN]

VARIABLES
  inv,       \* the invocation being run
  pc,        \* where the command is
  result,    \* how the process ended: "ok", "err", "killed", or "none"
  shutdown,  \* the AtomicBool
  sig,       \* the ctrl_c task: "spawned", "listening", "caught", "done"
  pressed,   \* the user has pressed ctrl-c
  prog,      \* bench's progress task: "none", "running", "done", "aborted"
  elapsed    \* the progress task's elapsed_secs

vars == <<inv, pc, result, shutdown, sig, pressed, prog, elapsed>>

Done(r) == pc' = "Done" /\ result' = r

-----------------------------------------------------------------------------
(* The ctrl-c listener and the user.                                       *)

\* The spawned task is first polled: ctrl_c() installs tokio's handler.
SigRegister ==
  /\ sig = "spawned"
  /\ sig' = "listening"
  /\ UNCHANGED <<inv, pc, result, shutdown, pressed, prog, elapsed>>

\* ctrl-c before the handler exists terminates the process (default SIGINT);
\* afterwards it only wakes the listener.  A later press is swallowed.
Press ==
  /\ ~pressed
  /\ pc # "Done"
  /\ pressed' = TRUE
  /\ IF sig = "spawned"
     THEN Done("killed") /\ UNCHANGED sig
     ELSE sig' = "caught" /\ UNCHANGED <<pc, result>>
  /\ UNCHANGED <<inv, shutdown, prog, elapsed>>

\* shutdown_clone.store(true, Relaxed); the task ends.
SigFire ==
  /\ sig = "caught"
  /\ pc # "Done"
  /\ shutdown' = TRUE
  /\ sig' = "done"
  /\ UNCHANGED <<inv, pc, result, pressed, prog, elapsed>>

-----------------------------------------------------------------------------
(* The commands.                                                           *)

\* create_client(cli).await?: an error ends the command.  Each command then
\* goes to its first await; bench first spawns its progress task.
ClientConnect(ok) ==
  /\ pc = "client"
  /\ IF ~ok THEN Done("err") /\ UNCHANGED <<prog, elapsed>>
     ELSE /\ pc' = CASE inv.cmd = "connect"    -> "opening"
                     [] inv.cmd = "status"     -> "info"
                     [] inv.cmd = "statistics" -> IF inv.flag THEN "check" ELSE "collect"
                     [] inv.cmd = "bench"      -> "bench"
          /\ prog' = IF inv.cmd = "bench" THEN "running" ELSE prog
          /\ UNCHANGED <<result, elapsed>>
  /\ UNCHANGED <<inv, shutdown, sig, pressed>>

\* cmd_connect: open_stream answered within connect_timeout.
OpenAnswer(ok) ==
  /\ pc = "opening"
  /\ IF ok THEN pc' = (IF inv.flag THEN "read" ELSE "send") /\ UNCHANGED result
     ELSE Done("err")
  /\ UNCHANGED <<inv, shutdown, sig, pressed, prog, elapsed>>

\* cmd_connect: the timeout elapses first; the open_stream future is dropped.
OpenTimeout ==
  /\ pc = "opening"
  /\ Done("err")
  /\ UNCHANGED <<inv, shutdown, sig, pressed, prog, elapsed>>

\* Interactive mode: stdin.read(..).await.  EOF, "quit"/"exit" and a read
\* error leave the loop with Ok(()); a non-empty line is sent.  (An empty
\* line `continue`s and changes nothing.)
ReadInput(line) ==
  /\ pc = "read"
  /\ IF line = "end" THEN Done("ok") ELSE pc' = "sending" /\ UNCHANGED result
  /\ UNCHANGED <<inv, shutdown, sig, pressed, prog, elapsed>>

\* send_data(..).await in interactive mode: either answer is printed and
\* the loop reads again.
SendData ==
  /\ pc = "sending"
  /\ pc' = "read"
  /\ UNCHANGED <<inv, result, shutdown, sig, pressed, prog, elapsed>>

\* Non-interactive mode: one send_data of the test payload, then Ok(()).
SendTestData ==
  /\ pc = "send"
  /\ Done("ok")
  /\ UNCHANGED <<inv, shutdown, sig, pressed, prog, elapsed>>

\* Mutation: the watch loop leaves only on shutdown, not when !watch.
StatusInfoWatchIgnored(ok) ==
  /\ pc = "info"
  /\ IF ~ok THEN Done("err")
     ELSE IF shutdown THEN Done("ok") ELSE pc' = "status_sleep" /\ UNCHANGED result
  /\ UNCHANGED <<inv, shutdown, sig, pressed, prog, elapsed>>

\* cmd_status: get_info(..).await?, display, then
\* `if !watch || shutdown.load(..) { break }`.
StatusInfo(ok) ==
  /\ pc = "info"
  /\ IF ~ok THEN Done("err")
     ELSE IF ~inv.flag \/ shutdown THEN Done("ok")
     ELSE pc' = "status_sleep" /\ UNCHANGED result
  /\ UNCHANGED <<inv, shutdown, sig, pressed, prog, elapsed>>

\* sleep(interval).await, clear the screen, and loop.
StatusSleep ==
  /\ pc = "status_sleep"
  /\ pc' = "info"
  /\ UNCHANGED <<inv, result, shutdown, sig, pressed, prog, elapsed>>

\* Mutation: the realtime loop without its shutdown check.
StatsCheckMissing ==
  /\ pc = "check"
  /\ pc' = "collect"
  /\ UNCHANGED <<inv, result, shutdown, sig, pressed, prog, elapsed>>

\* cmd_statistics realtime loop head: `if shutdown.load(..) { break }`.
StatsCheck ==
  /\ pc = "check"
  /\ IF shutdown THEN Done("ok") ELSE pc' = "collect" /\ UNCHANGED result
  /\ UNCHANGED <<inv, shutdown, sig, pressed, prog, elapsed>>

\* collect_statistics_data(..).await? (its get_info), analysis and display;
\* realtime mode then sleeps, snapshot mode returns.
StatsCollect(ok) ==
  /\ pc = "collect"
  /\ IF ~ok THEN Done("err")
     ELSE IF inv.flag THEN pc' = "stats_sleep" /\ UNCHANGED result
     ELSE Done("ok")
  /\ UNCHANGED <<inv, shutdown, sig, pressed, prog, elapsed>>

StatsSleep ==
  /\ pc = "stats_sleep"
  /\ pc' = "check"
  /\ UNCHANGED <<inv, result, shutdown, sig, pressed, prog, elapsed>>

\* Mutation: the progress loop runs while elapsed_secs <= duration.
ProgressTickInclusive ==
  /\ prog = "running" /\ pc # "Done"
  /\ elapsed <= BenchDuration /\ ~shutdown
  /\ elapsed' = elapsed + 1
  /\ UNCHANGED <<inv, pc, result, shutdown, sig, pressed, prog>>

\* Progress task: `while elapsed_secs < duration && !shutdown` { sleep 1 s;
\* elapsed_secs += 1 }.  Tasks end with the runtime once main returns.
ProgressTick ==
  /\ prog = "running" /\ pc # "Done"
  /\ elapsed < BenchDuration /\ ~shutdown
  /\ elapsed' = elapsed + 1
  /\ UNCHANGED <<inv, pc, result, shutdown, sig, pressed, prog>>

ProgressEnd ==
  /\ prog = "running" /\ pc # "Done"
  /\ ~(elapsed < BenchDuration /\ ~shutdown)
  /\ prog' = "done"
  /\ UNCHANGED <<inv, pc, result, shutdown, sig, pressed, elapsed>>

\* benchmark_runner.run().await?: on Ok the progress task is aborted and
\* the results displayed; an Err returns at once.
BenchRun(ok) ==
  /\ pc = "bench"
  /\ IF ok THEN /\ Done("ok")
                /\ prog' = IF prog = "running" THEN "aborted" ELSE prog
     ELSE Done("err") /\ UNCHANGED prog
  /\ UNCHANGED <<inv, shutdown, sig, pressed, elapsed>>

\* cmd_metrics: simulate_metrics_analysis sleeps 500 ms and returns data.
MetricsRun ==
  /\ pc = "metrics"
  /\ Done("ok")
  /\ UNCHANGED <<inv, shutdown, sig, pressed, prog, elapsed>>

-----------------------------------------------------------------------------
Init ==
  /\ inv \in Invocations
  /\ pc = IF inv.cmd = "metrics" THEN "metrics" ELSE "client"
  /\ result = "none"
  /\ shutdown = FALSE
  /\ sig = "spawned"
  /\ pressed = FALSE
  /\ prog = "none"
  /\ elapsed = 0

\* The daemon's answers, per await.
Answer ==
  \E ok \in BOOLEAN :
     ClientConnect(ok) \/ OpenAnswer(ok) \/ StatusInfo(ok) \/ StatsCollect(ok)
       \/ BenchRun(ok)

\* The CLI's own steps once their await is ready.
Step ==
  \/ OpenTimeout \/ SendData \/ SendTestData \/ StatusSleep \/ StatsCheck
  \/ StatsSleep \/ ProgressTick \/ ProgressEnd \/ MetricsRun

Next ==
  \/ Answer \/ Step
  \/ SigRegister \/ SigFire
  \/ Press
  \/ \E line \in {"end", "data"} : ReadInput(line)

\* Spawned tasks are polled, timers fire and the daemon answers every
\* request; the user need not type or press ctrl-c.
Fairness ==
  /\ WF_vars(Answer) /\ WF_vars(Step)
  /\ WF_vars(SigRegister) /\ WF_vars(SigFire)

Spec == Init /\ [][Next]_vars /\ Fairness

-----------------------------------------------------------------------------
TypeOK ==
  /\ inv \in Invocations
  /\ result \in {"none", "ok", "err", "killed"}
  /\ (pc = "Done") = (result # "none")
  /\ shutdown \in BOOLEAN /\ pressed \in BOOLEAN
  /\ sig \in {"spawned", "listening", "caught", "done"}
  /\ prog \in {"none", "running", "done", "aborted"}
  /\ elapsed \in 0..BenchDuration

OneShot(i) == i.cmd \in {"bench", "metrics"} \/ ~i.flag
Interactive(i) == i.cmd = "connect" /\ i.flag

(* A command run without --watch, --realtime or --interactive ends by       *)
(* itself, ctrl-c or not: cmd_status breaks when !watch, cmd_statistics     *)
(* returns after one snapshot, cmd_connect after its test send.             *)
OneShotTerminates ==
  OneShot(inv) => <>(pc = "Done")

(* Spec 5 (cancellation): once ctrl-c has set shutdown, the looping         *)
(* commands (status --watch, statistics --realtime, bench) leave their loop *)
(* and the process ends.  The interactive connect session is not covered:   *)
(* cmd_connect ignores its shutdown argument (see README).                  *)
ShutdownHonoured ==
  ~Interactive(inv) => (shutdown ~> pc = "Done")

(* Spec 5 (cancellation: every long-lived task observes the shutdown       *)
(* signal and exits at its next suspension point), for every command: once *)
(* the ctrl_c listener has set shutdown, the process ends.  cmd_connect's   *)
(* interactive loop is the case in question: it waits on stdin and never   *)
(* reads its `_shutdown` argument.                                          *)
ShutdownHonouredAll ==
  shutdown ~> pc = "Done"

=============================================================================
