# TLA+ models of NyxNet

These are TLA+ models of the concurrent and algorithmic core of this
repository, with the TLC configurations that check them. `PROJECT.json` lists
the following:

- every component, and the modules that model it;
- every run and what it shows;
- the mutants that show each property can fail;
- the source lines each definition translates;
- the findings;
- the hazards: what in this code is hard to test and how each one is covered.

## The system and what is in the repository

The spec (`spec.md`) describes thirteen components, C1-C13. This repository
snapshot contains the code of only a few of them.

| Part | Source | What it does | Modelled by |
|------|--------|--------------|-------------|
| Alert system (C12) | `nyx-daemon/src/alert_system.rs` | thresholds, cooldown, suppression, active map, bounded history, routing, broadcast | `AlertSystem`, `MCAlertSystem` |
| Settings sync (C6) | `nyx-control/src/settings_sync.rs` | one task that selects over a watch channel of local settings and a command channel (inbound frames, peer registration), and broadcasts frames to peer channels | `SettingsSync`, `MCSettingsSync` |
| Wesolowski VDF (C9) | `nyx-mix/src/vdf.rs` | `eval`, `prove`, `prove_mont` (rayon::join of two branches), `verify` | `VDF`, `VDFSpec`, `MCVDF` |
| Timing obfuscator (C8) | `nyx-fec/src/timing.rs` | one worker task between two bounded channels: recv, sample delay, sleep, send | `TimingObfuscator`, `TimingQueue` |
| PCR rekey (C3) | `nyx-crypto/src/lib.rs` | HKDF then zeroize | not modelled: sequential, no state machine |
| Panic hook | `nyx-core/src/lib.rs` | installs a hook | not modelled |
| CLI | `nyx-cli/src/main.rs` | gRPC client front-end: ctrl-c flag, connect/status/statistics/bench/metrics commands, rendering | `NyxCli`, `MCNyxCli` |
| Tests, benches | `nyx-conformance`, `nyx-crypto/benches` | — | not modelled |

Three components are absent from the snapshot:
- the Noise handshake, stream layer, FEC coder, mix path, metrics collector and control API;
- the `nyx_stream::StreamSettings` type;
- the `MetricsSnapshot` type.

The models meet them only as inputs. A metric snapshot is a function from
(metric, layer) to a level. A settings frame is the partial settings function
it carries. `StreamSettings::apply` is modelled from the spec's merge rule
(spec_modelled in the map).

How the components interact, per the spec's data flow:
- The alert system observes metric snapshots.
- Settings sync runs beside the sessions over their encrypted channel.
- The timing obfuscator sits between FEC and the mix layer.
- The VDF is a pure computation that the mix layer uses.

None of them calls another in this code, so each is its own module.

## Modules

### AlertSystem

State (`VARIABLES`), with the code each one models:
- `thresholds` models the thresholds map.
- `active` models the values of active_alerts.
- `history` models alert_history, trimmed to `MaxHistory`.
- `rules` models suppression_rules.
- `broadcast` holds the ids sent on alert_sender.
- `now` models SystemTime::now in ticks.
- `pc` and `pending` are, per checker task, where `check_thresholds` is and the alerts it still has to process.

The actions follow the code:
- `CheckThresholds` evaluates every threshold against one snapshot. It covers cooldown, `extract_metric_value`, comparison, suppression and `create_alert`. Alerts are created in an arbitrary HashMap order, which is modelled with `SetToSeqs`.
- `process_alert` is split at its lock boundaries: `InsertActive`, `RecordCreated` and `StampThresholds`. A multi-threaded executor may run other API calls between the separate `RwLock` sections.
- `RouteAlert` is `route_alert`'s clone of `routes` (the variable `rsnap`). The loop over the clone is `NextWebhook`: it applies the severity and layer filters (`RouteMatches`, where an empty severity filter passes everything) and goes past Console, Log and Email routes, which change no state here (an SMTP error is only logged).
- A matching webhook route enters `send_webhook_http`'s loop. `SendWebhookAttempt` is one pass, with `Outcomes(scheme)`: over http the connect (or its timeout) or the write may fail; https returns its error at once; any other scheme fails on every pass. `EndsDelivery` is the loop's exits: `Ok`, the `return Err` of a write error or of https, and the error of attempt `retries`. Otherwise `WebhookBackoff` sleeps and counts the attempt. `wlast` is the last pass's result.
- `BroadcastAlert` is `alert_sender.send` once every route is handled; the loop over `new_alerts` moves on.
- `ResolveAlert`, `add_threshold`, `remove_threshold`, `add_suppression_rule` and `add_route` are each one lock section.

The evaluation pass is one step. The loop awaits only `create_alert`, which
contains no suspension point. Concurrent API calls that would land between two
thresholds of one pass are therefore not explored; they could only change what
suppression counts. `fired` is a ghost variable: the creation times of each
threshold's alerts. Each suppression rule carries a ghost field, `since`: the
first alert id created while the rule was in place.

### SettingsSync

The `select!` loop of `spawn_settings_sync` has one action per branch:
- `OnLocalChanged` (`changed()`);
- `OnInbound`;
- `OnRegister`.

Each branch runs to completion: a branch contains no `.await`. `select!` picks
among ready branches at random, so both orders are explored.

The environment is as follows:
- the owner of the watch Sender (`LocalSend`, `DropSender`);
- senders on the command channel (`SendInbound`, `SendRegister`), capped by `CmdCap`;
- peers that read (`PeerRecv`) or drop (`PeerClose`) their bounded channel.

A dropped Sender makes `changed()` permanently ready. This is how tokio's watch
channel behaves, and it is modelled because the code's `_ =` pattern accepts
the `Err`. `lastGot` is a ghost variable: the last frame put in each peer's
channel.

### VDF and VDFSpec

`VDFSpec` is the abstract promise. It defines `PowRef` by repeated
multiplication, and one call returns `y = x^(2^t) mod n` and `pi = x^q mod n`
in one step.

`VDF` is the prover:
- `Call` starts `prove` or `prove_mont`.
- `Square` is one iteration of `eval` (`modpow(y,2,n)`) or of `fast_pow2` (`y*y % n`).
- `ProvePi` is `x.modpow(q,n)`. It runs after the loop for `prove`, and at any point of the loop for `prove_mont`, because rayon::join runs it in parallel.
- `Return` returns `(y, pi)`, and `Reset` clears the prover for the next call.

`modpow` is square-and-multiply with num-bigint's conventions (`1 % m` for
exponent 0). `verify` is an operator.

The refinement `Abstract == INSTANCE VDFSpec` maps `req` and `result` to
themselves; it is checked as the property `ImplementsVDFSpec`. During the
squaring loop the abstract state stutters.

`L_PRIME` is 2^128+51 in the code and the constant `Ell` (7) here. With the
real prime every t < 128 gives q = 0. A small prime makes q > 0 and r = 0 or
r > 0 reachable with t ≤ 6.

### TimingObfuscator

The worker loop is four actions:
- `WorkerRecv`: `int_rx.recv()`, then the delay is sampled from `Delays`;
- `WorkerWake`: the sleep ends at its deadline and the clock moves to it;
- `WorkerSend`: `out_tx.send`, which waits on a full channel;
- on a failed send, the worker breaks and drops `int_rx`.

Around the worker:
- `Enqueue` is the packet `send` of `enqueue`, with the error ignored.
- `Recv` is `recv()`.
- `Drop` is dropping the `TimingObfuscator`, and with it `out_rx`; a cloned sender may keep enqueueing.
- `Tick` advances the clock between enqueues.

The model keeps no ghost state: the release order is judged against the
abstract queue below.

### TimingQueue: the abstract specification

`TimingQueue` is what the obfuscator promises without its worker, channels or
clock. It is a FIFO `queue`:
- `Put` is enqueue;
- `Release` is recv, of the front packet, only while the obfuscator exists;
- `Close` is the drop, which may discard a prefix of the queue;
- `Discard` drops more of the front afterwards; once closed, `Put` may also discard a new packet at once.

Weak fairness on `Release` makes it promise that a live obfuscator eventually
returns what it holds. `TimingObfuscator` instantiates it with
`queue <- outq \o Held \o inq` and `open <- alive`: the out channel, the
packet in the worker's hands, then the int channel, which is the order `recv`
will return them in. `ImplementsTimingQueue` checks the refinement. The
worker's receive, sleep and send steps are stutters of the abstract queue.

### NyxCli

`main` spawns a listener task and runs one command.

The listener task:
- `SigRegister`: its first poll installs tokio's SIGINT handler.
- `Press`: a ctrl-c before `SigRegister` kills the process, which is the default action. After it, the press only wakes the listener. It is the user's action and is not fair.
- `SigFire`: the listener stores `true` into the shared `AtomicBool`.

Each command is a chain of `pc` locations, one per await:
- `ClientConnect` is `create_client`.
- connect: `OpenAnswer` and `OpenTimeout` race. After a successful open, interactive mode alternates `ReadInput` (user, not fair) with `SendData`; otherwise `SendTestData` runs once.
- status: `StatusInfo` (`get_info?`, then `if !watch || shutdown break`) alternates with `StatusSleep`.
- statistics: `StatsCheck` (the loop head's shutdown test), `StatsCollect` and `StatsSleep`.
- bench: the progress task (`ProgressTick`, `ProgressEnd`) runs beside `BenchRun`, which aborts it on success.
- metrics: `MetricsRun`.

Daemon answers are `ok` or an error, and `?` ends the command. `Done` is the
process exit; tasks die with the runtime, so nothing moves after it.

## Runs

| Run | Checks | Result |
|-----|--------|--------|
| alert_core | TypeOK, CooldownRespected, AlertsEventuallyBroadcast | pass (≈418k states, about 2 minutes) |
| alert_one_active | AtMostOneActivePerKey | violation: the cpu warning and critical thresholds fire in one pass |
| alert_suppression | SuppressionLimit | violation: alerts of one pass are not counted by suppression |
| alert_history_order | CreatedBeforeResolved | violation: resolve between active insert and history push |
| settings_core | TypeOK, RetainedPeersHaveFrame | pass (≈589k states) |
| settings_lost_change | LocalChangePropagated | violation: `borrow_and_update` swallows a local change |
| settings_closed_watch | NoPeerDroppedWithoutChange | violation: closed watch spins and drops peers |
| vdf_core | TypeOK, VerifyAccepts, ImplementsVDFSpec | pass (≈3.8k states) |
| vdf_unreduced | VerifyAccepts | violation: t = 0, x ≥ n |
| timing_core | TypeOK, ImplementsTimingQueue | pass (≈4.4k states); the FIFO refinement is also the divergence from spec 4.7's deadline order |
| cli_core | TypeOK, OneShotTerminates, ShutdownHonoured | pass (≈200 states, all 8 invocations) |
| cli_interactive_shutdown | ShutdownHonouredAll | violation: `connect --interactive` keeps waiting on stdin after ctrl-c |

Every violation is a disagreement between the code and the spec; the findings
in `PROJECT.json` say what each one shows. Each property of a passing run has
a mutant in `PROJECT.json`: a plausible bug in the mapped code that TLC finds
as a violation. The mutants are:
- history not trimmed;
- a cooldown off by one;
- the loop over new alerts stopping after the first one;
- `try_send` ignoring capacity;
- `retain` keeping everyone;
- modpow's last product unreduced;
- q computed with `+ r`;
- the loop `0..=t`;
- the worker not waiting for room in the out channel;
- the worker taking the newest queued packet first;
- the status loop ignoring `!watch`;
- the statistics loop without its shutdown test;
- the progress loop running while `elapsed <= duration`.

## Bounds and why they suffice

**Alert system.** The bounds are:
- three thresholds: the cpu warning and critical, which share a metric, and one layer metric, which is added and removed;
- levels 0..2, one suppression rule, two alerts, three ticks;
- a history of 2.

Routes: the two default routes, and `add_route` of one http webhook for
warnings and criticals (`MaxRoutes` 3), with `Retries` at its default of 2.
The route may be added before or while an alert is routed, so the clone
matters. Other schemes are in the module; instantiating them as well took
the run past three minutes. The violation runs add no route.

Cooldowns of 1 and 2 ticks make both "inside" and "outside" the cooldown
reachable. Two alerts are enough for the cooldown, the suppression limit and
history eviction (2 alerts plus a resolve overflow a history of 2).

**Settings sync.** The bounds are two peers, two setting ids with values {0,1},
a peer channel capacity of 1 (so the full-channel case happens), a command
channel of 2, and two local changes.

**VDF.** Every x < n for n ∈ {15, 21} and t ≤ 6, with l = 7. This covers
r = 0 and r > 0, q = 0 (t < 3) and q > 0, and n composite, as in the code's
tests.

**CLI.** Every command with its loop flag on and off, and a two-second bench
(so that the progress task both runs out and is cut short). The loops need no
bound: a watch or realtime iteration returns to the same state.

**Timing.** Five packets, delays {0,1,2}, channel capacities 3 (worker input)
and 2 (output), and three ticks. That is enough for a shorter delay behind a
longer one, for both channels to be full at once, and for the obfuscator to be
dropped with packets in each of the two channels and in the worker.

## Fairness

**AlertsEventuallyBroadcast** uses weak fairness on each started
`check_thresholds` call's remaining steps. A started task is polled to
completion, provided every handler returns. The SMTP connect has no timeout,
so that proviso is listed as a hazard.

The same fairness carries each started webhook delivery through its
attempts: every attempt returns, because the connect and the read are under
`tokio::time::timeout` and the write is bounded by the socket buffer.

The liveness half of **ImplementsTimingQueue** (the abstract queue's weak
fairness on `Release`) uses weak fairness on the worker's steps and on the
consumer's `recv`:
- the worker is a spawned tokio task;
- calling `recv` is the consumer's duty, and is an assumption.

**OneShotTerminates** and **ShutdownHonoured** use weak fairness on:
- the daemon's answers (an assumption: tonic calls have no deadline here);
- the CLI's own steps (timers fire, spawned tasks are polled);
- the listener task.

The user's input and ctrl-c have no fairness.

The webhook loop's retry count is not stated as a property of alert_core. For
the errors the loop retries, giving up after `retries` + 1 attempts is just the
loop's exit test. The case that matters is a write error: the `return Err` at
line 664 skips the retries that spec 4.11 and spec 5 describe. Stating that as
a property gives a violation at once, so it belongs in a violation run of its
own. It is recorded as a hazard in `PROJECT.json`.

**ShutdownHonoured** excludes the interactive connect session, and
**ShutdownHonouredAll** (run cli_interactive_shutdown) includes it under the
same fairness. `cmd_connect` never reads its `_shutdown` argument, so after
ctrl-c the session still waits on stdin. The user owes no further input, so TLC
reports the counter-example: press, the listener sets shutdown, and the
session waits for a line forever.

Settings sync and the VDF check only safety.

## Not modelled, and why

- The handlers' network I/O beyond the webhook attempts (the SMTP dialogue, URL
  parsing, the HMAC header), `subscribe` and the broadcast receivers (their
  consumers are not in this repository), and `get_alert_statistics` and the
  getters, which only read.
- The statistics values computed by `collect_statistics_data` (a rate divided
  by an uptime that may be 0 is listed as a hazard), and the rendering.
- Concurrent `check_thresholds` callers and a clock that steps backwards:
  hazards with no run yet.
- The absence of cover traffic (spec 4.7, 9). `timing.rs` has no path that
  emits cover cells, so a property would fail by the model's shape. This is a
  missing feature, not an interleaving.
- PCR rekey, the panic hook, the tests and the benches.

## Plan for later work

1. Alert system:
   - a run with two checkers and one threshold, for the stale-snapshot cooldown race;
   - a liveness property that a critical breach outside its own cooldown is reported, which the cross-stamping at line 452 can break;
   - the evaluation pass split per threshold, so that resolves can interleave.
2. The webhook: a run showing that a write error ends the delivery without a
   retry.
3. The CLI: `rps` in `collect_statistics_data` at uptime 0 (a numeric
   edge the control-flow model abstracts away).
4. SettingsSync: a property on inbound merges surviving a local change.

Twelve runs are in place; a new question needs one of them merged or retired.
