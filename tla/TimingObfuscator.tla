-------------------------- MODULE TimingObfuscator --------------------------
(***************************************************************************)
(* The timing obfuscator of nyx-fec (timing.rs).  TimingObfuscator::new    *)
(* spawns one worker task that loops: int_rx.recv(), sample a delay        *)
(* max(0, mean + N(0, sigma)), sleep for it, out_tx.send(pkt), and breaks  *)
(* when that send fails.  enqueue sends into int_tx (error ignored);       *)
(* recv takes from out_rx.  Packets are the numbers 1..NumPackets, a       *)
(* sampled delay is a member of Delays (whole ticks), and the sleep ends   *)
(* at its deadline.  Dropping the TimingObfuscator drops out_rx while      *)
(* clones from sender() may keep enqueueing.                               *)
(***************************************************************************)
EXTENDS Integers, Sequences, FiniteSets, SequencesExt

CONSTANTS
  NumPackets,  \* bound: packets enqueued
  Delays,      \* delays the sampler may return, after max(0, .)
  InCap,       \* capacity of int_tx (1024 in the code)
  OutCap,      \* capacity of out_tx (1024 in the code)
  MaxTime,     \* bound: clock ticks between enqueues
  None

Packets == 1..NumPackets

VARIABLES
  now,        \* the clock
  alive,      \* the TimingObfuscator (and its out_rx) still exists
  inq,        \* packets in the int channel
  worker,     \* the worker task: st, pkt, wake
  outq,       \* packets in the out channel
  delivered,  \* packets recv() has returned, in order
  lost,       \* packets dropped with a channel
  sent        \* packets enqueue has been called on

vars == <<now, alive, inq, worker, outq, delivered, lost, sent>>

-----------------------------------------------------------------------------
\* enqueue(data): tx.send(..).await waits while the int channel is full;
\* once the worker has ended (int_rx dropped) the packet is discarded.
Enqueue ==
  /\ Cardinality(sent) < NumPackets
  /\ LET p == Cardinality(sent) + 1
     IN  /\ sent' = sent \cup {p}
         /\ \/ /\ worker.st # "stopped"
               /\ Len(inq) < InCap
               /\ inq' = Append(inq, p)
               /\ lost' = lost
            \/ /\ worker.st = "stopped"
               /\ lost' = lost \cup {p}
               /\ inq' = inq
  /\ UNCHANGED <<now, alive, worker, outq, delivered>>

\* Mutation: the worker takes the newest queued packet (a stack, not a
\* channel).
WorkerRecvLast ==
  /\ worker.st = "idle"
  /\ inq # <<>>
  /\ \E d \in Delays :
        worker' = [st |-> "sleeping", pkt |-> Last(inq), wake |-> now + d]
  /\ inq' = Front(inq)
  /\ UNCHANGED <<now, alive, outq, delivered, lost, sent>>

\* while let Some(pkt) = int_rx.recv().await: take the head and sample.
WorkerRecv ==
  /\ worker.st = "idle"
  /\ inq # <<>>
  /\ \E d \in Delays :
        worker' = [st |-> "sleeping", pkt |-> Head(inq), wake |-> now + d]
  /\ inq' = Tail(inq)
  /\ UNCHANGED <<now, alive, outq, delivered, lost, sent>>

\* sleep(Duration::from_millis(delay)).await returns at the deadline.
WorkerWake ==
  /\ worker.st = "sleeping"
  /\ now' = IF worker.wake > now THEN worker.wake ELSE now
  /\ worker' = [worker EXCEPT !.st = "sending"]
  /\ UNCHANGED <<alive, inq, outq, delivered, lost, sent>>

\* Mutation: the send does not wait for room in the out channel.
WorkerSendNoWait ==
  /\ worker.st = "sending"
  /\ IF ~alive
     THEN /\ worker' = [worker EXCEPT !.st = "stopped"]
          /\ lost' = lost \cup {worker.pkt} \cup Range(inq)
          /\ inq' = <<>> /\ outq' = outq
     ELSE /\ worker' = [worker EXCEPT !.st = "idle"]
          /\ outq' = Append(outq, worker.pkt)
          /\ lost' = lost /\ inq' = inq
  /\ UNCHANGED <<now, alive, delivered, sent>>

\* out_tx.send(pkt).await: waits while the out channel is full; fails once
\* out_rx is dropped, and the worker breaks out of its loop, dropping
\* int_rx with the packets still in it.
WorkerSend ==
  /\ worker.st = "sending"
  /\ IF ~alive
     THEN /\ worker' = [worker EXCEPT !.st = "stopped"]
          /\ lost' = lost \cup {worker.pkt} \cup Range(inq)
          /\ inq' = <<>> /\ outq' = outq
     ELSE /\ Len(outq) < OutCap
          /\ worker' = [worker EXCEPT !.st = "idle"]
          /\ outq' = Append(outq, worker.pkt)
          /\ lost' = lost /\ inq' = inq
  /\ UNCHANGED <<now, alive, delivered, sent>>

\* recv(): self.rx.recv().await
Recv ==
  /\ alive
  /\ outq # <<>>
  /\ delivered' = Append(delivered, Head(outq))
  /\ outq' = Tail(outq)
  /\ UNCHANGED <<now, alive, inq, worker, lost, sent>>

\* The TimingObfuscator is dropped: out_rx and what it holds go with it.
Drop ==
  /\ alive
  /\ alive' = FALSE
  /\ lost' = lost \cup Range(outq)
  /\ outq' = <<>>
  /\ UNCHANGED <<now, inq, worker, delivered, sent>>

Tick ==
  /\ now < MaxTime
  /\ now' = now + 1
  /\ UNCHANGED <<alive, inq, worker, outq, delivered, lost, sent>>

Init ==
  /\ now = 0
  /\ alive = TRUE
  /\ inq = <<>>
  /\ worker = [st |-> "idle", pkt |-> None, wake |-> 0]
  /\ outq = <<>>
  /\ delivered = <<>>
  /\ lost = {}
  /\ sent = {}

Next ==
  \/ Enqueue \/ WorkerRecv \/ WorkerWake \/ WorkerSend \/ Recv \/ Drop \/ Tick

\* The worker is a tokio task: once ready it is polled.  The consumer is
\* assumed to keep calling recv() while it holds the obfuscator.
Fairness ==
  /\ WF_vars(WorkerRecv) /\ WF_vars(WorkerWake) /\ WF_vars(WorkerSend)
  /\ WF_vars(Recv)

Spec == Init /\ [][Next]_vars /\ Fairness

-----------------------------------------------------------------------------
TypeOK ==
  /\ now \in Nat /\ alive \in BOOLEAN
  /\ inq \in Seq(Packets) /\ Len(inq) <= InCap
  /\ outq \in Seq(Packets) /\ Len(outq) <= OutCap
  /\ worker.st \in {"idle", "sleeping", "sending", "stopped"}
  /\ delivered \in Seq(Packets)
  /\ lost \subseteq sent /\ sent \subseteq Packets

\* The packet the worker holds, as a sequence.
Held == IF worker.st \in {"sleeping", "sending"} THEN <<worker.pkt>> ELSE <<>>

\* The abstract queue is what is in the out channel, then the worker's
\* packet, then the int channel: the order recv() will return them in.
Abstract == INSTANCE TimingQueue WITH queue <- outq \o Held \o inq, open <- alive

(* The obfuscator implements TimingQueue: recv() returns packets in the    *)
(* order enqueue accepted them, none is lost while the obfuscator exists   *)
(* and, while it exists, a queued packet is eventually returned.  This is  *)
(* the head-of-line behaviour of the worker (one sleep per packet, in      *)
(* order) stated as a promise.  Spec 4.7 asks for release in sampled-      *)
(* deadline order instead; a worker that released by deadline would break  *)
(* this property, and this code keeps FIFO order.                          *)
ImplementsTimingQueue == Abstract!Spec

=============================================================================
