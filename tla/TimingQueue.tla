----------------------------- MODULE TimingQueue -----------------------------
(***************************************************************************)
(* What the timing obfuscator promises its users, without the worker, the  *)
(* two channels or the clock: a first-in first-out queue.  enqueue puts a  *)
(* packet at the back; recv returns the packet at the front; nothing is    *)
(* lost while the obfuscator exists.  Once it is dropped, packets may be   *)
(* discarded, always from the front of what is still queued, and enqueue  *)
(* may discard a new packet at once.  While the obfuscator exists and      *)
(* holds a packet, one is eventually returned.                             *)
(***************************************************************************)
EXTENDS Integers, Sequences, FiniteSets, SequencesExt

CONSTANTS NumPackets

Packets == 1..NumPackets

VARIABLES
  queue,      \* packets accepted and not yet returned or discarded
  delivered,  \* packets recv() has returned, in order
  lost,       \* packets discarded
  sent,       \* packets enqueue has been called on
  open        \* the obfuscator exists

qvars == <<queue, delivered, lost, sent, open>>

\* Discard the first k packets still queued.
DropFront(k) ==
  /\ lost' = lost \cup Range(SubSeq(queue, 1, k))
  /\ queue' = SubSeq(queue, k + 1, Len(queue))

Put ==
  /\ Cardinality(sent) < NumPackets
  /\ LET p == Cardinality(sent) + 1
     IN  /\ sent' = sent \cup {p}
         /\ \/ queue' = Append(queue, p) /\ lost' = lost
            \/ ~open /\ lost' = lost \cup {p} /\ queue' = queue
  /\ UNCHANGED <<delivered, open>>

Release ==
  /\ open
  /\ queue # <<>>
  /\ delivered' = Append(delivered, Head(queue))
  /\ queue' = Tail(queue)
  /\ UNCHANGED <<lost, sent, open>>

Close ==
  /\ open
  /\ open' = FALSE
  /\ \E k \in 0..Len(queue) : DropFront(k)
  /\ UNCHANGED <<delivered, sent>>

Discard ==
  /\ ~open
  /\ \E k \in 1..Len(queue) : DropFront(k)
  /\ UNCHANGED <<delivered, sent, open>>

QInit ==
  /\ queue = <<>>
  /\ delivered = <<>>
  /\ lost = {}
  /\ sent = {}
  /\ open = TRUE

QNext == Put \/ Release \/ Close \/ Discard

Spec == QInit /\ [][QNext]_qvars /\ WF_qvars(Release)

=============================================================================
