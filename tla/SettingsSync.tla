---------------------------- MODULE SettingsSync ----------------------------
(***************************************************************************)
(* The SETTINGS synchroniser of nyx-control (settings_sync.rs).            *)
(*                                                                         *)
(* spawn_settings_sync runs one task that loops on tokio::select! over two *)
(* branches: local_rx.changed() (the watch channel holding the local       *)
(* StreamSettings) and cmd_rx.recv() (Inbound frames and RegisterTx).      *)
(* select! picks at random among ready branches, so either may run when    *)
(* both are ready.  Around the task: the owner of the watch Sender, which  *)
(* changes the local settings and may drop the Sender; the modules that    *)
(* send commands into the bounded cmd channel; and peers, each owning the  *)
(* receiving end of one bounded transmit channel.  A settings value is a   *)
(* function from setting id to value; a SETTINGS frame is modelled by the  *)
(* settings it encodes (build_settings_frame) or by the partial function   *)
(* it carries (parse_settings_frame), or Malformed.                        *)
(***************************************************************************)
EXTENDS Integers, Sequences, FiniteSets, SequencesExt

CONSTANTS
  SettingIds,      \* setting identifiers (low_power_preference among them)
  SettingValues,   \* values a setting may take
  InitSettings,    \* the watch channel's initial value
  InboundFrames,   \* partial settings an inbound frame may carry
  Malformed,       \* bytes parse_settings_frame rejects
  Peers,           \* transmit channels that may be registered
  PeerCap,         \* capacity of a peer's transmit channel
  CmdCap,          \* capacity of the cmd channel (32 in the code)
  MaxVersion,      \* bound: local settings changes
  None

Settings == [SettingIds -> SettingValues]
Partial == UNION {[D -> SettingValues] : D \in SUBSET SettingIds}

ASSUME /\ InitSettings \in Settings
       /\ InboundFrames \subseteq Partial
       /\ PeerCap \in Nat \ {0} /\ CmdCap \in Nat \ {0}

VARIABLES
  local,       \* the value in the watch channel
  version,     \* the watch channel's version
  seen,        \* the version local_rx has marked seen
  senderAlive, \* the watch Sender still exists
  current,     \* the task's current settings
  frame,       \* frame_bytes: the settings the latest built frame encodes
  peers,       \* the broadcast list of tx handles, in order
  cmds,        \* commands queued in the cmd channel
  chan,        \* per peer: frames queued in its transmit channel
  open,        \* per peer: its receiver is still alive
  offered,     \* peers whose RegisterTx has been sent
  lastGot      \* ghost: per peer, the last frame put in its channel

vars == <<local, version, seen, senderAlive, current, frame, peers, cmds,
          chan, open, offered, lastGot>>

peerVars == <<chan, open, offered, lastGot>>

-----------------------------------------------------------------------------
\* StreamSettings::apply (nyx_stream): ids present in the frame override,
\* the others keep their value.
apply(cur, f) == [i \in SettingIds |-> IF i \in DOMAIN f THEN f[i] ELSE cur[i]]

\* Mutation: try_send taken to succeed on a full channel.
CanSendIgnoringCapacity(p) == open[p]

\* tx.try_send(bytes): succeeds iff the receiver is alive and there is room.
CanSend(p) == open[p] /\ Len(chan[p]) < PeerCap

\* Mutation: retain keeps every peer, whether try_send succeeded or not.
RetainAll(ps) == ps

\* peers.retain(|tx| tx.try_send(frame).is_ok())
Retain(ps) == SelectSeq(ps, CanSend)

\* The branch local_rx.changed(): ready when a version is unseen, and
\* forever once the Sender is dropped (changed() then returns Err at once,
\* which the pattern `_` also accepts).  It re-reads the watch value,
\* rebuilds the frame and pushes it to every peer, dropping the failed ones.
OnLocalChanged ==
  /\ version > seen \/ ~senderAlive
  /\ seen' = version
  /\ current' = local
  /\ frame' = local
  /\ peers' = Retain(peers)
  /\ chan' = [p \in Peers |->
                IF p \in Range(peers) /\ CanSend(p) THEN Append(chan[p], local)
                ELSE chan[p]]
  /\ lastGot' = [p \in Peers |->
                   IF p \in Range(peers) /\ CanSend(p) THEN local ELSE lastGot[p]]
  /\ UNCHANGED <<local, version, senderAlive, cmds, open, offered>>

\* SettingsCmd::Inbound(bytes): a frame that parses is merged into current;
\* borrow_and_update then marks the watch value seen.  The info log of a
\* low_power_preference change is the branch's only other effect.
OnInbound ==
  /\ cmds # <<>>
  /\ Head(cmds).kind = "Inbound"
  /\ cmds' = Tail(cmds)
  /\ LET bytes == Head(cmds).frame
     IN  IF bytes = Malformed
         THEN UNCHANGED <<current, seen>>
         ELSE /\ current' = apply(current, bytes)
              /\ seen' = version
  /\ UNCHANGED <<local, version, senderAlive, frame, peers, chan, open,
                 offered, lastGot>>

\* SettingsCmd::RegisterTx(tx): try_send the latest frame (result ignored)
\* and push tx onto the list.
OnRegister ==
  /\ cmds # <<>>
  /\ Head(cmds).kind = "Register"
  /\ LET p == Head(cmds).peer
     IN  /\ chan' = IF CanSend(p) THEN [chan EXCEPT ![p] = Append(@, frame)] ELSE chan
         /\ lastGot' = IF CanSend(p) THEN [lastGot EXCEPT ![p] = frame] ELSE lastGot
         /\ peers' = Append(peers, p)
  /\ cmds' = Tail(cmds)
  /\ UNCHANGED <<local, version, seen, senderAlive, current, frame, open,
                 offered>>

-----------------------------------------------------------------------------
(* The task's environment.                                                 *)

\* The owner of the watch Sender publishes new local settings.
LocalSend(s) ==
  /\ senderAlive
  /\ version < MaxVersion
  /\ local' = s
  /\ version' = version + 1
  /\ UNCHANGED <<seen, senderAlive, current, frame, peers, cmds, peerVars>>

DropSender ==
  /\ senderAlive
  /\ senderAlive' = FALSE
  /\ UNCHANGED <<local, version, seen, current, frame, peers, cmds, peerVars>>

\* cmd_tx.send(..).await: waits while the channel is full.
SendInbound(f) ==
  /\ Len(cmds) < CmdCap
  /\ cmds' = Append(cmds, [kind |-> "Inbound", frame |-> f])
  /\ UNCHANGED <<local, version, seen, senderAlive, current, frame, peers,
                 peerVars>>

SendRegister(p) ==
  /\ p \notin offered
  /\ Len(cmds) < CmdCap
  /\ cmds' = Append(cmds, [kind |-> "Register", peer |-> p])
  /\ offered' = offered \cup {p}
  /\ UNCHANGED <<local, version, seen, senderAlive, current, frame, peers,
                 chan, open, lastGot>>

PeerRecv(p) ==
  /\ open[p]
  /\ chan[p] # <<>>
  /\ chan' = [chan EXCEPT ![p] = Tail(@)]
  /\ UNCHANGED <<local, version, seen, senderAlive, current, frame, peers,
                 cmds, open, offered, lastGot>>

\* The peer's session ends: its receiver is dropped.
PeerClose(p) ==
  /\ open[p]
  /\ open' = [open EXCEPT ![p] = FALSE]
  /\ chan' = [chan EXCEPT ![p] = <<>>]
  /\ UNCHANGED <<local, version, seen, senderAlive, current, frame, peers,
                 cmds, offered, lastGot>>

-----------------------------------------------------------------------------
Init ==
  /\ local = InitSettings
  /\ version = 0
  /\ seen = 0
  /\ senderAlive = TRUE
  /\ current = InitSettings
  /\ frame = InitSettings
  /\ peers = <<>>
  /\ cmds = <<>>
  /\ chan = [p \in Peers |-> <<>>]
  /\ open = [p \in Peers |-> TRUE]
  /\ offered = {}
  /\ lastGot = [p \in Peers |-> None]

Next ==
  \/ OnLocalChanged
  \/ OnInbound
  \/ OnRegister
  \/ \E s \in Settings : LocalSend(s)
  \/ DropSender
  \/ \E f \in InboundFrames \cup {Malformed} : SendInbound(f)
  \/ \E p \in Peers : SendRegister(p) \/ PeerRecv(p) \/ PeerClose(p)

Spec == Init /\ [][Next]_vars

-----------------------------------------------------------------------------
TypeOK ==
  /\ local \in Settings /\ current \in Settings /\ frame \in Settings
  /\ version \in 0..MaxVersion /\ seen \in 0..version
  /\ senderAlive \in BOOLEAN
  /\ peers \in Seq(Peers)
  /\ Len(cmds) <= CmdCap
  /\ chan \in [Peers -> Seq(Settings)]
  /\ \A p \in Peers : Len(chan[p]) <= PeerCap
  /\ open \in [Peers -> BOOLEAN]
  /\ offered \subseteq Peers
  /\ lastGot \in [Peers -> Settings \cup {None}]

(* Every live peer still on the broadcast list has, as the last frame put   *)
(* in its channel, the frame the task would send now: RegisterTx sends the  *)
(* latest frame and the broadcast in the changed() branch drops each peer   *)
(* whose try_send fails.                                                     *)
RetainedPeersHaveFrame ==
  \A p \in Range(peers) : open[p] => lastGot[p] = frame

(* Spec 5 (settings sync): once the task has taken in the watch channel's   *)
(* latest version, the frame it broadcasts encodes that local value, so no  *)
(* local change is lost (changed() branch versus borrow_and_update in the   *)
(* Inbound branch).                                                          *)
LocalChangePropagated ==
  seen = version => frame = local

(* Spec 4.5 (best-effort broadcast on local mutation): a live peer is only  *)
(* dropped from the list when there is a new local value to deliver to it   *)
(* (changed() once the watch Sender is gone).                               *)
NoPeerDroppedWithoutChange ==
  [][\A p \in Range(peers) :
        open[p] /\ p \notin Range(peers') => version > seen]_vars

=============================================================================
