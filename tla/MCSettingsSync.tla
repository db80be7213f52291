--------------------------- MODULE MCSettingsSync ---------------------------
(***************************************************************************)
(* Instance of SettingsSync for TLC: two settings (low_power_preference    *)
(* and max_streams) over two values, two peers with one-slot channels, a   *)
(* two-slot cmd channel, and inbound frames that set low power, set both   *)
(* settings, or carry no setting at all.                                   *)
(***************************************************************************)
EXTENDS SettingsSync

MCInitSettings == [i \in {"low_power", "max_streams"} |-> 0]

MCInboundFrames ==
  { [i \in {"low_power"} |-> 1],
    [i \in {"low_power", "max_streams"} |-> 1],
    [i \in {} |-> 0] }

=============================================================================
