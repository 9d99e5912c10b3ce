----------------------------- MODULE MCMiddleMix -----------------------------
(* Instances of MiddleMixChannels for TLC.  A first mix opens a channel for *)
(* a packet whose only flag is CHANNEL_OPEN, and every mix forwards the     *)
(* flags as they are: no packet opens and closes.                           *)
EXTENDS MiddleMixChannels

SentFlags == {{}, {"OPEN"}, {"CLOSE"}}
=============================================================================
