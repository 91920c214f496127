------------------------------ MODULE MCRtmpSender ------------------------------
(* RtmpStreamingSender for TLC: MCRtmpSender.cfg checks what holds,          *)
(* MCRtmpOverflow.cfg the claim that a full queue only costs a packet.       *)
EXTENDS RtmpStreamingSender
================================================================================
