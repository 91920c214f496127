------------------------------ MODULE FoodChannel ------------------------------
(***************************************************************************)
(* What the streaming sender promises the producers that feed it: a        *)
(* bounded first-in first-out channel from the encoders to the RTMP        *)
(* connection.  A packet that was accepted leaves the channel in the order *)
(* in which it entered, either onto the wire or, if it is expendable,      *)
(* nowhere; a packet that is not expendable is never skipped.              *)
(* RtmpStreamingSender implements this specification.                      *)
(***************************************************************************)
EXTENDS Naturals, Sequences

CONSTANTS Packets,      \* everything a producer may feed
          Expendable,   \* the packets that may be skipped under load
          Depth         \* how many packets the channel holds at most

VARIABLES chan,   \* accepted packets that have not left yet, oldest first
          out     \* the packets handed to the connection so far

chanVars == <<chan, out>>

Init == chan = <<>> /\ out = <<>>

Accept(p) ==
    /\ Len(chan) < Depth
    /\ chan' = Append(chan, p)
    /\ UNCHANGED out

Deliver ==
    /\ chan # <<>>
    /\ chan' = Tail(chan)
    /\ out' = Append(out, Head(chan))

Skip ==
    /\ chan # <<>>
    /\ Head(chan) \in Expendable
    /\ chan' = Tail(chan)
    /\ UNCHANGED out

Next == (\E p \in Packets : Accept(p)) \/ Deliver \/ Skip

Spec == Init /\ [][Next]_chanVars
================================================================================
