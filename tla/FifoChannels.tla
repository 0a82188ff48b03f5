----------------------------- MODULE FifoChannels -----------------------------
(***************************************************************************)
(* What the IPC core promises: one bounded first-in first-out channel per  *)
(* task.  A message that does not fit is refused and changes nothing.      *)
(***************************************************************************)
EXTENDS Naturals, Sequences

CONSTANTS Receivers, Messages, Capacity

VARIABLES
    channel,   \* messages each receiver has not yet taken, oldest first
    received   \* the message each receiver took last, <<>> before the first

ChannelInit ==
    /\ channel = [r \in Receivers |-> <<>>]
    /\ received = [r \in Receivers |-> <<>>]

Put(r, m) ==
    /\ Len(channel[r]) < Capacity
    /\ channel' = [channel EXCEPT ![r] = Append(channel[r], m)]
    /\ UNCHANGED received

Get(r) ==
    /\ channel[r] # <<>>
    /\ received' = [received EXCEPT ![r] = <<Head(channel[r])>>]
    /\ channel' = [channel EXCEPT ![r] = Tail(channel[r])]

ChannelNext == \E r \in Receivers : Get(r) \/ \E m \in Messages : Put(r, m)

ChannelSpec == ChannelInit /\ [][ChannelNext]_<<channel, received>>
=============================================================================
