----------------------------- MODULE BoundedTrail -----------------------------
(***************************************************************************)
(* What an audit log of bounded size promises: it holds the most recent    *)
(* events, oldest first, in the order in which they were recorded, and     *)
(* knows how many older ones are gone.  Events are numbered without gaps,  *)
(* and those of one CPU are in the order of their ticks.                   *)
(***************************************************************************)
EXTENDS Integers, Sequences

CONSTANTS Limit, Events

VARIABLES trail, gone

TrailInit == trail = <<>> /\ gone = 0

Keep(e) ==
    /\ Len(trail) < Limit
    /\ trail' = Append(trail, e)
    /\ UNCHANGED gone

\* A full trail loses its oldest event.
Displace(e) ==
    /\ Len(trail) = Limit
    /\ trail' = Append(Tail(trail), e)
    /\ gone' = gone + 1

\* Whether e can be the next event.
Follows(e) ==
    /\ e.seq = gone + Len(trail) + 1
    /\ \A i \in 1..Len(trail) : trail[i].cpu_id = e.cpu_id => trail[i].tick <= e.tick

TrailNext == \E e \in Events : Follows(e) /\ (Keep(e) \/ Displace(e))

TrailSpec == TrailInit /\ [][TrailNext]_<<trail, gone>>
=============================================================================
