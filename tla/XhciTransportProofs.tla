------------------------- MODULE XhciTransportProofs -------------------------
(***************************************************************************)
(* What the rings of xhci.rs guarantee whoever uses them: a ring that the  *)
(* controller has caught up with offers it nothing, a TD enqueued on such  *)
(* a ring is the only one offered, and its completion, once posted, is the *)
(* only unread one and names the waiter's TRB.  The lemmas speak of one    *)
(* "lane" at a time: the endpoints with events.transfer, and the command   *)
(* ring with events.command.                                               *)
(***************************************************************************)
EXTENDS XhciTransport, TLAPS

\* The other cycle bit.
Flip(b) == ~b

LEMMA FlipFacts ==
    /\ \A b \in BOOLEAN : Flip(b) \in BOOLEAN /\ Flip(b) # b /\ Flip(Flip(b)) = b
    /\ \A a, b \in BOOLEAN : a # b => a = Flip(b)
    /\ Flip(TRUE) = FALSE
BY Zenon DEF Flip

LEMMA UsableType == \A r \in Rings : Usable[r] \in Nat \ {0, 1}
<1>1. Usable["control"] = ControlTrbs /\ Usable["command"] = CommandTrbs
    BY Zenon DEF Usable, Rings, Endpoints
<1>2. Usable["in"] = BulkTrbs /\ Usable["out"] = BulkTrbs
    <2>1. "in" # "control" /\ "in" # "command" /\ "out" # "control" /\ "out" # "command"
        OBVIOUS
    <2> QED BY <2>1, Zenon DEF Usable, Rings, Endpoints
<1> QED BY <1>1, <1>2, TransportAssumption DEF Rings, Endpoints

-----------------------------------------------------------------------------
(* Producer rings.                                                         *)

RingTypes ==
    /\ ring = [r \in Rings |-> ring[r]]
    /\ cursor \in [Rings -> [index : Nat, cycle : BOOLEAN]]
    /\ hw \in [Rings -> [index : Nat, cycle : BOOLEAN, state : {"running", "stopped", "halted"}, ran : Nat]]
    /\ submitted \in Nat

\* The entries before the cursor have its cycle, those after it the other one.
RingShape(r) ==
    /\ cursor[r].index < Usable[r]
    /\ \A i \in 0..Usable[r] - 1 :
           /\ i < cursor[r].index => ring[r][i].cycle = cursor[r].cycle
           /\ i >= cursor[r].index => ring[r][i].cycle = Flip(cursor[r].cycle)
    /\ hw[r].ran <= submitted

\* The controller stands on entry i of a ring with cycle y; from a link TRB
\* that is its own it goes on to entry 0.
Stands(r, i, y) ==
    \/ hw[r].index = i /\ hw[r].cycle = y /\ i < Usable[r]
    \/ hw[r].index = Usable[r] /\ hw[r].cycle = Flip(y) /\ i = 0 /\ ring[r][Usable[r]].cycle = hw[r].cycle

\* The controller has caught up with the driver; it has, or does not run; it
\* has and takes the next doorbell.
Quiet(r) == Stands(r, cursor[r].index, cursor[r].cycle)
Settled(r) == Quiet(r) \/ hw[r].state # "running"
Ready(r) == Quiet(r) /\ hw[r].state # "halted"
Halts(r) == Ready(r) \/ hw[r].state = "halted"

\* One TD, whose waiter is p, lies between the controller and the cursor.
LoadedAt(r, p, i, y) ==
    /\ Stands(r, i, y)
    /\ ring[r][i].cycle = y
    /\ ring[r][i].length \in Nat \ {0}
    /\ ring[r][i].td = p.td
    /\ p.index = i + ring[r][i].length - 1
    /\ \/ /\ i + ring[r][i].length < Usable[r]
          /\ cursor[r].index = i + ring[r][i].length /\ cursor[r].cycle = y
       \/ /\ i + ring[r][i].length = Usable[r]
          /\ cursor[r].index = 0 /\ cursor[r].cycle = Flip(y)
          /\ ring[r][Usable[r]].cycle = y

Loaded(r, p) ==
    /\ hw[r].state = "running"
    /\ p.owner = r /\ p.code = "none"
    /\ hw[r].ran < p.td
    /\ \E i \in 0..Usable[r] - 1, y \in BOOLEAN : LoadedAt(r, p, i, y)

LEMMA RingFields ==
    ASSUME RingTypes, NEW r \in Rings
    PROVE  /\ cursor[r].index \in Nat /\ cursor[r].cycle \in BOOLEAN
           /\ cursor[r] = [index |-> cursor[r].index, cycle |-> cursor[r].cycle]
           /\ hw[r].index \in Nat /\ hw[r].cycle \in BOOLEAN /\ hw[r].ran \in Nat
           /\ hw[r].state \in {"running", "stopped", "halted"}
           /\ hw[r] = [index |-> hw[r].index, cycle |-> hw[r].cycle, state |-> hw[r].state, ran |-> hw[r].ran]
           /\ Usable[r] \in Nat \ {0, 1}
<1>1. cursor[r] \in [index : Nat, cycle : BOOLEAN]
    BY DEF RingTypes
<1>2. hw[r] \in [index : Nat, cycle : BOOLEAN, state : {"running", "stopped", "halted"}, ran : Nat]
    BY DEF RingTypes
<1> QED BY <1>1, <1>2, UsableType, Zenon

LEMMA StandsPosition ==
    ASSUME RingTypes, NEW r \in Rings, NEW i \in Nat, NEW y \in BOOLEAN, Stands(r, i, y)
    PROVE  /\ Position(r) = [index |-> i, cycle |-> y, state |-> hw[r].state, ran |-> hw[r].ran]
           /\ i < Usable[r]
<1>1. PICK h : h = hw[r]
    OBVIOUS
<1>2. /\ h = [index |-> h.index, cycle |-> h.cycle, state |-> h.state, ran |-> h.ran]
      /\ h.cycle \in BOOLEAN /\ Usable[r] \in Nat \ {0, 1}
    BY <1>1, RingFields
<1>3. CASE h.index = i /\ h.cycle = y /\ i < Usable[r]
    <2>1. h.index # Usable[r]
        BY <1>2, <1>3
    <2>2. Position(r) = h
        BY <1>1, <2>1 DEF Position
    <2> QED BY <1>1, <1>2, <1>3, <2>2
<1>4. CASE h.index = Usable[r] /\ h.cycle = Flip(y) /\ i = 0 /\ ring[r][Usable[r]].cycle = h.cycle
    <2>1. (~h.cycle) = y
        BY <1>4, Zenon DEF Flip
    <2>2. Position(r) = [h EXCEPT !.index = 0, !.cycle = ~@]
        BY <1>1, <1>4 DEF Position
    <2>3. [h EXCEPT !.index = 0, !.cycle = ~@] = [h EXCEPT !.index = 0, !.cycle = y]
        BY ONLY <2>1, Zenon
    <2>4. [h EXCEPT !.index = 0, !.cycle = y] = [index |-> 0, cycle |-> y, state |-> h.state, ran |-> h.ran]
        <3>1. h = [index |-> h.index, cycle |-> h.cycle, state |-> h.state, ran |-> h.ran]
            BY <1>2
        <3>2. PICK g : g = [h EXCEPT !.index = 0, !.cycle = y]
            OBVIOUS
        <3>3. g = [index |-> g.index, cycle |-> g.cycle, state |-> g.state, ran |-> g.ran]
            BY ONLY <3>1, <3>2
        <3>4. g.index = 0 /\ g.cycle = y /\ g.state = h.state /\ g.ran = h.ran
            BY ONLY <3>1, <3>2
        <3> QED BY ONLY <3>2, <3>3, <3>4
    <2>5. Position(r) = [index |-> 0, cycle |-> y, state |-> h.state, ran |-> h.ran]
        BY ONLY <2>2, <2>3, <2>4, Zenon
    <2> QED BY <1>1, <1>2, <1>4, <2>5
<1> QED BY <1>1, <1>3, <1>4 DEF Stands

\* The same in the next state.
StandsGives(r) == RingTypes => \A i \in Nat, y \in BOOLEAN : Stands(r, i, y) =>
    Position(r) = [index |-> i, cycle |-> y, state |-> hw[r].state, ran |-> hw[r].ran] /\ i < Usable[r]

LEMMA StandsNext == ASSUME NEW r \in Rings PROVE StandsGives(r) /\ StandsGives(r)'
<1>1. StandsGives(r)
    BY StandsPosition DEF StandsGives
<1> QED BY <1>1, PTL

\* A ring that the controller has caught up with offers it nothing.
LEMMA QuietOffersNothing ==
    ASSUME RingTypes, NEW r \in Rings, RingShape(r), Settled(r)
    PROVE  ~CanExecute(r)
<1>1. CASE hw[r].state # "running"
    BY <1>1 DEF CanExecute
<1>2. CASE Quiet(r)
    <2>1. cursor[r].index \in Nat /\ cursor[r].cycle \in BOOLEAN /\ Usable[r] \in Nat
        BY RingFields
    <2>2. Position(r).index = cursor[r].index /\ Position(r).cycle = cursor[r].cycle
        BY <1>2, <2>1, StandsPosition DEF Quiet
    <2>3. ring[r][cursor[r].index].cycle = Flip(cursor[r].cycle)
        BY <2>1 DEF RingShape
    <2> QED BY <2>1, <2>2, <2>3, FlipFacts DEF CanExecute, Offered
<1> QED BY <1>1, <1>2 DEF Settled

\* Nothing changes on a ring that nobody touches.
LEMMA RingUntouched ==
    ASSUME NEW r, ring'[r] = ring[r], cursor'[r] = cursor[r], hw'[r] = hw[r]
    PROVE  /\ \A i, y : Stands(r, i, y)' <=> Stands(r, i, y)
           /\ Quiet(r)' <=> Quiet(r)
           /\ Settled(r)' <=> Settled(r)
           /\ Ready(r)' <=> Ready(r)
           /\ Halts(r)' <=> Halts(r)
           /\ \A p : Loaded(r, p)' <=> Loaded(r, p)
           /\ submitted \in Nat /\ submitted' \in Nat /\ submitted <= submitted' /\ hw[r].ran \in Nat
                  => (RingShape(r) => RingShape(r)')
<1>1. \A i, y : Stands(r, i, y)' <=> Stands(r, i, y)
    BY DEF Stands
<1>2. Quiet(r)' <=> Quiet(r)
    BY DEF Quiet, Stands
<1>3. \A p, i, y : LoadedAt(r, p, i, y)' <=> LoadedAt(r, p, i, y)
    BY <1>1 DEF LoadedAt
<1>4. \A p : Loaded(r, p)' <=> Loaded(r, p)
    BY <1>3 DEF Loaded
<1>5. submitted \in Nat /\ submitted' \in Nat /\ submitted <= submitted' /\ hw[r].ran \in Nat
          => (RingShape(r) => RingShape(r)')
    BY DEF RingShape
<1> QED BY <1>1, <1>2, <1>4, <1>5 DEF Settled, Ready, Halts

LEMMA WithTdEntries ==
    ASSUME RingTypes, NEW r \in Rings, RingShape(r), NEW length \in Nat \ {0}, CanReserve(r, length), NEW what
    PROVE  LET T == WithTd(r, length, what)
               c == cursor[r]
           IN  /\ \A i \in 0..Usable[r] - 1 : i < c.index \/ i >= c.index + length => T[i] = ring[r][i]
               /\ \A i \in 0..Usable[r] - 1 : i >= c.index /\ i < c.index + length =>
                      T[i] = [cycle |-> c.cycle, td |-> submitted + 1, length |-> length, what |-> what]
               /\ c.index + length < Usable[r] => T[Usable[r]] = ring[r][Usable[r]]
               /\ c.index + length = Usable[r] => T[Usable[r]].cycle = c.cycle
<1> DEFINE c == cursor[r]
           T == WithTd(r, length, what)
           td == [cycle |-> c.cycle, td |-> submitted + 1, length |-> length, what |-> what]
           link == [NoTrb EXCEPT !.cycle = c.cycle]
<1>1. c.index \in Nat /\ Usable[r] \in Nat \ {0, 1} /\ c.index + length <= Usable[r] /\ c.index < Usable[r]
    BY RingFields DEF CanReserve, RingShape
<1>2. ASSUME NEW i \in 0..Usable[r]
      PROVE  /\ i \in c.index .. c.index + length - 1 => T[i] = td
             /\ i \notin c.index .. c.index + length - 1 /\ i = Usable[r] /\ ReachesLink(r, length) => T[i] = link
             /\ i \notin c.index .. c.index + length - 1 /\ ~(i = Usable[r] /\ ReachesLink(r, length)) => T[i] = ring[r][i]
    <2>1. T[i] = CASE i \in c.index .. c.index + length - 1 -> td
                   [] i = Usable[r] /\ ReachesLink(r, length) -> link
                   [] OTHER -> ring[r][i]
        BY <1>2, Zenon DEF WithTd
    <2>2. i = Usable[r] => i \notin c.index .. c.index + length - 1
        BY <1>1
    <2> HIDE DEF T, td, link
    <2> QED BY <2>1, <2>2, Zenon
<1>3. link.cycle = c.cycle
    BY DEF NoTrb
<1>4. \A i \in 0..Usable[r] : i \in c.index .. c.index + length - 1 <=> i >= c.index /\ i < c.index + length
    BY <1>1
<1>5. Usable[r] \in 0..Usable[r] /\ Usable[r] \notin c.index .. c.index + length - 1
      /\ \A i \in 0..Usable[r] - 1 : i \in 0..Usable[r] /\ i # Usable[r]
    BY <1>1
<1>6. ReachesLink(r, length) <=> c.index + length = Usable[r]
    BY DEF ReachesLink
<1> HIDE DEF T, link, td
<1>7. /\ \A i \in 0..Usable[r] - 1 : i < c.index \/ i >= c.index + length => T[i] = ring[r][i]
      /\ \A i \in 0..Usable[r] - 1 : i >= c.index /\ i < c.index + length => T[i] = td
      /\ c.index + length < Usable[r] => T[Usable[r]] = ring[r][Usable[r]]
      /\ c.index + length = Usable[r] => T[Usable[r]].cycle = c.cycle
    <2>1. ASSUME NEW i \in 0..Usable[r] - 1, i < c.index \/ i >= c.index + length PROVE T[i] = ring[r][i]
        BY <1>1, <1>2, <1>4, <1>5, <2>1
    <2>2. ASSUME NEW i \in 0..Usable[r] - 1, i >= c.index, i < c.index + length PROVE T[i] = td
        BY <1>1, <1>2, <1>4, <1>5, <2>2
    <2>3. ASSUME c.index + length < Usable[r] PROVE T[Usable[r]] = ring[r][Usable[r]]
        BY <1>1, <1>2, <1>5, <1>6, <2>3
    <2>4. ASSUME c.index + length = Usable[r] PROVE T[Usable[r]].cycle = c.cycle
        BY <1>1, <1>2, <1>3, <1>5, <1>6, <2>4
    <2> QED BY <2>1, <2>2, <2>3, <2>4
<1> QED BY <1>7 DEF T, td

\* A TD enqueued where the controller waits is the only one it is offered.
LEMMA EnqueueLoads ==
    ASSUME RingTypes, NEW r \in Rings, RingShape(r), NEW length \in Nat \ {0}, CanReserve(r, length), NEW what,
           length < Usable[r], Ready(r), Enqueue(r, length, what),
           NEW p, p.owner = r, p.code = "none", p.td = submitted + 1, p.index = cursor[r].index + length - 1
    PROVE  /\ RingTypes' /\ RingShape(r)' /\ Loaded(r, p)'
           /\ \A s \in Rings \ {r} : ring'[s] = ring[s] /\ cursor'[s] = cursor[s] /\ hw'[s] = hw[s]
           /\ submitted' = submitted + 1
           /\ \E i \in 0..Usable[r] - 1 : Position(r)'.index = i /\ Offered(r)'.what = what
<1>1. PICK i, y, U : i = cursor[r].index /\ y = cursor[r].cycle /\ U = Usable[r]
    OBVIOUS
<1>2. PICK h : h = hw[r]
    OBVIOUS
<1>3. /\ i \in Nat /\ y \in BOOLEAN /\ U \in Nat \ {0, 1} /\ i < U /\ i + length <= U
      /\ h = [index |-> h.index, cycle |-> h.cycle, state |-> h.state, ran |-> h.ran]
      /\ h.index \in Nat /\ h.cycle \in BOOLEAN /\ h.ran \in Nat /\ h.state \in {"running", "stopped", "halted"}
      /\ h.ran <= submitted /\ submitted \in Nat
      /\ cursor[r] = [index |-> i, cycle |-> y]
    BY <1>1, <1>2, RingFields DEF CanReserve, RingShape, RingTypes
<1>4. ring = [s \in Rings |-> ring[s]] /\ cursor = [s \in Rings |-> cursor[s]] /\ hw = [s \in Rings |-> hw[s]]
    BY DEF RingTypes
<1>5. PICK T : T = WithTd(r, length, what)
    OBVIOUS
<1>6. /\ ring' = [ring EXCEPT ![r] = T]
      /\ cursor' = [cursor EXCEPT ![r] = Reserved(r, length)]
      /\ hw' = [hw EXCEPT ![r].state = IF @ = "stopped" THEN "running" ELSE @]
      /\ submitted' = submitted + 1
    BY <1>5 DEF Enqueue, Rung
<1>7. ring' = [s \in Rings |-> ring'[s]] /\ ring'[r] = T /\ \A s \in Rings \ {r} : ring'[s] = ring[s]
    BY <1>4, <1>6
<1>8. /\ cursor' = [s \in Rings |-> cursor'[s]] /\ cursor'[r] = Reserved(r, length)
      /\ \A s \in Rings \ {r} : cursor'[s] = cursor[s]
    BY <1>4, <1>6
<1>9. /\ hw' = [s \in Rings |-> hw'[s]]
      /\ hw'[r] = [h EXCEPT !.state = IF @ = "stopped" THEN "running" ELSE @]
      /\ \A s \in Rings \ {r} : hw'[s] = hw[s]
    BY <1>2, <1>4, <1>6
<1>10. hw'[r] = [index |-> h.index, cycle |-> h.cycle, state |-> "running", ran |-> h.ran]
    <2>1. h.state # "halted"
        BY <1>2 DEF Ready
    <2>2. (IF h.state = "stopped" THEN "running" ELSE h.state) = "running"
        BY <1>3, <2>1
    <2>3. [h EXCEPT !.state = IF @ = "stopped" THEN "running" ELSE @]
            = [index |-> h.index, cycle |-> h.cycle, state |-> IF h.state = "stopped" THEN "running" ELSE h.state, ran |-> h.ran]
        BY ONLY <1>3
    <2> QED BY <1>9, <2>2, <2>3
<1>11. /\ i + length < U => cursor'[r] = [index |-> i + length, cycle |-> y]
       /\ i + length = U => cursor'[r] = [index |-> 0, cycle |-> Flip(y)]
    <2>1. ReachesLink(r, length) <=> i + length = U
        BY <1>1 DEF ReachesLink
    <2>2. PICK n : n = i + length
        OBVIOUS
    <2>3. [cursor[r] EXCEPT !.index = @ + length] = [index |-> n, cycle |-> y]
        BY <1>3, <2>2
    <2> QED BY <1>1, <1>3, <1>8, <2>1, <2>2, <2>3 DEF Reserved, Flip
<1>12. /\ \A k \in 0..U - 1 : k < i \/ k >= i + length => T[k] = ring[r][k]
       /\ \A k \in 0..U - 1 : k >= i /\ k < i + length =>
              T[k] = [cycle |-> y, td |-> submitted + 1, length |-> length, what |-> what]
       /\ i + length < U => T[U] = ring[r][U]
       /\ i + length = U => T[U].cycle = y
    <2>1. /\ \A k \in 0..Usable[r] - 1 : k < cursor[r].index \/ k >= cursor[r].index + length =>
                 WithTd(r, length, what)[k] = ring[r][k]
          /\ \A k \in 0..Usable[r] - 1 : k >= cursor[r].index /\ k < cursor[r].index + length =>
                 WithTd(r, length, what)[k] = [cycle |-> cursor[r].cycle, td |-> submitted + 1, length |-> length, what |-> what]
          /\ cursor[r].index + length < Usable[r] => WithTd(r, length, what)[Usable[r]] = ring[r][Usable[r]]
          /\ cursor[r].index + length = Usable[r] => WithTd(r, length, what)[Usable[r]].cycle = cursor[r].cycle
        BY WithTdEntries
    <2> QED BY ONLY <1>1, <1>5, <2>1
<1>13. RingTypes'
    <2>1. cursor'[r] \in [index : Nat, cycle : BOOLEAN]
        BY <1>3, <1>11, FlipFacts
    <2>2. hw'[r] \in [index : Nat, cycle : BOOLEAN, state : {"running", "stopped", "halted"}, ran : Nat]
        BY <1>3, <1>10
    <2> QED BY <1>3, <1>6, <1>7, <1>8, <1>9, <2>1, <2>2 DEF RingTypes
<1>14. RingShape(r)'
    <2>1. \A k \in 0..U - 1 : /\ k < i => ring[r][k].cycle = y
                              /\ k >= i => ring[r][k].cycle = Flip(y)
        BY <1>1 DEF RingShape
    <2>2. \A k \in 0..U - 1 : /\ k < i + length => T[k].cycle = y
                              /\ k >= i + length => T[k].cycle = Flip(y)
        BY <1>3, <1>12, <2>1
    <2>3. hw'[r].ran <= submitted'
        BY <1>3, <1>6, <1>10
    <2>4. CASE i + length < U
        <3>1. cursor'[r].index = i + length /\ cursor'[r].cycle = y
            BY <1>11, <2>4
        <3> QED BY <1>1, <1>3, <1>7, <2>2, <2>3, <2>4, <3>1 DEF RingShape
    <2>5. CASE i + length = U
        <3>1. cursor'[r].index = 0 /\ cursor'[r].cycle = Flip(y) /\ Flip(Flip(y)) = y
            BY <1>3, <1>11, <2>5, FlipFacts
        <3> QED BY <1>1, <1>3, <1>7, <2>2, <2>3, <2>5, <3>1 DEF RingShape
    <2>6. i + length < U \/ i + length = U
        <3>1. i \in Nat /\ U \in Nat /\ length \in Nat /\ i + length <= U
            BY <1>3
        <3> QED BY ONLY <3>1
    <2> QED BY <2>4, <2>5, <2>6
<1>15. Stands(r, i, y)'
    <2>1. Stands(r, i, y)
        BY <1>1 DEF Ready, Quiet
    <2>2. hw'[r].index = h.index /\ hw'[r].cycle = h.cycle
        BY <1>10
    <2>3. CASE h.index = i /\ h.cycle = y /\ i < U
        BY <1>1, <2>2, <2>3 DEF Stands
    <2>4. CASE h.index = U /\ h.cycle = Flip(y) /\ i = 0 /\ ring[r][U].cycle = h.cycle
        <3>1. T[U] = ring[r][U]
            BY <1>1, <1>3, <1>12, <2>4
        <3> QED BY <1>1, <1>7, <2>2, <2>4, <3>1 DEF Stands
    <2> QED BY <1>1, <1>2, <2>1, <2>3, <2>4 DEF Stands
<1>16. ring'[r][i] = [cycle |-> y, td |-> submitted + 1, length |-> length, what |-> what]
    BY <1>3, <1>7, <1>12
<1>17. i \in 0..Usable[r] - 1
    BY <1>1, <1>3
<1>18. LoadedAt(r, p, i, y)'
    <2>1. /\ i + length < U => cursor'[r].index = i + length /\ cursor'[r].cycle = y
          /\ i + length = U => cursor'[r].index = 0 /\ cursor'[r].cycle = Flip(y) /\ ring'[r][U].cycle = y
        BY <1>7, <1>11, <1>12
    <2>2. ring'[r][i].cycle = y /\ ring'[r][i].length = length /\ ring'[r][i].td = p.td /\ p.index = i + length - 1
        BY <1>1, <1>16
    <2> QED BY <1>1, <1>3, <1>15, <2>1, <2>2 DEF LoadedAt
<1>19. Loaded(r, p)'
    <2>1. hw'[r].state = "running" /\ hw'[r].ran < p.td
        BY <1>3, <1>10
    <2> QED BY <1>3, <1>17, <1>18, <2>1 DEF Loaded
<1>20. Position(r)'.index = i /\ Offered(r)'.what = what
    <2>1. Position(r)' = [index |-> i, cycle |-> y, state |-> hw[r].state, ran |-> hw[r].ran]'
        BY <1>3, <1>13, <1>15, StandsNext DEF StandsGives
    <2> QED BY <1>16, <2>1 DEF Offered
<1> QED BY <1>6, <1>7, <1>8, <1>9, <1>13, <1>14, <1>17, <1>19, <1>20

\* What executing the TD of p leaves behind: the ring is caught up with, or
\* the endpoint halted on it.
LEMMA ExecuteRetires ==
    ASSUME RingTypes, NEW r \in Rings, RingShape(r), NEW p, p.td \in Nat, p.td <= submitted, Loaded(r, p), NEW code,
           hw'[r] = Retired(r, code), ring'[r] = ring[r], cursor'[r] = cursor[r], submitted' = submitted
    PROVE  /\ hw'[r] \in [index : Nat, cycle : BOOLEAN, state : {"running", "stopped", "halted"}, ran : Nat]
           /\ RingShape(r)'
           /\ Halts(r)' /\ Settled(r)' /\ (code # "stall" => Ready(r)')
           /\ Offered(r).td = p.td /\ Position(r).index + Offered(r).length - 1 = p.index
<1>1. PICK i \in 0..Usable[r] - 1, y \in BOOLEAN : LoadedAt(r, p, i, y)
    BY DEF Loaded
<1>2. PICK t, U, c, n : t = ring[r][i] /\ U = Usable[r] /\ c = cursor[r] /\ n = i + t.length
    OBVIOUS
<1>3. PICK st, rn : st = hw[r].state /\ rn = hw[r].ran
    OBVIOUS
<1>4. /\ i \in Nat /\ U \in Nat /\ rn \in Nat /\ t.length \in Nat /\ n \in Nat
      /\ c.index \in Nat /\ c.cycle \in BOOLEAN
    <2>1. /\ Usable[r] \in Nat /\ hw[r].ran \in Nat /\ cursor[r].index \in Nat /\ cursor[r].cycle \in BOOLEAN
        BY RingFields
    <2>2. ring[r][i].length \in Nat
        BY <1>1 DEF LoadedAt
    <2> QED BY ONLY <1>2, <1>3, <2>1, <2>2
<1>5. st = "running"
    BY <1>3 DEF Loaded
<1>6. Position(r) = [index |-> i, cycle |-> y, state |-> "running", ran |-> rn]
    BY <1>1, <1>3, <1>4, <1>5, StandsPosition, ZenonT(60) DEF LoadedAt
<1>7. Offered(r) = t
    BY <1>2, <1>6 DEF Offered
<1>8. /\ t.td = p.td /\ p.index = n - 1 /\ t.cycle = y
      /\ \/ n < U /\ c.index = n /\ c.cycle = y
         \/ n = U /\ c.index = 0 /\ c.cycle = Flip(y) /\ ring[r][U].cycle = y
    <2>1. /\ ring[r][i].td = p.td /\ p.index = i + ring[r][i].length - 1 /\ ring[r][i].cycle = y
          /\ \/ /\ i + ring[r][i].length < Usable[r]
                /\ cursor[r].index = i + ring[r][i].length /\ cursor[r].cycle = y
             \/ /\ i + ring[r][i].length = Usable[r]
                /\ cursor[r].index = 0 /\ cursor[r].cycle = Flip(y)
                /\ ring[r][Usable[r]].cycle = y
        BY <1>1, Zenon DEF LoadedAt
    <2>2. ring[r][i].length = t.length /\ i + ring[r][i].length = n /\ cursor[r] = c /\ Usable[r] = U /\ ring[r][i] = t
        BY ONLY <1>2
    <2>3. t.td = p.td /\ t.cycle = y
        BY ONLY <2>1, <2>2
    <2>5. p.index = n - 1
        BY ONLY <1>4, <2>1, <2>2
    <2>4. \/ n < U /\ c.index = n /\ c.cycle = y
          \/ n = U /\ c.index = 0 /\ c.cycle = Flip(y) /\ ring[r][U].cycle = y
        BY ONLY <2>1, <2>2
    <2> QED BY <2>3, <2>4, <2>5
<1>9. CASE code = "stall"
    <2>1. hw'[r] = [index |-> i, cycle |-> y, state |-> "halted", ran |-> p.td]
        <3>1. Retired(r, code) = [Position(r) EXCEPT !.state = "halted", !.ran = t.td]
            BY <1>7, <1>9 DEF Retired
        <3>2. PICK g : g = [Position(r) EXCEPT !.state = "halted", !.ran = t.td]
            OBVIOUS
        <3>3. g = [index |-> g.index, cycle |-> g.cycle, state |-> g.state, ran |-> g.ran]
            BY ONLY <1>6, <3>2
        <3>4. g.index = i /\ g.cycle = y /\ g.state = "halted" /\ g.ran = t.td
            BY ONLY <1>6, <3>2
        <3> QED BY <1>8, <3>1, <3>2, <3>3, <3>4
    <2>2. Halts(r)' /\ Settled(r)'
        BY <2>1 DEF Halts, Settled
    <2>3. RingShape(r)'
        BY <2>1 DEF RingShape
    <2>4. Offered(r).td = p.td /\ Position(r).index + Offered(r).length - 1 = p.index
        <3>1. Position(r).index = i /\ Offered(r).length = t.length /\ Offered(r).td = t.td
            BY ONLY <1>6, <1>7
        <3> QED BY ONLY <1>2, <1>4, <1>8, <3>1
    <2>5. hw'[r] \in [index : Nat, cycle : BOOLEAN, state : {"running", "stopped", "halted"}, ran : Nat]
        BY <1>4, <2>1
    <2> QED BY <1>9, <2>2, <2>3, <2>4, <2>5
<1>10. CASE code # "stall"
    <2>1. Retired(r, code) = [Position(r) EXCEPT !.index = @ + Offered(r).length, !.ran = Offered(r).td]
        BY <1>10 DEF Retired
    <2>2. hw'[r] = [index |-> n, cycle |-> y, state |-> "running", ran |-> p.td]
        <3>1. [Position(r) EXCEPT !.index = @ + Offered(r).length, !.ran = Offered(r).td]
                  = [Position(r) EXCEPT !.index = n, !.ran = p.td]
            <4>1. Position(r).index + Offered(r).length = n /\ Offered(r).td = p.td
                BY ONLY <1>2, <1>6, <1>7, <1>8
            <4> QED BY ONLY <4>1, Zenon
        <3>2. PICK g : g = [Position(r) EXCEPT !.index = n, !.ran = p.td]
            OBVIOUS
        <3>3. g = [index |-> g.index, cycle |-> g.cycle, state |-> g.state, ran |-> g.ran]
            BY ONLY <1>6, <3>2
        <3>4. g.index = n /\ g.cycle = y /\ g.state = "running" /\ g.ran = p.td
            BY ONLY <1>6, <3>2
        <3>5. hw'[r] = g
            BY ONLY hw'[r] = Retired(r, code), <2>1, <3>1, <3>2, Zenon
        <3> QED BY ONLY <3>3, <3>4, <3>5
    <2>3. Stands(r, c.index, c.cycle)'
        <3>1. hw'[r].index = n /\ hw'[r].cycle = y /\ ring'[r][U] = ring[r][U]
            BY <2>2
        <3>2. CASE n < U
            <4>1. c.index = n /\ c.cycle = y
                BY ONLY <1>4, <1>8, <3>2
            <4> QED BY <1>2, <3>1, <3>2, <4>1 DEF Stands
        <3>3. CASE n = U
            <4>1. c.index = 0 /\ Flip(c.cycle) = y /\ ring[r][U].cycle = y
                BY <1>4, <1>8, <3>3, FlipFacts
            <4> QED BY <1>2, <3>1, <3>3, <4>1 DEF Stands
        <3> QED BY ONLY <1>8, <3>2, <3>3
    <2>4. Quiet(r)'
        BY <1>2, <2>3 DEF Quiet
    <2>5. RingShape(r)'
        BY <2>2 DEF RingShape
    <2>6. hw'[r].state # "halted"
        BY <2>2
    <2>7. Offered(r).td = p.td /\ Position(r).index + Offered(r).length - 1 = p.index
        <3>1. Position(r).index = i /\ Offered(r).length = t.length /\ Offered(r).td = t.td
            BY ONLY <1>6, <1>7
        <3> QED BY ONLY <1>2, <1>4, <1>8, <3>1
    <2>8. hw'[r] \in [index : Nat, cycle : BOOLEAN, state : {"running", "stopped", "halted"}, ran : Nat]
        BY <1>4, <2>2
    <2> QED BY <2>4, <2>5, <2>6, <2>7, <2>8 DEF Halts, Settled, Ready
<1> QED BY <1>9, <1>10

-----------------------------------------------------------------------------
(* The event ring.                                                         *)

\* The entries before the place where the controller posts next have its
\* cycle, those after it the other one, and the driver follows behind.
EventShape ==
    /\ eventRing = [j \in 0..EventTrbs - 1 |-> eventRing[j]]
    /\ hwEvent \in [index : 0..EventTrbs - 1, cycle : BOOLEAN]
    /\ dequeue \in [index : 0..EventTrbs - 1, cycle : BOOLEAN]
    /\ dequeue.index <= hwEvent.index => dequeue.cycle = hwEvent.cycle
    /\ dequeue.index > hwEvent.index => dequeue.cycle = Flip(hwEvent.cycle)
    /\ \A j \in 0..EventTrbs - 1 :
           /\ j < hwEvent.index => eventRing[j].cycle = hwEvent.cycle
           /\ j >= hwEvent.index => eventRing[j].cycle = Flip(hwEvent.cycle)

\* Posted and not yet dispatched.
Unread(j) ==
    IF dequeue.index <= hwEvent.index THEN dequeue.index <= j /\ j < hwEvent.index
                                      ELSE dequeue.index <= j \/ j < hwEvent.index

UnreadOf(rings) == {j \in 0..EventTrbs - 1 : Unread(j) /\ eventRing[j].ring \in rings}

\* The place after i, of the controller or of the driver.
Moved(i, y) == IF i + 1 = EventTrbs THEN [index |-> 0, cycle |-> Flip(y)] ELSE [index |-> i + 1, cycle |-> y]

LEMMA Moves ==
    ASSUME NEW w, w \in [index : 0..EventTrbs - 1, cycle : BOOLEAN]
    PROVE  /\ w.index \in 0..EventTrbs - 1 /\ w.cycle \in BOOLEAN
           /\ (IF w.index + 1 = EventTrbs THEN [index |-> 0, cycle |-> ~w.cycle] ELSE [w EXCEPT !.index = @ + 1])
                  = Moved(w.index, w.cycle)
           /\ Moved(w.index, w.cycle) \in [index : 0..EventTrbs - 1, cycle : BOOLEAN]
           /\ w.index + 1 = EventTrbs => /\ Moved(w.index, w.cycle).index = 0
                                         /\ Moved(w.index, w.cycle).cycle = Flip(w.cycle)
           /\ w.index + 1 # EventTrbs => /\ Moved(w.index, w.cycle).index = w.index + 1
                                         /\ Moved(w.index, w.cycle).cycle = w.cycle
<1>1. w.index \in 0..EventTrbs - 1 /\ w.cycle \in BOOLEAN /\ w = [index |-> w.index, cycle |-> w.cycle]
    OBVIOUS
<1>2. EventTrbs \in Nat \ {0, 1}
    BY TransportAssumption
<1>3. PICK n : n = w.index + 1
    OBVIOUS
<1>4. [w EXCEPT !.index = @ + 1] = [index |-> n, cycle |-> w.cycle]
    BY <1>1, <1>3
<1>5. (IF w.index + 1 = EventTrbs THEN [index |-> 0, cycle |-> ~w.cycle] ELSE [w EXCEPT !.index = @ + 1])
          = Moved(w.index, w.cycle)
    BY <1>3, <1>4, Zenon DEF Moved, Flip
<1>6. /\ w.index + 1 = EventTrbs => Moved(w.index, w.cycle) = [index |-> 0, cycle |-> Flip(w.cycle)]
      /\ w.index + 1 # EventTrbs => Moved(w.index, w.cycle) = [index |-> n, cycle |-> w.cycle]
    BY <1>3, Zenon DEF Moved
<1>7. n # EventTrbs => n \in 0..EventTrbs - 1
    BY <1>1, <1>2, <1>3
<1>8. 0 \in 0..EventTrbs - 1 /\ Flip(w.cycle) \in BOOLEAN
    BY <1>1, <1>2, FlipFacts
<1>9. Moved(w.index, w.cycle) \in [index : 0..EventTrbs - 1, cycle : BOOLEAN]
    BY <1>1, <1>3, <1>6, <1>7, <1>8
<1> QED BY <1>1, <1>3, <1>5, <1>6, <1>9

LEMMA EventFields ==
    ASSUME EventShape
    PROVE  /\ hwEvent.index \in 0..EventTrbs - 1 /\ hwEvent.cycle \in BOOLEAN
           /\ dequeue.index \in 0..EventTrbs - 1 /\ dequeue.cycle \in BOOLEAN
           /\ EventTrbs \in Nat \ {0, 1}
BY TransportAssumption DEF EventShape

\* The driver sees an event exactly when one is unread.
LEMMA EventSeen == ASSUME EventShape PROVE HasEvent <=> Unread(dequeue.index)
<1>1. PICK d, i : d = dequeue.index /\ i = hwEvent.index
    OBVIOUS
<1>2. /\ d \in 0..EventTrbs - 1 /\ i \in 0..EventTrbs - 1 /\ EventTrbs \in Nat
      /\ hwEvent.cycle \in BOOLEAN /\ Flip(hwEvent.cycle) # hwEvent.cycle
    BY <1>1, EventFields, FlipFacts
<1>3. HasEvent <=> eventRing[d].cycle = dequeue.cycle
    BY <1>1 DEF HasEvent
<1>4. Unread(d) <=> d # i
    BY <1>1, <1>2 DEF Unread
<1>5. CASE d < i
    BY <1>1, <1>2, <1>3, <1>4, <1>5 DEF EventShape
<1>6. CASE d = i
    BY <1>1, <1>2, <1>3, <1>4, <1>6 DEF EventShape
<1>7. CASE d > i
    BY <1>1, <1>2, <1>3, <1>4, <1>7 DEF EventShape
<1> QED BY <1>1, <1>2, <1>5, <1>6, <1>7

\* A posted event is unread and overwrites none that is.
LEMMA EventPosted ==
    ASSUME EventShape, EventRoom, NEW e, e.cycle = hwEvent.cycle,
           eventRing' = [eventRing EXCEPT ![hwEvent.index] = e], dequeue' = dequeue,
           hwEvent' = IF hwEvent.index + 1 = EventTrbs THEN [index |-> 0, cycle |-> ~hwEvent.cycle]
                                                       ELSE [hwEvent EXCEPT !.index = @ + 1]
    PROVE  /\ EventShape'
           /\ ~Unread(hwEvent.index) /\ hwEvent.index \in 0..EventTrbs - 1 /\ eventRing'[hwEvent.index] = e
           /\ \A j \in 0..EventTrbs - 1 :
                  /\ Unread(j)' <=> (Unread(j) \/ j = hwEvent.index)
                  /\ j # hwEvent.index => eventRing'[j] = eventRing[j]
<1>1. PICK d, z, i, y, E : d = dequeue.index /\ z = dequeue.cycle /\ i = hwEvent.index /\ y = hwEvent.cycle /\ E = EventTrbs
    OBVIOUS
<1>2. i \in 0..E - 1 /\ y \in BOOLEAN /\ d \in 0..E - 1 /\ z \in BOOLEAN /\ E \in Nat \ {0, 1}
    BY <1>1, EventFields
<1>3. /\ hwEvent' \in [index : 0..EventTrbs - 1, cycle : BOOLEAN]
      /\ i + 1 = E => hwEvent'.index = 0 /\ hwEvent'.cycle = Flip(y)
      /\ i + 1 # E => hwEvent'.index = i + 1 /\ hwEvent'.cycle = y
    <2>1. hwEvent \in [index : 0..EventTrbs - 1, cycle : BOOLEAN]
        BY DEF EventShape
    <2>2. hwEvent' = Moved(hwEvent.index, hwEvent.cycle)
        BY <2>1, Moves
    <2> QED BY <1>1, <2>1, <2>2, Moves
<1>4. eventRing' = [j \in 0..E - 1 |-> eventRing'[j]] /\ eventRing'[i] = e /\ \A j \in 0..E - 1 : j # i => eventRing'[j] = eventRing[j]
    BY <1>1, <1>2 DEF EventShape
<1>5. (d <= i => z = y) /\ (d > i => z = Flip(y))
    BY <1>1 DEF EventShape
<1>6. \A j \in 0..E - 1 : (j < i => eventRing[j].cycle = y) /\ (j >= i => eventRing[j].cycle = Flip(y))
    BY <1>1 DEF EventShape
<1>7. dequeue'.index = d /\ dequeue'.cycle = z /\ dequeue' \in [index : 0..EventTrbs - 1, cycle : BOOLEAN]
    BY <1>1 DEF EventShape
<1>8. (i + 1 = E => d # 0) /\ (i + 1 # E => d # i + 1)
    <2>1. (i + 1) % E # d
        BY <1>1 DEF EventRoom
    <2>2. E % E = 0 /\ (i + 1 # E => (i + 1) % E = i + 1)
        BY <1>2
    <2> QED BY <2>1, <2>2
<1>9. Flip(Flip(y)) = y
    BY <1>2, FlipFacts
<1>10. \A j \in 0..E - 1 : Unread(j) <=> IF d <= i THEN d <= j /\ j < i ELSE d <= j \/ j < i
    BY <1>1 DEF Unread
<1>11. CASE i + 1 = E
    <2>1. \A j \in 0..E - 1 : Unread(j)' <=> IF d <= 0 THEN d <= j /\ j < 0 ELSE d <= j \/ j < 0
        BY <1>3, <1>7, <1>11 DEF Unread
    <2>2. d <= i /\ d > 0
        BY <1>2, <1>8, <1>11
    <2>3. \A j \in 0..E - 1 : Unread(j)' <=> (Unread(j) \/ j = i)
        BY <1>2, <1>10, <1>11, <2>1, <2>2
    <2>4. z = Flip(Flip(y))
        BY <1>5, <1>9, <2>2
    <2>5. \A j \in 0..E - 1 : eventRing'[j].cycle = Flip(Flip(y))
        BY <1>1, <1>2, <1>4, <1>6, <1>9, <1>11
    <2>6. EventShape'
        BY <1>1, <1>2, <1>3, <1>4, <1>7, <1>11, <2>2, <2>4, <2>5 DEF EventShape
    <2> QED BY <1>1, <1>2, <1>4, <1>10, <2>3, <2>6
<1>12. CASE i + 1 # E
    <2>1. \A j \in 0..E - 1 : Unread(j)' <=> IF d <= i + 1 THEN d <= j /\ j < i + 1 ELSE d <= j \/ j < i + 1
        BY <1>3, <1>7, <1>12 DEF Unread
    <2>2. d # i + 1
        BY <1>8, <1>12
    <2>3. \A j \in 0..E - 1 : Unread(j)' <=> (Unread(j) \/ j = i)
        BY <1>2, <1>10, <1>12, <2>1, <2>2
    <2>4. (d <= i + 1 => z = y) /\ (d > i + 1 => z = Flip(y))
        BY <1>2, <1>5, <2>2
    <2>5. \A j \in 0..E - 1 : (j < i + 1 => eventRing'[j].cycle = y) /\ (j >= i + 1 => eventRing'[j].cycle = Flip(y))
        BY <1>1, <1>2, <1>4, <1>6
    <2>6. EventShape'
        BY <1>1, <1>2, <1>3, <1>4, <1>7, <1>12, <2>4, <2>5 DEF EventShape
    <2> QED BY <1>1, <1>2, <1>4, <1>10, <2>3, <2>6
<1> QED BY <1>11, <1>12

\* Dispatching takes the first unread event and no other.
LEMMA EventTaken ==
    ASSUME EventShape, HasEvent, eventRing' = eventRing, hwEvent' = hwEvent,
           dequeue' = IF dequeue.index + 1 = EventTrbs THEN [index |-> 0, cycle |-> ~dequeue.cycle]
                                                       ELSE [dequeue EXCEPT !.index = @ + 1]
    PROVE  /\ EventShape'
           /\ \A j \in 0..EventTrbs - 1 : Unread(j)' <=> (Unread(j) /\ j # dequeue.index)
<1>1. PICK d, z, i, y, E : d = dequeue.index /\ z = dequeue.cycle /\ i = hwEvent.index /\ y = hwEvent.cycle /\ E = EventTrbs
    OBVIOUS
<1>2. i \in 0..E - 1 /\ y \in BOOLEAN /\ d \in 0..E - 1 /\ z \in BOOLEAN /\ E \in Nat \ {0, 1}
    BY <1>1, EventFields
<1>3. /\ dequeue' \in [index : 0..EventTrbs - 1, cycle : BOOLEAN]
      /\ d + 1 = E => dequeue'.index = 0 /\ dequeue'.cycle = Flip(z)
      /\ d + 1 # E => dequeue'.index = d + 1 /\ dequeue'.cycle = z
    <2>1. dequeue \in [index : 0..EventTrbs - 1, cycle : BOOLEAN]
        BY DEF EventShape
    <2>2. dequeue' = Moved(dequeue.index, dequeue.cycle)
        BY <2>1, Moves
    <2> QED BY <1>1, <2>1, <2>2, Moves
<1>4. (d <= i => z = y) /\ (d > i => z = Flip(y)) /\ Flip(Flip(y)) = y
    BY <1>1, <1>2, FlipFacts DEF EventShape
<1>5. d # i
    BY <1>1, <1>2, EventSeen DEF Unread
<1>6. hwEvent'.index = i /\ hwEvent'.cycle = y
    BY <1>1
<1>7. \A j \in 0..E - 1 : Unread(j) <=> IF d <= i THEN d <= j /\ j < i ELSE d <= j \/ j < i
    BY <1>1 DEF Unread
<1>8. \A j \in 0..E - 1 : Unread(j)' <=> IF dequeue'.index <= i THEN dequeue'.index <= j /\ j < i
                                                               ELSE dequeue'.index <= j \/ j < i
    BY <1>6 DEF Unread
<1>9. CASE d + 1 = E
    <2>1. dequeue'.index = 0 /\ dequeue'.cycle = y /\ d > i
        BY <1>2, <1>3, <1>4, <1>5, <1>9
    <2>2. \A j \in 0..E - 1 : Unread(j)' <=> (Unread(j) /\ j # d)
        BY <1>2, <1>7, <1>8, <1>9, <2>1
    <2>3. EventShape'
        BY <1>1, <1>2, <1>3, <1>6, <2>1 DEF EventShape
    <2> QED BY <1>1, <2>2, <2>3
<1>10. CASE d + 1 # E
    <2>1. dequeue'.index = d + 1 /\ dequeue'.cycle = z
        BY <1>3, <1>10
    <2>2. \A j \in 0..E - 1 : Unread(j)' <=> (Unread(j) /\ j # d)
        BY <1>2, <1>5, <1>7, <1>8, <1>10, <2>1
    <2>3. (d + 1 <= i => z = y) /\ (d + 1 > i => z = Flip(y))
        BY <1>2, <1>4, <1>5
    <2>4. EventShape'
        BY <1>1, <1>2, <1>3, <1>6, <2>1, <2>3 DEF EventShape
    <2> QED BY <1>1, <2>2, <2>4
<1> QED BY <1>9, <1>10

-----------------------------------------------------------------------------
(* Lanes.                                                                  *)

\* An unread completion is that of the TD that p waits for, and the controller
\* has left that TD or halted on it.
CompletionOK(j, p) ==
    /\ p.owner = eventRing[j].ring /\ p.index = eventRing[j].index /\ p.td = eventRing[j].td /\ p.code = "none"
    /\ eventRing[j].code # "none"
    /\ Halts(eventRing[j].ring)
    /\ eventRing[j].code # "stall" => Ready(eventRing[j].ring)

PendingTypes(p, lane) ==
    /\ p = [owner |-> p.owner, index |-> p.index, code |-> p.code, td |-> p.td, took |-> p.took]
    /\ p.td \in Nat
    /\ p.owner = "none" => p = NotPending
    /\ p.owner # "none" => p.owner \in lane

\* What was completed was completed by its own TD.
PendingOK(p, lane) ==
    /\ PendingTypes(p, lane)
    /\ p.td <= submitted
    /\ p.code # "none" => /\ p.owner \in lane /\ p.took = p.td
                          /\ Halts(p.owner)
                          /\ p.code # "stall" => Ready(p.owner)

LaneInv(lane, p) ==
    /\ PendingOK(p, lane)
    /\ \A r \in lane : Settled(r) \/ (Loaded(r, p) /\ UnreadOf(lane) = {})
    /\ \A j \in UnreadOf(lane) : CompletionOK(j, p)
    /\ \A j, k \in UnreadOf(lane) : j = k

Done(p) == p = NotPending \/ p.code # "none"

LEMMA NotPendingFields ==
    /\ NotPending.owner = "none" /\ NotPending.code = "none" /\ NotPending.td = 0 /\ NotPending.index = 0 /\ NotPending.took = 0
    /\ \A lane : PendingTypes(NotPending, lane)
BY DEF NotPending, PendingTypes

\* When nothing is awaited, nothing is under way.
LEMMA LaneIdle ==
    ASSUME NEW lane, lane \subseteq Rings, NEW p, LaneInv(lane, p), Done(p)
    PROVE  UnreadOf(lane) = {} /\ \A r \in lane : Settled(r)
<1>1. p.code = "none" => p.owner = "none"
    BY NotPendingFields DEF Done
<1>2. "none" \notin Rings
    BY DEF Rings, Endpoints
<1>3. UnreadOf(lane) = {}
    <2>1. ASSUME NEW j \in UnreadOf(lane) PROVE FALSE
        <3>1. CompletionOK(j, p) /\ eventRing[j].ring \in lane
            BY <2>1 DEF LaneInv, UnreadOf
        <3> QED BY <1>1, <1>2, <3>1 DEF CompletionOK
    <2> QED BY <2>1
<1>4. ASSUME NEW r \in lane PROVE Settled(r)
    BY <1>1, <1>2, <1>4 DEF LaneInv, Loaded
<1> QED BY <1>3, <1>4

\* A lane that nobody touches.
LEMMA LaneUntouched ==
    ASSUME NEW lane, NEW p, LaneInv(lane, p),
           \A r \in lane : ring'[r] = ring[r] /\ cursor'[r] = cursor[r] /\ hw'[r] = hw[r],
           UnreadOf(lane)' = UnreadOf(lane), \A j \in UnreadOf(lane) : eventRing'[j] = eventRing[j],
           submitted \in Nat, submitted' \in Nat, submitted <= submitted'
    PROVE  LaneInv(lane, p)'
<1>1. \A r \in lane : /\ Settled(r)' <=> Settled(r)
                      /\ Ready(r)' <=> Ready(r)
                      /\ Halts(r)' <=> Halts(r)
                      /\ Loaded(r, p)' <=> Loaded(r, p)
    BY RingUntouched
<1>2. PendingOK(p, lane)'
    <2>1. p.td <= submitted'
        BY DEF LaneInv, PendingOK, PendingTypes
    <2> QED BY <1>1, <2>1 DEF LaneInv, PendingOK, PendingTypes
<1>3. ASSUME NEW j \in UnreadOf(lane) PROVE CompletionOK(j, p)'
    <2>1. CompletionOK(j, p) /\ eventRing[j].ring \in lane /\ eventRing'[j] = eventRing[j]
        BY <1>3 DEF LaneInv, UnreadOf
    <2> QED BY <1>1, <2>1 DEF CompletionOK
<1>4. \A r \in lane : Settled(r)' \/ (Loaded(r, p)' /\ UnreadOf(lane)' = {})
    BY <1>1 DEF LaneInv
<1>5. \A j, k \in UnreadOf(lane)' : j = k
    BY DEF LaneInv
<1>6. \A j \in UnreadOf(lane)' : CompletionOK(j, p)'
    BY <1>3
<1> QED BY <1>2, <1>4, <1>5, <1>6 DEF LaneInv

\* The waiter forgets a TD that is over.
LEMMA LaneCleared ==
    ASSUME NEW lane, \A r \in lane : Settled(r)', UnreadOf(lane)' = {}, submitted' \in Nat
    PROVE  LaneInv(lane, NotPending)'
<1>1. PendingOK(NotPending, lane)'
    BY NotPendingFields DEF PendingOK, PendingTypes, NotPending
<1> QED BY <1>1 DEF LaneInv

LEMMA LaneSubmitted ==
    ASSUME RingTypes, NEW lane, lane \subseteq Rings, NEW r \in lane, RingShape(r),
           \A s \in lane : Settled(s), UnreadOf(lane)' = {}, Ready(r),
           NEW length \in Nat \ {0}, length < Usable[r], CanReserve(r, length), NEW what, Enqueue(r, length, what),
           NEW q, q = Awaiting(r, length)
    PROVE  /\ RingTypes' /\ RingShape(r)' /\ LaneInv(lane, q)' /\ Loaded(r, q)'
           /\ \A s \in Rings \ {r} : ring'[s] = ring[s] /\ cursor'[s] = cursor[s] /\ hw'[s] = hw[s]
           /\ submitted' = submitted + 1
           /\ Offered(r)'.what = what
           /\ q.owner = r /\ q.code = "none" /\ q # NotPending
<1>1. PICK n, c : n = submitted + 1 /\ c = cursor[r].index + length - 1
    OBVIOUS
<1>2. q = [NotPending EXCEPT !.owner = r, !.index = c, !.td = n]
    BY <1>1 DEF Awaiting
<1>3. q = [owner |-> q.owner, index |-> q.index, code |-> q.code, td |-> q.td, took |-> q.took]
    BY ONLY <1>2 DEF NotPending
<1>4. q.owner = r /\ q.index = c /\ q.code = "none" /\ q.td = n
    BY ONLY <1>2 DEF NotPending
<1>5. r \in Rings /\ r # "none"
    BY DEF Rings, Endpoints
<1>6. /\ RingTypes' /\ RingShape(r)' /\ Loaded(r, q)'
      /\ \A s \in Rings \ {r} : ring'[s] = ring[s] /\ cursor'[s] = cursor[s] /\ hw'[s] = hw[s]
      /\ submitted' = submitted + 1
      /\ Offered(r)'.what = what
    BY <1>1, <1>4, <1>5, EnqueueLoads
<1>7. submitted \in Nat
    BY DEF RingTypes
<1>8. PendingOK(q, lane)'
    <2>1. q.td \in Nat /\ q.td <= submitted'
        BY <1>1, <1>4, <1>6, <1>7
    <2> QED BY <1>3, <1>4, <1>5, <2>1 DEF PendingOK, PendingTypes
<1>9. \A s \in lane \ {r} : Settled(s)'
    BY <1>6, RingUntouched
<1>10. LaneInv(lane, q)'
    BY <1>6, <1>8, <1>9 DEF LaneInv
<1> QED BY <1>4, <1>5, <1>6, <1>10, NotPendingFields

\* An event on a lane is the only one that is added to the unread ones.
LEMMA PostedOn ==
    ASSUME EventShape, EventRoom, NEW e, e.cycle = hwEvent.cycle,
           eventRing' = [eventRing EXCEPT ![hwEvent.index] = e], dequeue' = dequeue,
           hwEvent' = IF hwEvent.index + 1 = EventTrbs THEN [index |-> 0, cycle |-> ~hwEvent.cycle]
                                                       ELSE [hwEvent EXCEPT !.index = @ + 1]
    PROVE  /\ EventShape' /\ eventRing'[hwEvent.index] = e
           /\ \A lane : /\ e.ring \notin lane => UnreadOf(lane)' = UnreadOf(lane)
                        /\ e.ring \in lane => UnreadOf(lane)' = UnreadOf(lane) \cup {hwEvent.index}
                        /\ \A j \in UnreadOf(lane) : eventRing'[j] = eventRing[j]
<1>1. PICK i : i = hwEvent.index
    OBVIOUS
<1>2. /\ EventShape' /\ ~Unread(i) /\ i \in 0..EventTrbs - 1 /\ eventRing'[i] = e
      /\ \A j \in 0..EventTrbs - 1 : /\ Unread(j)' <=> (Unread(j) \/ j = i)
                                     /\ j # i => eventRing'[j] = eventRing[j]
    BY <1>1, EventPosted
<1>3. ASSUME NEW lane
      PROVE  /\ e.ring \notin lane => UnreadOf(lane)' = UnreadOf(lane)
             /\ e.ring \in lane => UnreadOf(lane)' = UnreadOf(lane) \cup {i}
             /\ \A j \in UnreadOf(lane) : eventRing'[j] = eventRing[j]
    <2>1. \A j : j \in UnreadOf(lane) <=> j \in 0..EventTrbs - 1 /\ Unread(j) /\ eventRing[j].ring \in lane
        BY DEF UnreadOf
    <2>2. \A j : j \in UnreadOf(lane)' <=> j \in 0..EventTrbs - 1 /\ Unread(j)' /\ eventRing'[j].ring \in lane
        BY DEF UnreadOf
    <2>3. \A j \in UnreadOf(lane) : j # i
        BY <1>2, <2>1
    <2>4. \A j : j \in UnreadOf(lane)' <=> j \in UnreadOf(lane) \/ (j = i /\ e.ring \in lane)
        BY <1>2, <2>1, <2>2, <2>3
    <2> QED BY <1>2, <2>1, <2>3, <2>4
<1> QED BY <1>1, <1>2, <1>3

\* The controller executes the TD that is awaited, and posts its completion.
LEMMA LaneExecuted ==
    ASSUME RingTypes, NEW lane, lane \subseteq Rings, NEW r \in lane, RingShape(r), EventShape, NEW p, LaneInv(lane, p),
           CanExecute(r), NEW code, code # "none", Post(r, code), dequeue' = dequeue,
           hw'[r] = Retired(r, code), ring'[r] = ring[r], cursor'[r] = cursor[r], submitted' = submitted,
           \A s \in lane \ {r} : ring'[s] = ring[s] /\ cursor'[s] = cursor[s] /\ hw'[s] = hw[s]
    PROVE  /\ hw'[r] \in [index : Nat, cycle : BOOLEAN, state : {"running", "stopped", "halted"}, ran : Nat]
           /\ RingShape(r)' /\ EventShape' /\ LaneInv(lane, p)'
           /\ Loaded(r, p) /\ p.owner = r /\ p.code = "none" /\ UnreadOf(lane) = {}
           /\ Halts(r)' /\ Settled(r)' /\ (code # "stall" => Ready(r)')
           /\ \A s \in lane : Settled(s)'
           /\ UnreadOf(lane)' = {hwEvent.index} /\ eventRing'[hwEvent.index].code = code
           /\ \A other : r \notin other => /\ UnreadOf(other)' = UnreadOf(other)
                                          /\ \A j \in UnreadOf(other) : eventRing'[j] = eventRing[j]
<1>1. r \in Rings
    OBVIOUS
<1>2. ~Settled(r)
    BY <1>1, QuietOffersNothing
<1>3. Loaded(r, p) /\ UnreadOf(lane) = {}
    BY <1>2 DEF LaneInv
<1>4. p.owner = r /\ p.code = "none" /\ p.td \in Nat /\ p.td <= submitted
    BY <1>3 DEF LaneInv, PendingOK, PendingTypes, Loaded
<1>5. /\ hw'[r] \in [index : Nat, cycle : BOOLEAN, state : {"running", "stopped", "halted"}, ran : Nat]
      /\ RingShape(r)'
      /\ Halts(r)' /\ Settled(r)' /\ (code # "stall" => Ready(r)')
      /\ Offered(r).td = p.td /\ Position(r).index + Offered(r).length - 1 = p.index
    BY <1>1, <1>3, <1>4, ExecuteRetires
<1>6. PICK e : e = [cycle |-> hwEvent.cycle, ring |-> r, index |-> Position(r).index + Offered(r).length - 1,
                    code |-> code, td |-> Offered(r).td]
    OBVIOUS
<1>7. e.cycle = hwEvent.cycle /\ e.ring = r /\ e.index = p.index /\ e.code = code /\ e.td = p.td
    BY <1>5, <1>6
<1>8. PICK i : i = hwEvent.index
    OBVIOUS
<1>9. /\ EventShape' /\ eventRing'[i] = e
      /\ \A other : /\ e.ring \notin other => UnreadOf(other)' = UnreadOf(other)
                    /\ e.ring \in other => UnreadOf(other)' = UnreadOf(other) \cup {i}
                    /\ \A j \in UnreadOf(other) : eventRing'[j] = eventRing[j]
    BY <1>6, <1>7, <1>8, PostedOn, ZenonT(60) DEF Post
<1>10. UnreadOf(lane)' = {i}
    BY <1>3, <1>7, <1>9
<1>11. \A s \in lane \ {r} : Settled(s)'
    <2>1. ASSUME NEW s \in lane \ {r} PROVE Settled(s)'
        <3>1. Settled(s) \/ Loaded(s, p)
            BY DEF LaneInv
        <3>2. Settled(s)
            BY <1>4, <3>1 DEF Loaded
        <3> QED BY <3>2, RingUntouched
    <2> QED BY <2>1
<1>12. CompletionOK(i, p)'
    <2>1. Halts(r)' /\ (code # "stall" => Ready(r)')
        BY <1>5
    <2> QED BY <1>4, <1>7, <1>9, <2>1 DEF CompletionOK
<1>13. PendingOK(p, lane)'
    BY <1>4 DEF LaneInv, PendingOK, PendingTypes
<1>14. LaneInv(lane, p)'
    BY <1>5, <1>10, <1>11, <1>12, <1>13 DEF LaneInv
<1> QED BY <1>3, <1>4, <1>5, <1>7, <1>8, <1>9, <1>10, <1>11, <1>14

\* The first unread event leaves its lane, and no other event does.
LEMMA TakenFrom ==
    ASSUME EventShape, HasEvent, eventRing' = eventRing, hwEvent' = hwEvent,
           dequeue' = IF dequeue.index + 1 = EventTrbs THEN [index |-> 0, cycle |-> ~dequeue.cycle]
                                                       ELSE [dequeue EXCEPT !.index = @ + 1]
    PROVE  /\ EventShape'
           /\ \A lane : /\ UnreadOf(lane)' = UnreadOf(lane) \ {dequeue.index}
                        /\ dequeue.index \in UnreadOf(lane) <=> eventRing[dequeue.index].ring \in lane
<1>1. PICK d : d = dequeue.index
    OBVIOUS
<1>2. EventShape' /\ \A j \in 0..EventTrbs - 1 : Unread(j)' <=> (Unread(j) /\ j # d)
    BY <1>1, EventTaken
<1>3. Unread(d) /\ d \in 0..EventTrbs - 1
    BY <1>1, EventSeen, EventFields
<1>4. \A lane, j : j \in UnreadOf(lane) <=> j \in 0..EventTrbs - 1 /\ Unread(j) /\ eventRing[j].ring \in lane
    BY DEF UnreadOf
<1>5. \A lane, j : j \in UnreadOf(lane)' <=> j \in 0..EventTrbs - 1 /\ Unread(j)' /\ eventRing[j].ring \in lane
    BY DEF UnreadOf
<1>6. \A lane : UnreadOf(lane)' = UnreadOf(lane) \ {d}
    BY <1>2, <1>4, <1>5
<1> QED BY <1>1, <1>2, <1>3, <1>4, <1>6

\* The waiter gets the completion of its own TD.
LEMMA LaneDispatched ==
    ASSUME RingTypes, NEW lane, lane \subseteq Rings, NEW p, LaneInv(lane, p), EventShape, HasEvent,
           NEW d, d = dequeue.index, eventRing[d].ring \in lane,
           eventRing' = eventRing, hwEvent' = hwEvent, submitted' = submitted,
           dequeue' = IF dequeue.index + 1 = EventTrbs THEN [index |-> 0, cycle |-> ~dequeue.cycle]
                                                       ELSE [dequeue EXCEPT !.index = @ + 1],
           \A r \in lane : ring'[r] = ring[r] /\ cursor'[r] = cursor[r] /\ hw'[r] = hw[r],
           NEW q, q = Accepted(p, eventRing[d])
    PROVE  /\ LaneInv(lane, q)' /\ UnreadOf(lane)' = {} /\ UnreadOf(lane) = {d}
           /\ q.code = eventRing[d].code /\ q.code # "none" /\ q.owner = p.owner /\ q # NotPending
           /\ p # NotPending
<1>1. /\ UnreadOf(lane)' = UnreadOf(lane) \ {d} /\ d \in UnreadOf(lane)
    BY TakenFrom
<1>2. UnreadOf(lane) = {d} /\ UnreadOf(lane)' = {}
    BY <1>1 DEF LaneInv
<1>3. CompletionOK(d, p)
    BY <1>1 DEF LaneInv
<1>4. PICK e : e = eventRing[d]
    OBVIOUS
<1>5. p.owner = e.ring /\ p.index = e.index /\ p.td = e.td /\ e.code # "none" /\ e.ring \in lane
    BY <1>3, <1>4 DEF CompletionOK
<1>6. q = [p EXCEPT !.code = e.code, !.took = e.td]
    BY <1>4, <1>5 DEF Accepted
<1>7. p = [owner |-> p.owner, index |-> p.index, code |-> p.code, td |-> p.td, took |-> p.took]
    BY DEF LaneInv, PendingOK, PendingTypes
<1>8. q = [owner |-> q.owner, index |-> q.index, code |-> q.code, td |-> q.td, took |-> q.took]
    BY ONLY <1>6, <1>7
<1>9. q.owner = p.owner /\ q.index = p.index /\ q.code = e.code /\ q.td = p.td /\ q.took = e.td
    BY ONLY <1>6, <1>7
<1>10. Halts(e.ring) /\ (e.code # "stall" => Ready(e.ring))
    BY <1>3, <1>4 DEF CompletionOK
<1>11. \A r \in lane : (Settled(r)' <=> Settled(r)) /\ (Ready(r)' <=> Ready(r)) /\ (Halts(r)' <=> Halts(r))
    BY RingUntouched
<1>12. "none" \notin Rings
    BY DEF Rings, Endpoints
<1>13. PendingOK(q, lane)'
    <2>1. q.td \in Nat /\ q.td <= submitted' /\ q.owner \in lane /\ q.owner # "none"
        BY <1>5, <1>9, <1>12 DEF LaneInv, PendingOK, PendingTypes
    <2>2. q.took = q.td
        BY <1>5, <1>9
    <2>3. Halts(e.ring)' /\ (e.code # "stall" => Ready(e.ring)') /\ q.owner = e.ring /\ q.code = e.code
        BY <1>5, <1>9, <1>10, <1>11
    <2> QED BY <1>8, <2>1, <2>2, <2>3 DEF PendingOK, PendingTypes
<1>14. \A r \in lane : Settled(r)
    BY <1>2 DEF LaneInv
<1>15. LaneInv(lane, q)'
    BY <1>2, <1>11, <1>13, <1>14 DEF LaneInv
<1>16. p # NotPending /\ q # NotPending
    BY <1>5, <1>9, <1>12, NotPendingFields
<1> QED BY <1>2, <1>4, <1>5, <1>9, <1>15, <1>16

-----------------------------------------------------------------------------
(* Both lanes together, for users that never move the command ring.        *)

\* A command never halts its ring.
CommandReady ==
    /\ command = NotPending => Ready("command")
    /\ command.code # "stall"
    /\ \A j \in UnreadOf({"command"}) : eventRing[j].code # "stall"

TransportInv ==
    /\ RingTypes
    /\ \A r \in Rings : RingShape(r)
    /\ EventShape
    /\ LaneInv(Endpoints, transfer)
    /\ LaneInv({"command"}, command)
    /\ CommandReady

LEMMA LanesOfRings == Endpoints \subseteq Rings /\ {"command"} \subseteq Rings /\ "command" \notin Endpoints /\ "command" \in Rings
BY DEF Rings, Endpoints

\* The lanes in the next state, whose waiters are given by name.
LEMMA LaneNext ==
    /\ \A q : q = transfer' /\ LaneInv(Endpoints, q)' => LaneInv(Endpoints, transfer)'
    /\ \A q : q = command' /\ LaneInv({"command"}, q)' => LaneInv({"command"}, command)'
    /\ \A q, r : q = transfer' /\ Loaded(r, q)' => Loaded(r, transfer)'
    /\ \A q, r : q = command' /\ Loaded(r, q)' => Loaded(r, command)'
<1>1. \A q : q = transfer' => (\A r : Loaded(r, q)' <=> Loaded(r, transfer)')
    BY DEF Loaded, LoadedAt
<1>2. \A q : q = command' => (\A r : Loaded(r, q)' <=> Loaded(r, command)')
    BY DEF Loaded, LoadedAt
<1>3. \A q : q = transfer' /\ LaneInv(Endpoints, q)' => LaneInv(Endpoints, transfer)'
    <2>1. SUFFICES ASSUME NEW q, q = transfer', LaneInv(Endpoints, q)' PROVE LaneInv(Endpoints, transfer)'
        OBVIOUS
    <2>2. PendingOK(q, Endpoints)' => PendingOK(transfer, Endpoints)'
        BY <2>1 DEF PendingOK, PendingTypes
    <2>3. \A j : CompletionOK(j, q)' => CompletionOK(j, transfer)'
        BY <2>1 DEF CompletionOK
    <2> QED BY <1>1, <2>1, <2>2, <2>3 DEF LaneInv
<1>4. \A q : q = command' /\ LaneInv({"command"}, q)' => LaneInv({"command"}, command)'
    <2>1. SUFFICES ASSUME NEW q, q = command', LaneInv({"command"}, q)' PROVE LaneInv({"command"}, command)'
        OBVIOUS
    <2>2. PendingOK(q, {"command"})' => PendingOK(command, {"command"})'
        BY <2>1 DEF PendingOK, PendingTypes
    <2>3. \A j : CompletionOK(j, q)' => CompletionOK(j, command)'
        BY <2>1 DEF CompletionOK
    <2> QED BY <1>2, <2>1, <2>2, <2>3 DEF LaneInv
<1> QED BY <1>1, <1>2, <1>3, <1>4

LEMMA TransportStarts ==
    ASSUME TransportInit
    PROVE  TransportInv /\ \A r \in Rings : Ready(r)
<1>1. RingTypes
    <2>1. ring = [r \in Rings |-> ring[r]]
        BY DEF TransportInit
    <2>2. ASSUME NEW r \in Rings PROVE cursor[r] \in [index : Nat, cycle : BOOLEAN]
        <3>1. cursor[r] = [index |-> IF r = "control" THEN FirstControl ELSE 0, cycle |-> TRUE]
            BY DEF TransportInit
        <3>2. (IF r = "control" THEN FirstControl ELSE 0) \in Nat
            BY TransportAssumption
        <3> QED BY <3>1, <3>2
    <2>3. ASSUME NEW r \in Rings
          PROVE  hw[r] \in [index : Nat, cycle : BOOLEAN, state : {"running", "stopped", "halted"}, ran : Nat]
        <3>1. hw[r] = [index |-> IF r = "control" THEN FirstControl ELSE 0, cycle |-> TRUE, state |-> "running", ran |-> 0]
            BY DEF TransportInit
        <3>2. (IF r = "control" THEN FirstControl ELSE 0) \in Nat
            BY TransportAssumption
        <3> QED BY <3>1, <3>2
    <2>4. cursor = [r \in Rings |-> cursor[r]] /\ hw = [r \in Rings |-> hw[r]] /\ submitted = 0
        BY DEF TransportInit
    <2> QED BY <2>1, <2>2, <2>3, <2>4 DEF RingTypes
<1>2. ASSUME NEW r \in Rings PROVE RingShape(r) /\ Ready(r)
    <2>1. PICK f : f = IF r = "control" THEN FirstControl ELSE 0
        OBVIOUS
    <2>2. /\ cursor[r].index = f /\ cursor[r].cycle = TRUE
          /\ hw[r].index = f /\ hw[r].cycle = TRUE /\ hw[r].state = "running" /\ hw[r].ran = 0
          /\ submitted = 0
        BY <2>1 DEF TransportInit
    <2>3. Usable[r] \in Nat \ {0, 1} /\ f \in Nat /\ f < Usable[r]
        <3>1. Usable["control"] = ControlTrbs
            BY Zenon DEF Usable, Rings, Endpoints
        <3> QED BY <2>1, <3>1, UsableType, TransportAssumption
    <2>4. ASSUME NEW i \in 0..Usable[r] - 1
          PROVE  (i < f => ring[r][i].cycle = TRUE) /\ (i >= f => ring[r][i].cycle = FALSE)
        <3>1. i \in 0..Usable[r] /\ i # Usable[r]
            BY <2>3
        <3>2. ring[r][i] = [NoTrb EXCEPT !.cycle = (i = Usable[r] \/ (r = "control" /\ i < FirstControl))]
            BY <3>1 DEF TransportInit
        <3>3. ring[r][i].cycle = (i = Usable[r] \/ (r = "control" /\ i < FirstControl))
            BY <3>2 DEF NoTrb
        <3>4. (i < f => r = "control" /\ i < FirstControl) /\ (i >= f => ~(r = "control" /\ i < FirstControl))
            BY <2>1, <2>3, TransportAssumption
        <3> QED BY <3>1, <3>3, <3>4
    <2>5. RingShape(r)
        <3>1. Flip(cursor[r].cycle) = FALSE
            BY <2>2, FlipFacts, Zenon
        <3>2. \A i \in 0..Usable[r] - 1 :
                  /\ i < cursor[r].index => ring[r][i].cycle = cursor[r].cycle
                  /\ i >= cursor[r].index => ring[r][i].cycle = Flip(cursor[r].cycle)
            BY <2>2, <2>4, <3>1, Zenon
        <3>3. cursor[r].index < Usable[r] /\ hw[r].ran <= submitted
            BY <2>2, <2>3
        <3> QED BY <3>2, <3>3, Zenon DEF RingShape
    <2>6. Ready(r)
        BY <2>2, <2>3 DEF Ready, Quiet, Stands
    <2> QED BY <2>5, <2>6
<1>3. EventShape
    <2>1. /\ hwEvent.index = 0 /\ hwEvent.cycle = TRUE /\ dequeue.index = 0 /\ dequeue.cycle = TRUE
          /\ hwEvent = [index |-> 0, cycle |-> TRUE] /\ dequeue = [index |-> 0, cycle |-> TRUE]
        BY DEF TransportInit
    <2>2. eventRing = [j \in 0..EventTrbs - 1 |-> eventRing[j]] /\ \A j \in 0..EventTrbs - 1 : eventRing[j].cycle = FALSE
        BY DEF TransportInit, NoEvent
    <2>3. 0 \in 0..EventTrbs - 1
        BY TransportAssumption
    <2>4. hwEvent \in [index : 0..EventTrbs - 1, cycle : BOOLEAN] /\ dequeue \in [index : 0..EventTrbs - 1, cycle : BOOLEAN]
        BY <2>1, <2>3
    <2>5. Flip(hwEvent.cycle) = FALSE
        BY <2>1, FlipFacts, Zenon
    <2>6. \A j \in 0..EventTrbs - 1 : j >= hwEvent.index /\ ~(j < hwEvent.index)
        BY <2>1
    <2>7. \A j \in 0..EventTrbs - 1 :
           /\ j < hwEvent.index => eventRing[j].cycle = hwEvent.cycle
           /\ j >= hwEvent.index => eventRing[j].cycle = Flip(hwEvent.cycle)
        BY <2>2, <2>5, <2>6, Zenon
    <2>8. ~(dequeue.index > hwEvent.index) /\ dequeue.cycle = hwEvent.cycle
        BY <2>1
    <2> QED BY <2>2, <2>4, <2>7, <2>8, Zenon DEF EventShape
<1>4. \A lane : UnreadOf(lane) = {}
    <2>1. \A j \in 0..EventTrbs - 1 : ~Unread(j)
        BY TransportAssumption DEF Unread, TransportInit
    <2> QED BY <2>1 DEF UnreadOf
<1>5. transfer = NotPending /\ command = NotPending /\ submitted = 0
    BY DEF TransportInit
<1>6. \A lane : lane \subseteq Rings => LaneInv(lane, NotPending)
    <2>1. \A r \in Rings : Settled(r)
        BY <1>2 DEF Ready, Settled
    <2>2. \A lane : PendingOK(NotPending, lane)
        BY <1>5, NotPendingFields DEF PendingOK, PendingTypes
    <2> QED BY <1>4, <2>1, <2>2 DEF LaneInv
<1>7. CommandReady
    BY <1>2, <1>4, <1>5, LanesOfRings, NotPendingFields DEF CommandReady
<1> QED BY <1>1, <1>2, <1>3, <1>5, <1>6, <1>7, LanesOfRings DEF TransportInv

\* What the controller would do next on a ring depends on that ring only.
LEMMA OfferUntouched ==
    ASSUME NEW r, ring'[r] = ring[r], cursor'[r] = cursor[r], hw'[r] = hw[r]
    PROVE  Position(r)' = Position(r) /\ Offered(r)' = Offered(r) /\ (CanExecute(r)' <=> CanExecute(r))
<1>1. Position(r)' = Position(r)
    BY DEF Position
<1>2. Offered(r)' = Offered(r)
    BY <1>1 DEF Offered
<1> QED BY <1>1, <1>2 DEF CanExecute

\* The completion codes that the waiter of a lane has or will be given next.
TransferCodes == {transfer.code} \cup {eventRing[j].code : j \in UnreadOf(Endpoints)}
CommandCodes == {command.code} \cup {eventRing[j].code : j \in UnreadOf({"command"})}

\* Nothing that the lanes depend on changes but the pending transfer and
\* command, each of which stays or is forgotten once it is over.
LEMMA PendingCleared ==
    ASSUME TransportInv, UNCHANGED <<ring, cursor, hw, eventRing, hwEvent, dequeue, submitted>>,
           transfer' = transfer \/ (Done(transfer) /\ transfer' = NotPending),
           command' = command \/ (command.code # "none" /\ command' = NotPending)
    PROVE  /\ TransportInv'
           /\ TransferCodes' \subseteq TransferCodes \cup {"none"}
           /\ CommandCodes' \subseteq CommandCodes \cup {"none"}
<1>1. \A lane : UnreadOf(lane)' = UnreadOf(lane)
    BY DEF UnreadOf, Unread
<1>2. RingTypes' /\ EventShape' /\ submitted \in Nat
    BY DEF TransportInv, RingTypes, EventShape
<1>3. \A r \in Rings : RingShape(r)' /\ (Settled(r)' <=> Settled(r)) /\ (Ready(r)' <=> Ready(r))
    BY DEF TransportInv, RingShape, Settled, Ready, Quiet, Stands
<1>4. \A lane, p : lane \subseteq Rings /\ LaneInv(lane, p) => LaneInv(lane, p)'
    BY <1>1, <1>2, LaneUntouched
<1>5. \A lane, p : lane \subseteq Rings /\ LaneInv(lane, p) /\ Done(p) => LaneInv(lane, NotPending)'
    BY <1>1, <1>2, <1>3, LaneIdle, LaneCleared
<1>6. PICK q : q = transfer'
    OBVIOUS
<1>7. LaneInv(Endpoints, q)'
    BY <1>4, <1>5, <1>6, LanesOfRings DEF TransportInv
<1>8. PICK c : c = command'
    OBVIOUS
<1>9. LaneInv({"command"}, c)'
    BY <1>4, <1>5, <1>8, LanesOfRings DEF TransportInv, Done
<1>10. CommandReady'
    <2>1. command.code # "none" => command.owner = "command" /\ Ready("command")
        BY DEF TransportInv, CommandReady, LaneInv, PendingOK
    <2>2. (command' = NotPending => Ready("command")') /\ command'.code # "stall"
        BY <1>3, <2>1, NotPendingFields, LanesOfRings DEF TransportInv, CommandReady
    <2> QED BY <1>1, <2>2 DEF TransportInv, CommandReady
<1>11. LaneInv(Endpoints, transfer)' /\ LaneInv({"command"}, command)'
    BY <1>6, <1>7, <1>8, <1>9, LaneNext
<1>12. transfer'.code \in {transfer.code, "none"} /\ command'.code \in {command.code, "none"}
    BY NotPendingFields
<1>13. TransferCodes' \subseteq TransferCodes \cup {"none"} /\ CommandCodes' \subseteq CommandCodes \cup {"none"}
    BY <1>1, <1>12 DEF TransferCodes, CommandCodes
<1> QED BY <1>2, <1>3, <1>10, <1>11, <1>13 DEF TransportInv

\* A transfer enqueued on a ready endpoint once the last one is over.
LEMMA TransferSubmitted ==
    ASSUME TransportInv, Done(transfer), NEW r \in Endpoints, Ready(r),
           NEW length \in Nat \ {0}, length < Usable[r], CanReserve(r, length), NEW what,
           SubmitTransfer(r, length, what)
    PROVE  /\ TransportInv'
           /\ transfer'.owner = r /\ transfer'.code = "none" /\ transfer' # NotPending
           /\ TransferCodes' = {"none"} /\ CommandCodes' = CommandCodes /\ command' = command
           /\ Offered(r)'.what = what /\ hw'[r].state = "running"
           /\ \A s \in Rings \ {r} : ring'[s] = ring[s] /\ cursor'[s] = cursor[s] /\ hw'[s] = hw[s]
<1>1. \A lane : UnreadOf(lane)' = UnreadOf(lane)
    BY DEF UnreadOf, Unread, SubmitTransfer, Enqueue
<1>2. UnreadOf(Endpoints) = {} /\ \A s \in Endpoints : Settled(s)
    BY LaneIdle, LanesOfRings DEF TransportInv
<1>3. PICK q : q = Awaiting(r, length)
    OBVIOUS
<1>4. r \in Rings /\ RingShape(r) /\ RingTypes /\ UnreadOf(Endpoints)' = {}
    BY <1>1, <1>2, LanesOfRings DEF TransportInv
<1>5. Enqueue(r, length, what) /\ transfer' = q /\ command' = command /\ eventRing' = eventRing
      /\ hwEvent' = hwEvent /\ dequeue' = dequeue
    BY <1>3 DEF SubmitTransfer, Enqueue
<1>6. /\ RingTypes' /\ RingShape(r)' /\ LaneInv(Endpoints, q)' /\ Loaded(r, q)'
      /\ \A s \in Rings \ {r} : ring'[s] = ring[s] /\ cursor'[s] = cursor[s] /\ hw'[s] = hw[s]
      /\ submitted' = submitted + 1
      /\ Offered(r)'.what = what
      /\ q.owner = r /\ q.code = "none" /\ q # NotPending
    BY <1>2, <1>3, <1>4, <1>5, LanesOfRings, LaneSubmitted
<1>7. submitted \in Nat /\ submitted' \in Nat /\ submitted <= submitted'
    BY <1>6 DEF TransportInv, RingTypes
<1>8. \A s \in Rings : RingShape(s)'
    <2>1. ASSUME NEW s \in Rings \ {r} PROVE RingShape(s)'
        <3>1. hw[s].ran \in Nat /\ RingShape(s)
            BY RingFields DEF TransportInv
        <3> QED BY <1>6, <1>7, <3>1, RingUntouched
    <2> QED BY <1>6, <2>1
<1>9. LaneInv(Endpoints, transfer)'
    BY <1>5, <1>6, LaneNext
<1>10. r # "command" /\ "command" \in Rings \ {r}
    BY LanesOfRings
<1>11. LaneInv({"command"}, command)'
    <2>1. PICK c : c = command
        OBVIOUS
    <2>2. LaneInv({"command"}, c)
        BY <2>1 DEF TransportInv
    <2>3. LaneInv({"command"}, c)'
        BY <1>1, <1>5, <1>6, <1>7, <1>10, <2>2, LaneUntouched
    <2> QED BY <1>5, <2>1, <2>3, LaneNext
<1>12. CommandReady'
    <2>1. Ready("command")' <=> Ready("command")
        BY <1>6, <1>10, RingUntouched
    <2> QED BY <1>1, <1>5, <2>1 DEF TransportInv, CommandReady
<1>13. EventShape'
    BY <1>5 DEF TransportInv, EventShape
<1>14. hw'[r].state = "running"
    BY <1>6 DEF Loaded
<1>15. TransferCodes' = {"none"} /\ CommandCodes' = CommandCodes
    BY <1>1, <1>4, <1>5, <1>6 DEF TransferCodes, CommandCodes
<1> QED BY <1>4, <1>5, <1>6, <1>8, <1>9, <1>11, <1>12, <1>13, <1>14, <1>15 DEF TransportInv

\* A TD of one TRB always has room before the link.
LEMMA RoomForOne ==
    ASSUME RingTypes, NEW r \in Rings, RingShape(r)
    PROVE  1 < Usable[r] /\ CanReserve(r, 1)
<1>1. PICK i, U : i = cursor[r].index /\ U = Usable[r]
    OBVIOUS
<1>2. i \in Nat /\ U \in Nat \ {0, 1}
    BY <1>1, RingFields
<1>3. i < U
    BY <1>1 DEF RingShape
<1>4. 1 < U /\ i + 1 <= U
    BY ONLY <1>2, <1>3
<1> QED BY <1>1, <1>4 DEF CanReserve

\* A command enqueued once the last one is over.
LEMMA CommandSubmitted ==
    ASSUME TransportInv, Done(command), NEW what, SubmitCommand(what),
           transfer' = transfer \/ (Done(transfer) /\ transfer' = NotPending)
    PROVE  /\ TransportInv'
           /\ command'.owner = "command" /\ command'.code = "none" /\ command' # NotPending
           /\ CommandCodes' = {"none"} /\ TransferCodes' \subseteq TransferCodes \cup {"none"}
           /\ Offered("command")'.what = what
           /\ \A s \in Endpoints : ring'[s] = ring[s] /\ cursor'[s] = cursor[s] /\ hw'[s] = hw[s]
<1> DEFINE r == "command"
<1>1. \A lane : UnreadOf(lane)' = UnreadOf(lane)
    BY DEF UnreadOf, Unread, SubmitCommand, Enqueue
<1>2. UnreadOf({r}) = {} /\ Settled(r)
    BY LaneIdle, LanesOfRings DEF TransportInv
<1>3. PICK q : q = Awaiting(r, 1)
    OBVIOUS
<1>4. r \in Rings /\ RingShape(r) /\ RingTypes /\ UnreadOf({r})' = {}
    BY <1>1, <1>2, LanesOfRings DEF TransportInv
<1>5. Enqueue(r, 1, what) /\ command' = q /\ eventRing' = eventRing
      /\ hwEvent' = hwEvent /\ dequeue' = dequeue
    BY <1>3 DEF SubmitCommand, Enqueue
<1>6. Ready(r)
    <2>1. command.code # "none" => command.owner = r
        BY DEF TransportInv, LaneInv, PendingOK
    <2> QED BY <2>1 DEF TransportInv, LaneInv, PendingOK, CommandReady, Done
<1>7. 1 < Usable[r] /\ CanReserve(r, 1)
    BY <1>4, RoomForOne
<1>8. /\ RingTypes' /\ RingShape(r)' /\ LaneInv({r}, q)' /\ Loaded(r, q)'
      /\ \A s \in Rings \ {r} : ring'[s] = ring[s] /\ cursor'[s] = cursor[s] /\ hw'[s] = hw[s]
      /\ submitted' = submitted + 1
      /\ Offered(r)'.what = what
      /\ q.owner = r /\ q.code = "none" /\ q # NotPending
    <2>1. /\ RingTypes /\ {r} \subseteq Rings /\ r \in {r} /\ RingShape(r)
          /\ (\A s \in {r} : Settled(s)) /\ UnreadOf({r})' = {} /\ Ready(r)
          /\ 1 \in Nat \ {0}
        BY <1>2, <1>4, <1>6
    <2> HIDE DEF r
    <2> QED BY <1>3, <1>5, <1>7, <2>1, LaneSubmitted
<1>9. submitted \in Nat /\ submitted' \in Nat /\ submitted <= submitted'
    BY <1>8 DEF TransportInv, RingTypes
<1>10. \A s \in Rings : RingShape(s)'
    <2>1. ASSUME NEW s \in Rings \ {r} PROVE RingShape(s)'
        <3>1. hw[s].ran \in Nat /\ RingShape(s)
            BY RingFields DEF TransportInv
        <3> QED BY <1>8, <1>9, <3>1, RingUntouched
    <2> QED BY <1>8, <2>1
<1>11. \A s \in Endpoints : ring'[s] = ring[s] /\ cursor'[s] = cursor[s] /\ hw'[s] = hw[s]
    BY <1>8, LanesOfRings
<1>12. LaneInv(Endpoints, transfer)'
    <2>1. PICK p, n : p = transfer /\ n = transfer'
        OBVIOUS
    <2>2. LaneInv(Endpoints, p)
        BY <2>1 DEF TransportInv
    <2>3. LaneInv(Endpoints, p)'
        BY <1>1, <1>5, <1>9, <1>11, <2>2, LaneUntouched
    <2>4. CASE n = p
        BY <2>1, <2>3, <2>4, LaneNext
    <2>5. CASE Done(transfer) /\ n = NotPending
        <3>1. UnreadOf(Endpoints) = {} /\ \A s \in Endpoints : Settled(s)
            BY <2>5, LaneIdle, LanesOfRings DEF TransportInv
        <3>2. \A s \in Endpoints : Settled(s)'
            BY <1>11, <3>1, RingUntouched
        <3>3. LaneInv(Endpoints, NotPending)'
            BY <1>1, <1>9, <3>1, <3>2, LaneCleared
        <3> QED BY <2>1, <2>5, <3>3, LaneNext
    <2> QED BY <2>1, <2>4, <2>5
<1>13. LaneInv({"command"}, command)'
    BY <1>5, <1>8, LaneNext
<1>14. CommandReady'
    BY <1>4, <1>5, <1>8 DEF CommandReady
<1>15. EventShape'
    BY <1>5 DEF TransportInv, EventShape
<1>16. transfer'.code \in {transfer.code, "none"}
    BY NotPendingFields
<1>17. CommandCodes' = {"none"} /\ TransferCodes' \subseteq TransferCodes \cup {"none"}
    BY <1>1, <1>4, <1>5, <1>8, <1>16 DEF TransferCodes, CommandCodes
<1> QED BY <1>4, <1>5, <1>8, <1>10, <1>11, <1>12, <1>13, <1>14, <1>15, <1>17 DEF TransportInv

\* One event taken off the ring: a completion of the transfer, a completion
\* of the command, or something else.
LEMMA EventDispatched ==
    ASSUME TransportInv, Dispatch
    PROVE  /\ TransportInv'
           /\ UNCHANGED <<ring, cursor, hw, submitted>>
           /\ TransferCodes' \subseteq TransferCodes /\ CommandCodes' \subseteq CommandCodes
           /\ transfer'.owner = transfer.owner /\ (transfer' = NotPending <=> transfer = NotPending)
           /\ command'.owner = command.owner /\ (command' = NotPending <=> command = NotPending)
<1>1. PICK d, e : d = dequeue.index /\ e = eventRing[d]
    OBVIOUS
<1>2. /\ HasEvent
      /\ command' = IF e.ring = "command" THEN Accepted(command, e) ELSE command
      /\ transfer' = IF e.ring \in Endpoints THEN Accepted(transfer, e) ELSE transfer
      /\ dequeue' = IF dequeue.index + 1 = EventTrbs THEN [index |-> 0, cycle |-> ~dequeue.cycle]
                                                     ELSE [dequeue EXCEPT !.index = @ + 1]
      /\ ring' = ring /\ cursor' = cursor /\ hw' = hw /\ eventRing' = eventRing /\ hwEvent' = hwEvent
      /\ submitted' = submitted
    BY <1>1 DEF Dispatch
<1>3. EventShape /\ RingTypes /\ submitted \in Nat
    BY DEF TransportInv, RingTypes
<1>4. /\ EventShape'
      /\ \A lane : /\ UnreadOf(lane)' = UnreadOf(lane) \ {d}
                   /\ d \in UnreadOf(lane) <=> e.ring \in lane
    BY <1>1, <1>2, <1>3, TakenFrom
<1>5. RingTypes' /\ \A r \in Rings : RingShape(r)' /\ (Ready(r)' <=> Ready(r))
    BY <1>2 DEF TransportInv, RingTypes, RingShape, Ready, Quiet, Stands
<1>6. ASSUME NEW lane, lane \subseteq Rings, NEW p, LaneInv(lane, p), e.ring \notin lane
      PROVE  LaneInv(lane, p)' /\ UnreadOf(lane)' = UnreadOf(lane)
    <2>1. UnreadOf(lane)' = UnreadOf(lane)
        BY <1>4, <1>6
    <2> QED BY <1>2, <1>3, <1>6, <2>1, LaneUntouched
<1>7. ASSUME NEW lane, lane \subseteq Rings, NEW p, LaneInv(lane, p), e.ring \in lane, NEW q, q = Accepted(p, e)
      PROVE  /\ LaneInv(lane, q)' /\ UnreadOf(lane)' = {} /\ UnreadOf(lane) = {d}
             /\ q.code = e.code /\ q.code # "none" /\ q.owner = p.owner /\ q # NotPending /\ p # NotPending
    BY <1>1, <1>2, <1>3, <1>7, LaneDispatched
<1>8. PICK p, c, q, b : p = transfer /\ c = command /\ q = transfer' /\ b = command'
    OBVIOUS
<1>9. LaneInv(Endpoints, p) /\ LaneInv({"command"}, c)
    BY <1>8 DEF TransportInv
<1>10. CASE e.ring \in Endpoints
    <2>1. e.ring \notin {"command"}
        BY <1>10, LanesOfRings
    <2>2. q = Accepted(p, e) /\ b = c
        BY <1>2, <1>8, <1>10, <2>1
    <2>3. /\ LaneInv(Endpoints, q)' /\ UnreadOf(Endpoints)' = {} /\ UnreadOf(Endpoints) = {d}
          /\ q.code = e.code /\ q.code # "none" /\ q.owner = p.owner /\ q # NotPending /\ p # NotPending
        BY <1>7, <1>9, <1>10, <2>2, LanesOfRings
    <2>4. LaneInv({"command"}, c)' /\ UnreadOf({"command"})' = UnreadOf({"command"})
        BY <1>6, <1>9, <2>1, LanesOfRings
    <2>5. LaneInv(Endpoints, transfer)' /\ LaneInv({"command"}, command)'
        BY <1>8, <2>2, <2>3, <2>4, LaneNext
    <2>6. CommandReady'
        BY <1>2, <1>5, <1>8, <2>2, <2>4, LanesOfRings DEF TransportInv, CommandReady
    <2>7. TransferCodes' \subseteq TransferCodes /\ CommandCodes' \subseteq CommandCodes
        BY <1>1, <1>2, <1>8, <2>2, <2>3, <2>4 DEF TransferCodes, CommandCodes
    <2> QED BY <1>2, <1>4, <1>5, <1>8, <2>2, <2>3, <2>5, <2>6, <2>7 DEF TransportInv
<1>11. CASE e.ring \in {"command"}
    <2>1. e.ring \notin Endpoints
        BY <1>11, LanesOfRings
    <2>2. q = p /\ b = Accepted(c, e)
        BY <1>2, <1>8, <1>11, <2>1
    <2>3. /\ LaneInv({"command"}, b)' /\ UnreadOf({"command"})' = {} /\ UnreadOf({"command"}) = {d}
          /\ b.code = e.code /\ b.code # "none" /\ b.owner = c.owner /\ b # NotPending /\ c # NotPending
        BY <1>7, <1>9, <1>11, <2>2, LanesOfRings
    <2>4. LaneInv(Endpoints, p)' /\ UnreadOf(Endpoints)' = UnreadOf(Endpoints)
        BY <1>6, <1>9, <2>1, LanesOfRings
    <2>5. LaneInv(Endpoints, transfer)' /\ LaneInv({"command"}, command)'
        BY <1>8, <2>2, <2>3, <2>4, LaneNext
    <2>6. CommandReady'
        <3>1. e.code # "stall"
            BY <1>1, <2>3 DEF TransportInv, CommandReady
        <3> QED BY <1>8, <2>3, <3>1 DEF CommandReady
    <2>7. TransferCodes' \subseteq TransferCodes /\ CommandCodes' \subseteq CommandCodes
        BY <1>1, <1>2, <1>8, <2>2, <2>3, <2>4 DEF TransferCodes, CommandCodes
    <2> QED BY <1>2, <1>4, <1>5, <1>8, <2>2, <2>3, <2>5, <2>6, <2>7 DEF TransportInv
<1>12. CASE e.ring \notin Endpoints /\ e.ring \notin {"command"}
    <2>1. q = p /\ b = c
        BY <1>2, <1>8, <1>12
    <2>2. /\ LaneInv(Endpoints, p)' /\ UnreadOf(Endpoints)' = UnreadOf(Endpoints)
          /\ LaneInv({"command"}, c)' /\ UnreadOf({"command"})' = UnreadOf({"command"})
        BY <1>6, <1>9, <1>12, LanesOfRings
    <2>3. LaneInv(Endpoints, transfer)' /\ LaneInv({"command"}, command)'
        BY <1>8, <2>1, <2>2, LaneNext
    <2>4. CommandReady'
        BY <1>2, <1>5, <1>8, <2>1, <2>2, LanesOfRings DEF TransportInv, CommandReady
    <2>5. TransferCodes' \subseteq TransferCodes /\ CommandCodes' \subseteq CommandCodes
        BY <1>2, <1>8, <2>1, <2>2 DEF TransferCodes, CommandCodes
    <2> QED BY <1>2, <1>4, <1>5, <1>8, <2>1, <2>3, <2>4, <2>5 DEF TransportInv
<1> QED BY <1>10, <1>11, <1>12

\* The controller executes a TD of an endpoint: it is the one awaited.
LEMMA TransferExecuted ==
    ASSUME TransportInv, NEW r \in Endpoints, NEW code, code # "none", Execute(r, code)
    PROVE  /\ TransportInv'
           /\ transfer.owner = r /\ transfer.code = "none" /\ transfer # NotPending
           /\ UNCHANGED <<ring, cursor, transfer, command, submitted>>
           /\ TransferCodes' = {"none", code} /\ CommandCodes' = CommandCodes
           /\ Halts(r)' /\ Settled(r)' /\ (code # "stall" => Ready(r)')
           /\ \A s \in Rings \ {r} : ring'[s] = ring[s] /\ cursor'[s] = cursor[s] /\ hw'[s] = hw[s]
<1>1. r \in Rings /\ r \notin {"command"} /\ "command" \in Rings \ {r} /\ Endpoints \subseteq Rings
    BY LanesOfRings
<1>2. /\ CanExecute(r) /\ Post(r, code) /\ hw' = [hw EXCEPT ![r] = Retired(r, code)]
      /\ UNCHANGED <<ring, cursor, dequeue, command, transfer, submitted>>
    BY DEF Execute
<1>3. RingTypes /\ RingShape(r) /\ EventShape /\ LaneInv(Endpoints, transfer) /\ submitted \in Nat
    BY <1>1 DEF TransportInv, RingTypes
<1>4. /\ hw' = [s \in Rings |-> hw'[s]] /\ hw'[r] = Retired(r, code)
      /\ \A s \in Rings \ {r} : hw'[s] = hw[s] /\ ring'[s] = ring[s] /\ cursor'[s] = cursor[s]
    <2>1. hw = [s \in Rings |-> hw[s]]
        BY <1>3 DEF RingTypes
    <2> QED BY <1>1, <1>2, <2>1
<1>5. PICK p : p = transfer
    OBVIOUS
<1>6. /\ hw'[r] \in [index : Nat, cycle : BOOLEAN, state : {"running", "stopped", "halted"}, ran : Nat]
      /\ RingShape(r)' /\ EventShape' /\ LaneInv(Endpoints, p)'
      /\ Loaded(r, p) /\ p.owner = r /\ p.code = "none" /\ UnreadOf(Endpoints) = {}
      /\ Halts(r)' /\ Settled(r)' /\ (code # "stall" => Ready(r)')
      /\ UnreadOf(Endpoints)' = {hwEvent.index} /\ eventRing'[hwEvent.index].code = code
      /\ \A other : r \notin other => /\ UnreadOf(other)' = UnreadOf(other)
                                      /\ \A j \in UnreadOf(other) : eventRing'[j] = eventRing[j]
    <2>1. \A s \in Endpoints \ {r} : ring'[s] = ring[s] /\ cursor'[s] = cursor[s] /\ hw'[s] = hw[s]
        BY <1>1, <1>4
    <2> QED BY <1>1, <1>2, <1>3, <1>4, <1>5, <2>1, LaneExecuted
<1>7. RingTypes'
    <2>1. \A s \in Rings : hw'[s] \in [index : Nat, cycle : BOOLEAN, state : {"running", "stopped", "halted"}, ran : Nat]
        BY <1>3, <1>4, <1>6 DEF RingTypes
    <2> QED BY <1>2, <1>3, <1>4, <2>1 DEF RingTypes
<1>8. \A s \in Rings : RingShape(s)'
    <2>1. ASSUME NEW s \in Rings \ {r} PROVE RingShape(s)'
        <3>1. hw[s].ran \in Nat /\ RingShape(s)
            BY RingFields DEF TransportInv
        <3> QED BY <1>2, <1>3, <1>4, <3>1, RingUntouched
    <2> QED BY <1>6, <2>1
<1>9. LaneInv(Endpoints, transfer)'
    BY <1>2, <1>5, <1>6, LaneNext
<1>10. /\ UnreadOf({"command"})' = UnreadOf({"command"})
       /\ \A j \in UnreadOf({"command"}) : eventRing'[j] = eventRing[j]
    BY <1>1, <1>6
<1>11. LaneInv({"command"}, command)'
    <2>1. PICK c : c = command
        OBVIOUS
    <2>2. LaneInv({"command"}, c)'
        BY <1>1, <1>2, <1>3, <1>4, <1>10, <2>1, LaneUntouched DEF TransportInv
    <2> QED BY <1>2, <2>1, <2>2, LaneNext
<1>12. CommandReady'
    <2>1. Ready("command")' <=> Ready("command")
        BY <1>1, <1>4, RingUntouched
    <2> QED BY <1>2, <1>10, <2>1 DEF TransportInv, CommandReady
<1>13. transfer # NotPending
    BY <1>1, <1>5, <1>6, NotPendingFields DEF Rings, Endpoints
<1>14. TransferCodes' = {"none", code} /\ CommandCodes' = CommandCodes
    BY <1>2, <1>5, <1>6, <1>10 DEF TransferCodes, CommandCodes
<1> QED BY <1>2, <1>4, <1>5, <1>6, <1>7, <1>8, <1>9, <1>11, <1>12, <1>13, <1>14 DEF TransportInv

\* A port status change goes by.
LEMMA PortChangePosted ==
    ASSUME TransportInv, PostPortChange
    PROVE  /\ TransportInv'
           /\ UNCHANGED <<ring, cursor, hw, transfer, command, submitted>>
           /\ TransferCodes' = TransferCodes /\ CommandCodes' = CommandCodes
<1>1. PICK e : e = [NoEvent EXCEPT !.cycle = hwEvent.cycle, !.ring = "port"]
    OBVIOUS
<1>2. e.cycle = hwEvent.cycle /\ e.ring = "port"
    BY <1>1 DEF NoEvent
<1>3. EventShape /\ RingTypes /\ submitted \in Nat
    BY DEF TransportInv, RingTypes
<1>4. UNCHANGED <<ring, cursor, hw, dequeue, command, transfer, submitted>>
    BY DEF PostPortChange
<1>5. /\ EventShape'
      /\ \A lane : /\ e.ring \notin lane => UnreadOf(lane)' = UnreadOf(lane)
                   /\ \A j \in UnreadOf(lane) : eventRing'[j] = eventRing[j]
    BY <1>1, <1>2, <1>3, PostedOn DEF PostPortChange
<1>6. "port" \notin Rings
    BY DEF Rings, Endpoints
<1>7. \A lane : lane \subseteq Rings => /\ UnreadOf(lane)' = UnreadOf(lane)
                                       /\ \A j \in UnreadOf(lane) : eventRing'[j] = eventRing[j]
    BY <1>2, <1>5, <1>6
<1>8. RingTypes' /\ \A r \in Rings : RingShape(r)' /\ (Ready(r)' <=> Ready(r))
    BY <1>4 DEF TransportInv, RingTypes, RingShape, Ready, Quiet, Stands
<1>9. \A lane, p : lane \subseteq Rings /\ LaneInv(lane, p) => LaneInv(lane, p)'
    BY <1>3, <1>4, <1>7, LaneUntouched
<1>10. LaneInv(Endpoints, transfer)'
    <2>1. PICK p : p = transfer
        OBVIOUS
    <2>2. LaneInv(Endpoints, p)'
        BY <1>9, <2>1, LanesOfRings DEF TransportInv
    <2> QED BY <1>4, <2>1, <2>2, LaneNext
<1>11. LaneInv({"command"}, command)'
    <2>1. PICK p : p = command
        OBVIOUS
    <2>2. LaneInv({"command"}, p)'
        BY <1>9, <2>1, LanesOfRings DEF TransportInv
    <2> QED BY <1>4, <2>1, <2>2, LaneNext
<1>12. CommandReady'
    BY <1>4, <1>7, <1>8, LanesOfRings DEF TransportInv, CommandReady
<1>13. TransferCodes' = TransferCodes /\ CommandCodes' = CommandCodes
    BY <1>4, <1>7, LanesOfRings DEF TransferCodes, CommandCodes
<1> QED BY <1>4, <1>5, <1>8, <1>10, <1>11, <1>12, <1>13 DEF TransportInv

\* The same with its hypotheses gathered.
LEMMA SoleExecuted ==
    ASSUME NEW s, NEW lane, NEW c, NEW code,
           RingTypes /\ EventShape /\ lane \subseteq Rings /\ s \in lane /\ RingShape(s) /\ LaneInv(lane, c),
           CanExecute(s) /\ Post(s, code) /\ code # "none",
           dequeue' = dequeue /\ submitted' = submitted,
           hw'[s] = Retired(s, code) /\ ring'[s] = ring[s] /\ cursor'[s] = cursor[s],
           \A u \in lane \ {s} : ring'[u] = ring[u] /\ cursor'[u] = cursor[u] /\ hw'[u] = hw[u]
    PROVE  /\ hw'[s] \in [index : Nat, cycle : BOOLEAN, state : {"running", "stopped", "halted"}, ran : Nat]
           /\ RingShape(s)' /\ EventShape' /\ LaneInv(lane, c)'
           /\ Loaded(s, c) /\ c.owner = s /\ c.code = "none" /\ UnreadOf(lane) = {}
           /\ Halts(s)' /\ Settled(s)' /\ (code # "stall" => Ready(s)')
           /\ UnreadOf(lane)' = {hwEvent.index} /\ eventRing'[hwEvent.index].code = code
           /\ \A other : s \notin other => /\ UnreadOf(other)' = UnreadOf(other)
                                           /\ \A j \in UnreadOf(other) : eventRing'[j] = eventRing[j]
BY LaneExecuted, SMTT(30)

\* The controller executes a command.  Resetting an endpoint stops it, setting
\* its dequeue pointer puts the controller where the driver enqueues next.
LEMMA CommandExecuted ==
    ASSUME TransportInv, transfer = NotPending, NEW code, code # "none", code # "stall", ExecuteCommand(code)
    PROVE  /\ TransportInv'
           /\ command.owner = "command" /\ command.code = "none"
           /\ UNCHANGED <<ring, cursor, transfer, command, submitted>>
           /\ CommandCodes' = {"none", code} /\ TransferCodes' = {"none"}
           /\ Settled("command")'
           /\ hw'["control"] = hw["control"]
           /\ \A r \in {"in", "out"} :
                  /\ hw'[r] = hw[r] \/ hw'[r] = ResetEndpoint(r) \/ hw'[r] = SetDequeue(r)
                  /\ r = "in" /\ Offered("command").what \in {"reset_out", "dequeue_out"} => hw'[r] = hw[r]
                  /\ r = "out" /\ Offered("command").what \in {"reset_in", "dequeue_in"} => hw'[r] = hw[r]
                  /\ code # "success" => hw'[r] = hw[r]
           /\ code = "success" =>
                  /\ Offered("command").what = "reset_in" => hw'["in"] = ResetEndpoint("in")
                  /\ Offered("command").what = "reset_out" => hw'["out"] = ResetEndpoint("out")
                  /\ Offered("command").what = "dequeue_in" => hw'["in"] = SetDequeue("in")
                  /\ Offered("command").what = "dequeue_out" => hw'["out"] = SetDequeue("out")
<1>1. PICK what, r : what = Offered("command").what /\ r = IF what \in {"reset_in", "dequeue_in"} THEN "in" ELSE "out"
    OBVIOUS
<1>2. PICK done : done = CASE what \in {"reset_in", "reset_out"} -> ResetEndpoint(r)
                           [] what \in {"dequeue_in", "dequeue_out"} -> SetDequeue(r)
                           [] OTHER -> hw[r]
    OBVIOUS
<1>3. /\ what \in {"reset_in", "reset_out"} => done = ResetEndpoint(r)
      /\ what \in {"dequeue_in", "dequeue_out"} => done = SetDequeue(r)
      /\ what \notin {"reset_in", "reset_out", "dequeue_in", "dequeue_out"} => done = hw[r]
    <2>1. what \in {"dequeue_in", "dequeue_out"} => what \notin {"reset_in", "reset_out"}
        OBVIOUS
    <2>2. what \notin {"reset_in", "reset_out", "dequeue_in", "dequeue_out"}
              => what \notin {"reset_in", "reset_out"} /\ what \notin {"dequeue_in", "dequeue_out"}
        OBVIOUS
    <2>3. what \in {"reset_in", "reset_out"} => done = ResetEndpoint(r)
        <3>1. what \in {"reset_in", "reset_out"} => what \notin {"dequeue_in", "dequeue_out"}
            BY <2>1
        <3> QED BY ONLY <1>2, <3>1, Zenon
    <2>4. what \in {"dequeue_in", "dequeue_out"} => done = SetDequeue(r)
        BY ONLY <1>2, <2>1, Zenon
    <2>5. what \notin {"reset_in", "reset_out", "dequeue_in", "dequeue_out"} => done = hw[r]
        BY ONLY <1>2, <2>2, Zenon
    <2> QED BY <2>3, <2>4, <2>5
<1>4. /\ CanExecute("command") /\ Post("command", code)
      /\ hw' = [hw EXCEPT !["command"] = Retired("command", code),
                          ![r] = IF code = "success" THEN done ELSE @]
      /\ UNCHANGED <<ring, cursor, dequeue, command, transfer, submitted>>
    BY <1>1, <1>2, Zenon DEF ExecuteCommand
<1>5. r \in {"in", "out"} /\ r \in Rings /\ r \in Endpoints /\ r # "command" /\ "command" \in Rings /\ "control" \in Rings
    BY <1>1 DEF Rings, Endpoints
<1>6. RingTypes /\ RingShape("command") /\ EventShape /\ submitted \in Nat
    BY <1>5 DEF TransportInv, RingTypes
<1>7. PICK new : new = IF code = "success" THEN done ELSE hw[r]
    OBVIOUS
<1>8. /\ hw' = [s \in Rings |-> hw'[s]]
      /\ hw'["command"] = Retired("command", code)
      /\ hw'[r] = new
      /\ \A s \in Rings \ {r, "command"} : hw'[s] = hw[s]
    <2>1. hw = [s \in Rings |-> hw[s]]
        BY <1>6 DEF RingTypes
    <2>2. PICK done2 : done2 = Retired("command", code)
        OBVIOUS
    <2>3. hw' = [hw EXCEPT !["command"] = done2, ![r] = IF code = "success" THEN done ELSE @]
        BY ONLY <1>4, <2>2, Zenon
    <2>4. hw' = [hw EXCEPT !["command"] = done2, ![r] = new]
        <3>1. CASE code = "success"
            BY ONLY <1>7, <2>3, <3>1
        <3>2. CASE code # "success"
            BY ONLY <1>5, <1>7, <2>1, <2>3, <3>2
        <3> QED BY <3>1, <3>2
    <2>5. /\ hw' = [s \in Rings |-> hw'[s]] /\ hw'["command"] = done2 /\ hw'[r] = new
          /\ \A s \in Rings \ {r, "command"} : hw'[s] = hw[s]
        BY ONLY <1>5, <2>1, <2>4
    <2> QED BY <2>2, <2>5
<1>9. PICK c : c = command
    OBVIOUS
<1>10. /\ hw'["command"] \in [index : Nat, cycle : BOOLEAN, state : {"running", "stopped", "halted"}, ran : Nat]
       /\ RingShape("command")' /\ EventShape' /\ LaneInv({"command"}, c)'
       /\ c.owner = "command" /\ c.code = "none" /\ UnreadOf({"command"}) = {}
       /\ Ready("command")' /\ Settled("command")'
       /\ UnreadOf({"command"})' = {hwEvent.index} /\ eventRing'[hwEvent.index].code = code
       /\ \A other : "command" \notin other => /\ UnreadOf(other)' = UnreadOf(other)
                                              /\ \A j \in UnreadOf(other) : eventRing'[j] = eventRing[j]
    <2>1. LaneInv({"command"}, c) /\ {"command"} \subseteq Rings /\ "command" \in {"command"}
        BY <1>9, LanesOfRings DEF TransportInv
    <2>2. \A s \in {"command"} \ {"command"} : ring'[s] = ring[s] /\ cursor'[s] = cursor[s] /\ hw'[s] = hw[s]
        OBVIOUS
    <2>3. ring'["command"] = ring["command"] /\ cursor'["command"] = cursor["command"] /\ submitted' = submitted
          /\ dequeue' = dequeue
        BY <1>4
    <2>4. hw'["command"] = Retired("command", code) /\ CanExecute("command") /\ Post("command", code)
        BY <1>4, <1>8
    <2>5. PICK lane, s : lane = {"command"} /\ s = "command"
        OBVIOUS
    <2>6. /\ hw'[s] \in [index : Nat, cycle : BOOLEAN, state : {"running", "stopped", "halted"}, ran : Nat]
          /\ RingShape(s)' /\ EventShape' /\ LaneInv(lane, c)'
          /\ c.owner = s /\ c.code = "none" /\ UnreadOf(lane) = {}
          /\ Ready(s)' /\ Settled(s)'
          /\ UnreadOf(lane)' = {hwEvent.index} /\ eventRing'[hwEvent.index].code = code
          /\ \A other : s \notin other => /\ UnreadOf(other)' = UnreadOf(other)
                                          /\ \A j \in UnreadOf(other) : eventRing'[j] = eventRing[j]
        <3>1. /\ lane \subseteq Rings /\ s \in lane /\ RingShape(s) /\ LaneInv(lane, c) /\ CanExecute(s) /\ Post(s, code)
              /\ hw'[s] = Retired(s, code) /\ ring'[s] = ring[s] /\ cursor'[s] = cursor[s]
              /\ \A u \in lane \ {s} : ring'[u] = ring[u] /\ cursor'[u] = cursor[u] /\ hw'[u] = hw[u]
            <4>1. lane \subseteq Rings /\ s \in lane /\ \A u \in lane \ {s} : ring'[u] = ring[u] /\ cursor'[u] = cursor[u] /\ hw'[u] = hw[u]
                BY <2>1, <2>2, <2>5
            <4>2. RingShape(s) /\ CanExecute(s) /\ Post(s, code)
                BY <1>6, <2>4, <2>5
            <4>3. LaneInv(lane, c)
                BY <2>1, <2>5
            <4>4. hw'[s] = Retired(s, code) /\ ring'[s] = ring[s] /\ cursor'[s] = cursor[s]
                BY <2>3, <2>4, <2>5
            <4> QED BY ONLY <4>1, <4>2, <4>3, <4>4, Zenon
        <3>2. dequeue' = dequeue /\ submitted' = submitted /\ RingTypes /\ EventShape /\ code # "none" /\ s \in lane
            BY <1>6, <2>3, <3>1
        <3>3. /\ hw'[s] \in [index : Nat, cycle : BOOLEAN, state : {"running", "stopped", "halted"}, ran : Nat]
              /\ RingShape(s)' /\ EventShape' /\ LaneInv(lane, c)'
              /\ Loaded(s, c) /\ c.owner = s /\ c.code = "none" /\ UnreadOf(lane) = {}
              /\ Halts(s)' /\ Settled(s)' /\ (code # "stall" => Ready(s)')
              /\ UnreadOf(lane)' = {hwEvent.index} /\ eventRing'[hwEvent.index].code = code
              /\ \A other : s \notin other => /\ UnreadOf(other)' = UnreadOf(other)
                                              /\ \A j \in UnreadOf(other) : eventRing'[j] = eventRing[j]
            BY <3>1, <3>2, SoleExecuted
        <3> QED BY <3>3
    <2> QED BY <2>5, <2>6
<1>11. PICK h, k : h = hw[r] /\ k = cursor[r]
    OBVIOUS
<1>12. /\ h = [index |-> h.index, cycle |-> h.cycle, state |-> h.state, ran |-> h.ran]
       /\ h.index \in Nat /\ h.cycle \in BOOLEAN /\ h.ran \in Nat /\ h.state \in {"running", "stopped", "halted"}
       /\ k.index \in Nat /\ k.cycle \in BOOLEAN
       /\ k.index < Usable[r]
    <2>1. RingShape(r)
        BY <1>5 DEF TransportInv
    <2> QED BY <1>5, <1>6, <1>11, <2>1, RingFields DEF RingShape
<1>13. new = h \/ new = ResetEndpoint(r) \/ new = SetDequeue(r)
    BY <1>3, <1>7, <1>11
<1>14. /\ ResetEndpoint(r) = [index |-> h.index, cycle |-> h.cycle, state |-> "stopped", ran |-> h.ran]
       /\ SetDequeue(r) = [index |-> k.index, cycle |-> k.cycle, state |-> h.state, ran |-> h.ran]
    <2>1. ResetEndpoint(r) = [h EXCEPT !.state = "stopped"]
        BY <1>11 DEF ResetEndpoint
    <2>2. [h EXCEPT !.state = "stopped"] = [index |-> h.index, cycle |-> h.cycle, state |-> "stopped", ran |-> h.ran]
        BY ONLY <1>12
    <2>3. PICK g : g = [h EXCEPT !.index = k.index, !.cycle = k.cycle]
        OBVIOUS
    <2>4. SetDequeue(r) = g
        BY <1>11, <2>3 DEF SetDequeue
    <2>5. g = [index |-> g.index, cycle |-> g.cycle, state |-> g.state, ran |-> g.ran]
        BY ONLY <1>12, <2>3
    <2>6. g.index = k.index /\ g.cycle = k.cycle /\ g.state = h.state /\ g.ran = h.ran
        BY ONLY <1>12, <2>3
    <2> QED BY ONLY <2>1, <2>2, <2>4, <2>5, <2>6
<1>15. new \in [index : Nat, cycle : BOOLEAN, state : {"running", "stopped", "halted"}, ran : Nat] /\ new.ran = h.ran
    <2>1. CASE new = h
        BY <1>12, <2>1
    <2>2. CASE new = ResetEndpoint(r)
        BY <1>12, <1>14, <2>2
    <2>3. CASE new = SetDequeue(r)
        BY <1>12, <1>14, <2>3
    <2> QED BY <1>13, <2>1, <2>2, <2>3
<1>16. UnreadOf(Endpoints) = {} /\ \A s \in Endpoints : Settled(s)
    BY LaneIdle, LanesOfRings DEF TransportInv, Done
<1>17. Settled(r)'
    <2>1. CASE new = h
        BY <1>4, <1>5, <1>8, <1>11, <1>16, <2>1, RingUntouched
    <2>2. CASE new = ResetEndpoint(r)
        BY <1>8, <1>14, <2>2 DEF Settled
    <2>3. CASE new = SetDequeue(r)
        <3>1. hw'[r].index = k.index /\ hw'[r].cycle = k.cycle /\ cursor'[r] = k
            BY <1>4, <1>8, <1>11, <1>14, <2>3
        <3> QED BY <1>12, <3>1 DEF Settled, Quiet, Stands
    <2> QED BY <1>13, <2>1, <2>2, <2>3
<1>18. RingShape(r)'
    <2>1. hw'[r].ran = hw[r].ran
        BY <1>8, <1>11, <1>15
    <2> QED BY <1>4, <1>5, <2>1 DEF TransportInv, RingShape
<1>19. \A s \in Rings \ {r, "command"} : RingShape(s)' /\ (s \in Endpoints => Settled(s)')
    <2>1. ASSUME NEW s \in Rings \ {r, "command"} PROVE RingShape(s)' /\ (s \in Endpoints => Settled(s)')
        <3>1. hw[s].ran \in Nat /\ RingShape(s)
            BY RingFields DEF TransportInv
        <3>2. ring'[s] = ring[s] /\ cursor'[s] = cursor[s] /\ hw'[s] = hw[s]
            BY <1>4, <1>8
        <3>3. submitted' = submitted /\ submitted \in Nat /\ submitted' \in Nat /\ submitted <= submitted'
            BY <1>4, <1>6
        <3>4. RingShape(s)' /\ (Settled(s)' <=> Settled(s))
            BY <3>1, <3>2, <3>3, RingUntouched
        <3> QED BY <1>16, <3>4
    <2> QED BY <2>1
<1>20. RingTypes'
    <2>1. \A s \in Rings : hw'[s] \in [index : Nat, cycle : BOOLEAN, state : {"running", "stopped", "halted"}, ran : Nat]
        BY <1>6, <1>8, <1>10, <1>15 DEF RingTypes
    <2> QED BY <1>4, <1>6, <1>8, <2>1 DEF RingTypes
<1>21. UnreadOf(Endpoints)' = {}
    BY <1>10, <1>16, LanesOfRings
<1>22. LaneInv(Endpoints, transfer)'
    <2>1. \A s \in Endpoints : Settled(s)'
        BY <1>17, <1>19, LanesOfRings
    <2>2. LaneInv(Endpoints, NotPending)'
        BY <1>4, <1>6, <1>21, <2>1, LaneCleared
    <2> QED BY <1>4, <2>2, LaneNext
<1>23. LaneInv({"command"}, command)'
    BY <1>4, <1>9, <1>10, LaneNext
<1>24. CommandReady'
    BY <1>4, <1>9, <1>10 DEF TransportInv, CommandReady
<1>25. \A s \in Rings : RingShape(s)'
    BY <1>10, <1>18, <1>19
<1>26. TransportInv'
    BY <1>10, <1>20, <1>22, <1>23, <1>24, <1>25 DEF TransportInv
<1>27. hw'["control"] = hw["control"]
    BY <1>5, <1>8
<1>28. \A s \in {"in", "out"} : s # r => hw'[s] = hw[s]
    BY <1>8 DEF Rings, Endpoints
<1>29. /\ what \in {"reset_out", "dequeue_out"} => r = "out"
       /\ what \in {"reset_in", "dequeue_in"} => r = "in"
    BY <1>1
<1>30. \A s \in {"in", "out"} :
                  /\ hw'[s] = hw[s] \/ hw'[s] = ResetEndpoint(s) \/ hw'[s] = SetDequeue(s)
                  /\ s = "in" /\ what \in {"reset_out", "dequeue_out"} => hw'[s] = hw[s]
                  /\ s = "out" /\ what \in {"reset_in", "dequeue_in"} => hw'[s] = hw[s]
                  /\ code # "success" => hw'[s] = hw[s]
    BY <1>7, <1>8, <1>11, <1>13, <1>28, <1>29
<1>31. code = "success" =>
                  /\ what = "reset_in" => hw'["in"] = ResetEndpoint("in")
                  /\ what = "reset_out" => hw'["out"] = ResetEndpoint("out")
                  /\ what = "dequeue_in" => hw'["in"] = SetDequeue("in")
                  /\ what = "dequeue_out" => hw'["out"] = SetDequeue("out")
    BY <1>3, <1>7, <1>8, <1>29
<1>32. CommandCodes' = {"none", code} /\ TransferCodes' = {"none"}
    BY <1>4, <1>9, <1>10, <1>21, NotPendingFields DEF TransferCodes, CommandCodes
<1> QED BY <1>1, <1>4, <1>9, <1>10, <1>26, <1>27, <1>30, <1>31, <1>32

-----------------------------------------------------------------------------
(* What the invariant says to its users.                                   *)

\* A completed transfer or command is over, and left its ring ready unless
\* it stalled.
LEMMA PendingOver ==
    ASSUME TransportInv
    PROVE  /\ transfer.code # "none" => /\ Done(transfer) /\ transfer.owner \in Endpoints
                                        /\ Halts(transfer.owner)
                                        /\ transfer.code # "stall" => Ready(transfer.owner)
           /\ command.code # "none" => Done(command) /\ Ready("command")
           /\ transfer.owner = "none" => transfer = NotPending
           /\ command.owner = "none" => command = NotPending
<1>1. command.code # "none" => command.owner = "command"
    BY DEF TransportInv, LaneInv, PendingOK
<1> QED BY <1>1 DEF TransportInv, LaneInv, PendingOK, PendingTypes, Done, CommandReady

\* The controller can only execute what somebody awaits.
LEMMA OnlyAwaited ==
    ASSUME TransportInv
    PROVE  /\ \A r \in Rings : Settled(r) => ~CanExecute(r)
           /\ \A r \in Endpoints : CanExecute(r) => Loaded(r, transfer)
           /\ CanExecute("command") => Loaded("command", command) /\ command # NotPending
<1>1. \A r \in Rings : Settled(r) => ~CanExecute(r)
    BY QuietOffersNothing DEF TransportInv
<1>2. \A r \in Endpoints : CanExecute(r) => Loaded(r, transfer)
    BY <1>1, LanesOfRings DEF TransportInv, LaneInv
<1>3. CanExecute("command") => Loaded("command", command)
    BY <1>1, LanesOfRings DEF TransportInv, LaneInv
<1>4. NotPending.owner # "command"
    BY DEF NotPending
<1> QED BY <1>1, <1>2, <1>3, <1>4 DEF Loaded

LEMMA OffersTheAwaited ==
    ASSUME RingTypes, NEW r \in Rings, NEW p, Loaded(r, p), p.td \in Nat
    PROVE  Offered(r).td > hw[r].ran
<1>1. PICK i \in 0..Usable[r] - 1, y \in BOOLEAN : LoadedAt(r, p, i, y)
    BY DEF Loaded
<1>2. i \in Nat /\ hw[r].ran \in Nat
    <2>1. Usable[r] \in Nat /\ hw[r].ran \in Nat
        BY RingFields
    <2> QED BY ONLY <2>1, i \in 0..Usable[r] - 1
<1>3. Position(r).index = i
    BY <1>1, <1>2, StandsPosition DEF LoadedAt
<1>4. Offered(r).td = p.td
    BY <1>1, <1>3 DEF Offered, LoadedAt
<1> QED BY <1>2, <1>4 DEF Loaded

LEMMA NothingTwice ==
    ASSUME TransportInv
    PROVE  \A r \in Rings : CanExecute(r) => Offered(r).td > hw[r].ran
<1>1. RingTypes /\ transfer.td \in Nat /\ command.td \in Nat
    BY DEF TransportInv, LaneInv, PendingOK, PendingTypes
<1>2. ASSUME NEW r \in Endpoints, CanExecute(r) PROVE Offered(r).td > hw[r].ran
    BY <1>1, <1>2, OnlyAwaited, OffersTheAwaited, LanesOfRings
<1>3. ASSUME CanExecute("command") PROVE Offered("command").td > hw["command"].ran
    BY <1>1, <1>3, OnlyAwaited, OffersTheAwaited, LanesOfRings
<1> QED BY <1>2, <1>3 DEF Rings

LEMMA OwnCompletions ==
    ASSUME TransportInv
    PROVE  \A pending \in {command, transfer} : pending.code # "none" => pending.took = pending.td
BY DEF TransportInv, LaneInv, PendingOK
=============================================================================
