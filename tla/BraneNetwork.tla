---------------------------- MODULE BraneNetwork ----------------------------
(***************************************************************************)
(* Talking to other branes: the socket table (kernel/src/socket.rs), the   *)
(* brane manager's table of sessions (brane.rs), and one BraneSession      *)
(* (brane_session.rs) fed by DiscoverySubsystem::process_session_data      *)
(* (brane_discovery.rs).  Each table is behind a lock and each operation   *)
(* is one step.                                                            *)
(*                                                                         *)
(* The peer (external) answers the handshake, offers capabilities and      *)
(* sends numbered data, encrypted with a nonce it counts; what it sends    *)
(* arrives in order, may be damaged, and one read of the connection may    *)
(* return the start of the next packet too.  Decryption succeeds exactly   *)
(* when key and nonce agree and the packet is whole.                       *)
(***************************************************************************)
EXTENDS Naturals, Sequences, FiniteSets

CONSTANTS MAX_SOCKETS, MAX_DISCOVERED, MAX_SESSIONS,
          MaxSocketIds, MaxSessionIds, \* bounds on the ids given out
          MaxPackets                   \* bound on what the peer sends

ASSUME BraneAssumption ==
    MAX_SOCKETS \in Nat \ {0} /\ MAX_DISCOVERED \in Nat \ {0} /\ MAX_SESSIONS \in Nat \ {0}

VARIABLES sockets, next_socket_id,       \* SOCKET_TABLE
          discovered, sessions, next_session_id, \* BRANE
          session, wire, peer, accepted, \* the session, what is on its way to it, what it took
          starting,                      \* initiate_handshake between its two locks
          handshakes                     \* the sockets that have a session in DISCOVERY

tableVars == <<sockets, next_socket_id, starting, handshakes>>
managerVars == <<discovered, sessions, next_session_id>>
sessionVars == <<session, wire, peer, accepted>>
braneVars == <<tableVars, managerVars, sessionVars>>

FreeSocket == [id |-> 0, protocol |-> "none", state |-> "Closed"]
NoSession == [id |-> 0, brane |-> 0]
NewSession == [state |-> "Init", keyed |-> FALSE, offered |-> FALSE, remote |-> FALSE, tx |-> 0, rx |-> 0]
NotStarting == 0

BraneInit ==
    /\ sockets = [i \in 1..MAX_SOCKETS |-> FreeSocket]
    /\ next_socket_id = 1
    /\ starting = NotStarting /\ handshakes = {}
    /\ discovered = 0
    /\ sessions = [i \in 1..MAX_SESSIONS |-> NoSession]
    /\ next_session_id = 1
    /\ session = NewSession
    /\ wire = <<>>
    /\ peer = [sent |-> 0, nonce |-> 0]
    /\ accepted = <<>>

-----------------------------------------------------------------------------
(* socket.rs.                                                              *)

Active(i) == sockets[i].state # "Closed"
Holding(id) == {i \in 1..MAX_SOCKETS : sockets[i].id = id /\ Active(i)}
FirstFree == CHOOSE i \in 1..MAX_SOCKETS : ~Active(i) /\ \A j \in 1..i - 1 : Active(j)

\* The first slot that is not active is used again; ids are not.
CreateSocket(protocol) ==
    /\ next_socket_id <= MaxSocketIds
    /\ \E i \in 1..MAX_SOCKETS : ~Active(i)
    /\ sockets' = [sockets EXCEPT ![FirstFree] =
           [id |-> next_socket_id, protocol |-> protocol, state |-> "Created"]]
    /\ next_socket_id' = next_socket_id + 1

SetState(id, state) == sockets' = [i \in 1..MAX_SOCKETS |->
    IF i \in Holding(id) THEN [sockets[i] EXCEPT !.state = state] ELSE sockets[i]]

StateOf(id) == IF Holding(id) = {} THEN "Closed" ELSE sockets[CHOOSE i \in Holding(id) : TRUE].state
ProtocolOf(id) == sockets[CHOOSE i \in Holding(id) : TRUE].protocol

Bind(id) == StateOf(id) = "Created" /\ SetState(id, "Bound") /\ UNCHANGED <<next_socket_id, starting, handshakes>>
Listen(id) == StateOf(id) = "Bound" /\ ProtocolOf(id) = "Tcp" /\ SetState(id, "Listening")
              /\ UNCHANGED <<next_socket_id, starting, handshakes>>
ConnectSocket(id) == StateOf(id) \notin {"Closed", "Connected"} /\ SetState(id, "Connected")
                     /\ UNCHANGED <<next_socket_id, starting, handshakes>>
CloseSocket(id) == StateOf(id) # "Closed" /\ SetState(id, "Closed") /\ UNCHANGED <<next_socket_id, starting, handshakes>>
CanSendTo(id) == StateOf(id) \in {"Bound", "Connected"}

\* DiscoverySubsystem::initiate_handshake: a socket under one lock ...
InitiateHandshake ==
    /\ starting = NotStarting
    /\ CreateSocket("Tcp")
    /\ starting' = next_socket_id
    /\ UNCHANGED handshakes

\* ... and, under another, its first packet; a refusal returns at once.
SendHandshakeInit ==
    /\ starting # NotStarting
    /\ starting' = NotStarting
    /\ handshakes' = IF CanSendTo(starting) THEN handshakes \cup {starting} ELSE handshakes
    /\ UNCHANGED <<sockets, next_socket_id>>

Tables ==
    \/ \E p \in {"Tcp", "Udp"} : CreateSocket(p) /\ UNCHANGED <<starting, handshakes>>
    \/ \E id \in 1..MaxSocketIds : Bind(id) \/ Listen(id) \/ ConnectSocket(id) \/ CloseSocket(id)
    \/ InitiateHandshake \/ SendHandshakeInit

-----------------------------------------------------------------------------
(* brane.rs.                                                               *)

\* Every announcement takes a slot of its own.
RegisterDiscovered ==
    /\ discovered < MAX_DISCOVERED
    /\ discovered' = discovered + 1
    /\ UNCHANGED <<sessions, next_session_id>>

\* Fault: a session is known by its slot.
SessionIdSlot(slot) == slot

\* The id of a new session.
SessionId(slot) == next_session_id

\* One active session per brane; sessions in the table are active.
ConnectBrane(brane) ==
    /\ brane \in 1..discovered
    /\ next_session_id <= MaxSessionIds
    /\ \A i \in 1..MAX_SESSIONS : sessions[i].brane # brane
    /\ \E slot \in 1..MAX_SESSIONS :
           /\ sessions[slot] = NoSession /\ \A j \in 1..slot - 1 : sessions[j] # NoSession
           /\ sessions' = [sessions EXCEPT ![slot] = [id |-> SessionId(slot), brane |-> brane]]
    /\ next_session_id' = next_session_id + 1
    /\ UNCHANGED discovered

Disconnect(id) ==
    /\ \E i \in 1..MAX_SESSIONS : sessions[i].id = id /\ sessions' = [sessions EXCEPT ![i] = NoSession]
    /\ UNCHANGED <<discovered, next_session_id>>

Manages ==
    \/ RegisterDiscovered
    \/ \E brane \in 1..MAX_DISCOVERED : ConnectBrane(brane)
    \/ \E id \in 1..MaxSessionIds : Disconnect(id)

-----------------------------------------------------------------------------
(* brane_session.rs.                                                       *)

\* initiate_handshake calls it on a new session only.
BuildHandshakeInit ==
    /\ session.state = "Init"
    /\ session' = [session EXCEPT !.state = "WaitResponse"]
    /\ UNCHANGED <<wire, peer, accepted>>

BuildCapabilityExchange ==
    /\ session.state = "WaitCapability" /\ ~session.offered
    /\ session' = [session EXCEPT !.offered = TRUE]
    /\ UNCHANGED <<wire, peer, accepted>>

EncryptPayload ==
    /\ session.state = "Established" /\ session.tx < MaxPackets
    /\ session' = [session EXCEPT !.tx = @ + 1]
    /\ UNCHANGED <<wire, peer, accepted>>

CloseSession ==
    /\ session.state # "Closed"
    /\ session' = [session EXCEPT !.state = "Closed"]
    /\ UNCHANGED <<wire, peer, accepted>>

\* The packet as the session sees it: a handshake is accepted once, a
\* capability exchange once, and data only when established.
ProcessHandshakeResponse(p) ==
    IF session.state = "WaitResponse" /\ p.whole
    THEN [session EXCEPT !.state = "WaitCapability", !.keyed = TRUE, !.tx = 0, !.rx = 0]
    ELSE session

ProcessCapabilityExchange(p) ==
    IF session.state = "WaitCapability" /\ p.whole
    THEN [session EXCEPT !.state = "Established", !.remote = TRUE]
    ELSE session

\* Fault: the nonce of a packet is taken from the packet.
NonceMatchesAny(p) == TRUE

NonceMatches(p) == p.nonce = session.rx

\* decrypt_payload uses up a nonce whether or not the packet decrypts.
Decrypts(p) == session.state = "Established" /\ session.keyed /\ p.whole /\ NonceMatches(p)

ProcessData(p) ==
    IF session.state = "Established" THEN [session EXCEPT !.rx = @ + 1] ELSE session

\* process_session_data on a segment that holds so many packets: the first is
\* processed, the others are not looked at.
ProcessSessionData(packets) ==
    LET p == wire[1]
    IN  /\ packets <= Len(wire)
        /\ wire' = SubSeq(wire, packets + 1, Len(wire))
        /\ session' = CASE p.type = "HandshakeResponse" -> ProcessHandshakeResponse(p)
                        [] p.type = "CapabilityExchange" -> ProcessCapabilityExchange(p)
                        [] p.type = "EncryptedData" -> ProcessData(p)
        /\ accepted' = IF p.type = "EncryptedData" /\ Decrypts(p) THEN Append(accepted, p.nonce) ELSE accepted
        /\ UNCHANGED peer

\* The peer (external): its packets may be repeated, since a duplicate is just
\* another packet to the session.
PeerSends(type, nonce, whole) ==
    /\ peer.sent < MaxPackets
    /\ session.state # "Init"
    /\ nonce <= peer.nonce /\ (type # "EncryptedData" => nonce = 0)
    /\ wire' = Append(wire, [type |-> type, nonce |-> nonce, whole |-> whole])
    /\ peer' = [sent |-> peer.sent + 1,
                nonce |-> IF type = "EncryptedData" /\ nonce = peer.nonce THEN peer.nonce + 1 ELSE peer.nonce]
    /\ UNCHANGED <<session, accepted>>

Sessions ==
    \/ BuildHandshakeInit \/ BuildCapabilityExchange \/ EncryptPayload \/ CloseSession
    \/ \E n \in 1..2 : ProcessSessionData(n)
    \/ \E type \in {"HandshakeResponse", "CapabilityExchange", "EncryptedData"},
          nonce \in 0..MaxPackets, whole \in BOOLEAN : PeerSends(type, nonce, whole)

BraneNext ==
    \/ Tables /\ UNCHANGED <<managerVars, sessionVars>>
    \/ Manages /\ UNCHANGED <<tableVars, sessionVars>>
    \/ Sessions /\ UNCHANGED <<tableVars, managerVars>>

BraneSpec == BraneInit /\ [][BraneNext]_braneVars

-----------------------------------------------------------------------------
(* Properties.                                                             *)

\* Data is accepted at most once and in the order the peer numbered it,
\* although packets are damaged, repeated, or swallowed with the packet before.
AcceptedInOrder ==
    /\ \A i, j \in 1..Len(accepted) : i < j => accepted[i] < accepted[j]
    /\ \A i \in 1..Len(accepted) : accepted[i] < peer.nonce

SocketIds == {sockets[i].id : i \in {i \in 1..MAX_SOCKETS : Active(i)}}
SessionIds == {sessions[i].id : i \in 1..MAX_SESSIONS} \ {0}

\* An id that was closed or disconnected never names a socket or a session
\* again, although its slot does: a caller that kept it is refused.
StaleIdRefused ==
    [][/\ (SocketIds' \ SocketIds) \cap 1..next_socket_id - 1 = {}
       /\ (SessionIds' \ SessionIds) \cap 1..next_session_id - 1 = {}]_braneVars
=============================================================================
