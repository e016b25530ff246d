------------------------------ MODULE Transport ------------------------------
(***************************************************************************)
(* SecureWebSocketTransport of network/transport.ts: the sockets of one    *)
(* node, the map from peer ids to sockets, and the reconnection timers.    *)
(*                                                                         *)
(* Peers dialled are known by the id in their URL (or the URL), peers that *)
(* dial in by the id they announce; one id may be used both ways.  The ws  *)
(* library ends every socket with a 'close' event, preceded by 'error' *)
(* when the connection failed or broke.  Sending reads the map and changes *)
(* nothing here; the contents of messages are not modelled.                *)
(***************************************************************************)
EXTENDS Integers, Sequences, FiniteSets

CONSTANTS
    OutPeer,         \* ids of the peers this node connects to
    InPeer,          \* ids announced by peers that connect to this node
    MaxConnections,  \* config.maxConnections
    MaxSockets       \* bound on sockets created

ASSUME TransportAssumption ==
    /\ MaxConnections \in Nat
    /\ MaxSockets \in Nat

VARIABLES
    clients,    \* peer id -> its socket, for the peers that have one
    sock,       \* sock[s] = [peer, out, state]: all sockets so far
    tracked,    \* the entry of reconnectTimers: "none", "armed", or "idle" once
                \* it fired or was cleared (entries are not removed)
    orphans,    \* armed timers that are no longer in reconnectTimers
    isClosing,
    wanted,     \* peers connect() opened a socket for and nobody disconnected
    opening     \* sockets that were connecting when close() first ran

transportVars == <<clients, sock, tracked, orphans, isClosing, wanted, opening>>

Peer == OutPeer \cup InPeer

TransportInit ==
    /\ clients = << >>
    /\ sock = << >>
    /\ tracked = [p \in OutPeer |-> "none"]
    /\ orphans = [p \in OutPeer |-> 0]
    /\ isClosing = FALSE
    /\ wanted = {}
    /\ opening = {}

Set(p, s) == [x \in DOMAIN clients \cup {p} |-> IF x = p THEN s ELSE clients[x]]
Without(p) == [x \in DOMAIN clients \ {p} |-> clients[x]]

\* Mutant: a peer that has an entry in reconnectTimers is taken for one whose
\* timer is armed.
ScheduleReconnect_Once(p, times) ==
    IF isClosing \/ times = 0 \/ tracked[p] # "none" THEN UNCHANGED <<tracked, orphans>>
    ELSE /\ tracked' = [tracked EXCEPT ![p] = "armed"]
         /\ orphans' = [orphans EXCEPT ![p] = @ + times - 1]

\* Calls of scheduleReconnect in a row: each arms a timer and overwrites the
\* entry of the one before, which stays armed.
ScheduleReconnect(p, times) ==
    IF isClosing \/ times = 0 THEN UNCHANGED <<tracked, orphans>>
    ELSE /\ tracked' = [tracked EXCEPT ![p] = "armed"]
         /\ orphans' = [orphans EXCEPT ![p] =
                           @ + times - (IF tracked[p] = "armed" THEN 0 ELSE 1)]

-----------------------------------------------------------------------------
(* Sockets *)

\* Mutant: connect does not look at isClosing.
Dial_WhileClosing(p) ==
    IF p \in DOMAIN clients THEN UNCHANGED <<sock, wanted>>
    ELSE /\ Len(sock) < MaxSockets
         /\ sock' = Append(sock, [peer |-> p, out |-> TRUE, state |-> "connecting"])
         /\ wanted' = wanted \cup {p}

\* The body of connect(): nothing while closing, or when the peer has a socket.
Dial(p) ==
    IF isClosing \/ p \in DOMAIN clients THEN UNCHANGED <<sock, wanted>>
    ELSE /\ Len(sock) < MaxSockets
         /\ sock' = Append(sock, [peer |-> p, out |-> TRUE, state |-> "connecting"])
         /\ wanted' = wanted \cup {p}

Connect(p) ==
    /\ Dial(p)
    /\ UNCHANGED <<clients, tracked, orphans, isClosing, opening>>

\* A reconnection timer fires; the entry of reconnectTimers stays.
TimerFires(p) ==
    /\ \/ tracked[p] = "armed" /\ tracked' = [tracked EXCEPT ![p] = "idle"]
                               /\ UNCHANGED orphans
       \/ orphans[p] > 0 /\ orphans' = [orphans EXCEPT ![p] = @ - 1]
                         /\ UNCHANGED tracked
    /\ Dial(p)
    /\ UNCHANGED <<clients, isClosing, opening>>

\* 'open' on an outgoing socket: setupClient replaces the entry of the peer.
SocketOpens(s) ==
    /\ sock[s].state = "connecting"
    /\ sock' = [sock EXCEPT ![s].state = "open"]
    /\ clients' = Set(sock[s].peer, s)
    /\ UNCHANGED <<tracked, orphans, isClosing, wanted, opening>>

Full == Cardinality(DOMAIN clients) >= MaxConnections

\* 'connection' on the server: the refused ones leave no trace.
Accept(p) ==
    /\ ~isClosing
    /\ ~Full
    /\ Len(sock) < MaxSockets
    /\ sock' = Append(sock, [peer |-> p, out |-> FALSE, state |-> "open"])
    /\ clients' = Set(p, Len(sock'))
    /\ UNCHANGED <<tracked, orphans, isClosing, wanted, opening>>

\* Mutant: only outgoing sockets remove the entry.
AfterClose_OutOnly(s) == IF sock[s].out THEN Without(sock[s].peer) ELSE clients

\* The close handlers delete the entry of the peer, whichever socket it names.
AfterClose(s) == Without(sock[s].peer)

\* A socket ends.  For an outgoing one an error and the close each schedule a
\* reconnection; a failed attempt (refused, or timed out and terminated) always
\* has both.
Ends(s, error) ==
    /\ sock[s].state # "gone"
    /\ sock[s].state = "connecting" => error
    /\ sock' = [sock EXCEPT ![s].state = "gone"]
    /\ clients' = AfterClose(s)
    /\ IF sock[s].out THEN ScheduleReconnect(sock[s].peer, IF error THEN 2 ELSE 1)
       ELSE UNCHANGED <<tracked, orphans>>
    /\ UNCHANGED <<isClosing, wanted, opening>>

-----------------------------------------------------------------------------
(* Calls of the owner *)

\* Mutant: the sockets are dropped from the map and left open.
Closing_Drops(S) == sock

\* ws.close() on a socket: its close event comes later.
Closing(S) == [s \in DOMAIN sock |->
    IF s \in S /\ sock[s].state = "open" THEN [sock[s] EXCEPT !.state = "closing"]
    ELSE sock[s]]

\* A message above maxPayloadSize closes its socket.
PayloadTooLarge(s) ==
    /\ sock[s].state = "open"
    /\ sock' = Closing({s})
    /\ UNCHANGED <<clients, tracked, orphans, isClosing, wanted, opening>>

Disconnect(p) ==
    /\ sock' = Closing({s \in DOMAIN sock : p \in DOMAIN clients /\ clients[p] = s})
    /\ clients' = Without(p)
    /\ tracked' = IF p \in OutPeer /\ tracked[p] = "armed"
                  THEN [tracked EXCEPT ![p] = "idle"] ELSE tracked
    /\ wanted' = wanted \ {p}
    /\ UNCHANGED <<orphans, isClosing, opening>>

\* close(), the first call or a later one.
Close ==
    /\ isClosing' = TRUE
    /\ tracked' = [p \in OutPeer |-> "none"]
    /\ sock' = Closing({clients[p] : p \in DOMAIN clients})
    /\ clients' = << >>
    /\ opening' = IF isClosing THEN opening
                  ELSE {s \in DOMAIN sock : sock[s].state = "connecting"}
    /\ UNCHANGED <<orphans, wanted>>

TransportNext ==
    \/ \E p \in OutPeer : Connect(p) \/ TimerFires(p)
    \/ \E p \in InPeer : Accept(p)
    \/ \E s \in DOMAIN sock : \/ SocketOpens(s)
                              \/ \E error \in BOOLEAN : Ends(s, error)
                              \/ PayloadTooLarge(s)
    \/ \E p \in Peer : Disconnect(p)
    \/ Close

TransportSpec == TransportInit /\ [][TransportNext]_transportVars

-----------------------------------------------------------------------------
(* Properties *)

Alive(s) == sock[s].state # "gone"

\* getConnectedPeers never lists a peer whose socket is gone, although a peer
\* can have several sockets and each close handler deletes the peer's entry
\* without looking which socket it names.
NoDeadClients ==
    \A p \in DOMAIN clients : Alive(clients[p])

HasSocketOrTimer(p) ==
    \/ tracked[p] = "armed"
    \/ orphans[p] > 0
    \/ \E s \in DOMAIN sock : sock[s].peer = p /\ Alive(s)

\* A peer that was connected to and not disconnected is never given up: it has
\* a socket, or a timer that will dial again is armed ("Reconnection will be
\* retried by the close handler").
RetriesGoOn ==
    ~isClosing => \A p \in wanted : HasSocketOrTimer(p)

\* A peer that was connected to and not disconnected is given up in one case
\* only: it has dialled in under its id, so that a timer found it connected and
\* did nothing, and that incoming socket has ended.
GivenUpOnlyAfterDialIn ==
    ~isClosing => \A p \in wanted :
        \/ HasSocketOrTimer(p)
        \/ \E s \in DOMAIN sock : sock[s].peer = p /\ ~sock[s].out /\ ~Alive(s)

\* A peer with an open socket is listed by getConnectedPeers as long as that
\* socket has no twin.  Only another socket of the same peer that was opened or
\* has ended - close handlers delete by id - makes the transport forget it.
ListedWithoutTwin ==
    \A s \in DOMAIN sock :
        /\ sock[s].state = "open"
        /\ \A t \in DOMAIN sock \ {s} : sock[t].peer = sock[s].peer => sock[t].state = "connecting"
        => sock[s].peer \in DOMAIN clients /\ clients[sock[s].peer] = s

\* After close() no timer, not even one that is no longer in reconnectTimers,
\* creates a socket, and the only peers that come back are those whose
\* connection attempt was under way.
QuietAfterClose ==
    /\ [][isClosing => Len(sock') = Len(sock)]_transportVars
    /\ [](isClosing => {clients[p] : p \in DOMAIN clients} \subseteq opening)

=============================================================================
