------------------------------- MODULE Link -------------------------------
(***************************************************************************)
(* How two nodes find each other and talk: bitcoind's v2 connections and   *)
(* the decoys on them (src/patches/bip324-decoy.patch), the registration   *)
(* of a peer (NodeCore::poll_accept and RpcBackend::accept in              *)
(* src/src/agent.rs), and the transport of its worker                      *)
(* (src/src/transport/bip324.rs).                                          *)
(*                                                                         *)
(* A connection is <<from, to, k>>: the k-th that `from` opens to `to`.    *)
(* Its directions are its ends: <<l, n>> is what n hears on l.  A packet   *)
(* is a numbered frame of babilonia's, or Generic: a decoy without the     *)
(* magic prefix, which only other software sends.                          *)
(***************************************************************************)
EXTENDS Naturals, Sequences

CONSTANTS
    Node, Babilonia,   \* bitcoind nodes, and those that run this program
    NoNode, NoLink,    \* Option::None
    Host,              \* the host each node's address is on
    Connections,       \* the connections that may come to be
    Budget,            \* MAX_RECV_DECOYS_MEMORY, in packets
    MaxFrames,         \* bound: frames a worker sends
    MaxNoise           \* bound: generic decoys in all

Generic == 0

ASSUME LinkAssumption ==
    /\ Babilonia \subseteq Node /\ NoNode \notin Node /\ NoLink \notin Connections
    /\ Connections \subseteq {l \in Node \X Node \X (Nat \ {0}) : l[1] # l[2]}
    /\ Budget \in Nat /\ MaxNoise \in Nat
    /\ MaxFrames \in Nat \ {0}    \* the hello is one
    /\ MaxFrames <= Budget        \* the program's own never fill it

VARIABLES
    state,     \* of each connection: new, up or down
    dialed,    \* NodeCore.dialed
    peer,      \* NodeCore.peer: the connection of the registered peer
    greeting,  \* whether the new worker has yet to send its hello
    wire,      \* what is on its way to each end
    buffer,    \* m_recv_decoys of the node at each end
    inbox,     \* Bip324Transport.inbox of each worker
    sent,      \* how many frames each worker has sent
    noise      \* how many generic decoys were sent

vars == <<state, dialed, peer, greeting, wire, buffer, inbox, sent, noise>>
core == <<dialed, peer, greeting>>

Touches(l, n) == n \in {l[1], l[2]}

Other(l, n) == IF n = l[1] THEN l[2] ELSE l[1]

End == {e \in Connections \X Babilonia : Touches(e[1], e[2])}

\* addr_matches: the same host, whatever the port.
AddrMatches(n, m) == Host[n] = Host[m]

Up(l, n) == state[l] = "up" /\ Touches(l, n)

\* `strip_prefix(DECOY_MAGIC)`: a packet of ours, or nothing.
Strip(packet) == IF packet = Generic THEN <<>> ELSE <<packet>>

\* What `filter_map` keeps of the decoys a node has.
Ours(packets) ==
    LET ours[i \in 0..Len(packets)] ==
            IF i = 0 THEN <<>> ELSE ours[i - 1] \o Strip(packets[i])
    IN ours[Len(packets)]

----------------------------------------------------------------------------
(* The nodes.                                                              *)

\* A connection, of bitcoind's own accord or after addnode; a later one
\* when the earlier is gone.
Connect(l) ==
    /\ state[l] = "new"
    /\ l[3] > 1 => state[<<l[1], l[2], l[3] - 1>>] = "down"
    /\ state' = [state EXCEPT ![l] = "up"]
    /\ UNCHANGED <<core, wire, buffer, inbox, sent, noise>>

\* A lost connection takes its buffers along.
Disconnect(l) ==
    /\ state[l] = "up"
    /\ state' = [state EXCEPT ![l] = "down"]
    /\ wire' = [e \in End |-> IF e[1] = l THEN <<>> ELSE wire[e]]
    /\ buffer' = [e \in End |-> IF e[1] = l THEN <<>> ELSE buffer[e]]
    /\ UNCHANGED <<core, inbox, sent, noise>>

\* Mutant: the node keeps whatever comes.
DeliverUnbounded(e) ==
    /\ wire[e] # <<>>
    /\ wire' = [wire EXCEPT ![e] = Tail(@)]
    /\ buffer' = [buffer EXCEPT ![e] = Append(@, Head(wire[e]))]
    /\ UNCHANGED <<state, core, inbox, sent, noise>>

\* ProcessReceivedPacketBytes: a decoy beyond the budget is dropped.
Deliver(e) ==
    /\ wire[e] # <<>>
    /\ wire' = [wire EXCEPT ![e] = Tail(@)]
    /\ buffer' = [buffer EXCEPT ![e] =
                     IF Len(@) < Budget THEN Append(@, Head(wire[e])) ELSE @]
    /\ UNCHANGED <<state, core, inbox, sent, noise>>

Post(e, packet) ==
    wire' = IF e \in End THEN [wire EXCEPT ![e] = Append(@, packet)] ELSE wire

\* Another program pads its connection.
Pad(l, n) ==
    /\ Up(l, n) /\ n \notin Babilonia /\ noise < MaxNoise
    /\ Post(<<l, Other(l, n)>>, Generic)
    /\ noise' = noise + 1
    /\ UNCHANGED <<state, core, buffer, inbox, sent>>

----------------------------------------------------------------------------
(* The core.                                                               *)

\* Command::Connect; "already added" counts as success.
Dial(n, m) ==
    /\ dialed' = [dialed EXCEPT ![n] = m]
    /\ UNCHANGED <<state, peer, greeting, wire, buffer, inbox, sent, noise>>

\* spawn_peer, with the frames its transport is seeded with.
SpawnPeer(n, l, seed, send_hello) ==
    /\ peer' = [peer EXCEPT ![n] = l]
    /\ greeting' = [greeting EXCEPT ![n] = send_hello]
    /\ inbox' = [inbox EXCEPT ![n] = seed]

\* Mutant: the dialer stays silent.
RegisterDialedSilently(n, l) ==
    /\ peer[n] = NoLink /\ dialed[n] # NoNode /\ Up(l, n)
    /\ AddrMatches(Other(l, n), dialed[n])
    /\ SpawnPeer(n, l, <<>>, FALSE)
    /\ UNCHANGED <<state, dialed, wire, buffer, sent, noise>>

\* poll_accept of a dialer: the peer at the host he dialed.
RegisterDialed(n, l) ==
    /\ peer[n] = NoLink /\ dialed[n] # NoNode /\ Up(l, n)
    /\ AddrMatches(Other(l, n), dialed[n])
    /\ SpawnPeer(n, l, <<>>, TRUE)
    /\ UNCHANGED <<state, dialed, wire, buffer, sent, noise>>

Drained(e) == buffer' = [buffer EXCEPT ![e] = <<>>]

\* Mutant: the frames read while probing are not handed on.
ProbeUnseeded(n, l) ==
    /\ peer[n] = NoLink /\ dialed[n] = NoNode /\ Up(l, n)
    /\ Drained(<<l, n>>)
    /\ IF Ours(buffer[<<l, n>>]) # <<>>
       THEN SpawnPeer(n, l, <<>>, FALSE)
       ELSE UNCHANGED <<peer, greeting, inbox>>
    /\ UNCHANGED <<state, dialed, wire, sent, noise>>

\* Mutant: any decoy identifies a peer.
ProbeAnyDecoy(n, l) ==
    /\ peer[n] = NoLink /\ dialed[n] = NoNode /\ Up(l, n)
    /\ Drained(<<l, n>>)
    /\ IF buffer[<<l, n>>] # <<>>
       THEN SpawnPeer(n, l, Ours(buffer[<<l, n>>]), FALSE)
       ELSE UNCHANGED <<peer, greeting, inbox>>
    /\ UNCHANGED <<state, dialed, wire, sent, noise>>

\* poll_accept of a node that dialed nobody probes its connections one by
\* one: the peer who sends our decoys is the one.
Probe(n, l) ==
    /\ peer[n] = NoLink /\ dialed[n] = NoNode /\ Up(l, n)
    /\ Drained(<<l, n>>)
    /\ IF Ours(buffer[<<l, n>>]) # <<>>
       THEN SpawnPeer(n, l, Ours(buffer[<<l, n>>]), FALSE)
       ELSE UNCHANGED <<peer, greeting, inbox>>
    /\ UNCHANGED <<state, dialed, wire, sent, noise>>

----------------------------------------------------------------------------
(* The worker.                                                             *)

\* senddecoy, or its error on a connection that is gone.
SendFrame(n) ==
    IF state[peer[n]] = "up"
    THEN /\ Post(<<peer[n], Other(peer[n], n)>>, sent[n] + 1)
         /\ sent' = [sent EXCEPT ![n] = @ + 1]
    ELSE UNCHANGED <<wire, sent>>

\* The hello; whether it went out is not looked at.
Hello(n) ==
    /\ greeting[n]
    /\ greeting' = [greeting EXCEPT ![n] = FALSE]
    /\ SendFrame(n)
    /\ UNCHANGED <<state, dialed, peer, buffer, inbox, noise>>

\* Transport::send.
Send(n) ==
    /\ peer[n] # NoLink /\ ~greeting[n] /\ sent[n] < MaxFrames
    /\ SendFrame(n)
    /\ UNCHANGED <<state, core, buffer, inbox, noise>>

\* drain_decoys, when the inbox is empty; a connection that is gone has none.
Drain(n) ==
    /\ peer[n] # NoLink /\ ~greeting[n] /\ inbox[n] = <<>>
    /\ inbox' = [inbox EXCEPT ![n] = Ours(buffer[<<peer[n], n>>])]
    /\ Drained(<<peer[n], n>>)
    /\ UNCHANGED <<state, core, wire, sent, noise>>

\* recv and try_recv hand over the first frame of the inbox.
Receive(n) ==
    /\ peer[n] # NoLink /\ ~greeting[n] /\ inbox[n] # <<>>
    /\ inbox' = [inbox EXCEPT ![n] = Tail(@)]
    /\ UNCHANGED <<state, core, wire, buffer, sent, noise>>

----------------------------------------------------------------------------

Init ==
    /\ state = [l \in Connections |-> "new"]
    /\ dialed = [n \in Babilonia |-> NoNode]
    /\ peer = [n \in Babilonia |-> NoLink]
    /\ greeting = [n \in Babilonia |-> FALSE]
    /\ wire = [e \in End |-> <<>>]
    /\ buffer = [e \in End |-> <<>>]
    /\ inbox = [n \in Babilonia |-> <<>>]
    /\ sent = [n \in Babilonia |-> 0]
    /\ noise = 0

\* poll_accept, for one connection of the list.
Registration(n, l) == RegisterDialed(n, l) \/ Probe(n, l)

Worker(n) == Hello(n) \/ Drain(n) \/ Receive(n)

Next ==
    \/ \E l \in Connections : Connect(l) \/ Disconnect(l)
    \/ \E l \in Connections, n \in Node : Pad(l, n)
    \/ \E e \in End : Deliver(e)
    \/ \E n, m \in Babilonia : n # m /\ Dial(n, m)
    \/ \E n \in Babilonia, l \in Connections : Registration(n, l)
    \/ \E n \in Babilonia : Worker(n) \/ Send(n)

\* addnode keeps trying to connect.
AddNode(l) == Connect(l) /\ l[1] \in Babilonia /\ dialed[l[1]] = l[2]

Fairness ==
    /\ \A l \in Connections : WF_vars(AddNode(l))
    /\ \A e \in End : WF_vars(Registration(e[2], e[1])) /\ WF_vars(Deliver(e))
    /\ \A n \in Babilonia : WF_vars(Worker(n))

Spec == Init /\ [][Next]_vars /\ Fairness

----------------------------------------------------------------------------
(* Properties.                                                             *)

\* Types, and the node's buffer stays within its budget.
LinkTypeOK ==
    /\ state \in [Connections -> {"new", "up", "down"}]
    /\ dialed \in [Babilonia -> Babilonia \union {NoNode}]
    /\ peer \in [Babilonia -> Connections \union {NoLink}]
    /\ greeting \in [Babilonia -> BOOLEAN]
    /\ wire \in [End -> Seq(0..MaxFrames)]
    /\ buffer \in [End -> Seq(0..MaxFrames)]
    /\ \A e \in End : Len(buffer[e]) <= Budget
    /\ inbox \in [Babilonia -> Seq(1..MaxFrames)]
    /\ sent \in [Babilonia -> 0..MaxFrames]
    /\ noise \in 0..MaxNoise

\* A node that dialed nobody registers only a peer who has registered the
\* same connection: never a bystander, whatever decoys it sends.
RegisteredBack ==
    \A n \in Babilonia :
        peer[n] # NoLink /\ dialed[n] = NoNode =>
            LET m == Other(peer[n], n) IN m \in Babilonia /\ peer[m] = peer[n]

\* The frames on their way to an end, wherever they are.
Pending ==
    [e \in End |-> (IF peer[e[2]] = e[1] THEN inbox[e[2]] ELSE <<>>)
                   \o Ours(buffer[e]) \o Ours(wire[e])]

Channel == INSTANCE Pipe WITH
    Ends <- End, Frames <- 1..MaxFrames,
    queue <- Pending, closed <- [e \in End |-> state[e[1]] = "down"]

\* Probing, seeding, draining and buffering together are the channel the
\* trait promises: nothing is lost, repeated or reordered while it is up.
ImplementsChannel == Channel!Spec

\* A node that dials one who waits is registered by him on the connection it
\* registered itself, unless a connection drops: the hello is sent once.
Meets ==
    \A n \in Babilonia : \A m \in Babilonia \ {n} :
        (dialed[n] = m /\ dialed[m] = NoNode) ~>
            \/ peer[n] # NoLink /\ peer[m] = peer[n]
            \/ dialed[m] # NoNode
            \/ \E l \in Connections : state[l] = "down"
============================================================================
