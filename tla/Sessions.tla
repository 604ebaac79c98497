------------------------------ MODULE Sessions ------------------------------
(***************************************************************************)
(* The connection life cycle of the sol broker (server.c, network.c).      *)
(*                                                                         *)
(* One thread runs epoll_wait and calls the closure registered with each   *)
(* ready descriptor, so every callback is one atomic step here.  What      *)
(* interleaves is everything else: which ready descriptor is served next,  *)
(* and when a peer dials, stops or vanishes.                               *)
(*                                                                         *)
(*   sock      the kernel's view of each descriptor: who is at the other   *)
(*             end, whether that peer has gone, the closure registered     *)
(*             with epoll and the event armed (EPOLLONESHOT: an event is   *)
(*             disarmed when it fires, and stays so until re-armed);       *)
(*   closures  the keys of sol.closures, cb the closures themselves;       *)
(*   heap      the struct sol_client allocations.  A freed one keeps its   *)
(*             bytes until malloc hands the address out again;             *)
(*   clients   sol.clients, the hash table from client id to sol_client.   *)
(*                                                                         *)
(* The handlers are modelled from the moment on_read hands them a packet,   *)
(* whole or in part.                                                       *)
(* The reply of SUBSCRIBE, UNSUBSCRIBE and PUBLISH is all that matters     *)
(* here; module Broker gives those handlers their full effect.             *)
(***************************************************************************)
EXTENDS Integers, FiniteSets

CONSTANTS
    Peers,      \* the machines that dial the broker
    ClientIds,  \* MQTT client identifiers, none a prefix of another
    Fds,        \* descriptors the process may have open for clients
    Closures,   \* addresses of struct closure
    Addrs,      \* addresses of struct sol_client
    Acks,       \* kinds of acknowledgement: SUBACK, UNSUBACK, PUBACK, PUBREC
    Ids,        \* Ids[p]: the identifiers peer p sends in CONNECT
    May,        \* May[p]: what peer p may do besides CONNECT
    NULL

BadFd == -1

\* What peers do.  "again": a second CONNECT on one connection; "early": a
\* request before CONNECT; "badbyte": a first byte recv_packet refuses;
\* "large": a packet longer than max_request_size; "fragment": packets that
\* arrive in pieces; "abort": gone before accept is through; "drop": the
\* connection breaks, between two packets unless they come in pieces; "reset":
\* it is reset within the body of a packet.
Ops == {"ack", "qos0", "disconnect", "again", "early", "badbyte", "large",
        "fragment", "abort", "drop", "reset"}

\* What the bytes of a packet that arrives in pieces can be taken for.
Misread == {"ack", "qos0", "disconnect", "again", "early", "badbyte"}

\* The payloads handlers store.
Replies == Acks \cup {"CONNACK"}

ASSUME FdsAssumption == Fds \subseteq Nat /\ IsFiniteSet(Fds)
ASSUME ClosuresAssumption == IsFiniteSet(Closures)
ASSUME NullAssumption ==
    NULL \notin Peers \cup ClientIds \cup Closures \cup Addrs \cup Replies
ASSUME IdsAssumption == Ids \in [Peers -> SUBSET ClientIds]
ASSUME MayAssumption == May \in [Peers -> SUBSET Ops]

VARIABLES
    up,            \* the process has not crashed
    sock,
    closures,
    cb,
    heap,
    clients,
    nclients,      \* struct sol_info
    nconnections

vars == <<up, sock, closures, cb, heap, clients, nclients, nconnections>>

\* The records of closed sockets, unallocated closures and sol_clients.
Closed == [peer |-> NULL, gone |-> FALSE, cb |-> NULL, ev |-> "none"]
Unused == [fd |-> BadFd, obj |-> NULL, payload |-> NULL, call |-> "none"]
Garbage == [live |-> FALSE, cid |-> NULL, fd |-> BadFd]

Socket == [peer : Peers \cup {NULL}, gone : BOOLEAN,
           cb : Closures \cup {NULL}, ev : {"none", "in", "out"}]
Closure == [fd : Fds \cup {BadFd}, obj : Addrs \cup {NULL},
            payload : Replies \cup {NULL}, call : {"none", "on_read", "on_write"}]
Client == [live : BOOLEAN, cid : ClientIds \cup {NULL}, fd : Fds \cup {BadFd}]

TypeOK ==
    /\ up \in BOOLEAN
    /\ sock \in [Fds -> Socket]
    /\ closures \in SUBSET Closures
    /\ cb \in [Closures -> Closure]
    /\ heap \in [Addrs -> Client]
    /\ clients \in [ClientIds -> Addrs \cup {NULL}]
    /\ nclients \in Int
    /\ nconnections \in Int

-----------------------------------------------------------------------------
\* start_server: empty tables, the listening socket armed.
Init ==
    /\ up = TRUE
    /\ sock = [f \in Fds |-> Closed]
    /\ closures = {}
    /\ cb = [c \in Closures |-> Unused]
    /\ heap = [a \in Addrs |-> Garbage]
    /\ clients = [id \in ClientIds |-> NULL]
    /\ nclients = 0
    /\ nconnections = 0

Open(f) == sock[f].peer # NULL

\* Peer p has no connection it still believes in, so it may dial.
Idle(p) == \A f \in Fds : sock[f].peer = p => sock[f].gone

\* accept(2) returns the lowest descriptor that is free.
LowestFree(f) == ~Open(f) /\ \A g \in Fds : g < f => Open(g)

\* An event armed on f fires and its closure's callback is fn.
Runs(f, fn) == sock[f].ev # "none" /\ cb[sock[f].cb].call = fn

\* s with fd closed: close(2), which also takes fd out of the epoll set.
\* On a descriptor that is not open it fails, and nobody looks.
close(s, fd) == [f \in Fds |-> IF f = fd THEN Closed ELSE s[f]]

\* s with the event of fd consumed (EPOLLONESHOT) and fd not re-armed.
disarm(s, fd) == [s EXCEPT ![fd].ev = "none"]

\* s after evloop_rearm_callback_read ("in") or _write ("out") on closure c.
rearm(s, c, e) ==
    [f \in Fds |-> IF f = cb[c].fd /\ s[f].peer # NULL
                   THEN [s[f] EXCEPT !.cb = c, !.ev = e] ELSE s[f]]

\* Mutants of the table's operation: the entry is removed and the client not
\* freed; the client is freed and the entry stays; neither happens.
del_client_leaks(id) ==
    /\ clients' = [i \in ClientIds |-> IF i = id THEN NULL ELSE clients[i]]
    /\ UNCHANGED heap
del_client_keeps_entry(id) ==
    /\ UNCHANGED clients
    /\ heap' = [a \in Addrs |->
                  [heap[a] EXCEPT !.live =
                     @ /\ ~\E i \in ClientIds : i = id /\ clients[i] = a]]
del_client_not(id) == UNCHANGED <<clients, heap>>

\* hashtable_del(sol.clients, id), whose client_destructor frees the client.
del_client(id) ==
    /\ clients' = [i \in ClientIds |-> IF i = id THEN NULL ELSE clients[i]]
    /\ heap' = [a \in Addrs |->
                  [heap[a] EXCEPT !.live =
                     @ /\ ~\E i \in ClientIds : i = id /\ clients[i] = a]]

\* hashtable_del(sol.closures, c), whose closure_destructor frees the closure
\* and its payload.
del_closure(c) ==
    /\ closures' = closures \ {c}
    /\ cb' = [cb EXCEPT ![c] = Unused]

\* What reading *a may yield.  The bytes of a freed sol_client are either
\* still there or overwritten by the allocator; the read may also crash, see
\* Fault.
Deref(a) == IF heap[a].live THEN {heap[a]} ELSE {heap[a], Garbage}

-----------------------------------------------------------------------------
\* on_accept creates closure c for descriptor fd, and counts it.
add_closure(c, fd) ==
    /\ c \in Closures \ closures
    /\ closures' = closures \cup {c}
    /\ cb' = [cb EXCEPT ![c] = [fd |-> fd, obj |-> NULL, payload |-> NULL,
                                call |-> "on_read"]]
    /\ nclients' = nclients + 1
    /\ nconnections' = nconnections + 1

on_accept(p, f, c) ==
    /\ Idle(p)
    /\ LowestFree(f)
    /\ add_closure(c, f)
    /\ sock' = [sock EXCEPT ![f] =
                  [peer |-> p, gone |-> FALSE, cb |-> c, ev |-> "in"]]
    /\ UNCHANGED <<up, heap, clients>>

\* accept_new_client failed and on_accept does not look: conn.fd is whatever
\* was on the stack, g here.  epoll refuses a g that is closed or already
\* registered.
on_accept_failed(c, g) ==
    /\ \E p \in Peers : Idle(p) /\ ("abort" \in May[p] \/ \A f \in Fds : Open(f))
    /\ add_closure(c, g)
    /\ sock' = [f \in Fds |-> IF f = g /\ Open(f) /\ sock[f].cb = NULL
                              THEN [sock[f] EXCEPT !.cb = c, !.ev = "in"]
                              ELSE sock[f]]
    /\ UNCHANGED <<up, heap, clients>>

\* The same when the peer goes away between accept and getpeername: the new
\* descriptor f stays open and belongs to nobody.
on_accept_leak(p, f, c, g) ==
    /\ "abort" \in May[p]
    /\ Idle(p)
    /\ LowestFree(f)
    /\ add_closure(c, g)
    /\ sock' = [x \in Fds |->
                  LET s == IF x = f THEN [Closed EXCEPT !.peer = p, !.gone = TRUE]
                                    ELSE sock[x]
                  IN  IF x = g /\ s.peer # NULL /\ s.cb = NULL
                      THEN [s EXCEPT !.cb = c, !.ev = "in"] ELSE s]
    /\ UNCHANGED <<up, heap, clients>>

\* The environment: peer p breaks its connection f.
Drop(f) ==
    /\ Open(f)
    /\ ~sock[f].gone
    /\ "drop" \in May[sock[f].peer]
    /\ sock' = [sock EXCEPT ![f].gone = TRUE]
    /\ UNCHANGED <<up, closures, cb, heap, clients, nclients, nconnections>>

\* What peer p does and the identifiers it says, as recv_packet sees it.  When a
\* body is not there as a whole it stops at EAGAIN and returns what there is: the
\* handler takes the rest from what malloc left in the buffer, and the next
\* on_read takes the bytes that come later for a packet of their own.  So a
\* packet in pieces may turn into any other, with anyone's identifier in it.
Does(p) == IF "fragment" \in May[p] THEN May[p] \cup Misread ELSE May[p]
Says(p) == IF "fragment" \in May[p] THEN ClientIds ELSE Ids[p]

\* on_read when recv_packet returns -ERRCLIENTDC (nothing to read, or a header
\* in pieces) or -ERRMAXREQSIZE: the buffer is freed and nothing else happens.
on_read_exit(f) ==
    /\ Runs(f, "on_read")
    /\ sock[f].gone \/ May[sock[f].peer] \cap {"fragment", "large"} # {}
    /\ sock' = disarm(sock, f)
    /\ UNCHANGED <<up, closures, cb, heap, clients, nclients, nconnections>>

\* evloop_wait on EPOLLERR or EPOLLHUP closes data.fd, the low half of the
\* closure's address: never the descriptor, which stays open and disarmed.
evloop_hangup(f) ==
    /\ sock[f].ev # "none"
    /\ sock[f].gone
    /\ sock' = disarm(sock, f)
    /\ UNCHANGED <<up, closures, cb, heap, clients, nclients, nconnections>>

\* on_read when recv_packet returns -ERRPACKETERR (label errdc).
on_read_errdc(f) ==
    LET c == sock[f].cb IN
    /\ Runs(f, "on_read")
    /\ "badbyte" \in Does(sock[f].peer)
    /\ cb[c].obj # NULL
    /\ \E r \in Deref(cb[c].obj) : del_client(r.cid)
    /\ sock' = close(disarm(sock, f), cb[c].fd)
    /\ del_closure(c)
    /\ nclients' = nclients - 1
    /\ nconnections' = nconnections - 1
    /\ UNCHANGED up

\* on_read hands the closure of f what it takes for a packet of kind op.
Request(f, op) ==
    /\ Runs(f, "on_read")
    /\ op \in Does(sock[f].peer)
    /\ cb[sock[f].cb].obj # NULL

\* Mutant: the payload is stored and the descriptor is not armed for it.
reply_unarmed(f, c, obj, pay) ==
    /\ cb' = [cb EXCEPT ![c] = [@ EXCEPT !.obj = obj, !.payload = pay,
                                         !.call = "on_write"]]
    /\ sock' = disarm(sock, f)

\* The handler stores a payload and returns REARM_W: on_read sets the callback
\* to on_write and arms the descriptor for writing.
reply(f, c, obj, pay) ==
    /\ cb' = [cb EXCEPT ![c] = [@ EXCEPT !.obj = obj, !.payload = pay,
                                         !.call = "on_write"]]
    /\ sock' = rearm(disarm(sock, f), c, "out")

\* CONNECT with an identifier that is in the table.
connect_double(f, id) ==
    LET c == sock[f].cb IN
    /\ clients[id] # NULL
    /\ sock' = close(disarm(sock, f), cb[c].fd)
    /\ del_client(id)
    /\ del_closure(c)
    /\ nclients' = nclients - 1
    /\ nconnections' = nconnections - 1
    /\ UNCHANGED up

\* CONNECT with an identifier that is not: malloc returns any free address.
connect_new(f, id) ==
    LET c == sock[f].cb IN
    /\ clients[id] = NULL
    /\ \E a \in Addrs :
          /\ ~heap[a].live
          /\ heap' = [heap EXCEPT ![a] = [live |-> TRUE, cid |-> id,
                                          fd |-> cb[c].fd]]
          /\ clients' = [clients EXCEPT ![id] = a]
          /\ reply(f, c, a, "CONNACK")
    /\ UNCHANGED <<up, closures, nclients, nconnections>>

connect_handler(f, id) ==
    /\ Runs(f, "on_read")
    /\ id \in Says(sock[f].peer)
    /\ cb[sock[f].cb].obj = NULL \/ "again" \in Does(sock[f].peer)
    /\ connect_double(f, id) \/ connect_new(f, id)

\* Mutant: the statistics are not updated.
disconnect_handler_uncounted(f) ==
    LET c == sock[f].cb IN
    /\ Request(f, "disconnect")
    /\ \E r \in Deref(cb[c].obj) :
          /\ sock' = close(disarm(sock, f), r.fd)
          /\ del_client(r.cid)
    /\ del_closure(c)
    /\ UNCHANGED <<up, nclients, nconnections>>

disconnect_handler(f) ==
    LET c == sock[f].cb IN
    /\ Request(f, "disconnect")
    /\ \E r \in Deref(cb[c].obj) :
          /\ sock' = close(disarm(sock, f), r.fd)
          /\ del_client(r.cid)
    /\ del_closure(c)
    /\ nclients' = nclients - 1
    /\ nconnections' = nconnections - 1
    /\ UNCHANGED up

\* subscribe_handler, unsubscribe_handler, and publish_handler for QoS 1 and
\* QoS 2, as far as the connection is concerned.
ack_handler(f, pay) ==
    /\ Request(f, "ack")
    /\ reply(f, sock[f].cb, cb[sock[f].cb].obj, pay)
    /\ UNCHANGED <<up, closures, heap, clients, nclients, nconnections>>

\* publish_handler for QoS 0 returns REARM_R, for which on_read has no branch.
publish_qos0(f) ==
    /\ Request(f, "qos0")
    /\ sock' = disarm(sock, f)
    /\ UNCHANGED <<up, closures, cb, heap, clients, nclients, nconnections>>

\* Mutants: on_write clears the callback, or leaves it on on_write.
written_no_call(b) == [b EXCEPT !.payload = NULL, !.call = "NULL"]
written_same_call(b) == [b EXCEPT !.payload = NULL]

\* The callback once its payload is sent, or lost to an error.
written(b) == [b EXCEPT !.payload = NULL, !.call = "on_read"]

on_write(f) ==
    LET c == sock[f].cb IN
    /\ Runs(f, "on_write")
    /\ cb' = [cb EXCEPT ![c] = written(@)]
    /\ sock' = rearm(disarm(sock, f), c, "in")
    /\ UNCHANGED <<up, closures, heap, clients, nclients, nconnections>>

\* The process dies: on a NULL obj (a request or a bad byte before CONNECT),
\* on a freed one (a request, a bad byte, or the error message of a failed
\* write), on a packet whose rest is not its own, or calling handlers[0] after
\* recv failed within a packet's body.
Faults(f) ==
    LET obj == cb[sock[f].cb].obj
        can == Does(sock[f].peer)
        freed == obj # NULL /\ ~heap[obj].live
    IN  \/ /\ Runs(f, "on_read")
           /\ \/ obj = NULL /\ can \cap {"early", "badbyte"} # {}
              \/ freed /\ can \cap {"ack", "qos0", "disconnect", "badbyte"} # {}
              \/ "fragment" \in can
              \/ sock[f].gone /\ "reset" \in can
        \/ Runs(f, "on_write") /\ sock[f].gone /\ freed

Crash(f) ==
    /\ Faults(f)
    /\ up' = FALSE
    /\ UNCHANGED <<sock, closures, cb, heap, clients, nclients, nconnections>>

-----------------------------------------------------------------------------
\* The callbacks that serve descriptor f.
Serve(f) ==
    \/ on_read_exit(f)
    \/ on_read_errdc(f)
    \/ evloop_hangup(f)
    \/ \E id \in ClientIds : connect_handler(f, id)
    \/ disconnect_handler(f)
    \/ \E pay \in Acks : ack_handler(f, pay)
    \/ publish_qos0(f)
    \/ on_write(f)
    \/ Crash(f)

Accept ==
    \/ \E p \in Peers, f \in Fds, c \in Closures : on_accept(p, f, c)
    \/ \E c \in Closures, g \in Fds \cup {BadFd} : on_accept_failed(c, g)
    \/ \E p \in Peers, f \in Fds, c \in Closures, g \in Fds \cup {BadFd} :
          on_accept_leak(p, f, c, g)

Next ==
    /\ up
    /\ \/ Accept
       \/ \E f \in Fds : Drop(f)
       \/ \E f \in Fds : Serve(f)

Spec == Init /\ [][Next]_vars

-----------------------------------------------------------------------------
(* Safety, whatever the peers do.                                          *)

\* An armed descriptor is registered with a live closure of its own, whose
\* callback fits the event: it waits for input with on_read and no payload,
\* or for output with on_write, a payload to send and a client to name if
\* that fails.  So no event reaches a freed closure (closure_destructor) and
\* on_write never dereferences a NULL payload or a NULL obj.
Lockstep ==
    \A f \in Fds : sock[f].ev # "none" =>
        LET c == sock[f].cb IN
        /\ Open(f)
        /\ c \in closures
        /\ cb[c].fd = f
        /\ \/ /\ sock[f].ev = "in"
              /\ cb[c].call = "on_read"
              /\ cb[c].payload = NULL
           \/ /\ sock[f].ev = "out"
              /\ cb[c].call = "on_write"
              /\ cb[c].payload # NULL
              /\ cb[c].obj # NULL

\* sol.clients and the allocations agree: an entry points to an allocation
\* that carries its identifier, and every allocation is in the table, so none
\* leaks and none is freed twice (client_destructor), even when a handler
\* reads an identifier out of freed memory.
TableOwnsClients ==
    /\ \A id \in ClientIds : clients[id] # NULL =>
          heap[clients[id]].live /\ heap[clients[id]].cid = id
    /\ \A a \in Addrs : heap[a].live =>
          heap[a].cid # NULL /\ clients[heap[a].cid] = a

\* info.nclients is the number of closures in sol.closures, so it never falls
\* below zero: the three paths that remove a closure (errdc, a double CONNECT,
\* DISCONNECT) each have to count it out, once, whichever client they free.  It
\* is not "Number of clients currently connected": a connection that breaks keeps
\* its closure.
CountedClosures == nclients = Cardinality(closures)

-----------------------------------------------------------------------------
(* Safety when peers keep to the protocol.                                 *)

\* Every identifier belongs to one peer, packets arrive whole, and peers neither
\* break connections nor send CONNECT twice.
WellBehaved ==
    /\ \A p, q \in Peers : p # q => Ids[p] \cap Ids[q] = {}
    /\ \A p \in Peers : May[p] \cap {"again", "drop", "abort", "fragment"} = {}

\* A closure that went through CONNECT points to a live client of the same
\* descriptor, which is open and its own; and every client in the table is
\* the obj of such a closure.  (No use after free in disconnect_handler, in
\* errdc or in on_write; no ghost entry that refuses its owner's CONNECT.)
NoDangling ==
    /\ \A c \in closures : cb[c].obj # NULL =>
          /\ heap[cb[c].obj].live
          /\ heap[cb[c].obj].fd = cb[c].fd
          /\ cb[c].fd \in Fds
          /\ sock[cb[c].fd].cb = c
    /\ \A id \in ClientIds : clients[id] # NULL =>
          \E c \in closures : cb[c].obj = clients[id]

\* Serving one connection closes or re-arms no other, and frees no client but
\* its own: connect_handler's "double CONNECT" branch, which frees somebody
\* else's client, is not taken.
Isolation ==
    [][\A f \in Fds : Serve(f) =>
         /\ \A g \in Fds \ {f} : sock'[g] = sock[g]
         /\ \A a \in Addrs : heap[a].live /\ heap[a].fd # f => heap'[a] = heap[a]
      ]_vars

-----------------------------------------------------------------------------
(* Liveness.                                                               *)

\* The loop serves every ready descriptor, and the kernel lets the broker
\* accept a peer that keeps dialling.
Fairness ==
    /\ \A f \in Fds : WF_vars(up /\ Serve(f))
    /\ \A p \in Peers :
         WF_vars(up /\ \E f \in Fds, c \in Closures : on_accept(p, f, c))

FairSpec == Spec /\ Fairness

\* A payload that a handler stored is sent: on_write runs for it, whatever
\* the other connections do meanwhile.
RepliesSent ==
    \A c \in Closures : cb[c].payload # NULL ~> cb[c].payload = NULL \/ ~up

\* Peer p has a connection it believes in and a client on it.
InSession(p) ==
    \E f \in Fds : /\ sock[f].peer = p
                   /\ ~sock[f].gone
                   /\ \E id \in Ids[p] : clients[id] # NULL /\ heap[clients[id]].fd = f

\* Nothing is left to accept a connection with.
Exhausted == closures = Closures \/ \A f \in Fds : Open(f)

\* A peer that lost its connection and keeps dialling gets a session again,
\* although the entry of the broken one makes connect_handler refuse the
\* first attempt, unless the leaked descriptors have used up the table.
Reconnects == \A p \in Peers : Idle(p) ~> (InSession(p) \/ Exhausted \/ ~up)
=============================================================================
