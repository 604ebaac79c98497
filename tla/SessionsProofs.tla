--------------------------- MODULE SessionsProofs ---------------------------
(***************************************************************************)
(* Proofs about module Sessions: type correctness, the lockstep of armed   *)
(* events and closures, the agreement of sol.clients with the allocations, *)
(* and the closure count, for every set of peers and whatever they do.     *)
(*                                                                         *)
(* Then about peers that keep to the protocol: when every identifier       *)
(* belongs to one peer and connections do not break, no pointer dangles    *)
(* and no connection disturbs another.                                     *)
(***************************************************************************)
EXTENDS Sessions, FiniteSetTheorems, TLAPS

-----------------------------------------------------------------------------
(* What the helpers return.                                                *)

\* close empties one entry of the socket table.
LEMMA closeFacts ==
    ASSUME NEW s \in [Fds -> Socket], NEW fd
    PROVE  /\ close(s, fd) \in [Fds -> Socket]
           /\ \A f \in Fds : close(s, fd)[f] = IF f = fd THEN Closed ELSE s[f]
  BY DEF close, Closed, Socket

\* disarm takes the event of one descriptor away.
LEMMA disarmFacts ==
    ASSUME NEW s \in [Fds -> Socket], NEW fd \in Fds
    PROVE  /\ disarm(s, fd) \in [Fds -> Socket]
           /\ disarm(s, fd)[fd] = [s[fd] EXCEPT !.ev = "none"]
           /\ disarm(s, fd)[fd].ev = "none"
           /\ disarm(s, fd)[fd].peer = s[fd].peer
           /\ disarm(s, fd)[fd].cb = s[fd].cb
           /\ \A f \in Fds \ {fd} : disarm(s, fd)[f] = s[f]
  BY DEF disarm, Socket

\* What evloop_add_callback does to the record of a socket.
LEMMA registerFacts ==
    ASSUME NEW r \in Socket, NEW c \in Closures
    PROVE  /\ [r EXCEPT !.cb = c, !.ev = "in"] \in Socket
           /\ [r EXCEPT !.cb = c, !.ev = "in"].peer = r.peer
           /\ [r EXCEPT !.cb = c, !.ev = "in"].cb = c
           /\ [r EXCEPT !.cb = c, !.ev = "in"].ev = "in"
  BY DEF Socket

\* rearm arms the descriptor of a closure if it is open, and no other.
LEMMA rearmFacts ==
    ASSUME NEW s \in [Fds -> Socket], NEW c \in Closures, NEW e \in {"in", "out"}
    PROVE  /\ rearm(s, c, e) \in [Fds -> Socket]
           /\ \A f \in Fds : f # cb[c].fd => rearm(s, c, e)[f] = s[f]
           /\ \A f \in Fds : s[f].peer = NULL => rearm(s, c, e)[f] = s[f]
           /\ \A f \in Fds : f = cb[c].fd /\ s[f].peer # NULL =>
                /\ rearm(s, c, e)[f].cb = c
                /\ rearm(s, c, e)[f].ev = e
                /\ rearm(s, c, e)[f].peer = s[f].peer
  BY DEF rearm, Socket

\* The effect of removing an identifier keeps the tables typed and in
\* agreement, even for an identifier read out of freed memory.
LEMMA delClientFacts ==
    ASSUME TypeOK, TableOwnsClients, NEW id, del_client(id)
    PROVE  /\ clients' \in [ClientIds -> Addrs \cup {NULL}]
           /\ heap' \in [Addrs -> Client]
           /\ TableOwnsClients'
  <1>1. /\ clients' \in [ClientIds -> Addrs \cup {NULL}]
        /\ \A i \in ClientIds : clients'[i] = IF i = id THEN NULL ELSE clients[i]
    BY DEF TypeOK, del_client
  <1>2. /\ heap' \in [Addrs -> Client]
        /\ \A a \in Addrs :
             /\ heap'[a].cid = heap[a].cid
             /\ heap'[a].live <=>
                  heap[a].live /\ ~\E i \in ClientIds : i = id /\ clients[i] = a
    BY DEF TypeOK, del_client, Client
  <1>3. ASSUME NEW i \in ClientIds, clients'[i] # NULL
        PROVE  heap'[clients'[i]].live /\ heap'[clients'[i]].cid = i
    <2>1. i # id /\ clients'[i] = clients[i] /\ clients[i] \in Addrs
      BY <1>1, <1>3 DEF TypeOK
    <2>2. heap[clients[i]].live /\ heap[clients[i]].cid = i
      BY <2>1, <1>3 DEF TableOwnsClients
    <2>3. ~\E j \in ClientIds : j = id /\ clients[j] = clients[i]
      BY <2>1, <2>2, <1>3 DEF TableOwnsClients
    <2> QED  BY <2>1, <2>2, <2>3, <1>2
  <1>4. ASSUME NEW a \in Addrs, heap'[a].live
        PROVE  heap'[a].cid # NULL /\ clients'[heap'[a].cid] = a
    <2>1. heap[a].live /\ heap[a].cid # NULL /\ clients[heap[a].cid] = a
      BY <1>2, <1>4 DEF TableOwnsClients
    <2>2. heap[a].cid \in ClientIds
      BY <2>1 DEF TypeOK, Client
    <2>3. heap[a].cid # id
      BY <1>2, <1>4, <2>1, <2>2
    <2> QED  BY <2>1, <2>2, <2>3, <1>1, <1>2
  <1> QED  BY <1>1, <1>2, <1>3, <1>4 DEF TableOwnsClients

\* A descriptor whose event fires has a closure of its own, not yet freed.
LEMMA RunsFacts ==
    ASSUME TypeOK, Lockstep, NEW f \in Fds, sock[f].ev # "none"
    PROVE  /\ sock[f].cb \in closures
           /\ sock[f].cb \in Closures
           /\ cb[sock[f].cb] \in Closure
           /\ cb[sock[f].cb].fd = f
           /\ sock[f] \in Socket
           /\ sock[f].peer # NULL
  BY DEF TypeOK, Lockstep, Open, Closure

\* Lockstep survives a step that leaves the closure c and the descriptor f it
\* serves consistent, closes any descriptor it likes and touches no other.
LEMMA LockstepKept ==
    ASSUME TypeOK, Lockstep, NEW f \in Fds, NEW c,
           sock' \in [Fds -> Socket],
           \A g \in Fds \ {f} : sock'[g] = sock[g] \/ sock'[g] = Closed,
           \A d \in closures \ {c} : d \in closures' /\ cb'[d] = cb[d],
           \A g \in Fds \ {f} : sock[g].ev # "none" => sock[g].cb # c,
           sock'[f].ev # "none" =>
               /\ sock'[f].peer # NULL
               /\ sock'[f].cb \in closures'
               /\ cb'[sock'[f].cb].fd = f
               /\ \/ /\ sock'[f].ev = "in"
                     /\ cb'[sock'[f].cb].call = "on_read"
                     /\ cb'[sock'[f].cb].payload = NULL
                  \/ /\ sock'[f].ev = "out"
                     /\ cb'[sock'[f].cb].call = "on_write"
                     /\ cb'[sock'[f].cb].payload # NULL
                     /\ cb'[sock'[f].cb].obj # NULL
    PROVE  Lockstep'
  <1> SUFFICES ASSUME NEW g \in Fds, sock'[g].ev # "none", g # f
               PROVE  /\ sock'[g].peer # NULL
                      /\ sock'[g].cb \in closures'
                      /\ cb'[sock'[g].cb].fd = g
                      /\ \/ /\ sock'[g].ev = "in"
                            /\ cb'[sock'[g].cb].call = "on_read"
                            /\ cb'[sock'[g].cb].payload = NULL
                         \/ /\ sock'[g].ev = "out"
                            /\ cb'[sock'[g].cb].call = "on_write"
                            /\ cb'[sock'[g].cb].payload # NULL
                            /\ cb'[sock'[g].cb].obj # NULL
    BY DEF Lockstep, Open
  <1>1. sock'[g] = sock[g] /\ sock[g].ev # "none"
    BY DEF Closed
  <1>2. sock[g].cb \in closures \ {c}
    BY <1>1 DEF Lockstep
  <1> QED  BY <1>1, <1>2 DEF Lockstep, Open
-----------------------------------------------------------------------------
(* The inductive invariant.  Lockstep is what makes it inductive: a callback *)
(* runs on the closure its descriptor is registered with, so that closure    *)
(* must be live and belong to that descriptor for the step to keep anything. *)
IInv == TypeOK /\ Lockstep /\ TableOwnsClients /\ CountedClosures

\* Adding a closure and removing one keep the count.
LEMMA addClosureFacts ==
    ASSUME TypeOK, CountedClosures, NEW c, NEW fd \in Fds \cup {BadFd},
           add_closure(c, fd)
    PROVE  /\ c \in Closures /\ c \notin closures
           /\ closures' = closures \cup {c}
           /\ closures' \in SUBSET Closures
           /\ cb' \in [Closures -> Closure]
           /\ cb'[c] = [fd |-> fd, obj |-> NULL, payload |-> NULL, call |-> "on_read"]
           /\ \A d \in Closures \ {c} : cb'[d] = cb[d]
           /\ nclients' \in Int /\ nconnections' \in Int
           /\ CountedClosures'
  <1>1. IsFiniteSet(closures)
    BY ClosuresAssumption, FS_Subset DEF TypeOK
  <1>2. Cardinality(closures') = Cardinality(closures) + 1
    BY <1>1, FS_AddElement DEF add_closure
  <1> QED  BY <1>2 DEF TypeOK, CountedClosures, add_closure, Closure

\* One closure less in the table, and in the count of the path that removes it.
LEMMA delClosureFacts ==
    ASSUME TypeOK, CountedClosures, NEW c \in closures, del_closure(c),
           nclients' = nclients - 1, nconnections' = nconnections - 1
    PROVE  /\ closures' = closures \ {c}
           /\ closures' \in SUBSET Closures
           /\ cb' \in [Closures -> Closure]
           /\ \A d \in Closures \ {c} : cb'[d] = cb[d]
           /\ nclients' \in Int /\ nconnections' \in Int
           /\ CountedClosures'
  <1>1. IsFiniteSet(closures)
    BY ClosuresAssumption, FS_Subset DEF TypeOK
  <1>2. Cardinality(closures') = Cardinality(closures) - 1
    BY <1>1, FS_RemoveElement DEF del_closure
  <1> QED  BY <1>2 DEF TypeOK, CountedClosures, del_closure, Closure, Unused

\* The steps that disarm a descriptor and change nothing else.
LEMMA DisarmKeeps ==
    ASSUME IInv, NEW f \in Fds, sock' = disarm(sock, f),
           UNCHANGED <<up, closures, cb, heap, clients, nclients, nconnections>>
    PROVE  IInv'
  <1>1. TypeOK'
    BY disarmFacts DEF IInv, TypeOK
  <1>2. Lockstep'
    <2>1. sock \in [Fds -> Socket]
      BY DEF IInv, TypeOK
    <2>2. sock'[f].ev = "none" /\ \A g \in Fds \ {f} : sock'[g] = sock[g]
      BY <2>1, disarmFacts
    <2> QED  BY <2>2 DEF IInv, Lockstep, Open
  <1> QED  BY <1>1, <1>2 DEF IInv, TableOwnsClients, CountedClosures

\* on_accept, and its two ways to go on after accept_new_client failed.
LEMMA AcceptKeeps ==
    ASSUME IInv, Accept
    PROVE  IInv'
  <1> USE DEF IInv
  <1>1. ASSUME NEW p \in Peers, NEW f \in Fds, NEW c \in Closures,
               on_accept(p, f, c)
        PROVE  IInv'
    <2>1. add_closure(c, f) /\ f \in Fds \cup {BadFd}
      BY <1>1 DEF on_accept
    <2>2. /\ sock' \in [Fds -> Socket]
          /\ \A g \in Fds \ {f} : sock'[g] = sock[g]
          /\ sock'[f] = [peer |-> p, gone |-> FALSE, cb |-> c, ev |-> "in"]
      BY <1>1 DEF on_accept, TypeOK, Socket
    <2>3. TypeOK' /\ CountedClosures'
      BY <1>1, <2>1, <2>2, addClosureFacts DEF on_accept, TypeOK
    <2>5. /\ c \in Closures /\ c \notin closures
          /\ closures' = closures \cup {c}
          /\ cb'[c] = [fd |-> f, obj |-> NULL, payload |-> NULL, call |-> "on_read"]
          /\ \A d \in Closures \ {c} : cb'[d] = cb[d]
      BY <2>1, addClosureFacts
    <2>4. Lockstep'
      <3>1. \A d \in closures \ {c} : d \in closures' /\ cb'[d] = cb[d]
        BY <2>5 DEF TypeOK
      <3>2. \A g \in Fds \ {f} : sock[g].ev # "none" => sock[g].cb # c
        BY <2>5 DEF Lockstep
      <3>3. /\ sock'[f].peer # NULL
            /\ sock'[f].cb \in closures'
            /\ cb'[sock'[f].cb].fd = f
            /\ sock'[f].ev = "in"
            /\ cb'[sock'[f].cb].call = "on_read"
            /\ cb'[sock'[f].cb].payload = NULL
        BY <2>2, <2>5, NullAssumption
      <3> QED  BY <2>2, <3>1, <3>2, <3>3, LockstepKept
    <2> QED  BY <1>1, <2>3, <2>4 DEF on_accept, TableOwnsClients
  <1>2. ASSUME NEW c \in Closures, NEW g \in Fds \cup {BadFd},
               on_accept_failed(c, g)
        PROVE  IInv'
    <2>1. add_closure(c, g)
      BY <1>2 DEF on_accept_failed
    <2>2. /\ sock' \in [Fds -> Socket]
          /\ \A f \in Fds : f # g => sock'[f] = sock[f]
          /\ \A f \in Fds : f = g =>
               \/ sock'[f] = sock[f]
               \/ sock'[f].peer # NULL /\ sock'[f].cb = c /\ sock'[f].ev = "in"
      BY <1>2 DEF on_accept_failed, TypeOK, Socket, Open
    <2>3. TypeOK' /\ CountedClosures'
      BY <1>2, <2>1, <2>2, addClosureFacts DEF on_accept_failed, TypeOK
    <2>6. /\ c \in Closures /\ c \notin closures
          /\ closures' = closures \cup {c}
          /\ cb'[c] = [fd |-> g, obj |-> NULL, payload |-> NULL, call |-> "on_read"]
          /\ \A d \in Closures \ {c} : cb'[d] = cb[d]
      BY <2>1, addClosureFacts
    <2>4. /\ \A d \in closures : d \in closures' /\ cb'[d] = cb[d]
          /\ c \in closures'
          /\ cb'[c].fd = g /\ cb'[c].call = "on_read" /\ cb'[c].payload = NULL
      BY <2>6 DEF TypeOK
    <2>5. Lockstep'
      BY <2>2, <2>4 DEF Lockstep, Open
    <2> QED  BY <1>2, <2>3, <2>5 DEF on_accept_failed, TableOwnsClients
  <1>3. ASSUME NEW p \in Peers, NEW f \in Fds, NEW c \in Closures,
               NEW g \in Fds \cup {BadFd}, on_accept_leak(p, f, c, g)
        PROVE  IInv'
    <2>1. add_closure(c, g)
      BY <1>3 DEF on_accept_leak
    <2> DEFINE leaked == [Closed EXCEPT !.peer = p, !.gone = TRUE]
               old(x) == IF x = f THEN leaked ELSE sock[x]
    <2>7. /\ leaked \in Socket /\ leaked.ev = "none"
          /\ \A x \in Fds : old(x) \in Socket
      BY DEF TypeOK, Socket, Closed
    <2>8. sock' = [x \in Fds |-> IF x = g /\ old(x).peer # NULL /\ old(x).cb = NULL
                                 THEN [old(x) EXCEPT !.cb = c, !.ev = "in"]
                                 ELSE old(x)]
      BY <1>3 DEF on_accept_leak
    <2>9. \A x \in Fds : /\ [old(x) EXCEPT !.cb = c, !.ev = "in"] \in Socket
                         /\ [old(x) EXCEPT !.cb = c, !.ev = "in"].peer = old(x).peer
                         /\ [old(x) EXCEPT !.cb = c, !.ev = "in"].cb = c
                         /\ [old(x) EXCEPT !.cb = c, !.ev = "in"].ev = "in"
      <3> HIDE DEF old
      <3> QED  BY <2>7, registerFacts
    <2>2. /\ sock' \in [Fds -> Socket]
          /\ \A x \in Fds :
               \/ sock'[x] = sock[x]
               \/ sock'[x].ev = "none"
               \/ /\ x = g /\ sock'[x].peer # NULL
                  /\ sock'[x].cb = c /\ sock'[x].ev = "in"
      <3> HIDE DEF leaked
      <3> QED  BY <2>7, <2>8, <2>9
    <2>3. TypeOK' /\ CountedClosures'
      BY <1>3, <2>1, <2>2, addClosureFacts DEF on_accept_leak, TypeOK
    <2>6. /\ c \in Closures /\ c \notin closures
          /\ closures' = closures \cup {c}
          /\ cb'[c] = [fd |-> g, obj |-> NULL, payload |-> NULL, call |-> "on_read"]
          /\ \A d \in Closures \ {c} : cb'[d] = cb[d]
      BY <2>1, addClosureFacts
    <2>4. /\ \A d \in closures : d \in closures' /\ cb'[d] = cb[d]
          /\ c \in closures'
          /\ cb'[c].fd = g /\ cb'[c].call = "on_read" /\ cb'[c].payload = NULL
      BY <2>6 DEF TypeOK
    <2>5. Lockstep'
      BY <2>2, <2>4 DEF Lockstep, Open
    <2> QED  BY <1>3, <2>3, <2>5 DEF on_accept_leak, TableOwnsClients
  <1> QED  BY <1>1, <1>2, <1>3 DEF Accept
\* The three ways a connection ends (errdc, double CONNECT, DISCONNECT): they
\* remove the serving closure, some client and close some descriptor.
LEMMA RemoveKeeps ==
    ASSUME IInv, NEW f \in Fds, sock[f].ev # "none", NEW fd, NEW id,
           sock' = close(disarm(sock, f), fd),
           del_client(id), del_closure(sock[f].cb),
           nclients' = nclients - 1, nconnections' = nconnections - 1, UNCHANGED up
    PROVE  IInv'
  <1> DEFINE c == sock[f].cb
  <1>1. c \in closures /\ c \in Closures /\ cb[c].fd = f
    BY RunsFacts DEF IInv
  <1>2. /\ closures' = closures \ {c}
        /\ closures' \in SUBSET Closures
        /\ cb' \in [Closures -> Closure]
        /\ \A d \in Closures \ {c} : cb'[d] = cb[d]
        /\ nclients' \in Int /\ nconnections' \in Int
        /\ CountedClosures'
    BY <1>1, delClosureFacts DEF IInv
  <1>3. /\ clients' \in [ClientIds -> Addrs \cup {NULL}]
        /\ heap' \in [Addrs -> Client]
        /\ TableOwnsClients'
    BY delClientFacts DEF IInv
  <1>4. /\ sock' \in [Fds -> Socket]
        /\ \A g \in Fds \ {f} : sock'[g] = sock[g] \/ sock'[g] = Closed
        /\ sock'[f].ev = "none"
    <2>1. sock \in [Fds -> Socket]
      BY DEF IInv, TypeOK
    <2>2. /\ disarm(sock, f) \in [Fds -> Socket]
          /\ disarm(sock, f)[f].ev = "none"
          /\ \A g \in Fds \ {f} : disarm(sock, f)[g] = sock[g]
      BY <2>1, disarmFacts
    <2>3. /\ sock' \in [Fds -> Socket]
          /\ \A g \in Fds : sock'[g] = IF g = fd THEN Closed ELSE disarm(sock, f)[g]
      BY <2>2, closeFacts
    <2>4. Closed.ev = "none"
      BY DEF Closed
    <2> QED  BY <2>2, <2>3, <2>4
  <1>5. TypeOK'
    BY <1>2, <1>3, <1>4 DEF IInv, TypeOK
  <1>6. Lockstep'
    <2>1. \A g \in Fds \ {f} : sock[g].ev # "none" => sock[g].cb # c
      BY <1>1 DEF IInv, Lockstep
    <2>2. \A d \in closures \ {c} : d \in closures' /\ cb'[d] = cb[d]
      BY <1>2 DEF IInv, TypeOK
    <2>3. TypeOK /\ Lockstep
      BY DEF IInv
    <2> HIDE DEF c
    <2> QED  BY <1>4, <2>1, <2>2, <2>3, LockstepKept
  <1> QED  BY <1>2, <1>3, <1>5, <1>6 DEF IInv

\* A handler that stores a payload leaves its closure waiting to write it.
LEMMA ReplyKeeps ==
    ASSUME TypeOK, Lockstep, NEW f \in Fds, sock[f].ev # "none",
           NEW obj \in Addrs, NEW pay \in Replies,
           reply(f, sock[f].cb, obj, pay), UNCHANGED closures
    PROVE  /\ sock' \in [Fds -> Socket]
           /\ cb' \in [Closures -> Closure]
           /\ Lockstep'
  <1> DEFINE c == sock[f].cb
  <1>1. c \in closures /\ c \in Closures /\ cb[c].fd = f /\ sock[f].peer # NULL
    BY RunsFacts
  <1>2. /\ cb' \in [Closures -> Closure]
        /\ cb'[c].fd = f /\ cb'[c].obj = obj /\ cb'[c].payload = pay
        /\ cb'[c].call = "on_write"
        /\ \A d \in Closures \ {c} : cb'[d] = cb[d]
    BY <1>1 DEF reply, TypeOK, Closure
  <1>3. /\ disarm(sock, f) \in [Fds -> Socket]
        /\ disarm(sock, f)[f].peer # NULL
        /\ \A g \in Fds \ {f} : disarm(sock, f)[g] = sock[g]
    BY <1>1, disarmFacts DEF TypeOK
  <1>4. /\ sock' \in [Fds -> Socket]
        /\ sock'[f].cb = c /\ sock'[f].ev = "out" /\ sock'[f].peer # NULL
        /\ \A g \in Fds \ {f} : sock'[g] = sock[g]
    <2>1. sock' = rearm(disarm(sock, f), c, "out")
      BY DEF reply
    <2> HIDE DEF c
    <2> QED  BY <1>1, <1>3, <2>1, rearmFacts
  <1>5. Lockstep'
    <2>1. \A g \in Fds \ {f} : sock[g].ev # "none" => sock[g].cb # c
      BY <1>1 DEF Lockstep
    <2>2. \A d \in closures \ {c} : d \in closures' /\ cb'[d] = cb[d]
      BY <1>2 DEF TypeOK
    <2>3. pay # NULL /\ obj # NULL
      BY NullAssumption
    <2> HIDE DEF c
    <2> QED  BY <1>1, <1>2, <1>4, <2>1, <2>2, <2>3, LockstepKept
  <1> QED  BY <1>2, <1>4, <1>5

\* connect_handler for a new identifier: the table and the heap agree on the
\* entry it adds.
LEMMA ConnectNewKeeps ==
    ASSUME IInv, NEW f \in Fds, sock[f].ev # "none", NEW id \in ClientIds,
           connect_new(f, id)
    PROVE  IInv'
  <1> DEFINE c == sock[f].cb
  <1>1. PICK a \in Addrs :
          /\ ~heap[a].live
          /\ heap' = [heap EXCEPT ![a] = [live |-> TRUE, cid |-> id, fd |-> cb[c].fd]]
          /\ clients' = [clients EXCEPT ![id] = a]
          /\ reply(f, c, a, "CONNACK")
    BY DEF connect_new
  <1>2. clients[id] = NULL /\ UNCHANGED <<up, closures, nclients, nconnections>>
    BY DEF connect_new
  <1>3. c \in Closures /\ cb[c].fd = f
    BY RunsFacts DEF IInv
  <1>4. /\ sock' \in [Fds -> Socket]
        /\ cb' \in [Closures -> Closure]
        /\ Lockstep'
    <2>1. "CONNACK" \in Replies
      BY DEF Replies
    <2>2. TypeOK /\ Lockstep
      BY DEF IInv
    <2> QED  BY <1>1, <1>2, <2>1, <2>2, ReplyKeeps
  <1>5. heap' \in [Addrs -> Client] /\ clients' \in [ClientIds -> Addrs \cup {NULL}]
    BY <1>1, <1>3 DEF IInv, TypeOK, Client
  <1>6. TypeOK'
    BY <1>2, <1>4, <1>5 DEF IInv, TypeOK
  <1>7. TableOwnsClients'
    <2>1. /\ heap'[a].live /\ heap'[a].cid = id
          /\ \A b \in Addrs \ {a} : heap'[b] = heap[b]
          /\ clients'[id] = a
          /\ \A i \in ClientIds \ {id} : clients'[i] = clients[i]
      BY <1>1 DEF IInv, TypeOK
    <2>2. ASSUME NEW i \in ClientIds, clients'[i] # NULL
          PROVE  heap'[clients'[i]].live /\ heap'[clients'[i]].cid = i
      BY <1>1, <2>1, <2>2 DEF IInv, TypeOK, TableOwnsClients
    <2>3. ASSUME NEW b \in Addrs, heap'[b].live
          PROVE  heap'[b].cid # NULL /\ clients'[heap'[b].cid] = b
      <3>1. CASE b = a
        BY <2>1, <3>1, NullAssumption
      <3>2. CASE b # a
        <4>1. heap'[b] = heap[b] /\ heap[b].cid \in ClientIds \cup {NULL}
          BY <2>1, <3>2 DEF IInv, TypeOK, Client
        <4>2. heap[b].cid # NULL /\ clients[heap[b].cid] = b
          BY <4>1, <2>3 DEF IInv, TableOwnsClients
        <4>3. heap[b].cid # id
          BY <1>2, <4>2, NullAssumption
        <4> QED  BY <2>1, <4>1, <4>2, <4>3
      <3> QED  BY <3>1, <3>2
    <2> QED  BY <2>2, <2>3 DEF TableOwnsClients
  <1> QED  BY <1>2, <1>4, <1>6, <1>7 DEF IInv, CountedClosures
\* on_write clears the payload and leaves its closure waiting to read.
LEMMA WriteKeeps ==
    ASSUME IInv, NEW f \in Fds, on_write(f)
    PROVE  IInv'
  <1> DEFINE c == sock[f].cb
  <1>1. sock[f].ev # "none" /\ TypeOK /\ Lockstep
    BY DEF on_write, Runs, IInv
  <1>2. c \in closures /\ c \in Closures /\ cb[c].fd = f /\ sock[f].peer # NULL
    BY <1>1, RunsFacts
  <1>3. /\ cb' \in [Closures -> Closure]
        /\ cb'[c].fd = f /\ cb'[c].payload = NULL /\ cb'[c].call = "on_read"
        /\ \A d \in Closures \ {c} : cb'[d] = cb[d]
    BY <1>1, <1>2 DEF on_write, written, TypeOK, Closure
  <1>4. /\ disarm(sock, f) \in [Fds -> Socket]
        /\ disarm(sock, f)[f].peer # NULL
        /\ \A g \in Fds \ {f} : disarm(sock, f)[g] = sock[g]
    BY <1>1, <1>2, disarmFacts DEF TypeOK
  <1>5. /\ sock' \in [Fds -> Socket]
        /\ sock'[f].cb = c /\ sock'[f].ev = "in" /\ sock'[f].peer # NULL
        /\ \A g \in Fds \ {f} : sock'[g] = sock[g]
    <2>1. sock' = rearm(disarm(sock, f), c, "in")
      BY DEF on_write
    <2> HIDE DEF c
    <2> QED  BY <1>2, <1>4, <2>1, rearmFacts
  <1>6. UNCHANGED <<up, closures, heap, clients, nclients, nconnections>>
    BY DEF on_write
  <1>7. Lockstep'
    <2>1. \A g \in Fds \ {f} : sock[g].ev # "none" => sock[g].cb # c
      BY <1>1, <1>2 DEF Lockstep
    <2>2. \A d \in closures \ {c} : d \in closures' /\ cb'[d] = cb[d]
      BY <1>1, <1>3, <1>6 DEF TypeOK
    <2> HIDE DEF c
    <2> QED  BY <1>1, <1>2, <1>3, <1>5, <1>6, <2>1, <2>2, LockstepKept
  <1>8. TypeOK'
    BY <1>3, <1>5, <1>6 DEF IInv, TypeOK
  <1> QED  BY <1>6, <1>7, <1>8 DEF IInv, TableOwnsClients, CountedClosures

\* Every callback keeps the invariant.
LEMMA ServeKeeps ==
    ASSUME IInv, NEW f \in Fds, Serve(f)
    PROVE  IInv'
  <1>1. CASE on_read_exit(f)
    BY <1>1, DisarmKeeps DEF on_read_exit
  <1>2. CASE on_read_errdc(f)
    <2>1. PICK r \in Deref(cb[sock[f].cb].obj) : del_client(r.cid)
      BY <1>2 DEF on_read_errdc
    <2> QED  BY <1>2, <2>1, RemoveKeeps DEF on_read_errdc, Runs
  <1>3. CASE evloop_hangup(f)
    BY <1>3, DisarmKeeps DEF evloop_hangup
  <1>4. ASSUME NEW id \in ClientIds, connect_handler(f, id)
        PROVE  IInv'
    <2>1. sock[f].ev # "none"
      BY <1>4 DEF connect_handler, Runs
    <2>2. CASE connect_double(f, id)
      BY <2>1, <2>2, RemoveKeeps DEF connect_double
    <2>3. CASE connect_new(f, id)
      BY <2>1, <2>3, ConnectNewKeeps
    <2> QED  BY <1>4, <2>2, <2>3 DEF connect_handler
  <1>5. CASE disconnect_handler(f)
    <2>1. PICK r \in Deref(cb[sock[f].cb].obj) :
            sock' = close(disarm(sock, f), r.fd) /\ del_client(r.cid)
      BY <1>5 DEF disconnect_handler
    <2> QED  BY <1>5, <2>1, RemoveKeeps DEF disconnect_handler, Request, Runs
  <1>6. ASSUME NEW pay \in Acks, ack_handler(f, pay)
        PROVE  IInv'
    <2>1. /\ sock[f].ev # "none" /\ cb[sock[f].cb].obj # NULL
          /\ reply(f, sock[f].cb, cb[sock[f].cb].obj, pay)
          /\ UNCHANGED <<up, closures, heap, clients, nclients, nconnections>>
      BY <1>6 DEF ack_handler, Request, Runs
    <2>2. cb[sock[f].cb].obj \in Addrs
      BY <2>1, RunsFacts DEF IInv, Closure
    <2>3. pay \in Replies
      BY DEF Replies
    <2>4. sock' \in [Fds -> Socket] /\ cb' \in [Closures -> Closure] /\ Lockstep'
      BY <2>1, <2>2, <2>3, ReplyKeeps DEF IInv
    <2>5. TypeOK'
      BY <2>1, <2>4 DEF IInv, TypeOK
    <2> QED  BY <2>1, <2>4, <2>5 DEF IInv, TableOwnsClients, CountedClosures
  <1>7. CASE publish_qos0(f)
    BY <1>7, DisarmKeeps DEF publish_qos0
  <1>8. CASE on_write(f)
    BY <1>8, WriteKeeps
  <1>9. CASE Crash(f)
    BY <1>9 DEF Crash, IInv, TypeOK, Lockstep, Open, TableOwnsClients, CountedClosures
  <1> QED  BY <1>1, <1>2, <1>3, <1>4, <1>5, <1>6, <1>7, <1>8, <1>9 DEF Serve

\* The invariant holds at the start.
LEMMA InitIInv == Init => IInv
  <1> SUFFICES ASSUME Init PROVE IInv
    OBVIOUS
  <1>1. TypeOK
    BY DEF Init, TypeOK, Closed, Socket, Unused, Closure, Garbage, Client
  <1>2. Lockstep /\ TableOwnsClients
    BY DEF Init, Lockstep, TableOwnsClients, Closed, Garbage
  <1>3. CountedClosures
    BY FS_EmptySet DEF Init, CountedClosures
  <1> QED  BY <1>1, <1>2, <1>3 DEF IInv

\* Every step keeps it.
LEMMA NextIInv == IInv /\ [Next]_vars => IInv'
  <1> SUFFICES ASSUME IInv, [Next]_vars PROVE IInv'
    OBVIOUS
  <1>1. CASE Accept
    BY <1>1, AcceptKeeps
  <1>2. ASSUME NEW f \in Fds, Drop(f) PROVE IInv'
    <2>1. /\ sock' \in [Fds -> Socket]
          /\ \A g \in Fds : /\ sock'[g].peer = sock[g].peer
                            /\ sock'[g].cb = sock[g].cb
                            /\ sock'[g].ev = sock[g].ev
      BY <1>2 DEF Drop, IInv, TypeOK, Socket
    <2>2. UNCHANGED <<up, closures, cb, heap, clients, nclients, nconnections>>
      BY <1>2 DEF Drop
    <2>3. TypeOK'
      BY <2>1, <2>2 DEF IInv, TypeOK
    <2>4. Lockstep'
      BY <2>1, <2>2 DEF IInv, Lockstep, Open
    <2> QED  BY <2>2, <2>3, <2>4 DEF IInv, TableOwnsClients, CountedClosures
  <1>3. ASSUME NEW f \in Fds, Serve(f) PROVE IInv'
    BY <1>3, ServeKeeps
  <1>4. CASE UNCHANGED vars
    BY <1>4 DEF vars, IInv, TypeOK, Lockstep, Open, TableOwnsClients, CountedClosures
  <1> QED  BY <1>1, <1>2, <1>3, <1>4 DEF Next

\* In every behaviour of the broker the state is well typed.
THEOREM TypeCorrect == Spec => []TypeOK
  <1>1. IInv => TypeOK
    BY DEF IInv
  <1> QED  BY <1>1, InitIInv, NextIInv, PTL DEF Spec

\* No event reaches a freed closure and on_write always has a payload and a
\* client, whatever peers do.
THEOREM EventsAndClosuresInLockstep == Spec => []Lockstep
  <1>1. IInv => Lockstep
    BY DEF IInv
  <1> QED  BY <1>1, InitIInv, NextIInv, PTL DEF Spec

\* The table of clients and the allocations agree, whatever peers do.
THEOREM ClientsOwnedByTable == Spec => []TableOwnsClients
  <1>1. IInv => TableOwnsClients
    BY DEF IInv
  <1> QED  BY <1>1, InitIInv, NextIInv, PTL DEF Spec

\* info.nclients is the number of closures, whatever peers do.
THEOREM ClosuresCounted == Spec => []CountedClosures
  <1>1. IInv => CountedClosures
    BY DEF IInv
  <1> QED  BY <1>1, InitIInv, NextIInv, PTL DEF Spec

-----------------------------------------------------------------------------
(* Peers that keep to the protocol.                                        *)

\* What the argument rests on besides NoDangling: no connection is broken,
\* open descriptors are the registered ones, a peer has at most one, and the
\* identifier of a client is one of those of the peer at its descriptor.
\* The last three make the "double CONNECT" branch unreachable: the entry
\* would belong to the same peer, hence to the same descriptor and closure,
\* whose obj would not be NULL.
NoneGone == \A f \in Fds : ~sock[f].gone
Registered == \A f \in Fds : sock[f].peer # NULL <=> sock[f].cb # NULL
OneEach ==
    \A f, g \in Fds : sock[f].peer # NULL /\ sock[f].peer = sock[g].peer => f = g
IdsFit ==
    \A id \in ClientIds : clients[id] # NULL =>
        /\ heap[clients[id]].fd \in Fds
        /\ sock[heap[clients[id]].fd].peer # NULL
        /\ id \in Ids[sock[heap[clients[id]].fd].peer]

WInv == IInv /\ NoneGone /\ Registered /\ OneEach /\ IdsFit /\ NoDangling

\* At the start nothing is open and nothing is allocated.
LEMMA InitWInv == Init => WInv
  BY InitIInv DEF Init, WInv, NoneGone, Registered, OneEach, IdsFit, NoDangling,
                  Closed

\* A closure that is served and went through CONNECT is in the table under its
\* client's identifier.
LEMMA ServedClient ==
    ASSUME WInv, NEW f \in Fds, sock[f].ev # "none", cb[sock[f].cb].obj # NULL
    PROVE  LET a == cb[sock[f].cb].obj IN
           /\ a \in Addrs /\ heap[a].live /\ heap[a].fd = f
           /\ heap[a].cid \in ClientIds /\ clients[heap[a].cid] = a
           /\ Deref(a) = {heap[a]}
  <1> DEFINE c == sock[f].cb
             a == cb[c].obj
  <1>1. c \in closures /\ c \in Closures /\ cb[c].fd = f /\ cb[c] \in Closure
    BY RunsFacts DEF WInv, IInv
  <1>2. a \in Addrs
    BY <1>1 DEF Closure
  <1>3. heap[a].live /\ heap[a].fd = f
    BY <1>1 DEF WInv, NoDangling
  <1>4. heap[a].cid \in ClientIds /\ clients[heap[a].cid] = a
    BY <1>2, <1>3 DEF WInv, IInv, TypeOK, TableOwnsClients, Client
  <1> QED  BY <1>2, <1>3, <1>4 DEF Deref

\* Ending the connection of f: its descriptor, its client and its closure go,
\* and nothing else changes.
LEMMA RemoveOwn ==
    ASSUME WInv, NEW f \in Fds, sock[f].ev # "none", cb[sock[f].cb].obj # NULL,
           sock' = close(disarm(sock, f), f),
           del_client(heap[cb[sock[f].cb].obj].cid), del_closure(sock[f].cb)
    PROVE  /\ sock' \in [Fds -> Socket]
           /\ sock'[f] = Closed
           /\ \A g \in Fds \ {f} : sock'[g] = sock[g]
           /\ \A b \in Addrs \ {cb[sock[f].cb].obj} : heap'[b] = heap[b]
           /\ \A i \in ClientIds : clients'[i] # NULL =>
                clients'[i] = clients[i] /\ clients[i] # cb[sock[f].cb].obj
           /\ closures' = closures \ {sock[f].cb}
           /\ \A d \in Closures \ {sock[f].cb} : cb'[d] = cb[d]
  <1> DEFINE c == sock[f].cb
             a == cb[c].obj
  <1>1. /\ a \in Addrs /\ heap[a].live /\ heap[a].fd = f
        /\ heap[a].cid \in ClientIds /\ clients[heap[a].cid] = a
    BY ServedClient
  <1>2. /\ sock' \in [Fds -> Socket]
        /\ sock'[f] = Closed
        /\ \A g \in Fds \ {f} : sock'[g] = sock[g]
    <2>1. sock \in [Fds -> Socket]
      BY DEF WInv, IInv, TypeOK
    <2>2. /\ disarm(sock, f) \in [Fds -> Socket]
          /\ \A g \in Fds \ {f} : disarm(sock, f)[g] = sock[g]
      BY <2>1, disarmFacts
    <2> QED  BY <2>2, closeFacts
  <1>3. \A b \in Addrs \ {a} : heap'[b] = heap[b]
    <2> TAKE b \in Addrs \ {a}
    <2>1. ~\E i \in ClientIds : i = heap[a].cid /\ clients[i] = b
      BY <1>1
    <2>2. heap[b] \in Client
      BY DEF WInv, IInv, TypeOK
    <2>3. heap'[b] = [heap[b] EXCEPT !.live = heap[b].live /\
                        ~\E i \in ClientIds : i = heap[a].cid /\ clients[i] = b]
      BY DEF del_client
    <2>4. heap'[b] = [heap[b] EXCEPT !.live = heap[b].live]
      BY <2>1, <2>2, <2>3 DEF Client
    <2> QED  BY <2>2, <2>4 DEF Client
  <1>4. \A i \in ClientIds : clients'[i] # NULL =>
          clients'[i] = clients[i] /\ clients[i] # a
    <2> SUFFICES ASSUME NEW i \in ClientIds, clients'[i] # NULL
                 PROVE  clients'[i] = clients[i] /\ clients[i] # a
      OBVIOUS
    <2>1. i # heap[a].cid /\ clients'[i] = clients[i]
      BY DEF del_client
    <2>2. heap[clients[i]].cid = i
      BY <2>1 DEF WInv, IInv, TableOwnsClients
    <2> QED  BY <2>1, <2>2
  <1>5. closures' = closures \ {c} /\ \A d \in Closures \ {c} : cb'[d] = cb[d]
    BY DEF del_closure, WInv, IInv, TypeOK
  <1> QED  BY <1>2, <1>3, <1>4, <1>5

\* Ending a connection keeps the ownership invariant.
LEMMA RemoveOwnKeeps ==
    ASSUME WInv, IInv', NEW f \in Fds, sock[f].ev # "none",
           cb[sock[f].cb].obj # NULL,
           sock' = close(disarm(sock, f), f),
           del_client(heap[cb[sock[f].cb].obj].cid), del_closure(sock[f].cb)
    PROVE  WInv'
  <1> DEFINE c == sock[f].cb
             a == cb[c].obj
  <1>1. /\ sock'[f] = Closed
        /\ \A g \in Fds \ {f} : sock'[g] = sock[g]
        /\ \A b \in Addrs \ {a} : heap'[b] = heap[b]
        /\ \A i \in ClientIds : clients'[i] # NULL =>
             clients'[i] = clients[i] /\ clients[i] # a
        /\ closures' = closures \ {c}
        /\ \A d \in Closures \ {c} : cb'[d] = cb[d]
    BY RemoveOwn
  <1>2. c \in closures /\ cb[c].fd = f
    BY RunsFacts DEF WInv, IInv
  <1>3. heap[a].live /\ heap[a].fd = f
    BY ServedClient
  <1> HIDE DEF c, a
  <1>4. Closed.peer = NULL /\ Closed.cb = NULL /\ ~Closed.gone
    BY DEF Closed
  <1>5. NoneGone' /\ Registered' /\ OneEach'
    BY <1>1, <1>4 DEF WInv, NoneGone, Registered, OneEach
  <1>6. \A d \in closures \ {c} : cb[d].obj # NULL => cb[d].obj # a /\ cb[d].fd # f
    <2> SUFFICES ASSUME NEW d \in closures \ {c}, cb[d].obj # NULL
                 PROVE  cb[d].obj # a /\ cb[d].fd # f
      OBVIOUS
    <2>1. sock[cb[d].fd].cb = d /\ heap[cb[d].obj].fd = cb[d].fd
      BY DEF WInv, NoDangling
    <2>2. cb[d].fd # f
      BY <2>1 DEF c
    <2> QED  BY <1>3, <2>1, <2>2
  <1>7. NoDangling'
    <2>1. ASSUME NEW d \in closures', cb'[d].obj # NULL
          PROVE  /\ heap'[cb'[d].obj].live
                 /\ heap'[cb'[d].obj].fd = cb'[d].fd
                 /\ cb'[d].fd \in Fds
                 /\ sock'[cb'[d].fd].cb = d
      <3>1. d \in closures \ {c} /\ d \in Closures /\ cb'[d] = cb[d]
        BY <1>1 DEF WInv, IInv, TypeOK
      <3>2. cb[d].obj # a /\ cb[d].fd # f /\ cb[d].obj \in Addrs
        BY <1>6, <2>1, <3>1 DEF WInv, IInv, TypeOK, Closure
      <3>3. /\ heap[cb[d].obj].live
            /\ heap[cb[d].obj].fd = cb[d].fd
            /\ cb[d].fd \in Fds
            /\ sock[cb[d].fd].cb = d
        BY <2>1, <3>1 DEF WInv, NoDangling
      <3> QED  BY <1>1, <3>1, <3>2, <3>3
    <2>2. ASSUME NEW i \in ClientIds, clients'[i] # NULL
          PROVE  \E d \in closures' : cb'[d].obj = clients'[i]
      <3>1. PICK d \in closures : cb[d].obj = clients[i]
        BY <1>1, <2>2 DEF WInv, NoDangling
      <3>2. d # c
        BY <1>1, <2>2, <3>1 DEF a
      <3> QED  BY <1>1, <2>2, <3>1, <3>2 DEF WInv, IInv, TypeOK
    <2> QED  BY <2>1, <2>2 DEF NoDangling
  <1>8. IdsFit'
    <2> SUFFICES ASSUME NEW i \in ClientIds, clients'[i] # NULL
                 PROVE  /\ heap'[clients'[i]].fd \in Fds
                        /\ sock'[heap'[clients'[i]].fd].peer # NULL
                        /\ i \in Ids[sock'[heap'[clients'[i]].fd].peer]
      BY DEF IdsFit
    <2>1. /\ clients'[i] = clients[i] /\ clients[i] # a /\ clients[i] \in Addrs
          /\ heap'[clients[i]] = heap[clients[i]]
      BY <1>1 DEF WInv, IInv, TypeOK
    <2>2. PICK d \in closures : cb[d].obj = clients[i]
      BY <2>1 DEF WInv, NoDangling
    <2>3. d # c /\ cb[d].obj # NULL
      BY <2>1, <2>2 DEF a
    <2>4. heap[clients[i]].fd # f
      BY <1>6, <2>2, <2>3 DEF WInv, NoDangling
    <2> QED  BY <1>1, <2>1, <2>4 DEF WInv, IdsFit
  <1> QED  BY <1>5, <1>7, <1>8 DEF WInv
\* Steps that leave the tables alone and change, at most, the armed event of a
\* descriptor and the payload and callback of a closure.
LEMMA RearmKeeps ==
    ASSUME WInv, IInv',
           \A g \in Fds : /\ sock'[g].peer = sock[g].peer
                          /\ sock'[g].gone = sock[g].gone
                          /\ sock'[g].cb = sock[g].cb,
           \A d \in closures : cb'[d].obj = cb[d].obj /\ cb'[d].fd = cb[d].fd,
           UNCHANGED <<closures, heap, clients>>
    PROVE  WInv'
  <1>1. NoneGone' /\ Registered' /\ OneEach'
    BY DEF WInv, NoneGone, Registered, OneEach
  <1>2. IdsFit'
    BY DEF WInv, IdsFit
  <1>3. NoDangling'
    BY DEF WInv, NoDangling
  <1> QED  BY <1>1, <1>2, <1>3 DEF WInv

\* disarm and rearm change nothing but the armed event of the descriptor.
LEMMA rearmOwn ==
    ASSUME WInv, NEW f \in Fds, sock[f].ev # "none", NEW e \in {"in", "out"}
    PROVE  \A s \in {disarm(sock, f), rearm(disarm(sock, f), sock[f].cb, e)} :
             /\ \A g \in Fds \ {f} : s[g] = sock[g]
             /\ s[f].peer = sock[f].peer
             /\ s[f].gone = sock[f].gone
             /\ s[f].cb = sock[f].cb
  <1> DEFINE c == sock[f].cb
  <1>1. c \in Closures /\ cb[c].fd = f /\ sock[f].peer # NULL
    BY RunsFacts DEF WInv, IInv
  <1>2. sock \in [Fds -> Socket]
    BY DEF WInv, IInv, TypeOK
  <1>3. /\ \A g \in Fds \ {f} : disarm(sock, f)[g] = sock[g]
        /\ disarm(sock, f) \in [Fds -> Socket]
        /\ disarm(sock, f)[f].peer = sock[f].peer
        /\ disarm(sock, f)[f].gone = sock[f].gone
        /\ disarm(sock, f)[f].cb = sock[f].cb
    BY <1>2 DEF disarm, Socket
  <1> HIDE DEF c
  <1>4. /\ \A g \in Fds \ {f} : rearm(disarm(sock, f), c, e)[g] = disarm(sock, f)[g]
        /\ rearm(disarm(sock, f), c, e)[f] =
             [disarm(sock, f)[f] EXCEPT !.cb = c, !.ev = e]
    BY <1>1, <1>3 DEF rearm
  <1>5. disarm(sock, f)[f] \in Socket
    BY <1>3
  <1>6. /\ rearm(disarm(sock, f), c, e)[f].peer = disarm(sock, f)[f].peer
        /\ rearm(disarm(sock, f), c, e)[f].gone = disarm(sock, f)[f].gone
        /\ rearm(disarm(sock, f), c, e)[f].cb = c
    BY <1>4, <1>5 DEF Socket
  <1> QED  BY <1>3, <1>4, <1>6 DEF c

\* CONNECT on a connection that has none yet: the identifier is free.
LEMMA NoDoubleConnect ==
    ASSUME WInv, WellBehaved, NEW f \in Fds, sock[f].ev # "none",
           NEW id \in Ids[sock[f].peer], id \in ClientIds,
           cb[sock[f].cb].obj = NULL
    PROVE  clients[id] = NULL
  <1> SUFFICES ASSUME clients[id] # NULL PROVE FALSE
    OBVIOUS
  <1> DEFINE g == heap[clients[id]].fd
  <1>1. g \in Fds /\ sock[g].peer # NULL /\ id \in Ids[sock[g].peer]
    BY DEF WInv, IdsFit
  <1>2. sock[f].peer \in Peers /\ sock[g].peer \in Peers
    BY <1>1, RunsFacts DEF WInv, IInv, TypeOK, Socket
  <1>3. sock[f].peer = sock[g].peer
    BY <1>1, <1>2 DEF WellBehaved
  <1>4. f = g
    BY <1>1, <1>3 DEF WInv, OneEach
  <1>5. PICK c \in closures : cb[c].obj = clients[id]
    BY DEF WInv, NoDangling
  <1>6. cb[c].fd = g /\ sock[g].cb = c
    BY <1>5 DEF WInv, NoDangling
  <1> QED  BY <1>4, <1>5, <1>6

\* CONNECT with a free identifier keeps the ownership invariant.
LEMMA ConnectNewOwn ==
    ASSUME WInv, IInv', NEW f \in Fds, sock[f].ev # "none", NEW id \in ClientIds,
           id \in Ids[sock[f].peer], cb[sock[f].cb].obj = NULL, connect_new(f, id)
    PROVE  WInv'
  <1> DEFINE c == sock[f].cb
  <1>1. PICK a \in Addrs :
          /\ ~heap[a].live
          /\ heap' = [heap EXCEPT ![a] = [live |-> TRUE, cid |-> id, fd |-> cb[c].fd]]
          /\ clients' = [clients EXCEPT ![id] = a]
          /\ reply(f, c, a, "CONNACK")
    BY DEF connect_new
  <1>2. closures' = closures
    BY DEF connect_new
  <1>3. c \in closures /\ c \in Closures /\ cb[c].fd = f /\ sock[f].peer # NULL
    BY RunsFacts DEF WInv, IInv
  <1>4. /\ heap'[a].live /\ heap'[a].fd = f
        /\ \A b \in Addrs \ {a} : heap'[b] = heap[b]
        /\ clients'[id] = a
        /\ \A i \in ClientIds \ {id} : clients'[i] = clients[i]
    BY <1>1, <1>3 DEF WInv, IInv, TypeOK
  <1>5. /\ cb'[c].obj = a /\ cb'[c].fd = f
        /\ \A d \in Closures \ {c} : cb'[d] = cb[d]
    BY <1>1, <1>3 DEF reply, WInv, IInv, TypeOK, Closure
  <1>6. \A g \in Fds : /\ sock'[g].peer = sock[g].peer
                       /\ sock'[g].gone = sock[g].gone
                       /\ sock'[g].cb = sock[g].cb
    <2>1. sock' = rearm(disarm(sock, f), c, "out")
      BY <1>1 DEF reply
    <2> QED  BY <2>1, rearmOwn
  <1>7. NoneGone' /\ Registered' /\ OneEach'
    BY <1>6 DEF WInv, NoneGone, Registered, OneEach
  <1>8. \A i \in ClientIds \ {id} : clients[i] # NULL =>
          clients[i] # a /\ clients[i] \in Addrs
    BY <1>1 DEF WInv, IInv, TypeOK, TableOwnsClients
  <1>9. IdsFit'
    <2> SUFFICES ASSUME NEW i \in ClientIds, clients'[i] # NULL
                 PROVE  /\ heap'[clients'[i]].fd \in Fds
                        /\ sock'[heap'[clients'[i]].fd].peer # NULL
                        /\ i \in Ids[sock'[heap'[clients'[i]].fd].peer]
      BY DEF IdsFit
    <2>1. CASE i = id
      BY <1>3, <1>4, <1>6, <2>1
    <2>2. CASE i # id
      <3>1. clients'[i] = clients[i] /\ heap'[clients[i]] = heap[clients[i]]
        BY <1>4, <1>8, <2>2
      <3> QED  BY <1>6, <3>1 DEF WInv, IdsFit
    <2> QED  BY <2>1, <2>2
  <1>10. NoDangling'
    <2>1. ASSUME NEW d \in closures', cb'[d].obj # NULL
          PROVE  /\ heap'[cb'[d].obj].live
                 /\ heap'[cb'[d].obj].fd = cb'[d].fd
                 /\ cb'[d].fd \in Fds
                 /\ sock'[cb'[d].fd].cb = d
      <3>1. CASE d = c
        BY <1>3, <1>4, <1>5, <1>6, <3>1
      <3>2. CASE d # c
        <4>1. cb'[d] = cb[d] /\ d \in closures /\ cb[d] \in Closure
          BY <1>2, <1>5, <3>2 DEF WInv, IInv, TypeOK
        <4>2. /\ heap[cb[d].obj].live
              /\ heap[cb[d].obj].fd = cb[d].fd
              /\ cb[d].fd \in Fds
              /\ sock[cb[d].fd].cb = d
          BY <2>1, <4>1 DEF WInv, NoDangling
        <4>3. cb[d].obj \in Addrs \ {a}
          BY <1>1, <2>1, <4>1, <4>2 DEF Closure
        <4> QED  BY <1>4, <1>6, <4>1, <4>2, <4>3
      <3> QED  BY <3>1, <3>2
    <2>2. ASSUME NEW i \in ClientIds, clients'[i] # NULL
          PROVE  \E d \in closures' : cb'[d].obj = clients'[i]
      <3>1. CASE i = id
        BY <1>2, <1>3, <1>4, <1>5, <3>1
      <3>2. CASE i # id
        <4>1. clients'[i] = clients[i]
          BY <1>4, <3>2
        <4>2. PICK d \in closures : cb[d].obj = clients[i]
          BY <2>2, <4>1 DEF WInv, NoDangling
        <4>3. d # c /\ d \in Closures
          BY <2>2, <4>1, <4>2 DEF WInv, IInv, TypeOK
        <4> QED  BY <1>2, <1>5, <4>1, <4>2, <4>3
      <3> QED  BY <3>1, <3>2
    <2> QED  BY <2>1, <2>2 DEF NoDangling
  <1> QED  BY <1>7, <1>9, <1>10 DEF WInv
\* A peer that may dial has no descriptor; accepting it keeps ownership.  With
\* every descriptor open and registered a failed accept registers nothing.
LEMMA AcceptOwn ==
    ASSUME WInv, IInv', WellBehaved, Accept
    PROVE  WInv'
  <1>0. TypeOK /\ CountedClosures
    BY DEF WInv, IInv
  <1>1. ASSUME NEW p \in Peers, NEW f \in Fds, NEW c \in Closures,
               on_accept(p, f, c)
        PROVE  WInv'
    <2>1. /\ add_closure(c, f) /\ f \in Fds \cup {BadFd}
          /\ sock[f].peer = NULL
          /\ \A g \in Fds : sock[g].peer # p
          /\ UNCHANGED <<heap, clients>>
      BY <1>1 DEF on_accept, LowestFree, Open, Idle, WInv, NoneGone
    <2>2. /\ c \notin closures
          /\ closures' = closures \cup {c}
          /\ cb'[c] = [fd |-> f, obj |-> NULL, payload |-> NULL, call |-> "on_read"]
          /\ \A d \in Closures \ {c} : cb'[d] = cb[d]
      BY <1>0, <2>1, addClosureFacts
    <2>3. /\ \A g \in Fds \ {f} : sock'[g] = sock[g]
          /\ sock'[f].peer = p /\ ~sock'[f].gone /\ sock'[f].cb = c
      BY <1>1 DEF on_accept, WInv, IInv, TypeOK
    <2>4. p # NULL /\ c # NULL
      BY NullAssumption
    <2>5. NoneGone' /\ Registered' /\ OneEach'
      BY <2>1, <2>3, <2>4 DEF WInv, NoneGone, Registered, OneEach
    <2>6. IdsFit'
      BY <2>1, <2>3 DEF WInv, IdsFit
    <2>7. NoDangling'
      <3>1. ASSUME NEW d \in closures', cb'[d].obj # NULL
            PROVE  /\ heap'[cb'[d].obj].live
                   /\ heap'[cb'[d].obj].fd = cb'[d].fd
                   /\ cb'[d].fd \in Fds
                   /\ sock'[cb'[d].fd].cb = d
        <4>1. d # c
          BY <2>2, <3>1
        <4>2. d \in closures /\ d \in Closures /\ cb'[d] = cb[d]
          BY <2>2, <4>1 DEF WInv, IInv, TypeOK
        <4>3. /\ heap[cb[d].obj].live
              /\ heap[cb[d].obj].fd = cb[d].fd
              /\ cb[d].fd \in Fds
              /\ sock[cb[d].fd].cb = d
          BY <3>1, <4>2 DEF WInv, NoDangling
        <4>4. cb[d].fd # f
          <5>1. d # NULL
            BY <4>2, NullAssumption
          <5>2. sock[f].cb = NULL
            BY <2>1 DEF WInv, Registered
          <5> QED  BY <4>3, <5>1, <5>2
        <4> QED  BY <2>1, <2>3, <4>2, <4>3, <4>4
      <3>2. ASSUME NEW i \in ClientIds, clients'[i] # NULL
            PROVE  \E d \in closures' : cb'[d].obj = clients'[i]
        <4>1. PICK d \in closures : cb[d].obj = clients[i]
          BY <2>1, <3>2 DEF WInv, NoDangling
        <4> QED  BY <2>1, <2>2, <4>1 DEF WInv, IInv, TypeOK
      <3> QED  BY <3>1, <3>2 DEF NoDangling
    <2> QED  BY <2>5, <2>6, <2>7 DEF WInv
  <1>2. ASSUME NEW c \in Closures, NEW g \in Fds \cup {BadFd},
               on_accept_failed(c, g)
        PROVE  WInv'
    <2>1. add_closure(c, g) /\ UNCHANGED <<heap, clients>>
      BY <1>2 DEF on_accept_failed
    <2>2. /\ c \notin closures
          /\ closures' = closures \cup {c}
          /\ cb'[c] = [fd |-> g, obj |-> NULL, payload |-> NULL, call |-> "on_read"]
          /\ \A d \in Closures \ {c} : cb'[d] = cb[d]
      BY <1>0, <2>1, addClosureFacts
    <2>3. \A f \in Fds : sock'[f] = sock[f]
      BY <1>2 DEF on_accept_failed, WInv, Registered, Open
    <2>4. NoneGone' /\ Registered' /\ OneEach' /\ IdsFit'
      BY <2>1, <2>3 DEF WInv, NoneGone, Registered, OneEach, IdsFit
    <2>5. NoDangling'
      <3>1. \A d \in closures' : cb'[d].obj # NULL => d \in closures /\ cb'[d] = cb[d]
        BY <2>2 DEF WInv, IInv, TypeOK
      <3>2. \A d \in closures : d \in closures' /\ cb'[d] = cb[d]
        BY <2>2 DEF WInv, IInv, TypeOK
      <3> QED  BY <2>1, <2>3, <3>1, <3>2 DEF WInv, NoDangling
    <2> QED  BY <2>4, <2>5 DEF WInv
  <1>3. ASSUME NEW p \in Peers, NEW f \in Fds, NEW c \in Closures,
               NEW g \in Fds \cup {BadFd}, on_accept_leak(p, f, c, g)
        PROVE  FALSE
    BY <1>3 DEF on_accept_leak, WellBehaved
  <1> QED  BY <1>1, <1>2, <1>3 DEF Accept

\* What one callback does under the ownership invariant: it keeps it, leaves
\* every other descriptor alone and frees no client but its own.
LEMMA ServeOwn ==
    ASSUME WInv, IInv', WellBehaved, NEW f \in Fds, Serve(f)
    PROVE  /\ WInv'
           /\ \A g \in Fds \ {f} : sock'[g] = sock[g]
           /\ \A a \in Addrs : heap[a].live /\ heap[a].fd # f => heap'[a] = heap[a]
  <1> DEFINE c == sock[f].cb
             Goal == /\ WInv'
                     /\ \A g \in Fds \ {f} : sock'[g] = sock[g]
                     /\ \A a \in Addrs :
                          heap[a].live /\ heap[a].fd # f => heap'[a] = heap[a]
  <1>1. ASSUME sock[f].ev # "none", sock' = disarm(sock, f),
               UNCHANGED <<closures, cb, heap, clients>>
        PROVE  Goal
    <2>1. "in" \in {"in", "out"}
      OBVIOUS
    <2>2. /\ \A g \in Fds \ {f} : sock'[g] = sock[g]
          /\ sock'[f].peer = sock[f].peer
          /\ sock'[f].gone = sock[f].gone
          /\ sock'[f].cb = sock[f].cb
      BY <1>1, <2>1, rearmOwn
    <2>3. WInv'
      BY <1>1, <2>2, RearmKeeps
    <2> QED  BY <1>1, <2>2, <2>3
  <1>2. ASSUME NEW e \in {"in", "out"}, sock[f].ev # "none",
               sock' = rearm(disarm(sock, f), c, e),
               \A d \in closures : cb'[d].obj = cb[d].obj /\ cb'[d].fd = cb[d].fd,
               UNCHANGED <<closures, heap, clients>>
        PROVE  Goal
    <2>1. /\ \A g \in Fds \ {f} : sock'[g] = sock[g]
          /\ sock'[f].peer = sock[f].peer
          /\ sock'[f].gone = sock[f].gone
          /\ sock'[f].cb = sock[f].cb
      BY <1>2, rearmOwn
    <2>2. WInv'
      BY <1>2, <2>1, RearmKeeps
    <2> QED  BY <1>2, <2>1, <2>2
  <1>3. ASSUME sock[f].ev # "none", cb[c].obj # NULL,
               sock' = close(disarm(sock, f), f),
               del_client(heap[cb[c].obj].cid), del_closure(c)
        PROVE  Goal
    <2>1. WInv'
      BY <1>3, RemoveOwnKeeps
    <2>2. /\ \A g \in Fds \ {f} : sock'[g] = sock[g]
          /\ \A b \in Addrs \ {cb[c].obj} : heap'[b] = heap[b]
      BY <1>3, RemoveOwn
    <2>3. heap[cb[c].obj].fd = f
      BY <1>3, ServedClient
    <2> QED  BY <2>1, <2>2, <2>3
  <1>4. CASE on_read_exit(f)
    BY <1>1, <1>4 DEF on_read_exit, Runs
  <1>5. CASE on_read_errdc(f)
    <2>1. sock[f].ev # "none" /\ cb[c].obj # NULL
      BY <1>5 DEF on_read_errdc, Runs
    <2>2. Deref(cb[c].obj) = {heap[cb[c].obj]}
      BY <2>1, ServedClient
    <2>3. cb[c].fd = f
      BY <2>1, RunsFacts DEF WInv, IInv
    <2> QED  BY <1>3, <1>5, <2>1, <2>2, <2>3 DEF on_read_errdc
  <1>6. CASE evloop_hangup(f)
    BY <1>6 DEF evloop_hangup, WInv, NoneGone
  <1>7. ASSUME NEW id \in ClientIds, connect_handler(f, id)
        PROVE  Goal
    <2>0. sock[f].ev # "none"
      BY <1>7 DEF connect_handler, Runs
    <2>2. sock[f].peer \in Peers
      BY <2>0, RunsFacts DEF WInv, IInv, Socket
    <2>1. /\ sock[f].ev # "none" /\ id \in Ids[sock[f].peer]
          /\ cb[c].obj = NULL \/ "again" \in May[sock[f].peer]
      BY <1>7, <2>0, <2>2 DEF connect_handler, WellBehaved, Does, Says
    <2>3. cb[c].obj = NULL
      BY <2>1, <2>2 DEF WellBehaved
    <2>4. clients[id] = NULL
      BY <2>1, <2>3, NoDoubleConnect
    <2>5. connect_new(f, id)
      BY <1>7, <2>4 DEF connect_handler, connect_double
    <2>6. WInv'
      BY <2>1, <2>3, <2>5, ConnectNewOwn
    <2>7. sock' = rearm(disarm(sock, f), c, "out")
      BY <2>5 DEF connect_new, reply
    <2>8. \A g \in Fds \ {f} : sock'[g] = sock[g]
      BY <2>1, <2>7, rearmOwn
    <2>9. \A a \in Addrs : heap[a].live => heap'[a] = heap[a]
      BY <2>5 DEF connect_new, WInv, IInv, TypeOK
    <2> QED  BY <2>6, <2>8, <2>9
  <1>8. CASE disconnect_handler(f)
    <2>1. sock[f].ev # "none" /\ cb[c].obj # NULL
      BY <1>8 DEF disconnect_handler, Request, Runs
    <2>2. Deref(cb[c].obj) = {heap[cb[c].obj]} /\ heap[cb[c].obj].fd = f
      BY <2>1, ServedClient
    <2> QED  BY <1>3, <1>8, <2>1, <2>2 DEF disconnect_handler
  <1>9. ASSUME NEW pay \in Acks, ack_handler(f, pay)
        PROVE  Goal
    <2>1. /\ sock[f].ev # "none"
          /\ sock' = rearm(disarm(sock, f), c, "out")
          /\ UNCHANGED <<closures, heap, clients>>
      BY <1>9 DEF ack_handler, Request, Runs, reply
    <2>2. \A d \in closures : cb'[d].obj = cb[d].obj /\ cb'[d].fd = cb[d].fd
      BY <1>9 DEF ack_handler, reply, WInv, IInv, TypeOK, Closure
    <2> QED  BY <1>2, <2>1, <2>2
  <1>10. CASE publish_qos0(f)
    BY <1>1, <1>10 DEF publish_qos0, Request, Runs
  <1>11. CASE on_write(f)
    <2>1. /\ sock[f].ev # "none"
          /\ sock' = rearm(disarm(sock, f), c, "in")
          /\ UNCHANGED <<closures, heap, clients>>
      BY <1>11 DEF on_write, Runs
    <2>2. \A d \in closures : cb'[d].obj = cb[d].obj /\ cb'[d].fd = cb[d].fd
      BY <1>11 DEF on_write, written, WInv, IInv, TypeOK, Closure
    <2> QED  BY <1>2, <2>1, <2>2
  <1>12. CASE Crash(f)
    <2>1. UNCHANGED <<sock, closures, cb, heap, clients>>
      BY <1>12 DEF Crash
    <2>2. WInv'
      BY <2>1, RearmKeeps
    <2> QED  BY <2>1, <2>2
  <1> QED  BY <1>4, <1>5, <1>6, <1>7, <1>8, <1>9, <1>10, <1>11, <1>12 DEF Serve

\* Every step of well-behaved peers keeps the ownership invariant.
LEMMA NextWInv == WellBehaved /\ WInv /\ [Next]_vars => WInv'
  <1> SUFFICES ASSUME WellBehaved, WInv, [Next]_vars PROVE WInv'
    OBVIOUS
  <1>1. IInv'
    BY NextIInv DEF WInv
  <1>2. CASE Accept
    BY <1>1, <1>2, AcceptOwn
  <1>3. ASSUME NEW f \in Fds, Drop(f) PROVE FALSE
    BY <1>3 DEF Drop, Open, WellBehaved, WInv, IInv, TypeOK, Socket
  <1>4. ASSUME NEW f \in Fds, Serve(f) PROVE WInv'
    BY <1>1, <1>4, ServeOwn
  <1>5. CASE UNCHANGED vars
    BY <1>1, <1>5, RearmKeeps DEF vars
  <1> QED  BY <1>2, <1>3, <1>4, <1>5 DEF Next

\* With well-behaved peers, however many and in whatever order they are
\* served, no handler reads a freed client and no entry outlives its closure.
THEOREM OwnersKeepTheirClients == WellBehaved => (Spec => []NoDangling)
  <1> SUFFICES ASSUME WellBehaved PROVE Spec => []NoDangling
    OBVIOUS
  <1>1. WInv /\ [Next]_vars => WInv'
    BY NextWInv
  <1>2. WInv => NoDangling
    BY DEF WInv
  <1> QED  BY <1>1, <1>2, InitWInv, PTL DEF Spec

\* With well-behaved peers no callback disturbs another connection.
THEOREM ConnectionsIsolated == WellBehaved => (Spec => Isolation)
  <1> SUFFICES ASSUME WellBehaved PROVE Spec => Isolation
    OBVIOUS
  <1> DEFINE Apart ==
        \A f \in Fds : Serve(f) =>
          /\ \A g \in Fds \ {f} : sock'[g] = sock[g]
          /\ \A a \in Addrs : heap[a].live /\ heap[a].fd # f => heap'[a] = heap[a]
  <1>1. WInv /\ [Next]_vars => WInv'
    BY NextWInv
  <1>2. WInv /\ [Next]_vars => [Apart]_vars
    <2> SUFFICES ASSUME WInv, [Next]_vars PROVE Apart
      OBVIOUS
    <2>1. IInv'
      BY NextIInv DEF WInv
    <2> QED  BY <2>1, ServeOwn
  <1>3. Isolation <=> [][Apart]_vars
    BY DEF Isolation
  <1> HIDE DEF Apart
  <1> QED  BY <1>1, <1>2, <1>3, InitWInv, PTL DEF Spec
=============================================================================
