------------------------------ MODULE EventLoop ------------------------------
(***************************************************************************)
(* evloop_wait (network.c): epoll_wait fills el->events with a batch, and  *)
(* the loop serves it entry by entry.  A connection is registered with the *)
(* address of its closure and EPOLLONESHOT; a periodic task is a timerfd,  *)
(* registered by its descriptor and level-triggered.                       *)
(*                                                                         *)
(* The search for a periodic task declares an index i of its own, which    *)
(* hides the index of the batch: it compares entry i of the batch with     *)
(* timer i, not the entry being served.                                    *)
(***************************************************************************)
EXTENDS Naturals, Sequences, FiniteSets, SequencesExt

CONSTANTS
    Conns,      \* connections
    Periodic,   \* el->periodic_tasks, a sequence of timers
    MaxEvents,  \* el->max_events
    May,        \* what happens to connections: "rearm", "forget", "hangup"
    NULL

Timers == ToSet(Periodic)

ASSUME MaxEventsAssumption == MaxEvents \in Nat \ {0}
ASSUME TasksAssumption == Periodic \in Seq(Timers) /\ Len(Periodic) <= MaxEvents
ASSUME KindsAssumption == NULL \notin Conns \cup Timers /\ Conns \cap Timers = {}

VARIABLES
    up,       \* the process has not crashed
    armed,    \* connections whose event is armed
    broken,   \* connections in error: EPOLLERR or EPOLLHUP
    ready,    \* the kernel's ready list, oldest first
    expired,  \* timers with an expiration nobody has read
    events,   \* el->events, with what earlier batches left in it
    left,     \* entries of the batch still to serve, the current one first
    reading,  \* the timer whose read(2) blocks the loop, or NULL
    called    \* history: whose callback ran last

vars == <<up, armed, broken, ready, expired, events, left, reading, called>>

TypeOK ==
    /\ up \in BOOLEAN
    /\ armed \subseteq Conns
    /\ broken \subseteq Conns
    /\ ready \in Seq(Conns \cup Timers) /\ IsInjective(ready)
    /\ expired \subseteq Timers
    /\ events \in [1..MaxEvents -> Conns \cup Timers \cup {NULL}]
    /\ left \in Seq(Conns \cup Timers) /\ Len(left) <= MaxEvents
    /\ reading \in Timers \cup {NULL}
    /\ called \in Conns \cup Timers \cup {NULL}

Init ==
    /\ up = TRUE
    /\ armed = Conns
    /\ broken = {}
    /\ ready = <<>>
    /\ expired = {}
    /\ events = [i \in 1..MaxEvents |-> NULL]
    /\ left = <<>>
    /\ reading = NULL
    /\ called = NULL

\* Mutant: the ready list takes an entry twice.
Enlist_twice(s) == Append(ready, s)

Enlist(s) == IF s \in ToSet(ready) THEN ready ELSE Append(ready, s)

\* The entries of s that are in T, in their order.
Keep(s, T) ==
    LET kept[i \in 0..Len(s)] ==
            IF i = 0 THEN << >>
            ELSE IF s[i] \in T THEN Append(kept[i - 1], s[i]) ELSE kept[i - 1]
    IN  kept[Len(s)]

-----------------------------------------------------------------------------
\* The kernel: data, or an error, for a connection that is armed.
Arrive(c) ==
    /\ c \in armed
    /\ ready' = Enlist(c)
    /\ ready' # ready
    /\ broken' \in {broken} \cup IF "hangup" \in May THEN {broken \cup {c}} ELSE {}
    /\ UNCHANGED <<up, armed, expired, events, left, reading, called>>

\* The kernel: timer t expires.
Expire(t) ==
    /\ t \notin expired
    /\ expired' = expired \cup {t}
    /\ ready' = Enlist(t)
    /\ UNCHANGED <<up, armed, broken, events, left, reading, called>>

\* Mutants: connections stay armed; what does not fit in the batch is lost.
epoll_wait_level ==
    LET n == IF Len(ready) < MaxEvents THEN Len(ready) ELSE MaxEvents
        batch == SubSeq(ready, 1, n)
    IN  /\ left = <<>>
        /\ reading = NULL
        /\ n > 0
        /\ events' = [i \in 1..MaxEvents |-> IF i <= n THEN batch[i] ELSE events[i]]
        /\ left' = batch
        /\ ready' = SubSeq(ready, n + 1, Len(ready))
                      \o Keep(batch, Timers)
        /\ UNCHANGED <<up, armed, broken, expired, reading, called>>
epoll_wait_overflow ==
    LET n == IF Len(ready) < MaxEvents THEN Len(ready) ELSE MaxEvents
        batch == SubSeq(ready, 1, n)
    IN  /\ left = <<>>
        /\ reading = NULL
        /\ n > 0
        /\ events' = [i \in 1..MaxEvents |-> IF i <= n THEN batch[i] ELSE events[i]]
        /\ left' = batch
        /\ ready' = Keep(batch, Timers)
        /\ armed' = armed \ ToSet(ready)
        /\ UNCHANGED <<up, broken, expired, reading, called>>

\* epoll_wait: the oldest entries of the ready list; EPOLLONESHOT disarms a
\* connection, a timer goes back to the end of the list until it is read.
epoll_wait ==
    LET n == IF Len(ready) < MaxEvents THEN Len(ready) ELSE MaxEvents
        batch == SubSeq(ready, 1, n)
    IN  /\ left = <<>>
        /\ reading = NULL
        /\ n > 0
        /\ events' = [i \in 1..MaxEvents |-> IF i <= n THEN batch[i] ELSE events[i]]
        /\ left' = batch
        /\ ready' = SubSeq(ready, n + 1, Len(ready))
                      \o Keep(batch, Timers)
        /\ armed' = armed \ ToSet(batch)
        /\ UNCHANGED <<up, broken, expired, reading, called>>

\* The loop is at an entry of its batch.
Serving == left # <<>> /\ reading = NULL

Broken(s) == s \in broken

\* EPOLLERR or EPOLLHUP: shutdown and close of data.fd, for a connection the
\* low half of an address and no descriptor of the process.
evloop_error ==
    /\ Serving
    /\ Broken(Head(left))
    /\ left' = Tail(left)
    /\ UNCHANGED <<up, armed, broken, ready, expired, events, reading, called>>

\* The periodic tasks the search finds: those k whose timer is entry k.
task_at(e) == {k \in 1..Len(Periodic) : e[k] = Periodic[k]}

\* The first of them is taken and read(2) on its timer called, which blocks
\* when nothing has expired since the last read.
evloop_task ==
    /\ Serving
    /\ ~Broken(Head(left))
    /\ \E k \in task_at(events) :
         /\ \A j \in task_at(events) : k <= j
         /\ reading' = Periodic[k]
    /\ UNCHANGED <<up, armed, broken, ready, expired, events, left, called>>

\* Mutant: the task runs and its timer is not read.
evloop_task_run_unread ==
    /\ reading # NULL
    /\ reading \in expired
    /\ called' = reading
    /\ reading' = NULL
    /\ left' = Tail(left)
    /\ UNCHANGED <<up, armed, broken, ready, expired, events>>

\* read(2) returns and the task runs.
evloop_task_run ==
    /\ reading # NULL
    /\ reading \in expired
    /\ expired' = expired \ {reading}
    /\ ready' = Keep(ready, (Conns \cup Timers) \ {reading})
    /\ called' = reading
    /\ reading' = NULL
    /\ left' = Tail(left)
    /\ UNCHANGED <<up, armed, broken, events>>

\* No task: closure->call.  The callback re-arms its descriptor or, like
\* on_read on an error, forgets to.
evloop_call ==
    /\ Serving
    /\ ~Broken(Head(left))
    /\ task_at(events) = {}
    /\ Head(left) \in Conns
    /\ called' = Head(left)
    /\ \/ "rearm" \in May /\ armed' = armed \cup {Head(left)}
       \/ "forget" \in May /\ UNCHANGED armed
    /\ left' = Tail(left)
    /\ UNCHANGED <<up, broken, ready, expired, events, reading>>

\* The same for a timer, whose data holds no closure: the call goes astray.
evloop_wild_call ==
    /\ Serving
    /\ task_at(events) = {}
    /\ Head(left) \in Timers
    /\ up' = FALSE
    /\ UNCHANGED <<armed, broken, ready, expired, events, left, reading, called>>

Loop ==
    \/ epoll_wait
    \/ evloop_error
    \/ evloop_task
    \/ evloop_task_run
    \/ evloop_call
    \/ evloop_wild_call

Next ==
    /\ up
    /\ \/ \E c \in Conns : Arrive(c)
       \/ \E t \in Timers : Expire(t)
       \/ Loop

Spec == Init /\ [][Next]_vars

\* The loop runs on, and timers keep expiring.
FairSpec ==
    /\ Spec
    /\ WF_vars(up /\ Loop)
    /\ \A t \in Timers : WF_vars(up /\ Expire(t))

-----------------------------------------------------------------------------
\* EPOLLONESHOT gives each callback its descriptor to itself: a connection in
\* the ready list is armed, one in the batch is not, until its own callback
\* arms it again, and it is in the batch once.  So no two entries of a batch
\* belong to one closure, and a closure that its callback frees has no event
\* left in the batch.
OneShot ==
    /\ \A c \in Conns : c \in ToSet(ready) => c \in armed
    /\ \A c \in Conns : c \in ToSet(left) => c \notin armed
    /\ \A i, j \in DOMAIN left : i # j => left[i] # left[j]

\* Even so, an expired timer has its task run, or the process dies of it.
TasksRun == \A t \in Timers : t \in expired ~> (t \notin expired \/ ~up)

\* "If this wasn't a timer, call the generic handler stored in closure": the
\* entry of a sound connection leaves the batch only by its callback.
HandedOver ==
    [][left # <<>> /\ left' = Tail(left) /\ Head(left) \in Conns \ broken
         => called' = Head(left)]_vars

\* The loop comes to the entry of every ready connection, although a batch may
\* be smaller than the ready list and a timer may block it meanwhile.
Reached ==
    \A c \in Conns :
        c \in ToSet(ready) ~> (\/ left # <<>> /\ Head(left) = c
                               \/ ~up)
=============================================================================
