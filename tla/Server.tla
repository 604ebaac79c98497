------------------------------- MODULE Server -------------------------------
(***************************************************************************)
(* The program as a whole: start-up (Config), then the loop (EventLoop),    *)
(* whose timer has the interval that start-up left.  timerfd_settime takes  *)
(* an interval of 0 for a timer that never expires.                         *)
(***************************************************************************)
EXTENDS Config, EventLoop

servervars == <<configvars, vars>>

ServerInit == ConfigInit /\ Init

\* The timer that evloop_add_periodic_task sets.
stats_expire(t) ==
    /\ config.stats_pub_interval > 0
    /\ Expire(t)

\* epoll_wait fails for good: evloop_wait returns, start_server releases the tables.
evloop_exit ==
    /\ left = << >>
    /\ reading = NULL
    /\ up' = FALSE
    /\ phase' = "exited"
    /\ UNCHANGED <<argv, optind, confpath, debug, line, config>>
    /\ UNCHANGED <<armed, broken, ready, expired, events, left, reading, called>>

Running ==
    /\ phase = "loop"
    /\ up
    /\ \/ /\ \/ \E c \in Conns : Arrive(c)
             \/ \E t \in Timers : stats_expire(t)
             \/ Loop
          /\ UNCHANGED configvars
       \/ evloop_exit

ServerNext ==
    \/ ConfigNext /\ UNCHANGED vars
    \/ Running

ServerSpec == ServerInit /\ [][ServerNext]_servervars

\* Start-up and the loop are one thread that runs on; timers keep expiring.
ServerFairSpec ==
    /\ ServerSpec
    /\ WF_servervars(ConfigNext /\ UNCHANGED vars)
    /\ WF_servervars(phase = "loop" /\ up /\ Loop /\ UNCHANGED configvars)
    /\ \A t \in Timers :
          WF_servervars(phase = "loop" /\ up /\ stats_expire(t) /\ UNCHANGED configvars)

-----------------------------------------------------------------------------
\* Statistics are published again and again while the program runs, whatever the
\* file and the options, unless the operator asks for an interval of 0 (a line
\* without a number does).
StatsPublished ==
    (phase = "loop" /\ Said(9, Value(10, "s", "")).num > 0)
        ~> (called \in Timers \/ ~up)
=============================================================================
