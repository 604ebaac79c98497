------------------------------- MODULE Broker -------------------------------
(***************************************************************************)
(* The topics of the sol broker and the handlers that use them: SUBSCRIBE, *)
(* UNSUBSCRIBE, PUBLISH and the periodic statistics (server.c, core.c), on *)
(* top of the connections of module Sessions.                              *)
(*                                                                         *)
(* A topic string is the sequence of its levels: "a/b" is <<"a", "b">>,    *)
(* "a/b/" is <<"a", "b", "">> and "a/#" is <<"a", "#">>.  The trie is the  *)
(* map from the names inserted to their topics.                            *)
(*                                                                         *)
(* A subscriber holds a pointer to a struct sol_client.  Nothing removes   *)
(* it when the client is freed, so a later PUBLISH reads through it.       *)
(***************************************************************************)
EXTENDS Sessions, SequencesExt

CONSTANTS
    Subs,        \* Subs[p]: SUBSCRIBE packets of peer p, sequences of tuples
    Pubs,        \* Pubs[p]: PUBLISH packets of peer p
    StatTopics,  \* the names publish_stats publishes on, as sys_topics has them
    SysTopics,   \* all of sys_topics
    MaxList      \* bound on the length of a subscriber list

\* What a client asks for: one of a SUBSCRIBE's tuples.  Its QoS is a whole byte.
Byte == 0..255
Tuple == [topic : Seq(STRING) \ {<< >>}, qos : Byte]

ASSUME SubsAssumption == \A p \in Peers : Subs[p] \subseteq Seq(Tuple)
ASSUME PubsAssumption ==
    \A p \in Peers : \A pub \in Pubs[p] : pub.topic \in Seq(STRING) \ {<< >>}
ASSUME SysAssumption ==
    /\ StatTopics \subseteq SysTopics
    /\ SysTopics \subseteq Seq(STRING) /\ IsFiniteSet(SysTopics)
ASSUME MaxListAssumption == MaxList \in Nat
ASSUME AcksAssumption == Acks = {"SUBACK", "UNSUBACK", "PUBACK", "PUBREC"}

VARIABLES
    topics,   \* name |-> the topic's list of subscribers
    filters,  \* history: the filters the peer at f subscribed to since accepted
    owed,     \* history: the names whose messages it may therefore expect
    out       \* history: the PUBLISH packets the last step sent

topicVars == <<topics, filters, owed, out>>
brokerVars == <<vars, topicVars>>

Subscriber == [client : Addrs, qos : Byte]

BrokerTypeOK ==
    /\ SysTopics \subseteq DOMAIN topics
    /\ \A n \in DOMAIN topics :
         /\ topics[n] \in Seq(Subscriber)
         /\ Len(topics[n]) <= MaxList
    /\ \A f \in Fds : filters[f] # {} \/ owed[f] # {} => Open(f)

-----------------------------------------------------------------------------
(* Names.                                                                  *)

\* Every name ends with a '/': append_string adds it where it is missing.
slashed(t) == IF Last(t) = "" THEN t ELSE Append(t, "")

\* The topic ends with "/#".
hashed(t) == Len(t) > 1 /\ Last(t) = "#"

\* The name a filter stands for: remove_occur takes the '#' away.
filter_name(t) ==
    IF hashed(t) THEN [i \in DOMAIN t |-> IF t[i] = "#" THEN "" ELSE t[i]]
    ELSE slashed(t)

\* The string of name n, which ends with '/', is a prefix of that of m.
Under(n, m) == IsPrefix(Front(n), Front(m))

-----------------------------------------------------------------------------
(* Topics.                                                                 *)

\* Mutants: the new topic replaces the others; the new subscriber replaces the
\* others; the map function is applied to every topic, or to none.
with_topic_only(tp, n) == [m \in {n} |-> <<>>]
add_subscriber_only(tp, n, s) == [tp EXCEPT ![n] = <<s>>]
subscribe_below_all(tp, n, s) == [m \in DOMAIN tp |-> <<s>> \o tp[m]]
subscribe_below_not(tp, n, s) == tp

\* sol_topic_put of a fresh topic, unless sol_topic_get found one.
with_topic(tp, n) ==
    [m \in DOMAIN tp \cup {n} |-> IF m \in DOMAIN tp THEN tp[m] ELSE <<>>]

\* topic_add_subscriber: list_push puts it first.
add_subscriber(tp, n, s) == [tp EXCEPT ![n] = <<s>> \o @]

\* How often recursive_subscription reaches topic m: trie_prefix_map_tuple
\* calls it for every key below n, and it goes on to children that are keys
\* themselves, that is, names with one '/' more.
visits(tp, n, m) ==
    Cardinality({k \in DOMAIN tp :
        /\ Under(n, k)
        /\ IsPrefix(k, m)
        /\ \A j \in Len(k) + 1..Len(m) : m[j] = "" /\ SubSeq(m, 1, j) \in DOMAIN tp})

\* trie_prefix_map_tuple(&sol.topics, n, recursive_subscription, s)
subscribe_below(tp, n, s) ==
    [m \in DOMAIN tp |-> IF Under(n, m)
                         THEN [i \in 1..visits(tp, n, m) |-> s] \o tp[m]
                         ELSE tp[m]]

\* One round of subscribe_handler's loop.
subscribe_tuple(tp, tuple, client, wild) ==
    LET n == filter_name(tuple.topic)
        s == [client |-> client, qos |-> tuple.qos]
    IN  add_subscriber(IF n \notin DOMAIN tp THEN with_topic(tp, n)
                       ELSE IF wild THEN subscribe_below(tp, n, s) ELSE tp,
                       n, s)

\* wildcard and alloced in round i: they are never reset.
copied(t) == ~hashed(t) /\ Last(t) # ""
wildcard(sub, i) == \E j \in 1..i : hashed(sub[j].topic)
alloced(sub, i) == \E j \in 1..i : copied(sub[j].topic)

\* The topics after the loop.
subscribed(sub, client) ==
    LET done[i \in 0..Len(sub)] ==
            IF i = 0 THEN topics
            ELSE subscribe_tuple(done[i - 1], sub[i], client, wildcard(sub, i))
    IN  done[Len(sub)]

\* free(topic) hits a string of the packet, which mqtt_packet_release frees again.
frees_twice(sub) == \E i \in DOMAIN sub : alloced(sub, i) /\ ~copied(sub[i].topic)

\* What sending the topic named n to its subscribers reads as their clients:
\* for each entry, the record its pointer yields.
Readings(tp, n) ==
    LET read(i) == Deref(tp[n][i].client) IN
    {r \in [DOMAIN tp[n] -> UNION {read(i) : i \in DOMAIN tp[n]}] :
        \A i \in DOMAIN tp[n] : r[i] \in read(i)}

\* The packets that arrive: the descriptor read is open and its peer there.
sends(r, n) ==
    {[fd |-> r[i].fd, topic |-> n] :
        i \in {j \in DOMAIN r : r[j].fd \in Fds /\ Open(r[j].fd) /\ ~sock[r[j].fd].gone}}

\* Sending to the subscribers of n touches a freed client.
Dangling(n) ==
    /\ n \in DOMAIN topics
    /\ \E i \in DOMAIN topics[n] : ~heap[topics[n][i].client].live

-----------------------------------------------------------------------------
BrokerInit ==
    /\ Init
    /\ topics = [n \in SysTopics |-> <<>>]
    /\ filters = [f \in Fds |-> {}]
    /\ owed = [f \in Fds |-> {}]
    /\ out = {}

\* A descriptor that is closed forgets what its peer subscribed to.
Forget ==
    /\ filters' = [f \in Fds |-> IF Open(f)' THEN filters[f] ELSE {}]
    /\ owed' = [f \in Fds |-> IF Open(f)' THEN owed[f] ELSE {}]

\* What a filter is served: its own name and, with a "#", every name there is
\* below it.  Although a comment has it "subscribe to all children topics if the topic
\* ends with /#", that is done only if the filter's own name is a topic already.
Asks(t) ==
    {filter_name(t)} \cup
        {m \in DOMAIN topics :
            hashed(t) /\ filter_name(t) \in DOMAIN topics /\ Under(filter_name(t), m)}

Remember(f, sub) ==
    /\ filters' = [filters EXCEPT ![f] = @ \cup {sub[i].topic : i \in DOMAIN sub}]
    /\ owed' = [owed EXCEPT ![f] = @ \cup UNION {Asks(sub[i].topic) : i \in DOMAIN sub}]

\* The steps of Sessions that leave the topics alone.
Other ==
    /\ \/ Accept
       \/ \E f \in Fds :
            \/ Drop(f)
            \/ on_read_exit(f)
            \/ on_read_errdc(f)
            \/ evloop_hangup(f)
            \/ \E id \in ClientIds : connect_handler(f, id)
            \/ disconnect_handler(f)
            \/ on_write(f)
            \/ Crash(f)
    /\ out' = {}
    /\ Forget
    /\ UNCHANGED topics

\* The packets a handler may take peer p's for; S is Subs or Pubs.  What arrives in
\* pieces is read together with what somebody else's packet left in memory.
Heard(p, S) == IF "fragment" \in May[p] THEN UNION {S[q] : q \in Peers} ELSE S[p]

subscribe_handler(f, sub) ==
    LET done == subscribed(sub, cb[sock[f].cb].obj) IN
    /\ ack_handler(f, "SUBACK")
    /\ sub \in Heard(sock[f].peer, Subs)
    /\ \A n \in DOMAIN done : Len(done[n]) <= MaxList
    /\ topics' = done
    /\ Remember(f, sub)
    /\ out' = {}

\* UNSUBSCRIBE is acknowledged; the subscribers stay.
unsubscribe_handler(f) ==
    /\ ack_handler(f, "UNSUBACK")
    /\ out' = {}
    /\ UNCHANGED <<topics, filters, owed>>

\* The answer depends on the QoS the publisher chose, saved before the loop
\* overwrites it with each subscriber's.  It has two bits, and 3 takes the path of 0.
publish_reply(f, qos) ==
    \/ qos \in {0, 3} /\ publish_qos0(f)
    \/ qos = 1 /\ ack_handler(f, "PUBACK")
    \/ qos = 2 /\ ack_handler(f, "PUBREC")

publish_handler(f, pub) ==
    LET n == slashed(pub.topic)
        tp == with_topic(topics, n)
    IN  /\ publish_reply(f, pub.qos)
        /\ pub \in Heard(sock[f].peer, Pubs)
        /\ topics' = tp
        /\ \E r \in Readings(tp, n) : out' = sends(r, n)
        /\ UNCHANGED <<filters, owed>>

\* publish_stats: publish_message on every statistics topic.
publish_stats ==
    /\ \E r \in [StatTopics -> UNION {Readings(topics, n) : n \in StatTopics}] :
         /\ \A n \in StatTopics : r[n] \in Readings(topics, n)
         /\ out' = UNION {sends(r[n], n) : n \in StatTopics}
    /\ UNCHANGED <<vars, topics, filters, owed>>

\* The faults of these handlers: a second free of a topic string, and reading
\* a subscriber's client after it was freed.
HandlerFaults ==
    \/ \E f \in Fds :
         /\ Request(f, "ack")
         /\ \E sub \in Heard(sock[f].peer, Subs) : frees_twice(sub)
    \/ \E f \in Fds, op \in {"ack", "qos0"} :
         /\ Request(f, op)
         /\ \E pub \in Heard(sock[f].peer, Pubs) :
              /\ (op = "qos0") = (pub.qos \in {0, 3})
              /\ Dangling(slashed(pub.topic))
    \/ \E n \in StatTopics : Dangling(n)

HandlerCrash ==
    /\ HandlerFaults
    /\ up' = FALSE
    /\ UNCHANGED <<sock, closures, cb, heap, clients, nclients, nconnections>>
    /\ out' = {}
    /\ UNCHANGED <<topics, filters, owed>>

BrokerNext ==
    /\ up
    /\ \/ Other
       \/ \E f \in Fds : \E sub \in UNION {Subs[p] : p \in Peers} :
            subscribe_handler(f, sub)
       \/ \E f \in Fds : unsubscribe_handler(f)
       \/ \E f \in Fds : \E pub \in UNION {Pubs[p] : p \in Peers} :
            publish_handler(f, pub)
       \/ publish_stats
       \/ HandlerCrash

BrokerSpec == BrokerInit /\ [][BrokerNext]_brokerVars

-----------------------------------------------------------------------------
(* Properties.                                                             *)

\* A PUBLISH reaches every connected peer that asked for its topic, by name or
\* by a "#" above it while both were topics (publish_handler's loop over
\* t->subscribers), although lists hold entries of clients that are gone.
SubscribersServed ==
    [][\A f \in Fds : \A pub \in UNION {Pubs[p] : p \in Peers} :
         publish_handler(f, pub) =>
           \A g \in Fds : Open(g) /\ ~sock[g].gone /\ slashed(pub.topic) \in owed[g] =>
             [fd |-> g, topic |-> slashed(pub.topic)] \in out'
      ]_brokerVars

\* Filter t covers the name n.
Covers(t, n) ==
    n = filter_name(t) \/ (hashed(t) /\ Under(filter_name(t), n))

\* A PUBLISH is sent only to peers that subscribed, on the connection they
\* have now, to a filter that covers its topic: "Send payload through TCP to
\* all subscribed clients of the topic".
OnlySubscribers ==
    \A m \in out : \E t \in filters[m.fd] : Covers(t, m.topic)
=============================================================================
