---------------------------- MODULE BrokerProofs ----------------------------
(***************************************************************************)
(* What module SessionsProofs proves of connections holds with the whole    *)
(* broker at work; the subscriber lists; who is served.                    *)
(***************************************************************************)
EXTENDS Broker, SessionsProofs, Induction, SequenceTheorems, FiniteSetTheorems

\* The process ends in a fault of the broker's own handlers.
Dies ==
    /\ up
    /\ up' = FALSE
    /\ UNCHANGED <<sock, closures, cb, heap, clients, nclients, nconnections>>

\* Every step of the broker is a step of Sessions, a crash, or leaves the
\* connections alone.
LEMMA BrokerStep ==
    ASSUME [BrokerNext]_brokerVars
    PROVE  [Next \/ Dies]_vars
  <1>1. CASE UNCHANGED brokerVars
    BY <1>1 DEF brokerVars
  <1>2. CASE up /\ Other
    <2>1. CASE Accept
      BY <1>2, <2>1 DEF Next
    <2>2. ASSUME NEW f \in Fds, Drop(f) PROVE Next
      BY <1>2, <2>2 DEF Next
    <2>3. ASSUME NEW f \in Fds,
                 \/ on_read_exit(f)
                 \/ on_read_errdc(f)
                 \/ evloop_hangup(f)
                 \/ \E id \in ClientIds : connect_handler(f, id)
                 \/ disconnect_handler(f)
                 \/ on_write(f)
                 \/ Crash(f)
          PROVE  Next
      <3>1. Serve(f)
        BY <2>3 DEF Serve
      <3> QED  BY <1>2, <3>1 DEF Next
    <2> QED  BY <1>2, <2>1, <2>2, <2>3 DEF Other
  <1>3. ASSUME up, NEW f \in Fds, NEW pay \in Acks, ack_handler(f, pay)
        PROVE  Next
    <2>1. Serve(f)
      BY <1>3 DEF Serve
    <2> QED  BY <1>3, <2>1 DEF Next
  <1>4. ASSUME up, NEW f \in Fds, publish_qos0(f)
        PROVE  Next
    <2>1. Serve(f)
      BY <1>4 DEF Serve
    <2> QED  BY <1>4, <2>1 DEF Next
  <1>5. ASSUME up, NEW f \in Fds, NEW sub, subscribe_handler(f, sub)
        PROVE  Next
    BY <1>3, <1>5, AcksAssumption DEF subscribe_handler
  <1>6. ASSUME up, NEW f \in Fds, unsubscribe_handler(f)
        PROVE  Next
    BY <1>3, <1>6, AcksAssumption DEF unsubscribe_handler
  <1>7. ASSUME up, NEW f \in Fds, NEW pub, publish_handler(f, pub)
        PROVE  Next
    <2>1. publish_reply(f, pub.qos)
      BY <1>7 DEF publish_handler
    <2> QED  BY <1>3, <1>4, <1>7, <2>1, AcksAssumption DEF publish_reply
  <1>8. CASE publish_stats
    BY <1>8 DEF publish_stats
  <1>9. CASE up /\ HandlerCrash
    BY <1>9 DEF HandlerCrash, Dies
  <1> QED  BY <1>1, <1>2, <1>5, <1>6, <1>7, <1>8, <1>9 DEF BrokerNext

\* A crash changes nothing the invariants speak of.
LEMMA DiesKeeps ==
    ASSUME Dies
    PROVE  (IInv => IInv') /\ (WInv => WInv')
  <1>1. ASSUME IInv PROVE IInv'
    BY <1>1 DEF Dies, IInv, TypeOK, Lockstep, Open, TableOwnsClients, CountedClosures
  <1>2. ASSUME WInv PROVE WInv'
    <2>1. IInv'
      BY <1>1, <1>2 DEF WInv
    <2>2. UNCHANGED <<sock, closures, cb, heap, clients>>
      BY DEF Dies
    <2> QED  BY <1>2, <2>1, <2>2, RearmKeeps
  <1> QED  BY <1>1, <1>2

\* With every handler of the broker at work, events and closures stay in
\* lockstep, whatever peers do.
THEOREM BrokerLockstep == BrokerSpec => []Lockstep
  <1>1. BrokerInit => IInv
    BY InitIInv DEF BrokerInit
  <1>2. IInv /\ [BrokerNext]_brokerVars => IInv'
    <2> SUFFICES ASSUME IInv, [BrokerNext]_brokerVars PROVE IInv'
      OBVIOUS
    <2>1. [Next \/ Dies]_vars
      BY BrokerStep
    <2> QED  BY <2>1, NextIInv, DiesKeeps
  <1>3. IInv => Lockstep
    BY DEF IInv
  <1> QED  BY <1>1, <1>2, <1>3, PTL DEF BrokerSpec

\* With well-behaved peers no handler of the broker reaches a freed client
\* through its closure.
THEOREM BrokerNoDangling == WellBehaved => (BrokerSpec => []NoDangling)
  <1> SUFFICES ASSUME WellBehaved PROVE BrokerSpec => []NoDangling
    OBVIOUS
  <1>1. BrokerInit => WInv
    BY InitWInv DEF BrokerInit
  <1>2. WInv /\ [BrokerNext]_brokerVars => WInv'
    <2> SUFFICES ASSUME WInv, [BrokerNext]_brokerVars PROVE WInv'
      OBVIOUS
    <2>1. [Next \/ Dies]_vars
      BY BrokerStep
    <2> QED  BY <2>1, NextWInv, DiesKeeps
  <1>3. WInv => NoDangling
    BY DEF WInv
  <1> QED  BY <1>1, <1>2, <1>3, PTL DEF BrokerSpec

-----------------------------------------------------------------------------
(* Lists of subscribers.                                                   *)

\* The maps from finitely many names of N to lists of subscribers.
Maps(N) ==
    {tp \in UNION {[D -> Seq(Subscriber)] : D \in SUBSET N} : IsFiniteSet(DOMAIN tp)}

\* The clients of a list.
InList(l) == {l[i].client : i \in DOMAIN l}

\* The clients that are subscribed to m in tp.
Clients(tp, m) == IF m \in DOMAIN tp THEN InList(tp[m]) ELSE {}

\* A map is a map by its domain and its values.
LEMMA MapsFacts ==
    ASSUME NEW N, NEW tp
    PROVE  tp \in Maps(N) <=> /\ DOMAIN tp \subseteq N
                              /\ IsFiniteSet(DOMAIN tp)
                              /\ tp = [m \in DOMAIN tp |-> tp[m]]
                              /\ \A m \in DOMAIN tp : tp[m] \in Seq(Subscriber)
  <1>1. ASSUME tp \in Maps(N)
        PROVE  /\ DOMAIN tp \subseteq N
               /\ IsFiniteSet(DOMAIN tp)
               /\ tp = [m \in DOMAIN tp |-> tp[m]]
               /\ \A m \in DOMAIN tp : tp[m] \in Seq(Subscriber)
    <2>1. PICK D \in SUBSET N : tp \in [D -> Seq(Subscriber)]
      BY <1>1 DEF Maps
    <2>2. IsFiniteSet(DOMAIN tp)
      BY <1>1 DEF Maps
    <2> QED  BY <2>1, <2>2
  <1>2. ASSUME DOMAIN tp \subseteq N,
               IsFiniteSet(DOMAIN tp),
               tp = [m \in DOMAIN tp |-> tp[m]],
               \A m \in DOMAIN tp : tp[m] \in Seq(Subscriber)
        PROVE  tp \in Maps(N)
    <2>1. tp \in [DOMAIN tp -> Seq(Subscriber)]
      BY <1>2
    <2> QED  BY <1>2, <2>1 DEF Maps
  <1> QED  BY <1>1, <1>2

\* Putting a subscriber v times before a list adds its client, unless v is 0.
LEMMA PrependFacts ==
    ASSUME NEW l \in Seq(Subscriber), NEW s \in Subscriber, NEW v \in Nat
    PROVE  /\ [i \in 1..v |-> s] \o l \in Seq(Subscriber)
           /\ InList([i \in 1..v |-> s] \o l)
                = InList(l) \cup (IF v = 0 THEN {} ELSE {s.client})
  <1> DEFINE h == [i \in 1..v |-> s]
             k == h \o l
  <1>1. h \in Seq(Subscriber) /\ Len(h) = v /\ \A i \in 1..v : h[i] = s
    OBVIOUS
  <1> HIDE DEF h
  <1>2. /\ k \in Seq(Subscriber) /\ Len(k) = v + Len(l)
        /\ \A i \in 1..Len(k) : k[i] = IF i <= v THEN h[i] ELSE l[i - v]
    BY <1>1, ConcatProperties
  <1> HIDE DEF k
  <1>3. Len(l) \in Nat /\ DOMAIN k = 1..Len(k) /\ DOMAIN l = 1..Len(l)
    BY <1>2
  <1>4. ASSUME NEW i \in DOMAIN k
        PROVE  k[i].client \in InList(l) \cup (IF v = 0 THEN {} ELSE {s.client})
    <2>1. CASE i <= v
      <3>1. k[i] = s /\ v # 0
        BY <1>1, <1>2, <1>3, <2>1
      <3> QED  BY <3>1
    <2>2. CASE ~(i <= v)
      <3>1. k[i] = l[i - v] /\ i - v \in DOMAIN l
        BY <1>2, <1>3, <2>2
      <3> QED  BY <3>1 DEF InList
    <2> QED  BY <2>1, <2>2
  <1>5. ASSUME NEW i \in DOMAIN l PROVE l[i].client \in InList(k)
    <2>1. i + v \in DOMAIN k /\ ~(i + v <= v) /\ (i + v) - v = i
      BY <1>2, <1>3
    <2>2. k[i + v] = l[i]
      BY <1>2, <1>3, <2>1
    <2> QED  BY <2>1, <2>2 DEF InList
  <1>6. v # 0 => s.client \in InList(k)
    <2>1. v # 0 => 1 \in DOMAIN k /\ 1 <= v /\ 1 \in 1..v
      BY <1>2, <1>3
    <2>2. v # 0 => k[1] = s
      BY <1>1, <1>2, <1>3, <2>1
    <2> QED  BY <2>1, <2>2 DEF InList
  <1>7. InList(k) = InList(l) \cup (IF v = 0 THEN {} ELSE {s.client})
    BY <1>4, <1>5, <1>6 DEF InList
  <1> QED  BY <1>2, <1>7 DEF k, h

\* The same for one subscriber put first by list_push.
LEMMA PushFacts ==
    ASSUME NEW l \in Seq(Subscriber), NEW s \in Subscriber
    PROVE  /\ <<s>> \o l \in Seq(Subscriber)
           /\ InList(<<s>> \o l) = InList(l) \cup {s.client}
  <1>1. <<s>> = [i \in 1..1 |-> s]
    OBVIOUS
  <1>2. \A v \in Nat :
           /\ [i \in 1..v |-> s] \o l \in Seq(Subscriber)
           /\ v # 0 => InList([i \in 1..v |-> s] \o l) = InList(l) \cup {s.client}
    BY PrependFacts
  <1>3. 1 \in Nat /\ 1 # 0
    OBVIOUS
  <1> QED  BY <1>1, <1>2, <1>3, Zenon

\* recursive_subscription reaches every topic below the filter's name, once or more.
LEMMA VisitsFacts ==
    ASSUME NEW tp, IsFiniteSet(DOMAIN tp), NEW n, NEW m \in DOMAIN tp, Len(m) \in Nat
    PROVE  visits(tp, n, m) \in Nat /\ (Under(n, m) => visits(tp, n, m) # 0)
  <1> DEFINE V == {k \in DOMAIN tp :
                     /\ Under(n, k)
                     /\ IsPrefix(k, m)
                     /\ \A j \in Len(k) + 1..Len(m) : m[j] = "" /\ SubSeq(m, 1, j) \in DOMAIN tp}
  <1>1. visits(tp, n, m) = Cardinality(V)
    BY DEF visits
  <1>2. Under(n, m) => m \in V
    <2>1. IsPrefix(m, m)
      BY DEF IsPrefix
    <2>2. \A j \in Len(m) + 1..Len(m) : FALSE
      OBVIOUS
    <2> QED  BY <2>1, <2>2
  <1>3. V \in SUBSET DOMAIN tp
    OBVIOUS
  <1> HIDE DEF V
  <1>4. IsFiniteSet(V)
    BY <1>3, FS_Subset
  <1>5. Cardinality(V) \in Nat /\ (Cardinality(V) = 0 <=> V = {})
    BY <1>4, FS_CardinalityType, FS_EmptySet
  <1> QED  BY <1>1, <1>2, <1>5

-----------------------------------------------------------------------------
(* What a SUBSCRIBE does to the topics.                                    *)

\* Appending makes a sequence one longer.
LEMMA AppendLength ==
    ASSUME NEW S, NEW t \in Seq(S), NEW e
    PROVE  Len(Append(t, e)) \in Nat
  <1>1. t \in [1..Len(t) -> S \cup {e}] /\ Len(t) \in Nat
    OBVIOUS
  <1>2. t \in Seq(S \cup {e})
    BY <1>1, SeqDef
  <1> QED  BY <1>1, <1>2, AppendProperties

\* The name of a filter has a length.
LEMMA NameFacts ==
    ASSUME NEW t \in Seq(STRING) \ {<< >>}
    PROVE  Len(filter_name(t)) \in Nat /\ Len(slashed(t)) \in Nat
  <1>1. t \in Seq(STRING) /\ Len(t) \in Nat /\ DOMAIN t = 1..Len(t)
    OBVIOUS
  <1>2. Len(slashed(t)) \in Nat
    <2>1. slashed(t) = t \/ slashed(t) = Append(t, "")
      BY Zenon DEF slashed
    <2>2. Len(Append(t, "")) \in Nat
      BY AppendLength
    <2> QED  BY <1>1, <2>1, <2>2, Zenon
  <1>3. Len([i \in DOMAIN t |-> IF t[i] = "#" THEN "" ELSE t[i]]) = Len(t)
    BY <1>1
  <1> QED  BY <1>1, <1>2, <1>3 DEF filter_name

\* Topics tq are tp with the client added to n and, with wild, to all names below it.
Joined(tp, tq, n, client, wild) ==
    /\ DOMAIN tq = DOMAIN tp \cup {n}
    /\ \A m \in DOMAIN tq :
          Clients(tq, m) = Clients(tp, m) \cup
              (IF m = n \/ (wild /\ n \in DOMAIN tp /\ m \in DOMAIN tp /\ Under(n, m))
               THEN {client} ELSE {})

\* A round of the loop keeps the subscribers there are; it adds the client to the
\* filter's name and, if wildcard is set and the name is a topic, to all names below it,
\* and to no other.
LEMMA TupleStep ==
    ASSUME NEW N, \A m \in N : Len(m) \in Nat,
           NEW tp \in Maps(N), NEW tuple \in Tuple, NEW client \in Addrs, NEW wild,
           filter_name(tuple.topic) \in N
    PROVE  /\ subscribe_tuple(tp, tuple, client, wild) \in Maps(N)
           /\ Joined(tp, subscribe_tuple(tp, tuple, client, wild),
                     filter_name(tuple.topic), client, wild)
  <1> DEFINE n == filter_name(tuple.topic)
             s == [client |-> client, qos |-> tuple.qos]
             tq == subscribe_tuple(tp, tuple, client, wild)
             Below(m) == wild /\ n \in DOMAIN tp /\ m \in DOMAIN tp /\ Under(n, m)
             mid == IF n \notin DOMAIN tp THEN with_topic(tp, n)
                    ELSE IF wild THEN subscribe_below(tp, n, s) ELSE tp
  <1>1. s \in Subscriber /\ s.client = client
    BY DEF Tuple, Subscriber
  <1>2. /\ DOMAIN tp \subseteq N
        /\ tp = [m \in DOMAIN tp |-> tp[m]]
        /\ \A m \in DOMAIN tp : tp[m] \in Seq(Subscriber)
    BY MapsFacts
  <1>3. tq = [mid EXCEPT ![n] = <<s>> \o @]
    BY DEF subscribe_tuple, add_subscriber
  <1>4. IsFiniteSet(DOMAIN tp)
    BY MapsFacts
  <1> HIDE DEF n, s, tq
  <1>5. /\ DOMAIN mid = DOMAIN tp \cup {n}
        /\ \A m \in DOMAIN mid : mid[m] \in Seq(Subscriber)
        /\ mid = [m \in DOMAIN mid |-> mid[m]]
        /\ \A m \in DOMAIN mid :
              InList(mid[m]) = Clients(tp, m) \cup (IF Below(m) THEN {client} ELSE {})
    <2>1. CASE n \notin DOMAIN tp
      <3>1. mid = [m \in DOMAIN tp \cup {n} |-> IF m \in DOMAIN tp THEN tp[m] ELSE << >>]
        BY <2>1 DEF with_topic
      <3>2. << >> \in Seq(Subscriber) /\ InList(<< >>) = {}
        BY EmptySeq DEF InList
      <3> QED  BY <1>2, <2>1, <3>1, <3>2 DEF Clients
    <2>2. CASE n \in DOMAIN tp /\ wild
      <3>1. mid = [m \in DOMAIN tp |-> IF Under(n, m)
                                       THEN [i \in 1..visits(tp, n, m) |-> s] \o tp[m]
                                       ELSE tp[m]]
        BY <2>2 DEF subscribe_below
      <3>2. DOMAIN mid = DOMAIN tp /\ mid = [m \in DOMAIN mid |-> mid[m]]
        BY <3>1
      <3>3. ASSUME NEW m \in DOMAIN tp
            PROVE  /\ mid[m] \in Seq(Subscriber)
                   /\ InList(mid[m]) = Clients(tp, m) \cup (IF Below(m) THEN {client} ELSE {})
        <4>1. tp[m] \in Seq(Subscriber) /\ Clients(tp, m) = InList(tp[m])
          BY <1>2 DEF Clients
        <4>2. CASE Under(n, m)
          <5> DEFINE v == visits(tp, n, m)
          <5>1. Len(m) \in Nat
            BY <1>2
          <5>2. v \in Nat /\ v # 0
            BY <1>4, <4>2, <5>1, VisitsFacts
          <5>3. mid[m] = [i \in 1..v |-> s] \o tp[m]
            BY <3>1, <4>2
          <5> HIDE DEF v, mid
          <5>4. /\ mid[m] \in Seq(Subscriber)
                /\ InList(mid[m]) = InList(tp[m]) \cup {s.client}
            BY <1>1, <4>1, <5>2, <5>3, PrependFacts
          <5> QED  BY <1>1, <2>2, <4>1, <4>2, <5>4
        <4>3. CASE ~Under(n, m)
          BY <3>1, <4>1, <4>3
        <4> QED  BY <4>2, <4>3
      <3> HIDE DEF mid
      <3> QED  BY <2>2, <3>2, <3>3
    <2>3. CASE n \in DOMAIN tp /\ ~wild
      <3>1. mid = tp
        BY <2>3
      <3> QED  BY <1>2, <2>3, <3>1 DEF Clients
    <2> QED  BY <2>1, <2>2, <2>3
  <1> HIDE DEF mid
  <1>6. /\ DOMAIN tq = DOMAIN mid
        /\ tq = [m \in DOMAIN tq |-> tq[m]]
        /\ tq[n] = <<s>> \o mid[n]
        /\ \A m \in DOMAIN mid : m # n => tq[m] = mid[m]
    BY <1>3, <1>5
  <1>7. /\ tq[n] \in Seq(Subscriber)
        /\ InList(tq[n]) = InList(mid[n]) \cup {client}
    BY <1>1, <1>5, <1>6, PushFacts
  <1>8. \A m \in DOMAIN tq : tq[m] \in Seq(Subscriber)
    BY <1>5, <1>6, <1>7
  <1>9. n \in N
    BY DEF n
  <1>10. tq \in Maps(N)
    <2>1. DOMAIN tq \subseteq N
      BY <1>2, <1>5, <1>6, <1>9
    <2>2. DOMAIN tq = DOMAIN tp \cup {n}
      BY <1>5, <1>6
    <2>3. IsFiniteSet(DOMAIN tq)
      <3>1. IsFiniteSet(DOMAIN tp \cup {n})
        BY <1>4, FS_AddElement
      <3> QED  BY <2>2, <3>1
    <2> QED  BY <1>6, <1>8, <2>1, <2>3, MapsFacts
  <1>11. ASSUME NEW m \in DOMAIN tq
         PROVE  Clients(tq, m) = Clients(tp, m) \cup
                    (IF m = n \/ Below(m) THEN {client} ELSE {})
    <2>1. Clients(tq, m) = InList(tq[m])
      BY DEF Clients
    <2>2. InList(mid[m]) = Clients(tp, m) \cup (IF Below(m) THEN {client} ELSE {})
      BY <1>5, <1>6
    <2> HIDE DEF Below
    <2>3. CASE m = n
      BY <1>7, <2>1, <2>2, <2>3
    <2>4. CASE m # n
      <3>1. tq[m] = mid[m]
        BY <1>6, <2>4
      <3> QED  BY <2>1, <2>2, <2>4, <3>1
    <2> QED  BY <2>3, <2>4
  <1>12. Joined(tp, tq, n, client, wild)
    BY <1>5, <1>6, <1>11 DEF Joined
  <1> QED  BY <1>10, <1>12 DEF tq, n

\* What the broker's topics are: finitely many names with lists of subscribers.
IsTopics(tp) ==
    /\ tp = [m \in DOMAIN tp |-> tp[m]]
    /\ IsFiniteSet(DOMAIN tp)
    /\ \A m \in DOMAIN tp : Len(m) \in Nat /\ tp[m] \in Seq(Subscriber)

\* The filters' names in rounds up to i that make the loop reach m.
Reached(sub, i, m) ==
    \E j \in 1..i : LET n == filter_name(sub[j].topic)
                    IN  m = n \/ (wildcard(sub, j) /\ Under(n, m))

\* What the topics tp are after i rounds.
AfterRounds(tp, sub, client, i) ==
    /\ IsTopics(tp)
    /\ DOMAIN topics \subseteq DOMAIN tp
    /\ \A m \in DOMAIN topics : Clients(topics, m) \subseteq Clients(tp, m)
    /\ \A j \in 1..i : \A m \in Asks(sub[j].topic) : m \in DOMAIN tp /\ client \in Clients(tp, m)
    /\ \A m \in DOMAIN tp : \A a \in Clients(tp, m) :
          a \in Clients(topics, m) \/ (a = client /\ Reached(sub, i, m))

\* A SUBSCRIBE keeps the subscribers there are, adds the client to all that its filters
\* ask for, and to nothing but what they reach.
LEMMA SubscribedFacts ==
    ASSUME IsTopics(topics), NEW sub \in Seq(Tuple), NEW client \in Addrs
    PROVE  AfterRounds(subscribed(sub, client), sub, client, Len(sub))
  <1> DEFINE name(i) == filter_name(sub[i].topic)
             N == DOMAIN topics \cup {name(i) : i \in 1..Len(sub)}
             V == Maps(N)
             round(i, tp) == subscribe_tuple(tp, sub[i], client, wildcard(sub, i))
             done[i \in 0..Len(sub)] == IF i = 0 THEN topics
                 ELSE subscribe_tuple(done[i - 1], sub[i], client, wildcard(sub, i))
  <1>1. subscribed(sub, client) = done[Len(sub)]
    BY DEF subscribed
  <1> DEFINE Eq(g) == g = [i \in 0..Len(sub) |-> IF i = 0 THEN topics
                  ELSE subscribe_tuple(g[i - 1], sub[i], client, wildcard(sub, i))]
             st == [i \in Nat |-> [tp \in V |->
                      IF i \in 1..Len(sub) THEN round(i, tp) ELSE tp]]
  <1>2. Len(sub) \in Nat
    OBVIOUS
  <1>3. \A i \in 1..Len(sub) : sub[i] \in Tuple /\ sub[i].topic \in Seq(STRING) \ {<< >>}
                               /\ Len(name(i)) \in Nat /\ name(i) \in N
    <2> SUFFICES ASSUME NEW i \in 1..Len(sub)
                 PROVE  /\ sub[i] \in Tuple /\ sub[i].topic \in Seq(STRING) \ {<< >>}
                        /\ Len(name(i)) \in Nat /\ name(i) \in N
      OBVIOUS
    <2>1. sub[i] \in Tuple
      BY ElementOfSeq
    <2>2. sub[i].topic \in Seq(STRING) \ {<< >>}
      BY <2>1 DEF Tuple
    <2>3. Len(name(i)) \in Nat
      BY <2>2, NameFacts
    <2> QED  BY <2>1, <2>2, <2>3
  <1>4. \A m \in N : Len(m) \in Nat
    BY <1>3 DEF IsTopics
  <1>5. \A i \in 1..Len(sub) : \A tp \in V : round(i, tp) \in V
    BY <1>3, <1>4, TupleStep
  <1>6. topics \in V
    <2>1. DOMAIN topics \subseteq N
      OBVIOUS
    <2> HIDE DEF N
    <2> QED  BY <2>1, MapsFacts DEF IsTopics
  <1> HIDE DEF V, round
  <1>7. st \in [Nat -> [V -> V]]
    BY <1>5
  <1>8. PICK g \in [0..Len(sub) -> V] :
           g[0] = topics /\ \A i \in 1..Len(sub) : g[i] = st[i][g[i - 1]]
    <2> DEFINE n == Len(sub)
               b == topics
    <2>1. n \in Nat /\ b \in V /\ st \in [Nat -> [V -> V]]
      BY <1>2, <1>6, <1>7
    <2> HIDE DEF st, n, b
    <2>2. \E g : ByRecursion(g, n, V, b, st)
      BY <2>1, RecursionExists, Zenon
    <2> QED  BY <2>2 DEF b, n, ByRecursion
  <1>9. \A i \in 1..Len(sub) : i - 1 \in 0..Len(sub) /\ g[i - 1] \in V /\ g[i] = round(i, g[i - 1])
    <2> SUFFICES ASSUME NEW i \in 1..Len(sub)
                 PROVE  /\ i - 1 \in 0..Len(sub) /\ g[i - 1] \in V
                        /\ g[i] = round(i, g[i - 1])
      OBVIOUS
    <2>1. i \in Nat /\ i - 1 \in 0..Len(sub)
      BY <1>2
    <2>2. g[i - 1] \in V
      BY <2>1
    <2> QED  BY <1>8, <2>1, <2>2
  <1>10. Eq(g)
    <2>1. \A i \in 0..Len(sub) : i = 0 \/ i \in 1..Len(sub)
      BY <1>2
    <2>2. \A i \in 0..Len(sub) : g[i] = IF i = 0 THEN topics
                  ELSE subscribe_tuple(g[i - 1], sub[i], client, wildcard(sub, i))
      BY <1>8, <1>9, <2>1 DEF round
    <2> QED  BY <2>2
  <1>11. Eq(done)
    <2>1. done = CHOOSE h : Eq(h)
      OBVIOUS
    <2> HIDE DEF Eq, done
    <2> QED  BY <1>10, <2>1
  <1> HIDE DEF done
  <1>12. done[0] = topics
    BY <1>2, <1>11
  <1>13. \A i \in 1..Len(sub) : done[i] = round(i, done[i - 1])
    <2>1. \A i \in 1..Len(sub) : i # 0 /\ i \in 0..Len(sub)
      BY <1>2
    <2> QED  BY <1>11, <2>1 DEF round
  <1>14. \A tp \in V : IsTopics(tp)
    BY <1>4, MapsFacts DEF IsTopics, V
  <1> DEFINE n == Len(sub)
             S == {i \in 0..n : done[i] \in V /\ AfterRounds(done[i], sub, client, i)}
  <1>15. 0 \in S
    <2>1. AfterRounds(topics, sub, client, 0)
      BY <1>6, <1>14 DEF AfterRounds
    <2>2. 0 \in 0..n
      BY <1>2
    <2> QED  BY <1>6, <1>12, <2>1, <2>2
  <1>16. ASSUME NEW i \in 0..(n - 1), i \in S PROVE i + 1 \in S
    <2> DEFINE tp == done[i]
               tq == done[i + 1]
               x == name(i + 1)
               wild == wildcard(sub, i + 1)
               Below(m) == wild /\ x \in DOMAIN tp /\ m \in DOMAIN tp /\ Under(x, m)
    <2>1. /\ i \in Nat /\ i + 1 \in 1..n /\ i + 1 \in 0..n /\ (i + 1) - 1 = i
          /\ \A j \in 1..(i + 1) : j \in 1..i \/ j = i + 1
          /\ \A j \in 1..i : j \in 1..(i + 1)
          /\ i + 1 \in 1..(i + 1)
      BY <1>2
    <2>2. tp \in V /\ AfterRounds(tp, sub, client, i)
      BY <1>16
    <2>3. tq = round(i + 1, tp)
      BY <1>13, <2>1
    <2>4. /\ tq \in V
          /\ DOMAIN tq = DOMAIN tp \cup {x}
          /\ \A m \in DOMAIN tq :
                Clients(tq, m) = Clients(tp, m) \cup
                    (IF m = x \/ Below(m) THEN {client} ELSE {})
      <3>1. sub[i + 1] \in Tuple /\ name(i + 1) \in N
        BY <1>3, <2>1
      <3> DEFINE u == sub[i + 1]
      <3>2. tp \in Maps(N) /\ tq = subscribe_tuple(tp, u, client, wild)
        BY <2>2, <2>3 DEF V, round
      <3>3. u \in Tuple /\ x = filter_name(u.topic) /\ x \in N
        BY <3>1
      <3> HIDE DEF N, tp, tq, u, x, wild
      <3>4. tq \in Maps(N) /\ Joined(tp, tq, x, client, wild)
        BY <1>4, <3>2, <3>3, TupleStep, Zenon
      <3> QED  BY <3>4 DEF V, Joined
    <2> HIDE DEF tp, tq, x, wild, S
    <2>5. \A m \in DOMAIN tp : Clients(tp, m) \subseteq Clients(tq, m)
      BY <2>4
    <2>6. DOMAIN topics \subseteq DOMAIN tq
      BY <2>2, <2>4 DEF AfterRounds
    <2>7. \A m \in DOMAIN topics : Clients(topics, m) \subseteq Clients(tq, m)
      BY <2>2, <2>5 DEF AfterRounds
    <2>8. ASSUME NEW j \in 1..(i + 1), NEW m \in Asks(sub[j].topic)
          PROVE  m \in DOMAIN tq /\ client \in Clients(tq, m)
      <3>1. CASE j \in 1..i
        BY <2>2, <2>4, <2>5, <2>8, <3>1 DEF AfterRounds
      <3>2. CASE j = i + 1
        <4>1. m = x \/ (m \in DOMAIN topics /\ hashed(sub[i + 1].topic)
                           /\ x \in DOMAIN topics /\ Under(x, m))
          BY <2>8, <3>2 DEF Asks, x
        <4>2. hashed(sub[i + 1].topic) => wild
          BY <2>1 DEF wild, wildcard
        <4>3. m = x \/ Below(m)
          BY <2>2, <4>1, <4>2 DEF AfterRounds
        <4>4. m \in DOMAIN tq
          BY <2>4, <4>3
        <4> QED  BY <2>4, <4>3, <4>4
      <3> QED  BY <2>1, <3>1, <3>2
    <2>9. \A m : Reached(sub, i, m) => Reached(sub, i + 1, m)
      BY <2>1 DEF Reached
    <2>10. ASSUME NEW m \in DOMAIN tq, NEW a \in Clients(tq, m)
           PROVE  a \in Clients(topics, m) \/ (a = client /\ Reached(sub, i + 1, m))
      <3>1. CASE a \in Clients(tp, m)
        <4>1. m \in DOMAIN tp
          BY <3>1 DEF Clients
        <4> QED  BY <2>2, <2>9, <3>1, <4>1 DEF AfterRounds
      <3>2. CASE a \notin Clients(tp, m)
        <4>1. a = client /\ (m = x \/ Below(m))
          BY <2>4, <2>10, <3>2
        <4>2. m = x \/ (wild /\ Under(x, m))
          BY <4>1
        <4>3. Reached(sub, i + 1, m)
          BY <2>1, <4>2 DEF Reached, x, wild
        <4> QED  BY <4>1, <4>3
      <3> QED  BY <3>1, <3>2
    <2>11. IsTopics(tq)
      BY <1>14, <2>4
    <2>12. AfterRounds(tq, sub, client, i + 1)
      BY <2>6, <2>7, <2>8, <2>10, <2>11 DEF AfterRounds
    <2> QED  BY <2>1, <2>4, <2>12 DEF S, tq
  <1>17. n \in Nat /\ n \in 0..n
    BY <1>2
  <1> HIDE DEF n, S
  <1>18. n \in S
    BY <1>15, <1>16, <1>17, IntervalInduction
  <1> QED  BY <1>1, <1>18 DEF S, n

-----------------------------------------------------------------------------
(* The handlers' effects.                                                  *)

\* A request is served for an open descriptor whose closure has a client.
LEMMA Requester ==
    ASSUME IInv, NEW f \in Fds, NEW op, Request(f, op)
    PROVE  /\ sock[f].ev # "none"
           /\ sock[f].peer \in Peers /\ Open(f)
           /\ cb[sock[f].cb].obj \in Addrs /\ cb[sock[f].cb].obj # NULL
  <1>1. sock[f].ev # "none" /\ cb[sock[f].cb].obj # NULL
    BY DEF Request, Runs
  <1>2. cb[sock[f].cb] \in Closure /\ sock[f] \in Socket /\ sock[f].peer # NULL
    BY <1>1, RunsFacts DEF IInv
  <1> QED  BY <1>1, <1>2 DEF Closure, Socket, Open

\* Answering a request closes nothing and leaves the clients alone.
LEMMA AnswerKeeps ==
    ASSUME IInv, NEW f \in Fds,
           (\E pay : ack_handler(f, pay)) \/ publish_qos0(f)
    PROVE  /\ \E op : Request(f, op)
           /\ \A g \in Fds : sock'[g].peer = sock[g].peer
           /\ heap' = heap
  <1>1. /\ \E op : Request(f, op)
        /\ heap' = heap
        /\ sock' = disarm(sock, f) \/ sock' = rearm(disarm(sock, f), sock[f].cb, "out")
    BY DEF ack_handler, publish_qos0, reply
  <1>2. sock[f].cb \in Closures
    BY <1>1, RunsFacts DEF IInv, Request, Runs
  <1> DEFINE s == disarm(sock, f)
  <1>3. s \in [Fds -> Socket] /\ \A g \in Fds : s[g].peer = sock[g].peer
    BY DEF IInv, TypeOK, disarm, Socket
  <1>4. "out" \in {"in", "out"}
    OBVIOUS
  <1> HIDE DEF s
  <1>5. \A g \in Fds : rearm(s, sock[f].cb, "out")[g].peer = s[g].peer
    BY <1>2, <1>3, <1>4, rearmFacts
  <1> QED  BY <1>1, <1>3, <1>5 DEF s

\* What holds of topics and of the histories, whatever the peers do.
TInv ==
    /\ IInv
    /\ BrokerTypeOK
    /\ IsTopics(topics)
    /\ filters = [f \in Fds |-> filters[f]]
    /\ owed = [f \in Fds |-> owed[f]]

\* SUBSCRIBE: what the rounds do to the topics is all that happens, but for the answer.
LEMMA SubscribeEffect ==
    ASSUME TInv, NEW f \in Fds, NEW sub, subscribe_handler(f, sub)
    PROVE  /\ sock[f].ev # "none" /\ Open(f)
           /\ cb[sock[f].cb].obj \in Addrs /\ cb[sock[f].cb].obj # NULL
           /\ \E p \in Peers : sub \in Subs[p]
           /\ sub \in Seq(Tuple)
           /\ AfterRounds(topics', sub, cb[sock[f].cb].obj, Len(sub))
           /\ \A n \in DOMAIN topics' : Len(topics'[n]) <= MaxList
           /\ \A g \in Fds : sock'[g].peer = sock[g].peer
           /\ heap' = heap
  <1> DEFINE client == cb[sock[f].cb].obj
  <1>1. /\ ack_handler(f, "SUBACK")
        /\ sub \in Heard(sock[f].peer, Subs)
        /\ topics' = subscribed(sub, client)
        /\ \A n \in DOMAIN topics' : Len(topics'[n]) <= MaxList
    BY DEF subscribe_handler
  <1>2. /\ \A g \in Fds : sock'[g].peer = sock[g].peer
        /\ heap' = heap
    BY <1>1, AnswerKeeps DEF TInv
  <1>3. Request(f, "ack")
    BY <1>1 DEF ack_handler
  <1>4. /\ sock[f].ev # "none" /\ Open(f) /\ sock[f].peer \in Peers
        /\ client \in Addrs /\ client # NULL
    BY <1>3, Requester DEF TInv
  <1>7. \E p \in Peers : sub \in Subs[p]
    BY <1>1, <1>4 DEF Heard
  <1>5. sub \in Seq(Tuple)
    BY <1>7, SubsAssumption
  <1> HIDE DEF client
  <1>6. AfterRounds(topics', sub, client, Len(sub))
    <2>1. AfterRounds(subscribed(sub, client), sub, client, Len(sub))
      BY <1>4, <1>5, SubscribedFacts DEF TInv
    <2> QED  BY <1>1, <2>1
  <1> QED  BY <1>1, <1>2, <1>4, <1>5, <1>6, <1>7 DEF client

\* PUBLISH: the topic is there afterwards, with the subscribers it had.
LEMMA PublishEffect ==
    ASSUME TInv, NEW f \in Fds, NEW pub, publish_handler(f, pub)
    PROVE  /\ IsTopics(topics')
           /\ DOMAIN topics' = DOMAIN topics \cup {slashed(pub.topic)}
           /\ \A m \in DOMAIN topics : topics'[m] = topics[m]
           /\ \A m \in DOMAIN topics' : m \notin DOMAIN topics => topics'[m] = << >>
           /\ \A g \in Fds : sock'[g].peer = sock[g].peer
           /\ heap' = heap
  <1> DEFINE n == slashed(pub.topic)
  <1>1. /\ topics' = with_topic(topics, n)
        /\ publish_reply(f, pub.qos)
        /\ pub \in Heard(sock[f].peer, Pubs)
    BY DEF publish_handler
  <1>2. (\E pay : ack_handler(f, pay)) \/ publish_qos0(f)
    BY <1>1 DEF publish_reply
  <1>3. /\ \A g \in Fds : sock'[g].peer = sock[g].peer
        /\ heap' = heap
        /\ \E op : Request(f, op)
    BY <1>2, AnswerKeeps DEF TInv
  <1>4. pub.topic \in Seq(STRING) \ {<< >>}
    BY <1>1, <1>3, Requester, PubsAssumption DEF TInv, Heard
  <1>5. Len(n) \in Nat
    BY <1>4, NameFacts
  <1> HIDE DEF n
  <1>6. topics' = [m \in DOMAIN topics \cup {n} |->
                      IF m \in DOMAIN topics THEN topics[m] ELSE << >>]
    BY <1>1 DEF with_topic
  <1>7. IsFiniteSet(DOMAIN topics \cup {n})
    BY FS_AddElement DEF TInv, IsTopics
  <1>8. << >> \in Seq(Subscriber)
    BY EmptySeq
  <1>9. IsTopics(topics')
    <2>1. /\ topics' = [m \in DOMAIN topics' |-> topics'[m]]
          /\ DOMAIN topics' = DOMAIN topics \cup {n}
      BY <1>6
    <2>2. ASSUME NEW m \in DOMAIN topics'
          PROVE  Len(m) \in Nat /\ topics'[m] \in Seq(Subscriber)
      BY <1>5, <1>6, <1>8 DEF TInv, IsTopics
    <2> QED  BY <1>7, <2>1, <2>2 DEF IsTopics
  <1> QED  BY <1>3, <1>6, <1>9 DEF n

\* At the start the statistics' topics are there and nobody is subscribed.
LEMMA InitTInv == BrokerInit => TInv
  <1> SUFFICES ASSUME BrokerInit PROVE TInv
    OBVIOUS
  <1>1. IInv
    BY InitIInv DEF BrokerInit
  <1>2. /\ topics = [n \in SysTopics |-> << >>]
        /\ filters = [f \in Fds |-> {}] /\ owed = [f \in Fds |-> {}]
    BY DEF BrokerInit
  <1>3. << >> \in Seq(Subscriber) /\ Len(<< >>) = 0
    BY EmptySeq
  <1>4. 0 <= MaxList
    BY MaxListAssumption
  <1>5. \A n \in SysTopics : Len(n) \in Nat
    BY SysAssumption
  <1>6. IsTopics(topics)
    BY <1>2, <1>3, <1>5, SysAssumption DEF IsTopics
  <1>7. BrokerTypeOK
    BY <1>2, <1>3, <1>4 DEF BrokerTypeOK
  <1> QED  BY <1>1, <1>2, <1>6, <1>7 DEF TInv

\* Every step keeps it.
LEMMA NextTInv == TInv /\ [BrokerNext]_brokerVars => TInv'
  <1> SUFFICES ASSUME TInv, [BrokerNext]_brokerVars PROVE TInv'
    OBVIOUS
  <1>1. IInv'
    BY BrokerStep, NextIInv, DiesKeeps DEF TInv
  <1>2. ASSUME UNCHANGED topics
        PROVE  /\ IsTopics(topics')
               /\ SysTopics \subseteq DOMAIN topics'
               /\ \A n \in DOMAIN topics' :
                     topics'[n] \in Seq(Subscriber) /\ Len(topics'[n]) <= MaxList
    BY <1>2 DEF TInv, BrokerTypeOK
  <1>3. ASSUME UNCHANGED <<filters, owed>>, \A g \in Fds : sock'[g].peer = sock[g].peer
        PROVE  /\ filters' = [f \in Fds |-> filters'[f]]
               /\ owed' = [f \in Fds |-> owed'[f]]
               /\ \A f \in Fds : filters'[f] # {} \/ owed'[f] # {} => Open(f)'
    BY <1>3 DEF TInv, BrokerTypeOK, Open
  <1>4. CASE UNCHANGED brokerVars
    <2>1. UNCHANGED <<sock, topics, filters, owed>>
      BY <1>4 DEF brokerVars, vars, topicVars
    <2> QED  BY <1>1, <1>2, <1>3, <2>1 DEF TInv, BrokerTypeOK
  <1>5. CASE Other
    <2>1. UNCHANGED topics /\ Forget
      BY <1>5 DEF Other
    <2>2. /\ filters' = [f \in Fds |-> filters'[f]]
          /\ owed' = [f \in Fds |-> owed'[f]]
          /\ \A f \in Fds : filters'[f] # {} \/ owed'[f] # {} => Open(f)'
      BY <2>1 DEF Forget
    <2> QED  BY <1>1, <1>2, <2>1, <2>2 DEF TInv, BrokerTypeOK
  <1>6. ASSUME NEW f \in Fds, NEW sub, subscribe_handler(f, sub)
        PROVE  TInv'
    <2>1. /\ Open(f)
          /\ AfterRounds(topics', sub, cb[sock[f].cb].obj, Len(sub))
          /\ \A n \in DOMAIN topics' : Len(topics'[n]) <= MaxList
          /\ \A g \in Fds : sock'[g].peer = sock[g].peer
      BY <1>6, SubscribeEffect
    <2>2. IsTopics(topics') /\ DOMAIN topics \subseteq DOMAIN topics'
      BY <2>1 DEF AfterRounds
    <2>3. Remember(f, sub)
      BY <1>6 DEF subscribe_handler
    <2>4. /\ filters' = [g \in Fds |-> filters'[g]]
          /\ owed' = [g \in Fds |-> owed'[g]]
          /\ \A g \in Fds \ {f} : filters'[g] = filters[g] /\ owed'[g] = owed[g]
      BY <2>3 DEF Remember, TInv
    <2>5. \A g \in Fds : filters'[g] # {} \/ owed'[g] # {} => Open(g)'
      BY <2>1, <2>4 DEF TInv, BrokerTypeOK, Open
    <2> QED  BY <1>1, <2>1, <2>2, <2>4, <2>5 DEF TInv, BrokerTypeOK, IsTopics
  <1>7. ASSUME NEW f \in Fds, unsubscribe_handler(f)
        PROVE  TInv'
    <2>1. \A g \in Fds : sock'[g].peer = sock[g].peer
      BY <1>7, AnswerKeeps DEF unsubscribe_handler, TInv
    <2> QED  BY <1>1, <1>2, <1>3, <1>7, <2>1 DEF unsubscribe_handler, TInv, BrokerTypeOK
  <1>8. ASSUME NEW f \in Fds, NEW pub, publish_handler(f, pub)
        PROVE  TInv'
    <2>1. /\ IsTopics(topics')
          /\ DOMAIN topics \subseteq DOMAIN topics'
          /\ \A m \in DOMAIN topics : topics'[m] = topics[m]
          /\ \A m \in DOMAIN topics' : m \notin DOMAIN topics => topics'[m] = << >>
          /\ \A g \in Fds : sock'[g].peer = sock[g].peer
      BY <1>8, PublishEffect
    <2>2. UNCHANGED <<filters, owed>>
      BY <1>8 DEF publish_handler
    <2>3. Len(<< >>) <= MaxList
      BY MaxListAssumption
    <2>4. SysTopics \subseteq DOMAIN topics'
      BY <2>1 DEF TInv, BrokerTypeOK
    <2>5. ASSUME NEW n \in DOMAIN topics'
          PROVE  topics'[n] \in Seq(Subscriber) /\ Len(topics'[n]) <= MaxList
      <3>1. CASE n \in DOMAIN topics
        BY <2>1, <3>1 DEF TInv, BrokerTypeOK
      <3>2. CASE n \notin DOMAIN topics
        BY <2>1, <2>3, <3>2 DEF IsTopics
      <3> QED  BY <3>1, <3>2
    <2> QED  BY <1>1, <1>3, <2>1, <2>2, <2>4, <2>5 DEF TInv, BrokerTypeOK
  <1>9. CASE publish_stats \/ HandlerCrash
    <2>1. UNCHANGED <<sock, topics, filters, owed>>
      BY <1>9 DEF publish_stats, HandlerCrash, vars
    <2> QED  BY <1>1, <1>2, <1>3, <2>1 DEF TInv, BrokerTypeOK
  <1> QED  BY <1>4, <1>5, <1>6, <1>7, <1>8, <1>9 DEF BrokerNext

\* Lists hold subscribers and stay within their bound, the statistics' topics never
\* go away, and nothing is remembered of a descriptor that was closed, so that a peer
\* accepted on it starts with no subscription (BrokerTypeOK), whatever peers do.
THEOREM BrokerTypes == BrokerSpec => []BrokerTypeOK
  <1>1. TInv => BrokerTypeOK
    BY DEF TInv
  <1> QED  BY <1>1, InitTInv, NextTInv, PTL DEF BrokerSpec

-----------------------------------------------------------------------------
(* Who is served.                                                          *)

\* What a connected peer may expect, some subscriber of the topic stands for: an entry
\* whose client is allocated and has the peer's descriptor.
Served ==
    \A g \in Fds : \A n \in owed[g] :
        /\ n \in DOMAIN topics
        /\ \E a \in Clients(topics, n) : heap[a].live /\ heap[a].fd = g

\* Every subscriber's client is allocated, and the peer at its descriptor subscribed to
\* a filter that covers the topic.
Covered ==
    \A n \in DOMAIN topics : \A a \in Clients(topics, n) :
        /\ heap[a].live /\ heap[a].fd \in Fds
        /\ \E t \in filters[heap[a].fd] : Covers(t, n)

\* No peer ends its connection, in either of the ways that free its client.
Staying == \A p \in Peers : May[p] \cap {"disconnect", "badbyte"} = {}

\* In a SUBSCRIBE, a filter with a "#" is followed by such filters only: subscribe_handler
\* does not reset wildcard, and takes the filters after it for filters with a "#".
HashesLast ==
    \A p \in Peers : \A sub \in Subs[p] :
        \A i \in DOMAIN sub : \A j \in 1..i : hashed(sub[j].topic) => hashed(sub[i].topic)

\* Every step of the broker keeps the ownership invariant.
LEMMA BrokerNextWInv == WellBehaved /\ WInv /\ [BrokerNext]_brokerVars => WInv'
  BY BrokerStep, NextWInv, DiesKeeps

\* CONNECT of a well-behaved peer always finds its identifier free.
LEMMA OnlyNew ==
    ASSUME WInv, WellBehaved, NEW f \in Fds, NEW id \in ClientIds, connect_handler(f, id)
    PROVE  connect_new(f, id)
  <1>0. sock[f].ev # "none"
    BY DEF connect_handler, Runs
  <1>2. sock[f].peer \in Peers
    BY <1>0, RunsFacts DEF WInv, IInv, Socket
  <1>1. /\ sock[f].ev # "none" /\ id \in Ids[sock[f].peer]
        /\ cb[sock[f].cb].obj = NULL \/ "again" \in May[sock[f].peer]
    BY <1>0, <1>2 DEF connect_handler, WellBehaved, Does, Says
  <1>3. cb[sock[f].cb].obj = NULL
    BY <1>1, <1>2 DEF WellBehaved
  <1>4. clients[id] = NULL
    BY <1>1, <1>3, NoDoubleConnect
  <1> QED  BY <1>4 DEF connect_handler, connect_double

\* A callback after which its descriptor is open frees no client.
LEMMA OwnKept ==
    ASSUME WInv, WellBehaved, NEW f \in Fds, Serve(f), sock'[f].peer # NULL
    PROVE  \A a \in Addrs : heap[a].live => heap'[a] = heap[a]
  <1> DEFINE c == sock[f].cb
  <1>1. ASSUME sock[f].ev # "none", sock' = close(disarm(sock, f), f) PROVE FALSE
    BY <1>1 DEF close, Closed
  <1>2. CASE on_read_errdc(f)
    <2>1. sock[f].ev # "none"
      BY <1>2 DEF on_read_errdc, Runs
    <2>2. cb[c].fd = f
      BY <2>1, RunsFacts DEF WInv, IInv
    <2> QED  BY <1>1, <1>2, <2>1, <2>2 DEF on_read_errdc
  <1>3. CASE disconnect_handler(f)
    <2>1. sock[f].ev # "none" /\ cb[c].obj # NULL
      BY <1>3 DEF disconnect_handler, Request, Runs
    <2>2. Deref(cb[c].obj) = {heap[cb[c].obj]} /\ heap[cb[c].obj].fd = f
      BY <2>1, ServedClient
    <2>3. sock' = close(disarm(sock, f), f)
      BY <1>3, <2>2 DEF disconnect_handler
    <2> QED  BY <1>1, <2>1, <2>3
  <1>4. ASSUME NEW id \in ClientIds, connect_handler(f, id)
        PROVE  \A a \in Addrs : heap[a].live => heap'[a] = heap[a]
    <2>1. connect_new(f, id)
      BY <1>4, OnlyNew
    <2> QED  BY <2>1 DEF connect_new, WInv, IInv, TypeOK
  <1>5. CASE \/ on_read_exit(f) \/ evloop_hangup(f) \/ publish_qos0(f)
             \/ on_write(f) \/ Crash(f) \/ \E pay \in Acks : ack_handler(f, pay)
    BY <1>5 DEF on_read_exit, evloop_hangup, publish_qos0, on_write, Crash, ack_handler
  <1> QED  BY <1>2, <1>3, <1>4, <1>5 DEF Serve

\* A client whose descriptor is open after a step stays as it is.
LEMMA ClientsKept ==
    ASSUME WInv, WellBehaved, Next
    PROVE  \A a \in Addrs : heap[a].live /\ heap[a].fd \in Fds
                              /\ sock'[heap[a].fd].peer # NULL => heap'[a] = heap[a]
  <1>1. IInv'
    BY NextIInv DEF WInv
  <1>2. CASE Accept
    <2>1. heap' = heap
      BY <1>2 DEF Accept, on_accept, on_accept_failed, on_accept_leak
    <2> QED  BY <2>1
  <1>3. ASSUME NEW f \in Fds, Drop(f) PROVE FALSE
    BY <1>3 DEF Drop, Open, WellBehaved, WInv, IInv, TypeOK, Socket
  <1>4. ASSUME NEW f \in Fds, Serve(f), NEW a \in Addrs,
               heap[a].live, heap[a].fd \in Fds, sock'[heap[a].fd].peer # NULL
        PROVE  heap'[a] = heap[a]
    <2>1. CASE heap[a].fd = f
      BY <1>4, <2>1, OwnKept
    <2>2. CASE heap[a].fd # f
      BY <1>1, <1>4, <2>2, ServeOwn
    <2> QED  BY <2>1, <2>2
  <1> QED  BY <1>2, <1>3, <1>4 DEF Next

\* Peers that do not end their connections keep them.
LEMMA StaysOpen ==
    ASSUME WInv, WellBehaved, Staying, Next
    PROVE  \A g \in Fds : Open(g) => Open(g)'
  <1>1. IInv'
    BY NextIInv DEF WInv
  <1>2. CASE Accept
    <2>1. ASSUME NEW p \in Peers, NEW f \in Fds, NEW c \in Closures, on_accept(p, f, c),
                 NEW g \in Fds, Open(g)
          PROVE  Open(g)'
      BY <2>1 DEF on_accept, LowestFree, Open, WInv, IInv, TypeOK
    <2>2. ASSUME NEW c \in Closures, NEW h \in Fds \cup {BadFd}, on_accept_failed(c, h),
                 NEW g \in Fds, Open(g)
          PROVE  Open(g)'
      BY <2>2 DEF on_accept_failed, Open, WInv, Registered
    <2>3. ASSUME NEW p \in Peers, NEW f \in Fds, NEW c \in Closures,
                 NEW g \in Fds \cup {BadFd}, on_accept_leak(p, f, c, g)
          PROVE  FALSE
      BY <2>3 DEF on_accept_leak, WellBehaved
    <2> QED  BY <1>2, <2>1, <2>2, <2>3 DEF Accept
  <1>3. ASSUME NEW f \in Fds, Drop(f) PROVE FALSE
    BY <1>3 DEF Drop, Open, WellBehaved, WInv, IInv, TypeOK, Socket
  <1>4. ASSUME NEW f \in Fds, Serve(f), Open(f) PROVE Open(f)'
    <2> DEFINE c == sock[f].cb
    <2>1. ASSUME sock[f].ev # "none", NEW e \in {"in", "out"},
                 sock' = disarm(sock, f) \/ sock' = rearm(disarm(sock, f), c, e)
          PROVE  Open(f)'
      <3>1. sock'[f].peer = sock[f].peer
        BY <2>1, rearmOwn
      <3> QED  BY <1>4, <3>1 DEF Open
    <2>2. "in" \in {"in", "out"} /\ "out" \in {"in", "out"}
      OBVIOUS
    <2>3. sock[f].peer \in Peers
      BY <1>4 DEF Open, WInv, IInv, TypeOK, Socket
    <2>4. CASE on_read_exit(f) \/ evloop_hangup(f) \/ publish_qos0(f)
      BY <2>1, <2>2, <2>4 DEF on_read_exit, evloop_hangup, publish_qos0, Request, Runs
    <2>5. CASE on_write(f) \/ \E pay \in Acks : ack_handler(f, pay)
      BY <2>1, <2>2, <2>5 DEF on_write, ack_handler, reply, Request, Runs
    <2>6. ASSUME NEW id \in ClientIds, connect_handler(f, id) PROVE Open(f)'
      <3>1. connect_new(f, id) /\ sock[f].ev # "none"
        BY <2>6, OnlyNew DEF connect_handler, Runs
      <3> QED  BY <2>1, <2>2, <3>1 DEF connect_new, reply
    <2>7. CASE Crash(f)
      BY <1>4, <2>7 DEF Crash, Open
    <2>8. ~on_read_errdc(f) /\ ~disconnect_handler(f)
      BY <2>3 DEF on_read_errdc, disconnect_handler, Request, Staying, WellBehaved, Does
    <2> QED  BY <1>4, <2>4, <2>5, <2>6, <2>7, <2>8 DEF Serve
  <1>5. ASSUME NEW f \in Fds, Serve(f), NEW g \in Fds, Open(g) PROVE Open(g)'
    <2>1. CASE g = f
      BY <1>4, <1>5, <2>1
    <2>2. CASE g # f
      <3>1. sock'[g] = sock[g]
        BY <1>1, <1>5, <2>2, ServeOwn
      <3> QED  BY <1>5, <3>1 DEF Open
    <2> QED  BY <2>1, <2>2
  <1> QED  BY <1>2, <1>3, <1>5 DEF Next

\* A step of Sessions that leaves the topics alone is one of the broker's other steps.
LEMMA OtherNext == ASSUME BrokerNext, Other PROVE Next
  <1>1. up
    BY DEF BrokerNext
  <1>2. ASSUME NEW f \in Fds,
               \/ on_read_exit(f) \/ on_read_errdc(f) \/ evloop_hangup(f)
               \/ (\E id \in ClientIds : connect_handler(f, id))
               \/ disconnect_handler(f) \/ on_write(f) \/ Crash(f)
        PROVE  Serve(f)
    BY <1>2 DEF Serve
  <1> QED  BY <1>1, <1>2 DEF Other, Next

\* Subscribers point to addresses of clients.
LEMMA ClientsAddrs ==
    ASSUME NEW tp, IsTopics(tp), NEW n, NEW a \in Clients(tp, n)
    PROVE  a \in Addrs /\ n \in DOMAIN tp
  <1>1. n \in DOMAIN tp /\ a \in InList(tp[n])
    BY DEF Clients
  <1>2. tp[n] \in Seq(Subscriber)
    BY <1>1 DEF IsTopics
  <1>3. PICK i \in DOMAIN tp[n] : a = tp[n][i].client
    BY <1>1 DEF InList
  <1>4. tp[n][i] \in Subscriber
    BY <1>2, <1>3, ElementOfSeq
  <1> QED  BY <1>1, <1>3, <1>4 DEF Subscriber

\* Served is kept where topics gain subscribers only and clients stay as they are.
LEMMA ServedKept ==
    ASSUME TInv, Served, heap' = heap,
           DOMAIN topics \subseteq DOMAIN topics',
           \A m \in DOMAIN topics : Clients(topics, m) \subseteq Clients(topics', m),
           NEW g \in Fds, NEW n \in owed[g]
    PROVE  /\ n \in DOMAIN topics'
           /\ \E a \in Clients(topics', n) : heap'[a].live /\ heap'[a].fd = g
  BY DEF Served

\* Every step of well-behaved peers keeps it.
LEMMA NextServed ==
    WellBehaved /\ TInv /\ WInv /\ Served /\ [BrokerNext]_brokerVars => Served'
  <1> SUFFICES ASSUME WellBehaved, TInv, WInv, Served, [BrokerNext]_brokerVars,
                      NEW g \in Fds, NEW n \in owed'[g]
               PROVE  /\ n \in DOMAIN topics'
                      /\ \E a \in Clients(topics', n) : heap'[a].live /\ heap'[a].fd = g
    BY DEF Served
  <1> DEFINE Goal == /\ n \in DOMAIN topics'
                     /\ \E a \in Clients(topics', n) : heap'[a].live /\ heap'[a].fd = g
  <1>1. ASSUME UNCHANGED <<heap, topics, owed>> PROVE Goal
    BY <1>1 DEF Served
  <1>2. CASE UNCHANGED brokerVars
    BY <1>1, <1>2 DEF brokerVars, vars, topicVars
  <1>3. ASSUME BrokerNext, Other PROVE Goal
    <2>1. Next
      BY <1>3, OtherNext
    <2>2. n \in owed[g] /\ sock'[g].peer # NULL /\ topics' = topics
      BY <1>3 DEF Other, Forget, Open
    <2>3. PICK a \in Clients(topics, n) : heap[a].live /\ heap[a].fd = g
      BY <2>2 DEF Served
    <2>4. a \in Addrs
      BY <2>3, ClientsAddrs DEF TInv
    <2>5. heap'[a] = heap[a]
      BY <2>1, <2>2, <2>3, <2>4, ClientsKept
    <2> QED  BY <2>2, <2>3, <2>5 DEF Served
  <1>4. ASSUME NEW f \in Fds, NEW sub, subscribe_handler(f, sub)
        PROVE  Goal
    <2> DEFINE client == cb[sock[f].cb].obj
    <2>1. /\ sock[f].ev # "none" /\ client \in Addrs /\ client # NULL
          /\ sub \in Seq(Tuple)
          /\ AfterRounds(topics', sub, client, Len(sub))
          /\ heap' = heap
      BY <1>4, SubscribeEffect
    <2>2. heap[client].live /\ heap[client].fd = f
      BY <2>1, ServedClient
    <2> HIDE DEF client
    <2>3. /\ DOMAIN topics \subseteq DOMAIN topics'
          /\ \A m \in DOMAIN topics : Clients(topics, m) \subseteq Clients(topics', m)
          /\ \A j \in 1..Len(sub) : \A m \in Asks(sub[j].topic) :
                m \in DOMAIN topics' /\ client \in Clients(topics', m)
      BY <2>1 DEF AfterRounds
    <2>4. owed' = [owed EXCEPT ![f] = @ \cup UNION {Asks(sub[i].topic) : i \in DOMAIN sub}]
      BY <1>4 DEF subscribe_handler, Remember
    <2>5. CASE n \in owed[g]
      BY <2>1, <2>3, <2>5, ServedKept
    <2>6. CASE n \notin owed[g]
      <3>1. g = f /\ \E i \in DOMAIN sub : n \in Asks(sub[i].topic)
        <4>1. owed = [h \in Fds |-> owed[h]]
          BY DEF TInv
        <4> DEFINE new == UNION {Asks(sub[i].topic) : i \in DOMAIN sub}
        <4>2. owed' = [owed EXCEPT ![f] = @ \cup new]
          BY <2>4
        <4>3. n \in new => \E i \in DOMAIN sub : n \in Asks(sub[i].topic)
          OBVIOUS
        <4> HIDE DEF new
        <4>4. \A h \in Fds : owed'[h] = IF h = f THEN owed[f] \cup new ELSE owed[h]
          BY <4>1, <4>2
        <4> QED  BY <2>6, <4>3, <4>4
      <3>2. DOMAIN sub = 1..Len(sub)
        BY <2>1
      <3> QED  BY <2>1, <2>2, <2>3, <3>1, <3>2
    <2> QED  BY <2>5, <2>6
  <1>5. ASSUME NEW f \in Fds, unsubscribe_handler(f)
        PROVE  Goal
    BY <1>1, <1>5 DEF unsubscribe_handler, ack_handler
  <1>6. ASSUME NEW f \in Fds, NEW pub, publish_handler(f, pub)
        PROVE  Goal
    <2>1. /\ DOMAIN topics \subseteq DOMAIN topics'
          /\ \A m \in DOMAIN topics : topics'[m] = topics[m]
          /\ heap' = heap
      BY <1>6, PublishEffect
    <2>2. \A m \in DOMAIN topics : Clients(topics, m) \subseteq Clients(topics', m)
      BY <2>1 DEF Clients
    <2>3. n \in owed[g]
      BY <1>6 DEF publish_handler
    <2> QED  BY <2>1, <2>2, <2>3, ServedKept
  <1>7. CASE publish_stats \/ HandlerCrash
    BY <1>1, <1>7 DEF publish_stats, HandlerCrash, vars
  <1> QED  BY <1>2, <1>3, <1>4, <1>5, <1>6, <1>7 DEF BrokerNext

\* What sending to n reads of a subscriber whose client is allocated is that client.
LEMMA ReadsLive ==
    ASSUME NEW tp, NEW n, NEW r \in Readings(tp, n), NEW i \in DOMAIN tp[n],
           heap[tp[n][i].client].live
    PROVE  i \in DOMAIN r /\ DOMAIN r = DOMAIN tp[n] /\ r[i] = heap[tp[n][i].client]
  <1>1. /\ r \in [DOMAIN tp[n] -> UNION {Deref(tp[n][j].client) : j \in DOMAIN tp[n]}]
        /\ \A j \in DOMAIN tp[n] : r[j] \in Deref(tp[n][j].client)
    BY DEF Readings
  <1>2. Deref(tp[n][i].client) = {heap[tp[n][i].client]}
    BY DEF Deref
  <1>3. r[i] = heap[tp[n][i].client]
    BY <1>1, <1>2
  <1> DEFINE U == UNION {Deref(tp[n][j].client) : j \in DOMAIN tp[n]}
  <1>4. r \in [DOMAIN tp[n] -> U]
    BY <1>1
  <1> HIDE DEF U
  <1>5. DOMAIN r = DOMAIN tp[n]
    BY <1>4
  <1> QED  BY <1>3, <1>5

\* A PUBLISH is sent to whoever is served.
LEMMA PublishServes ==
    ASSUME TInv, Served, NEW f \in Fds, NEW pub, publish_handler(f, pub),
           NEW g \in Fds, Open(g), ~sock[g].gone, slashed(pub.topic) \in owed[g]
    PROVE  [fd |-> g, topic |-> slashed(pub.topic)] \in out'
  <1> DEFINE n == slashed(pub.topic)
             tp == with_topic(topics, n)
  <1>1. PICK r \in Readings(tp, n) : out' = sends(r, n)
    BY DEF publish_handler
  <1>2. n \in DOMAIN topics /\ \E a \in Clients(topics, n) : heap[a].live /\ heap[a].fd = g
    BY DEF Served
  <1>3. tp[n] = topics[n]
    BY <1>2 DEF with_topic
  <1> HIDE DEF n, tp
  <1>4. PICK i \in DOMAIN tp[n] :
           heap[tp[n][i].client].live /\ heap[tp[n][i].client].fd = g
    BY <1>2, <1>3 DEF Clients, InList
  <1>5. i \in DOMAIN r /\ r[i] = heap[tp[n][i].client]
    BY <1>1, <1>4, ReadsLive
  <1>6. r[i].fd = g
    BY <1>4, <1>5
  <1>7. [fd |-> r[i].fd, topic |-> n] \in sends(r, n)
    BY <1>5, <1>6 DEF sends
  <1> QED  BY <1>1, <1>6, <1>7 DEF n

\* With well-behaved peers a PUBLISH reaches every connected peer that asked for its
\* topic, although lists hold entries of clients that are gone, whose memory may belong
\* to somebody else by now.
THEOREM PublishReachesSubscribers == WellBehaved => (BrokerSpec => SubscribersServed)
  <1> SUFFICES ASSUME WellBehaved PROVE BrokerSpec => SubscribersServed
    OBVIOUS
  <1> DEFINE Reaches ==
        \A f \in Fds : \A pub \in UNION {Pubs[p] : p \in Peers} :
          publish_handler(f, pub) =>
            \A g \in Fds : Open(g) /\ ~sock[g].gone /\ slashed(pub.topic) \in owed[g] =>
              [fd |-> g, topic |-> slashed(pub.topic)] \in out'
             SInv == TInv /\ WInv /\ Served
  <1>1. BrokerInit => SInv
    <2> SUFFICES ASSUME BrokerInit PROVE SInv
      OBVIOUS
    <2>1. TInv /\ WInv
      BY InitTInv, InitWInv DEF BrokerInit
    <2>2. Served
      BY DEF BrokerInit, Served
    <2> QED  BY <2>1, <2>2
  <1>2. SInv /\ [BrokerNext]_brokerVars => SInv'
    BY NextTInv, BrokerNextWInv, NextServed
  <1>3. SInv => Reaches
    BY PublishServes
  <1>4. SubscribersServed <=> [][Reaches]_brokerVars
    BY DEF SubscribersServed
  <1> HIDE DEF Reaches, SInv
  <1>5. SInv /\ [BrokerNext]_brokerVars => [Reaches]_brokerVars
    BY <1>3
  <1> QED  BY <1>1, <1>2, <1>4, <1>5, PTL DEF BrokerSpec

-----------------------------------------------------------------------------
(* Only subscribers are served.                                            *)

\* What the loop of subscribe_handler reaches, a filter of the packet covers.
LEMMA ReachedCovered ==
    ASSUME NEW sub \in Seq(Tuple), NEW m, Reached(sub, Len(sub), m),
           \A i \in DOMAIN sub : \A j \in 1..i : hashed(sub[j].topic) => hashed(sub[i].topic)
    PROVE  \E i \in DOMAIN sub : Covers(sub[i].topic, m)
  <1>1. DOMAIN sub = 1..Len(sub)
    OBVIOUS
  <1>2. PICK j \in 1..Len(sub) :
           \/ m = filter_name(sub[j].topic)
           \/ wildcard(sub, j) /\ Under(filter_name(sub[j].topic), m)
    BY DEF Reached
  <1>3. wildcard(sub, j) => hashed(sub[j].topic)
    BY <1>1, <1>2 DEF wildcard
  <1>4. Covers(sub[j].topic, m)
    BY <1>2, <1>3 DEF Covers
  <1> QED  BY <1>1, <1>4

\* Every step of peers that keep to the protocol and stay keeps it.
LEMMA NextCovered ==
    WellBehaved /\ Staying /\ HashesLast =>
        (TInv /\ WInv /\ Covered /\ [BrokerNext]_brokerVars => Covered')
  <1> SUFFICES ASSUME WellBehaved, Staying, HashesLast, TInv, WInv, Covered,
                      [BrokerNext]_brokerVars,
                      NEW n \in DOMAIN topics', NEW a \in Clients(topics', n)
               PROVE  /\ heap'[a].live /\ heap'[a].fd \in Fds
                      /\ \E t \in filters'[heap'[a].fd] : Covers(t, n)
    BY DEF Covered
  <1> DEFINE Goal == /\ heap'[a].live /\ heap'[a].fd \in Fds
                     /\ \E t \in filters'[heap'[a].fd] : Covers(t, n)
  <1>1. ASSUME n \in DOMAIN topics, a \in Clients(topics, n)
        PROVE  /\ heap[a].live /\ heap[a].fd \in Fds
               /\ \E t \in filters[heap[a].fd] : Covers(t, n)
               /\ Open(heap[a].fd)
    BY <1>1 DEF Covered, TInv, BrokerTypeOK
  <1>2. ASSUME UNCHANGED <<heap, topics, filters>> PROVE Goal
    BY <1>1, <1>2
  <1>3. CASE UNCHANGED brokerVars
    BY <1>2, <1>3 DEF brokerVars, vars, topicVars
  <1>4. ASSUME BrokerNext, Other PROVE Goal
    <2>1. Next
      BY <1>4, OtherNext
    <2>2. topics' = topics /\ Forget
      BY <1>4 DEF Other
    <2>3. /\ heap[a].live /\ heap[a].fd \in Fds
          /\ \E t \in filters[heap[a].fd] : Covers(t, n)
          /\ Open(heap[a].fd)
      BY <1>1, <2>2
    <2>4. a \in Addrs
      BY <2>2, ClientsAddrs DEF TInv
    <2>5. sock'[heap[a].fd].peer # NULL
      BY <2>1, <2>3, StaysOpen DEF Open
    <2>6. heap'[a] = heap[a]
      BY <2>1, <2>3, <2>4, <2>5, ClientsKept
    <2>7. filters'[heap[a].fd] = filters[heap[a].fd]
      BY <2>2, <2>3, <2>5 DEF Forget, Open
    <2> QED  BY <2>3, <2>6, <2>7
  <1>5. ASSUME NEW f \in Fds, NEW sub, subscribe_handler(f, sub)
        PROVE  Goal
    <2> DEFINE client == cb[sock[f].cb].obj
               new == {sub[i].topic : i \in DOMAIN sub}
    <2>1. /\ sock[f].ev # "none" /\ client \in Addrs /\ client # NULL
          /\ (\E p \in Peers : sub \in Subs[p]) /\ sub \in Seq(Tuple)
          /\ AfterRounds(topics', sub, client, Len(sub))
          /\ heap' = heap
      BY <1>5, SubscribeEffect
    <2>2. heap[client].live /\ heap[client].fd = f
      BY <2>1, ServedClient
    <2>3. \A g \in Fds : filters'[g] = IF g = f THEN filters[f] \cup new ELSE filters[g]
      <3>1. filters' = [filters EXCEPT ![f] = @ \cup new] /\ filters = [g \in Fds |-> filters[g]]
        BY <1>5 DEF subscribe_handler, Remember, TInv
      <3> HIDE DEF new
      <3> QED  BY <3>1
    <2> HIDE DEF client
    <2>4. a \in Clients(topics, n) \/ (a = client /\ Reached(sub, Len(sub), n))
      BY <2>1 DEF AfterRounds
    <2>5. CASE a \in Clients(topics, n)
      <3>1. n \in DOMAIN topics
        BY <2>5 DEF Clients
      <3> HIDE DEF new
      <3>2. \A g \in Fds : filters[g] \subseteq filters'[g]
        BY <2>3
      <3> QED  BY <1>1, <2>1, <2>5, <3>1, <3>2
    <2>6. CASE a = client /\ Reached(sub, Len(sub), n)
      <3>1. \A i \in DOMAIN sub : \A j \in 1..i :
               hashed(sub[j].topic) => hashed(sub[i].topic)
        BY <2>1 DEF HashesLast
      <3>2. PICK i \in DOMAIN sub : Covers(sub[i].topic, n)
        BY <2>1, <2>6, <3>1, ReachedCovered
      <3>3. sub[i].topic \in new
        BY <3>2
      <3> HIDE DEF new
      <3>4. sub[i].topic \in filters'[f]
        BY <2>3, <3>3
      <3>5. heap'[a].live /\ heap'[a].fd = f
        BY <2>1, <2>2, <2>6
      <3> QED  BY <3>2, <3>4, <3>5
    <2> QED  BY <2>4, <2>5, <2>6
  <1>6. ASSUME NEW f \in Fds, unsubscribe_handler(f)
        PROVE  Goal
    BY <1>2, <1>6 DEF unsubscribe_handler, ack_handler
  <1>7. ASSUME NEW f \in Fds, NEW pub, publish_handler(f, pub)
        PROVE  Goal
    <2>1. /\ \A m \in DOMAIN topics : topics'[m] = topics[m]
          /\ \A m \in DOMAIN topics' : m \notin DOMAIN topics => topics'[m] = << >>
          /\ heap' = heap
      BY <1>7, PublishEffect
    <2>2. filters' = filters
      BY <1>7 DEF publish_handler
    <2>3. a \in InList(topics'[n])
      BY DEF Clients
    <2>4. n \in DOMAIN topics
      <3>1. InList(<< >>) = {}
        BY DEF InList
      <3> QED  BY <2>1, <2>3, <3>1
    <2>5. a \in Clients(topics, n)
      BY <2>1, <2>3, <2>4 DEF Clients
    <2> QED  BY <1>1, <2>1, <2>2, <2>4, <2>5
  <1>8. CASE publish_stats \/ HandlerCrash
    BY <1>2, <1>8 DEF publish_stats, HandlerCrash, vars
  <1> QED  BY <1>3, <1>4, <1>5, <1>6, <1>7, <1>8 DEF BrokerNext

\* What is sent to the subscribers of n goes to peers whose filters cover it.
LEMMA SentCovered ==
    ASSUME NEW tp, NEW n, n \in DOMAIN tp, NEW r \in Readings(tp, n),
           \A a \in Clients(tp, n) : /\ heap[a].live
                                    /\ \E t \in filters[heap[a].fd] : Covers(t, n),
           NEW m \in sends(r, n)
    PROVE  \E t \in filters[m.fd] : Covers(t, m.topic)
  <1>1. PICK i \in DOMAIN r : m = [fd |-> r[i].fd, topic |-> n]
    BY DEF sends
  <1>2. DOMAIN r = DOMAIN tp[n]
    <2> DEFINE U == UNION {Deref(tp[n][j].client) : j \in DOMAIN tp[n]}
    <2>1. r \in [DOMAIN tp[n] -> U]
      BY DEF Readings
    <2> HIDE DEF U
    <2> QED  BY <2>1
  <1>3. tp[n][i].client \in Clients(tp, n)
    BY <1>1, <1>2 DEF Clients, InList
  <1>4. heap[tp[n][i].client].live
    BY <1>3
  <1>5. r[i] = heap[tp[n][i].client]
    BY <1>1, <1>2, <1>4, ReadsLive
  <1> QED  BY <1>1, <1>3, <1>5

\* With peers that keep to the protocol and stay, a PUBLISH and the statistics are sent
\* only to peers that subscribed, on the connection they have now, to a filter that
\* covers the topic.  (Where clients are freed, run BrokerStale has a counterexample.)
THEOREM PublishReachesOnlySubscribers ==
    WellBehaved /\ Staying /\ HashesLast => (BrokerSpec => []OnlySubscribers)
  <1> SUFFICES ASSUME WellBehaved, Staying, HashesLast PROVE BrokerSpec => []OnlySubscribers
    OBVIOUS
  <1> DEFINE OInv == TInv /\ WInv /\ Covered /\ OnlySubscribers
  <1>1. BrokerInit => OInv
    <2> SUFFICES ASSUME BrokerInit PROVE OInv
      OBVIOUS
    <2>1. TInv /\ WInv
      BY InitTInv, InitWInv DEF BrokerInit
    <2>2. Covered
      BY DEF BrokerInit, Covered, Clients, InList
    <2>3. OnlySubscribers
      BY DEF BrokerInit, OnlySubscribers
    <2> QED  BY <2>1, <2>2, <2>3
  <1>2. OInv /\ [BrokerNext]_brokerVars => OInv'
    <2> SUFFICES ASSUME OInv, [BrokerNext]_brokerVars PROVE OInv'
      OBVIOUS
    <2>1. TInv' /\ WInv' /\ Covered'
      BY NextTInv, BrokerNextWInv, NextCovered
    <2>2. OnlySubscribers'
      <3> SUFFICES ASSUME NEW m \in out'
                   PROVE  \E t \in filters'[m.fd] : Covers(t, m.topic)
        BY DEF OnlySubscribers
      <3>1. CASE UNCHANGED brokerVars
        BY <3>1 DEF brokerVars, topicVars, OnlySubscribers
      <3>2. ASSUME NEW f \in Fds, NEW pub, publish_handler(f, pub)
            PROVE  \E t \in filters'[m.fd] : Covers(t, m.topic)
        <4> DEFINE n == slashed(pub.topic)
                   tp == with_topic(topics, n)
        <4>1. /\ filters' = filters
              /\ \E r \in Readings(tp, n) : out' = sends(r, n)
          BY <3>2 DEF publish_handler
        <4>2. PICK r \in Readings(tp, n) : m \in sends(r, n)
          BY <4>1
        <4>3. /\ n \in DOMAIN tp
              /\ tp[n] = IF n \in DOMAIN topics THEN topics[n] ELSE << >>
          BY DEF with_topic
        <4> HIDE DEF n, tp
        <4>4. \A a \in Clients(tp, n) : n \in DOMAIN topics /\ a \in Clients(topics, n)
          BY <4>3 DEF Clients, InList
        <4>5. \A a \in Clients(tp, n) : /\ heap[a].live
                                       /\ \E t \in filters[heap[a].fd] : Covers(t, n)
          BY <4>4 DEF Covered
        <4>6. \E t \in filters[m.fd] : Covers(t, m.topic)
          BY <4>2, <4>3, <4>5, SentCovered
        <4> QED  BY <4>1, <4>6
      <3>3. ASSUME publish_stats
            PROVE  \E t \in filters'[m.fd] : Covers(t, m.topic)
        <4>1. PICK n \in StatTopics : \E r \in Readings(topics, n) : m \in sends(r, n)
          BY <3>3 DEF publish_stats
        <4>2. n \in DOMAIN topics
          BY SysAssumption DEF TInv, BrokerTypeOK
        <4>3. \A a \in Clients(topics, n) : /\ heap[a].live
                                           /\ \E t \in filters[heap[a].fd] : Covers(t, n)
          BY <4>2 DEF Covered
        <4>4. \E t \in filters[m.fd] : Covers(t, m.topic)
          BY <4>1, <4>2, <4>3, SentCovered
        <4> QED  BY <3>3, <4>4 DEF publish_stats
      <3>4. CASE \/ Other \/ HandlerCrash
                 \/ \E f \in Fds : unsubscribe_handler(f)
                 \/ \E f \in Fds : \E sub \in UNION {Subs[p] : p \in Peers} :
                       subscribe_handler(f, sub)
        BY <3>4 DEF Other, HandlerCrash, unsubscribe_handler, subscribe_handler
      <3> QED  BY <3>1, <3>2, <3>3, <3>4 DEF BrokerNext
    <2> QED  BY <2>1, <2>2
  <1>3. OInv => OnlySubscribers
    OBVIOUS
  <1> HIDE DEF OInv
  <1> QED  BY <1>1, <1>2, <1>3, PTL DEF BrokerSpec

=============================================================================
