----------------------------- MODULE HashTable ------------------------------
(***************************************************************************)
(* hashtable.c: open addressing with linear probing, at most MaxChain slots *)
(* from a key's home, deletion that leaves a hole, and a table that doubles *)
(* when it is half full or a chain is too long.  The broker keeps its       *)
(* clients and its closures in two of these.                                *)
(*                                                                          *)
(* crc32 and the mixing functions are a constant: the number that           *)
(* hashtable_hash_int reduces modulo the size of the table.                 *)
(*                                                                          *)
(* STREQ(a, b, n) compares n characters without regard to case, where n is  *)
(* the length of one of the two: it asks whether that one is a prefix.      *)
(***************************************************************************)
EXTENDS Integers, SequencesExt

CONSTANTS
    Keys, Vals, NULL,
    Hash,         \* Hash[k]: k's hash before it is reduced
    PrefixOf,     \* pairs <<a, b>> of different keys, a a prefix of b
    InitialSize,  \* INITIAL_SIZE
    MaxChain      \* MAX_CHAIN_LENGTH

ASSUME HashAssumption == Hash \in [Keys -> Nat]
ASSUME PrefixOfAssumption == PrefixOf \subseteq Keys \X Keys
ASSUME SizesAssumption == InitialSize \in Nat \ {0} /\ MaxChain \in Nat \ {0}
ASSUME ValsAssumption == NULL \notin Vals

VARIABLES
    table,     \* struct hashtable: table_size, size and entries
    pending,   \* the entries that calls of hashtable_put have still to put, in order
    live,      \* the values handed to the table and not yet destroyed
    released   \* hashtable_release was called

vars == <<table, pending, live, released>>

HASHTABLE_ERR == -1
HASHTABLE_FULL == -3

\* STREQ(a, b, strlen(a))
STREQ(a, b) == a = b \/ <<a, b>> \in PrefixOf

Free == [key |-> NULL, val |-> NULL, taken |-> FALSE]

calloc(n) == [table_size |-> n, size |-> 0, entries |-> [i \in 0..(n - 1) |-> Free]]

-----------------------------------------------------------------------------
\* The slot i steps from k's home.
probe(t, k, i) == (Hash[k] + i) % t.table_size

\* The nearest slot to k's home that satisfies Test, or none.
Nearest(t, k, none, Test(_)) ==
    LET at == {i \in 0..(MaxChain - 1) : Test(t.entries[probe(t, k, i)])}
    IN  IF at = {} THEN none ELSE probe(t, k, Min(at))

\* Mutant: the table does not notice that it is half full.
hashtable_hash_unbounded(t, k) ==
    Nearest(t, k, HASHTABLE_FULL, LAMBDA e : ~e.taken \/ STREQ(e.key, k))

\* The slot for k: the first hole or match.
hashtable_hash(t, k) ==
    IF t.size >= t.table_size \div 2 THEN HASHTABLE_FULL
    ELSE Nearest(t, k, HASHTABLE_FULL,
                 LAMBDA e : ~e.taken \/ STREQ(e.key, k))

\* Mutant: the search ends at the first hole, as in a table that never deletes.
find_to_hole(t, k) ==
    LET i == Nearest(t, k, HASHTABLE_ERR, LAMBDA e : ~e.taken \/ STREQ(k, e.key))
    IN  IF i # HASHTABLE_ERR /\ t.entries[i].taken THEN i ELSE HASHTABLE_ERR

\* The slot that hashtable_get and hashtable_del stop at.  Unlike
\* hashtable_hash they look past holes.
find(t, k) == Nearest(t, k, HASHTABLE_ERR, LAMBDA e : e.taken /\ STREQ(k, e.key))

hashtable_get(t, k) ==
    LET i == find(t, k) IN IF i = HASHTABLE_ERR THEN NULL ELSE t.entries[i].val

hashtable_exists(t, k) == hashtable_get(t, k) # NULL

Entry(k, v) == [key |-> k, val |-> v, taken |-> TRUE]

\* t with e in slot i.
store(t, i, e) ==
    [table_size |-> t.table_size,
     size |-> IF t.entries[i].taken THEN t.size ELSE t.size + 1,
     entries |-> [t.entries EXCEPT ![i] = e]]

\* The array of t, in the order in which hashtable_rehash goes through it.
Array(t) == [i \in 1..t.table_size |-> t.entries[i - 1]]

\* Mutant: del forgets the destructor.
destroyed_not(i) == {}

\* t without the entry in slot i (the pointers that stay behind in it are never
\* read: every reader looks at taken first); the values that the destructor
\* frees with it.
blank(t, i) ==
    [table_size |-> t.table_size, size |-> t.size - 1,
     entries |-> [t.entries EXCEPT ![i] = Free]]
destroyed(i) == {table.entries[i].val}

-----------------------------------------------------------------------------
Init ==
    /\ table = calloc(InitialSize)
    /\ pending = << >>
    /\ live = {}
    /\ released = FALSE

\* No call of hashtable_put is under way.
Idle == pending = << >> /\ ~released

\* connect_handler adds a client that hashtable_exists does not know; on_accept
\* adds a closure under an identifier of its own.  The call begins; it is over when
\* nothing is pending, and until then the program does nothing else.
put(k, v) ==
    /\ Idle
    /\ v \notin live
    /\ ~hashtable_exists(table, k)
    /\ pending' = <<Entry(k, v)>>
    /\ live' = live \cup {v}
    /\ UNCHANGED <<table, released>>

\* hashtable_put has a slot for the entry, and returns.
hashtable_put ==
    LET e == Head(pending)
        i == hashtable_hash(table, e.key)
    IN  /\ pending # << >> /\ e.taken /\ i # HASHTABLE_FULL
        /\ table' = store(table, i, e)
        /\ pending' = Tail(pending)
        /\ UNCHANGED <<live, released>>

\* There is none: the table doubles, and the old array is put entry by entry before
\* this entry is tried again.  Each of these puts may rehash in turn, and then
\* what its caller has left to do waits behind: pending is the stack of the calls.
hashtable_rehash ==
    /\ pending # << >> /\ Head(pending).taken
    /\ hashtable_hash(table, Head(pending).key) = HASHTABLE_FULL
    /\ table' = calloc(2 * table.table_size)
    /\ pending' = Array(table) \o pending
    /\ UNCHANGED <<live, released>>

\* The loop of hashtable_rehash skips a slot that is not taken.
skip ==
    /\ pending # << >> /\ ~Head(pending).taken
    /\ pending' = Tail(pending)
    /\ UNCHANGED <<table, live, released>>

del(k) ==
    LET i == find(table, k) IN
    /\ Idle
    /\ i # HASHTABLE_ERR
    /\ table' = blank(table, i)
    /\ live' = live \ destroyed(i)
    /\ UNCHANGED <<pending, released>>

\* hashtable_map over the destructor, which returns at once when size is 0,
\* and the array is freed.
hashtable_release ==
    /\ Idle
    /\ live' = IF table.size = 0 THEN live
               ELSE live \ UNION {destroyed(i) : i \in
                       {j \in DOMAIN table.entries : table.entries[j].taken}}
    /\ table' = calloc(0)
    /\ released' = TRUE
    /\ UNCHANGED pending

Next ==
    \/ \E k \in Keys, v \in Vals : put(k, v)
    \/ hashtable_put
    \/ hashtable_rehash
    \/ skip
    \/ \E k \in Keys : del(k)
    \/ hashtable_release

Spec == Init /\ [][Next]_vars

-----------------------------------------------------------------------------
\* The slots that are taken, and the places of what is to be put.
Taken == {i \in DOMAIN table.entries : table.entries[i].taken}
Waiting == {i \in DOMAIN pending : pending[i].taken}

\* What a caller can observe of the table once the calls under way have ended.
Contents ==
    [k \in Keys |->
        IF released THEN NULL
        ELSE IF \E i \in Waiting : pending[i].key = k
             THEN pending[CHOOSE i \in Waiting : pending[i].key = k].val
             ELSE hashtable_get(table, k)]

\* del removes one key, hashtable_release all of them.
Map == INSTANCE KeyValue WITH map <- Contents,
                              Groups <- {{k} : k \in Keys} \cup {Keys}

\* Each call does to the map what it is named for, and the steps of a put do nothing.
CallsAsNamed ==
    /\ \A k \in Keys : /\ del(k) => Map!remove({k})
                       /\ \A v \in Vals : put(k, v) => Map!put(k, v)
    /\ hashtable_put \/ hashtable_rehash \/ skip => UNCHANGED Contents

\* The table is a map: whatever holes deletion leaves in the chains, and
\* whenever the table is rehashed, hashtable_get finds exactly what was put
\* under a key and not deleted since.  Each call does to the map what it is
\* named for, to the key it is given; and the steps of a put, nested rehashes
\* included, lose and change nothing.
RefinesMap == Map!Spec /\ [][CallsAsNamed]_vars

\* Every value handed to the table is in one slot, or waits once to be put in
\* one, until it is destroyed: none leaks and none is destroyed twice; and
\* release leaves none behind.
OwnsValues ==
    /\ live = {table.entries[i].val : i \in Taken} \cup {pending[i].val : i \in Waiting}
    /\ \A i, j \in Taken : table.entries[i].val = table.entries[j].val => i = j
    /\ \A i, j \in Waiting : pending[i].val = pending[j].val => i = j
    /\ \A i \in Taken, j \in Waiting : table.entries[i].val # pending[j].val

\* size is the number of slots taken, through nested rehashes too, and never
\* more than half the slots: hashtable_map, which trusts it, skips nothing.
Counted ==
    /\ table.size = Cardinality(Taken)
    /\ 2 * table.size <= table.table_size
=============================================================================
