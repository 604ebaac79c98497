--------------------------- MODULE HashTableProofs --------------------------
(***************************************************************************)
(* The hash table counts and owns its entries and is a map, for any keys,   *)
(* hashes, chain length and initial size.                                   *)
(*                                                                          *)
(* Held is what the table and the calls under way hold together: a step of  *)
(* a put moves entries between the two and leaves Held as it is.  An entry  *)
(* is within reach of its key's home (Reachable), and no two that are held  *)
(* have a key or a value in common (Apart), which is what makes the first   *)
(* match of a probe the right one.                                          *)
(***************************************************************************)
EXTENDS HashTable, Induction, SequenceTheorems, FiniteSetTheorems

\* STREQ tells different keys apart: none is a prefix of another.
Exact == PrefixOf = {}

Filled == [key : Keys, val : Vals, taken : {TRUE}]
Slot == Filled \cup {Free}

Tables == UNION {[table_size : {n}, size : Nat, entries : [0..(n - 1) -> Slot]] : n \in Nat}

TypeOK ==
    /\ table \in Tables
    /\ pending \in Seq(Slot)
    /\ live \subseteq Vals
    /\ released \in BOOLEAN
    /\ ~released => table.table_size > 0
    /\ released => pending = << >> /\ Taken = {}

CInv == TypeOK /\ Counted

Held == {table.entries[i] : i \in Taken} \cup {pending[i] : i \in Waiting}

Reachable ==
    \A i \in Taken : \E j \in 0..(MaxChain - 1) : i = probe(table, table.entries[i].key, j)

\* Two entries that are held are in different places and have different keys
\* and values.
Differ(d, e) == d.key # e.key /\ d.val # e.val

Apart ==
    /\ \A i, j \in Taken : i # j => Differ(table.entries[i], table.entries[j])
    /\ \A i, j \in Waiting : i # j => Differ(pending[i], pending[j])
    /\ \A i \in Taken, j \in Waiting : Differ(table.entries[i], pending[j])

MInv == CInv /\ Reachable /\ Apart /\ live = {e.val : e \in Held}

-----------------------------------------------------------------------------
(* What the helpers return.                                                *)

\* The parts of a table.
LEMMA TableFacts ==
    ASSUME NEW t \in Tables
    PROVE  /\ t.table_size \in Nat /\ t.size \in Nat
           /\ t.entries \in [0..(t.table_size - 1) -> Slot]
  BY DEF Tables

\* A record of such parts is a table.
LEMMA TableIs ==
    ASSUME NEW n \in Nat, NEW s \in Nat, NEW f \in [0..(n - 1) -> Slot]
    PROVE  [table_size |-> n, size |-> s, entries |-> f] \in Tables
  BY DEF Tables

\* A slot holds an entry or is free.
LEMMA SlotFacts ==
    ASSUME NEW e \in Slot
    PROVE  /\ e.taken \in BOOLEAN
           /\ e.taken => e \in Filled /\ e.key \in Keys /\ e.val \in Vals
           /\ e \in Filled => e.taken
           /\ ~e.taken => e = Free
  <1>1. CASE e \in Filled
    <2>1. e.taken = TRUE /\ e.key \in Keys /\ e.val \in Vals
      BY <1>1 DEF Filled
    <2> QED  BY <1>1, <2>1
  <1>2. CASE e = Free
    <2>1. Free.taken = FALSE
      BY DEF Free
    <2>2. Free \notin Filled
      BY <2>1 DEF Filled
    <2> QED  BY <1>2, <2>1, <2>2
  <1> QED  BY <1>1, <1>2 DEF Slot

\* An array that calloc returns is a table with no entries.
LEMMA CallocFacts ==
    ASSUME NEW n \in Nat
    PROVE  /\ calloc(n) \in Tables
           /\ calloc(n).table_size = n /\ calloc(n).size = 0
           /\ calloc(n).entries = [i \in 0..(n - 1) |-> Free]
           /\ \A i \in DOMAIN calloc(n).entries : ~calloc(n).entries[i].taken
  <1>1. [i \in 0..(n - 1) |-> Free] \in [0..(n - 1) -> Slot]
    BY DEF Slot
  <1>2. calloc(n) \in Tables
    BY <1>1, TableIs DEF calloc
  <1> QED  BY <1>2 DEF calloc, Free

\* Probing stays in the table.
LEMMA ProbeFacts ==
    ASSUME NEW t \in Tables, t.table_size > 0, NEW k \in Keys, NEW i \in Nat
    PROVE  probe(t, k, i) \in 0..(t.table_size - 1)
  <1>1. t.table_size \in Nat \ {0} /\ Hash[k] + i \in Nat
    BY TableFacts, HashAssumption
  <1> QED  BY <1>1 DEF probe

\* A set of numbers that is not empty has Min as a member.
LEMMA MinFacts ==
    ASSUME NEW S, S \subseteq Nat, S # {}
    PROVE  Min(S) \in S /\ \A y \in S : Min(S) <= y
  <1>1. PICK x \in S : \A y \in S : ~(y < x)
    BY NatMin
  <1>2. \A y \in S : x <= y
    BY <1>1
  <1> QED  BY <1>2 DEF Min

\* The slot that hashtable_hash chooses is within reach and free, or matches.
LEMMA HashFacts ==
    ASSUME NEW t \in Tables, t.table_size > 0, NEW k \in Keys,
           hashtable_hash(t, k) # HASHTABLE_FULL
    PROVE  LET i == hashtable_hash(t, k) IN
           /\ t.size < t.table_size \div 2
           /\ i \in 0..(t.table_size - 1)
           /\ ~t.entries[i].taken \/ STREQ(t.entries[i].key, k)
           /\ \E j \in 0..(MaxChain - 1) : i = probe(t, k, j)
  <1> DEFINE at == {j \in 0..(MaxChain - 1) :
                      \/ ~t.entries[probe(t, k, j)].taken
                      \/ STREQ(t.entries[probe(t, k, j)].key, k)}
  <1>1. ~(t.size >= t.table_size \div 2) /\ at # {} /\ hashtable_hash(t, k) = probe(t, k, Min(at))
    BY DEF hashtable_hash, Nearest
  <1>2. at \subseteq Nat
    BY SizesAssumption
  <1>3. Min(at) \in at
    BY <1>1, <1>2, MinFacts
  <1>4. probe(t, k, Min(at)) \in 0..(t.table_size - 1)
    BY <1>2, <1>3, ProbeFacts
  <1>5. t.size < t.table_size \div 2
    BY <1>1, TableFacts
  <1> QED  BY <1>1, <1>3, <1>4, <1>5

\* hashtable_get and hashtable_del stop at a slot with a matching entry, and miss
\* none that is within reach.
LEMMA FindFacts ==
    ASSUME NEW t \in Tables, t.table_size > 0, NEW k \in Keys
    PROVE  LET i == find(t, k) IN
           \/ /\ i = HASHTABLE_ERR
              /\ \A j \in 0..(MaxChain - 1) :
                    ~(t.entries[probe(t, k, j)].taken /\ STREQ(k, t.entries[probe(t, k, j)].key))
           \/ /\ i # HASHTABLE_ERR
              /\ i \in 0..(t.table_size - 1)
              /\ t.entries[i].taken /\ STREQ(k, t.entries[i].key)
  <1> DEFINE at == {j \in 0..(MaxChain - 1) :
                      /\ t.entries[probe(t, k, j)].taken
                      /\ STREQ(k, t.entries[probe(t, k, j)].key)}
  <1>1. find(t, k) = IF at = {} THEN HASHTABLE_ERR ELSE probe(t, k, Min(at))
    BY DEF find, Nearest
  <1>2. at \subseteq Nat
    BY SizesAssumption
  <1>3. CASE at = {}
    BY <1>1, <1>3
  <1>4. CASE at # {}
    <2>1. Min(at) \in at
      BY <1>2, <1>4, MinFacts
    <2>2. probe(t, k, Min(at)) \in 0..(t.table_size - 1)
      BY <1>2, <2>1, ProbeFacts
    <2>3. probe(t, k, Min(at)) # HASHTABLE_ERR
      BY <2>2, TableFacts DEF HASHTABLE_ERR
    <2> QED  BY <1>1, <1>4, <2>1, <2>2, <2>3
  <1> QED  BY <1>3, <1>4

-----------------------------------------------------------------------------
(* What the steps do to the table.                                          *)

\* The slots that are taken are finitely many slots of the table.
LEMMA TakenFacts ==
    ASSUME table \in Tables
    PROVE  /\ Taken \subseteq 0..(table.table_size - 1)
           /\ IsFiniteSet(Taken) /\ Cardinality(Taken) \in Nat
           /\ \A i \in Taken : table.entries[i] \in Filled
           /\ \A i \in 0..(table.table_size - 1) : table.entries[i].taken <=> i \in Taken
  <1>1. DOMAIN table.entries = 0..(table.table_size - 1)
    BY TableFacts
  <1>2. Taken \subseteq 0..(table.table_size - 1)
    BY <1>1 DEF Taken
  <1>3. IsFiniteSet(0..(table.table_size - 1))
    BY TableFacts, FS_Interval
  <1>4. IsFiniteSet(Taken)
    BY <1>2, <1>3, FS_Subset
  <1>5. ASSUME NEW i \in Taken PROVE table.entries[i] \in Filled
    BY <1>2, TableFacts, SlotFacts DEF Taken
  <1> QED  BY <1>1, <1>2, <1>4, <1>5, FS_CardinalityType DEF Taken

\* What is pending, while a call is under way.
LEMMA HeadFacts ==
    ASSUME TypeOK, pending # << >>
    PROVE  /\ Head(pending) \in Slot /\ Head(pending) = pending[1]
           /\ Tail(pending) \in Seq(Slot) /\ Len(pending) \in Nat \ {0}
           /\ DOMAIN pending = 1..Len(pending)
           /\ Len(Tail(pending)) = Len(pending) - 1
           /\ \A i \in 1..(Len(pending) - 1) : Tail(pending)[i] = pending[i + 1]
           /\ released = FALSE /\ table.table_size > 0
  <1>1. pending \in Seq(Slot) /\ released \in BOOLEAN /\ (released => pending = << >>)
        /\ (~released => table.table_size > 0)
    BY DEF TypeOK
  <1>2. released = FALSE
    BY <1>1
  <1> QED  BY <1>1, <1>2, HeadTailProperties

\* hashtable_put fills one slot, which was free unless the keys match.
LEMMA PutStep ==
    ASSUME TypeOK, hashtable_put
    PROVE  LET e == Head(pending)
               i == hashtable_hash(table, e.key)
           IN  /\ e \in Filled
               /\ i \in 0..(table.table_size - 1)
               /\ table.size < table.table_size \div 2
               /\ i \notin Taken \/ STREQ(table.entries[i].key, e.key)
               /\ \E j \in 0..(MaxChain - 1) : i = probe(table, e.key, j)
               /\ table' \in Tables
               /\ table'.table_size = table.table_size
               /\ table'.entries = [table.entries EXCEPT ![i] = e]
               /\ Taken' = Taken \cup {i}
               /\ table'.size = IF i \in Taken THEN table.size ELSE table.size + 1
  <1> DEFINE e == Head(pending)
             i == hashtable_hash(table, e.key)
             n == table.table_size
             f == [table.entries EXCEPT ![i] = e]
             s == IF table.entries[i].taken THEN table.size ELSE table.size + 1
  <1>1. table \in Tables /\ n > 0 /\ e \in Slot
    BY HeadFacts DEF TypeOK, hashtable_put
  <1>2. e.taken /\ i # HASHTABLE_FULL /\ table' = store(table, i, e)
    BY DEF hashtable_put
  <1>3. e \in Filled /\ e.key \in Keys
    BY <1>1, <1>2, SlotFacts
  <1> HIDE DEF e
  <1>4. /\ i \in 0..(n - 1) /\ table.size < n \div 2
        /\ ~table.entries[i].taken \/ STREQ(table.entries[i].key, e.key)
        /\ \E j \in 0..(MaxChain - 1) : i = probe(table, e.key, j)
    BY <1>1, <1>2, <1>3, HashFacts
  <1> HIDE DEF i
  <1>5. n \in Nat /\ table.size \in Nat /\ table.entries \in [0..(n - 1) -> Slot]
    BY <1>1, TableFacts
  <1>6. f \in [0..(n - 1) -> Slot] /\ s \in Nat
    <2>1. e \in Slot
      BY <1>3 DEF Slot
    <2>2. f \in [0..(n - 1) -> Slot]
      BY <1>5, <2>1
    <2>3. table.size + 1 \in Nat
      BY <1>5
    <2> QED  BY <1>5, <2>2, <2>3
  <1>7. table' = [table_size |-> n, size |-> s, entries |-> f]
    BY <1>2 DEF store
  <1>8. table' \in Tables
    BY <1>5, <1>6, <1>7, TableIs
  <1>9. table'.table_size = n /\ table'.size = s /\ table'.entries = f
    BY <1>7
  <1>10. Taken' = Taken \cup {i}
    BY <1>2, <1>4, <1>5, <1>9 DEF Taken
  <1>11. table.entries[i].taken <=> i \in Taken
    BY <1>1, <1>4, TakenFacts
  <1> QED  BY <1>3, <1>4, <1>8, <1>9, <1>10, <1>11 DEF e, i

\* A rehash leaves an empty table of twice the size.
LEMMA RehashStep ==
    ASSUME TypeOK, hashtable_rehash
    PROVE  /\ table' \in Tables /\ table'.table_size = 2 * table.table_size
           /\ table'.size = 0 /\ Taken' = {}
           /\ Array(table) \in Seq(Slot) /\ Len(Array(table)) = table.table_size
           /\ \A i \in 1..table.table_size : Array(table)[i] = table.entries[i - 1]
           /\ pending' \in Seq(Slot)
  <1>1. table \in Tables /\ pending \in Seq(Slot)
    BY DEF TypeOK
  <1>2. table' = calloc(2 * table.table_size) /\ pending' = Array(table) \o pending
    BY DEF hashtable_rehash
  <1>3. table.table_size \in Nat /\ 2 * table.table_size \in Nat
        /\ table.entries \in [0..(table.table_size - 1) -> Slot]
    BY <1>1, TableFacts
  <1>4. \A i \in 1..table.table_size : table.entries[i - 1] \in Slot
    BY <1>3
  <1>5. Array(table) \in [1..table.table_size -> Slot]
    BY <1>4 DEF Array
  <1>6. Array(table) \in Seq(Slot) /\ Len(Array(table)) = table.table_size
    BY <1>3, <1>5, IsASeq, LenProperties
  <1>7. Taken' = {}
    BY <1>2, <1>3, CallocFacts DEF Taken
  <1> QED  BY <1>1, <1>2, <1>3, <1>6, <1>7, CallocFacts, ConcatProperties DEF Array

\* hashtable_del empties the slot of a matching entry.
LEMMA DelStep ==
    ASSUME TypeOK, NEW k \in Keys, del(k)
    PROVE  LET i == find(table, k)
           IN  /\ i \in Taken /\ STREQ(k, table.entries[i].key)
               /\ table' \in Tables \/ table.size = 0
               /\ table'.table_size = table.table_size
               /\ table'.entries = [table.entries EXCEPT ![i] = Free]
               /\ Taken' = Taken \ {i}
               /\ table'.size = table.size - 1
  <1> DEFINE i == find(table, k)
             n == table.table_size
             f == [table.entries EXCEPT ![i] = Free]
  <1>1. table \in Tables /\ n > 0
    BY DEF TypeOK, del, Idle
  <1>2. i # HASHTABLE_ERR /\ table' = blank(table, i)
    BY DEF del
  <1>3. i \in 0..(n - 1) /\ table.entries[i].taken /\ STREQ(k, table.entries[i].key)
    BY <1>1, <1>2, FindFacts
  <1> HIDE DEF i
  <1>4. n \in Nat /\ table.size \in Nat /\ table.entries \in [0..(n - 1) -> Slot]
    BY <1>1, TableFacts
  <1>5. f \in [0..(n - 1) -> Slot]
    BY <1>4 DEF Slot
  <1>6. table' = [table_size |-> n, size |-> table.size - 1, entries |-> f]
    BY <1>2 DEF blank
  <1>7. table.size # 0 => table' \in Tables
    <2>1. table.size # 0 => table.size - 1 \in Nat
      BY <1>4
    <2> QED  BY <1>4, <1>5, <1>6, <2>1, TableIs
  <1>8. table'.table_size = n /\ table'.size = table.size - 1 /\ table'.entries = f
    BY <1>6
  <1>9. Free.taken = FALSE
    BY DEF Free
  <1>10. Taken' = Taken \ {i}
    BY <1>3, <1>4, <1>8, <1>9 DEF Taken
  <1>11. i \in Taken
    BY <1>1, <1>3, TakenFacts
  <1> QED  BY <1>3, <1>7, <1>8, <1>10, <1>11 DEF i

-----------------------------------------------------------------------------
(* size counts the slots taken.                                             *)

\* The table is empty at first.
LEMMA InitCInv == Init => CInv
  <1> SUFFICES ASSUME Init PROVE CInv
    OBVIOUS
  <1>1. InitialSize \in Nat /\ InitialSize > 0
    BY SizesAssumption
  <1>2. table = calloc(InitialSize)
    BY DEF Init
  <1>3. table \in Tables /\ table.table_size = InitialSize /\ table.size = 0
    BY <1>1, <1>2, CallocFacts
  <1>4. Taken = {}
    BY <1>1, <1>2, CallocFacts DEF Taken
  <1>5. TypeOK
    <2>1. pending \in Seq(Slot) /\ live \subseteq Vals
      BY EmptySeq DEF Init
    <2>2. released = FALSE
      BY DEF Init
    <2> QED  BY <1>1, <1>3, <2>1, <2>2 DEF TypeOK
  <1>6. Counted
    BY <1>1, <1>3, <1>4, FS_EmptySet DEF Counted
  <1> QED  BY <1>5, <1>6 DEF CInv

\* A slot is counted when it is filled.
LEMMA PutCInv ==
    ASSUME CInv, hashtable_put
    PROVE  CInv'
  <1> DEFINE i == hashtable_hash(table, Head(pending).key)
  <1>1. TypeOK /\ Counted /\ table \in Tables
    BY DEF CInv, TypeOK
  <1>2. pending # << >> /\ pending' = Tail(pending) /\ live' = live /\ released' = released
    BY DEF hashtable_put
  <1>3. /\ table' \in Tables /\ table'.table_size = table.table_size
        /\ table.size < table.table_size \div 2
        /\ Taken' = Taken \cup {i}
        /\ table'.size = IF i \in Taken THEN table.size ELSE table.size + 1
    BY <1>1, PutStep
  <1> HIDE DEF i
  <1>4. Tail(pending) \in Seq(Slot) /\ released = FALSE /\ table.table_size > 0
    BY <1>1, <1>2, HeadFacts
  <1>5. TypeOK'
    BY <1>1, <1>2, <1>3, <1>4 DEF TypeOK
  <1>6. table.table_size \in Nat /\ table.size \in Nat
    BY <1>1, TableFacts
  <1>7. IsFiniteSet(Taken) /\ Cardinality(Taken) = table.size
    BY <1>1, TakenFacts DEF Counted
  <1>8. Cardinality(Taken \cup {i}) = IF i \in Taken THEN table.size ELSE table.size + 1
    BY <1>7, FS_AddElement
  <1>9. 2 * table'.size <= table.table_size
    BY <1>3, <1>6
  <1> QED  BY <1>3, <1>5, <1>8, <1>9 DEF CInv, Counted

\* A rehash starts to count afresh.
LEMMA RehashCInv ==
    ASSUME CInv, hashtable_rehash
    PROVE  CInv'
  <1>1. TypeOK /\ table \in Tables
    BY DEF CInv, TypeOK
  <1>2. pending # << >> /\ live' = live /\ released' = released
    BY DEF hashtable_rehash
  <1>3. released = FALSE /\ table.table_size > 0 /\ table.table_size \in Nat
    BY <1>1, <1>2, HeadFacts, TableFacts
  <1>4. table' \in Tables /\ table'.table_size = 2 * table.table_size
        /\ table'.size = 0 /\ Taken' = {} /\ pending' \in Seq(Slot)
    BY <1>1, RehashStep
  <1>5. TypeOK'
    BY <1>1, <1>2, <1>3, <1>4 DEF TypeOK
  <1> QED  BY <1>3, <1>4, <1>5, FS_EmptySet DEF CInv, Counted

\* del takes away one that was counted, so size does not go below 0.
LEMMA DelCInv ==
    ASSUME CInv, NEW k \in Keys, del(k)
    PROVE  CInv'
  <1> DEFINE i == find(table, k)
  <1>1. TypeOK /\ Counted /\ table \in Tables
    BY DEF CInv, TypeOK
  <1>2. pending' = pending /\ live' \subseteq live /\ released' = released /\ released = FALSE
    BY <1>1 DEF del, Idle, TypeOK
  <1>3. /\ i \in Taken
        /\ table' \in Tables \/ table.size = 0
        /\ table'.table_size = table.table_size
        /\ Taken' = Taken \ {i}
        /\ table'.size = table.size - 1
    BY <1>1, DelStep
  <1> HIDE DEF i
  <1>4. IsFiniteSet(Taken) /\ Cardinality(Taken) = table.size
    BY <1>1, TakenFacts DEF Counted
  <1>5. Cardinality(Taken \ {i}) = table.size - 1 /\ table.size # 0
    BY <1>3, <1>4, FS_RemoveElement, FS_EmptySet
  <1>6. TypeOK'
    BY <1>1, <1>2, <1>3, <1>5 DEF TypeOK
  <1>7. 2 * (table.size - 1) <= table.table_size
    BY <1>1, TableFacts DEF Counted
  <1> QED  BY <1>3, <1>5, <1>6, <1>7 DEF CInv, Counted

\* Every step counts right.
LEMMA NextCInv ==
    ASSUME CInv, [Next]_vars
    PROVE  CInv'
  <1> USE DEF CInv
  <1>1. CASE UNCHANGED vars
    BY <1>1 DEF vars, TypeOK, Counted, Taken
  <1>2. ASSUME NEW k \in Keys, NEW v \in Vals, put(k, v)
        PROVE  CInv'
    <2>1. table' = table /\ released' = released /\ released = FALSE /\ Taken' = Taken
      BY <1>2 DEF put, Idle, TypeOK, Taken
    <2>2. Entry(k, v) \in Slot
      BY DEF Entry, Slot, Filled
    <2>3. pending' \in Seq(Slot) /\ live' \subseteq Vals
      BY <1>2, <2>2 DEF put, TypeOK
    <2> QED  BY <2>1, <2>3 DEF TypeOK, Counted
  <1>3. CASE hashtable_put
    BY <1>3, PutCInv
  <1>4. CASE hashtable_rehash
    BY <1>4, RehashCInv
  <1>5. CASE skip
    <2>1. table' = table /\ released' = released /\ live' = live /\ Taken' = Taken
      BY <1>5 DEF skip, Taken
    <2>2. pending' \in Seq(Slot) /\ released = FALSE
      BY <1>5, HeadFacts DEF skip
    <2> QED  BY <2>1, <2>2 DEF TypeOK, Counted
  <1>6. ASSUME NEW k \in Keys, del(k)
        PROVE  CInv'
    BY <1>6, DelCInv
  <1>7. CASE hashtable_release
    <2>1. table' = calloc(0) /\ released' = TRUE /\ pending' = << >> /\ live' \subseteq live
      BY <1>7 DEF hashtable_release, Idle
    <2>2. table' \in Tables /\ table'.table_size = 0 /\ table'.size = 0
      BY <2>1, CallocFacts
    <2>3. Taken' = {}
      BY <2>1, CallocFacts DEF Taken
    <2>4. TypeOK'
      BY <2>1, <2>2, <2>3 DEF TypeOK
    <2> QED  BY <2>2, <2>3, <2>4, FS_EmptySet DEF Counted
  <1> QED  BY <1>1, <1>2, <1>3, <1>4, <1>5, <1>6, <1>7 DEF Next

\* For any keys, hashes (equal ones too), comparison and sizes, size is the number
\* of slots taken and at most half of the table, at each step of a put with its
\* nested rehashes (hashtable.c, hashtable_put, hashtable_rehash, hashtable_del).
THEOREM TableCounted == Spec => []Counted
  <1>1. CInv => Counted
    BY DEF CInv
  <1> QED  BY <1>1, InitCInv, NextCInv, PTL DEF Spec

-----------------------------------------------------------------------------
(* The table owns its values, and what is held is a map.                    *)

\* The indices of what waits.
LEMMA WaitingFacts ==
    ASSUME TypeOK
    PROVE  /\ Len(pending) \in Nat /\ DOMAIN pending = 1..Len(pending)
           /\ Waiting \subseteq 1..Len(pending)
           /\ \A i \in Waiting : pending[i] \in Filled
           /\ \A i \in 1..Len(pending) : pending[i] \in Slot /\ (pending[i].taken <=> i \in Waiting)
  <1>1. pending \in Seq(Slot)
    BY DEF TypeOK
  <1>2. Len(pending) \in Nat /\ DOMAIN pending = 1..Len(pending)
        /\ \A i \in 1..Len(pending) : pending[i] \in Slot
    BY <1>1, LenProperties, ElementOfSeq
  <1>3. Waiting \subseteq 1..Len(pending)
    BY <1>2 DEF Waiting
  <1>4. \A i \in Waiting : pending[i] \in Filled
    BY <1>2, <1>3, SlotFacts DEF Waiting
  <1> QED  BY <1>2, <1>3, <1>4 DEF Waiting

\* Held entries are entries.
LEMMA HeldFacts ==
    ASSUME TypeOK
    PROVE  Held \subseteq Filled
  <1>1. table \in Tables
    BY DEF TypeOK
  <1> QED  BY <1>1, TakenFacts, WaitingFacts DEF Held

\* Two that are held and share a key or a value are the same.
LEMMA HeldOnce ==
    ASSUME Apart, NEW d \in Held, NEW e \in Held, d.key = e.key \/ d.val = e.val
    PROVE  d = e
  BY DEF Apart, Differ, Held

\* A key that hashtable_exists does not know is not in the table.
LEMMA NotThere ==
    ASSUME Exact, MInv, NEW k \in Keys, ~released, ~hashtable_exists(table, k)
    PROVE  \A i \in Taken : table.entries[i].key # k
  <1>1. table \in Tables /\ table.table_size > 0
    BY DEF MInv, CInv, TypeOK
  <1> SUFFICES ASSUME NEW i \in Taken, table.entries[i].key = k PROVE FALSE
    OBVIOUS
  <1>2. PICK j \in 0..(MaxChain - 1) : i = probe(table, k, j)
    BY DEF MInv, Reachable
  <1>3. table.entries[i].taken /\ STREQ(k, table.entries[i].key)
    BY DEF Taken, STREQ
  <1>4. find(table, k) # HASHTABLE_ERR /\ find(table, k) \in 0..(table.table_size - 1)
        /\ table.entries[find(table, k)].taken
    BY <1>1, <1>2, <1>3, FindFacts
  <1>5. table.entries[find(table, k)].val \in Vals
    BY <1>1, <1>4, TableFacts, SlotFacts
  <1> QED  BY <1>4, <1>5, ValsAssumption DEF hashtable_exists, hashtable_get

\* Dropping the first of what is pending.
LEMMA TailStep ==
    ASSUME TypeOK, pending # << >>, pending' = Tail(pending)
    PROVE  /\ \A i \in Waiting' : i + 1 \in Waiting /\ pending'[i] = pending[i + 1]
           /\ \A i \in Waiting : i = 1 \/ (i - 1 \in Waiting' /\ pending'[i - 1] = pending[i])
  <1>1. Tail(pending) \in Seq(Slot) /\ Len(pending) \in Nat \ {0}
        /\ DOMAIN pending = 1..Len(pending)
        /\ Len(Tail(pending)) = Len(pending) - 1
        /\ \A i \in 1..(Len(pending) - 1) : Tail(pending)[i] = pending[i + 1]
    BY HeadFacts
  <1>2. DOMAIN pending' = 1..(Len(pending) - 1)
    BY <1>1, LenProperties
  <1>3. ASSUME NEW i \in Waiting' PROVE i + 1 \in Waiting /\ pending'[i] = pending[i + 1]
    <2>1. i \in 1..(Len(pending) - 1) /\ pending'[i].taken
      BY <1>2 DEF Waiting
    <2>2. pending'[i] = pending[i + 1] /\ i + 1 \in 1..Len(pending)
      BY <1>1, <2>1
    <2> QED  BY <1>1, <2>1, <2>2 DEF Waiting
  <1>4. ASSUME NEW i \in Waiting, i # 1
        PROVE  i - 1 \in Waiting' /\ pending'[i - 1] = pending[i]
    <2>1. i \in 1..Len(pending) /\ pending[i].taken
      BY <1>1 DEF Waiting
    <2>2. i - 1 \in 1..(Len(pending) - 1) /\ (i - 1) + 1 = i
      BY <1>1, <1>4, <2>1
    <2>3. pending'[i - 1] = pending[i]
      BY <1>1, <2>2
    <2> QED  BY <1>2, <2>1, <2>2, <2>3 DEF Waiting
  <1> QED  BY <1>3, <1>4

\* A call puts one more entry on hold, under a key and with a value of its own.
LEMMA CallHeld ==
    ASSUME Exact, MInv, NEW k \in Keys, NEW v \in Vals, put(k, v)
    PROVE  Reachable' /\ Apart' /\ Held' = Held \cup {Entry(k, v)}
  <1>1. TypeOK /\ table \in Tables /\ pending = << >> /\ ~released
    BY DEF MInv, CInv, TypeOK, put, Idle
  <1>2. table' = table /\ pending' = <<Entry(k, v)>> /\ Taken' = Taken
    BY DEF put, Taken
  <1>3. Waiting = {}
    BY <1>1 DEF Waiting
  <1>4. Waiting' = {1} /\ pending'[1] = Entry(k, v)
    BY <1>2 DEF Waiting, Entry
  <1>5. Entry(k, v).key = k /\ Entry(k, v).val = v
    BY DEF Entry
  <1>6. \A i \in Taken : table.entries[i].key # k
    BY <1>1, NotThere DEF put
  <1>7. \A i \in Taken : table.entries[i].val \in live
    BY DEF MInv, Held
  <1>8. \A i \in Taken : Differ(table.entries[i], Entry(k, v))
    BY <1>5, <1>6, <1>7 DEF Differ, put
  <1>9. Held' = Held \cup {Entry(k, v)}
    BY <1>2, <1>3, <1>4 DEF Held
  <1>10. Apart'
    BY <1>2, <1>4, <1>8 DEF MInv, Apart
  <1>11. Reachable'
    BY <1>2 DEF MInv, Reachable
  <1> QED  BY <1>9, <1>10, <1>11

\* The entry goes from what is pending to its slot, which was free.
LEMMA PutHeld ==
    ASSUME Exact, MInv, hashtable_put
    PROVE  Reachable' /\ Apart' /\ Held' = Held
  <1> DEFINE e == Head(pending)
             i == hashtable_hash(table, e.key)
  <1>1. TypeOK /\ table \in Tables
    BY DEF MInv, CInv, TypeOK
  <1>2. pending # << >> /\ pending' = Tail(pending) /\ e = pending[1] /\ 1 \in Waiting
    BY <1>1, HeadFacts DEF hashtable_put, Waiting
  <1>3. /\ e \in Filled
        /\ i \in 0..(table.table_size - 1)
        /\ i \notin Taken \/ STREQ(table.entries[i].key, e.key)
        /\ \E j \in 0..(MaxChain - 1) : i = probe(table, e.key, j)
        /\ table'.table_size = table.table_size
        /\ table'.entries = [table.entries EXCEPT ![i] = e]
        /\ Taken' = Taken \cup {i}
    BY <1>1, PutStep
  <1> HIDE DEF e
  <1> HIDE DEF i
  <1>4. table.entries \in [0..(table.table_size - 1) -> Slot]
    BY <1>1, TableFacts
  <1>5. i \notin Taken
    BY <1>2, <1>3 DEF MInv, Apart, Differ, STREQ, Exact
  <1>6. /\ table'.entries[i] = e
        /\ \A j \in Taken : table'.entries[j] = table.entries[j] /\ j # i
    BY <1>1, <1>3, <1>4, <1>5, TakenFacts
  <1>7. /\ \A j \in Waiting' : j + 1 \in Waiting /\ j + 1 # 1 /\ pending'[j] = pending[j + 1]
        /\ \A j \in Waiting : j = 1 \/ (j - 1 \in Waiting' /\ pending'[j - 1] = pending[j])
    <2>1. /\ \A j \in Waiting' : j + 1 \in Waiting /\ pending'[j] = pending[j + 1]
          /\ \A j \in Waiting : j = 1 \/ (j - 1 \in Waiting' /\ pending'[j - 1] = pending[j])
      BY <1>1, <1>2, TailStep
    <2>2. Waiting' \subseteq 1..(Len(pending) - 1)
      BY <1>1, <1>2, HeadFacts, LenProperties DEF Waiting
    <2>3. Len(pending) \in Nat
      BY <1>1, WaitingFacts
    <2> QED  BY <2>1, <2>2, <2>3
  <1>8. Held' = Held
    <2>1. ASSUME NEW d \in Held PROVE d \in Held'
      <3>1. CASE \E j \in Taken : d = table.entries[j]
        <4>1. PICK j \in Taken : d = table.entries[j]
          BY <3>1
        <4>2. j \in Taken' /\ d = table'.entries[j]
          BY <1>3, <1>6, <4>1
        <4> QED  BY <4>2 DEF Held
      <3>2. CASE d = pending[1]
        BY <1>2, <1>3, <1>6, <3>2 DEF Held
      <3>3. CASE \E j \in Waiting : j # 1 /\ d = pending[j]
        BY <1>7, <3>3 DEF Held
      <3> QED  BY <3>1, <3>2, <3>3 DEF Held
    <2>2. ASSUME NEW d \in Held' PROVE d \in Held
      <3>1. CASE \E j \in Taken : d = table.entries[j]
        BY <3>1 DEF Held
      <3>2. CASE d = e
        BY <1>2, <3>2 DEF Held
      <3>3. CASE \E j \in Waiting' : d = pending'[j]
        BY <1>7, <3>3 DEF Held
      <3>4. (\E j \in Taken' : d = table'.entries[j]) \/ (\E j \in Waiting' : d = pending'[j])
        BY DEF Held
      <3>5. (\E j \in Taken' : d = table'.entries[j]) => d = e \/ \E j \in Taken : d = table.entries[j]
        BY <1>3, <1>6
      <3> QED  BY <3>1, <3>2, <3>3, <3>4, <3>5
    <2> QED  BY <2>1, <2>2
  <1>9. Apart'
    <2>1. \A j, m \in Taken' : j # m => Differ(table.entries[j], table.entries[m])'
      <3> SUFFICES ASSUME NEW j \in Taken', NEW m \in Taken', j # m
                   PROVE  Differ(table'.entries[j], table'.entries[m])
        BY DEF Differ
      <3>1. CASE j \in Taken /\ m \in Taken
        BY <1>6, <3>1 DEF MInv, Apart
      <3>2. CASE j = i /\ m \in Taken
        BY <1>2, <1>6, <3>2 DEF MInv, Apart, Differ
      <3>3. CASE j \in Taken /\ m = i
        BY <1>2, <1>6, <3>3 DEF MInv, Apart
      <3> QED  BY <1>3, <3>1, <3>2, <3>3
    <2>2. \A j, m \in Waiting' : j # m => Differ(pending[j], pending[m])'
      <3> SUFFICES ASSUME NEW j \in Waiting', NEW m \in Waiting', j # m
                   PROVE  Differ(pending'[j], pending'[m])
        BY DEF Differ
      <3>1. j + 1 \in Waiting /\ m + 1 \in Waiting /\ j + 1 # m + 1
        <4>1. j \in Int /\ m \in Int
          BY <1>1, <1>2, HeadFacts, LenProperties DEF Waiting
        <4> QED  BY <1>7, <4>1
      <3> QED  BY <1>7, <3>1 DEF MInv, Apart
    <2>3. \A j \in Taken', m \in Waiting' : Differ(table.entries[j], pending[m])'
      <3> SUFFICES ASSUME NEW j \in Taken', NEW m \in Waiting'
                   PROVE  Differ(table'.entries[j], pending'[m])
        BY DEF Differ
      <3>1. CASE j \in Taken
        BY <1>6, <1>7, <3>1 DEF MInv, Apart
      <3>2. CASE j = i
        <4>1. m + 1 \in Waiting /\ 1 # m + 1 /\ pending'[m] = pending[m + 1]
          BY <1>7
        <4>2. Differ(pending[1], pending[m + 1])
          BY <1>2, <4>1 DEF MInv, Apart
        <4> QED  BY <1>2, <1>6, <3>2, <4>1, <4>2
      <3> QED  BY <1>3, <3>1, <3>2
    <2> QED  BY <2>1, <2>2, <2>3 DEF Apart
  <1>10. Reachable'
    <2> SUFFICES ASSUME NEW j \in Taken'
                 PROVE  \E m \in 0..(MaxChain - 1) : j = probe(table, table'.entries[j].key, m)
      BY <1>3 DEF Reachable, probe
    <2> QED  BY <1>3, <1>6 DEF MInv, Reachable
  <1> QED  BY <1>8, <1>9, <1>10

\* A slot that is not taken is dropped.
LEMMA SkipHeld ==
    ASSUME MInv, skip
    PROVE  Reachable' /\ Apart' /\ Held' = Held
  <1>1. TypeOK /\ table \in Tables
    BY DEF MInv, CInv, TypeOK
  <1>2. pending # << >> /\ pending' = Tail(pending) /\ 1 \notin Waiting
        /\ table' = table /\ Taken' = Taken
    BY <1>1, HeadFacts DEF skip, Waiting, Taken
  <1>3. /\ \A j \in Waiting' : j + 1 \in Waiting /\ pending'[j] = pending[j + 1]
        /\ \A j \in Waiting : j - 1 \in Waiting' /\ pending'[j - 1] = pending[j]
    BY <1>1, <1>2, TailStep
  <1>4. Waiting' \subseteq Int
    BY <1>1, <1>2, HeadFacts, LenProperties DEF Waiting
  <1>5. Held' = Held
    <2>1. {table'.entries[i] : i \in Taken'} = {table.entries[i] : i \in Taken}
      BY <1>2
    <2>2. ASSUME NEW d PROVE (\E i \in Waiting' : d = pending'[i]) <=> (\E i \in Waiting : d = pending[i])
      BY <1>3
    <2> QED  BY <2>1, <2>2 DEF Held
  <1>6. Apart'
    <2>1. \A j, m \in Waiting' : j # m => Differ(pending[j], pending[m])'
      <3> SUFFICES ASSUME NEW j \in Waiting', NEW m \in Waiting', j # m
                   PROVE  Differ(pending'[j], pending'[m])
        BY DEF Differ
      <3>1. j + 1 \in Waiting /\ m + 1 \in Waiting /\ j + 1 # m + 1
        BY <1>3, <1>4
      <3> QED  BY <1>3, <3>1 DEF MInv, Apart
    <2>2. \A j \in Taken', m \in Waiting' : Differ(table.entries[j], pending[m])'
      <3> SUFFICES ASSUME NEW j \in Taken, NEW m \in Waiting'
                   PROVE  Differ(table.entries[j], pending'[m])
        BY <1>2 DEF Differ
      <3> QED  BY <1>3 DEF MInv, Apart
    <2>3. \A j, m \in Taken' : j # m => Differ(table.entries[j], table.entries[m])'
      BY <1>2 DEF MInv, Apart, Differ
    <2> QED  BY <2>1, <2>2, <2>3 DEF Apart
  <1>7. Reachable'
    BY <1>2 DEF MInv, Reachable
  <1> QED  BY <1>5, <1>6, <1>7

\* What was in the table waits to be put in the new one, before what waited.
LEMMA RehashHeld ==
    ASSUME MInv, hashtable_rehash
    PROVE  Reachable' /\ Apart' /\ Held' = Held
  <1> DEFINE n == table.table_size
  <1>1. TypeOK /\ table \in Tables /\ pending \in Seq(Slot)
    BY DEF MInv, CInv, TypeOK
  <1>2. Taken' = {} /\ pending' = Array(table) \o pending
        /\ Array(table) \in Seq(Slot) /\ Len(Array(table)) = n
        /\ \A i \in 1..n : Array(table)[i] = table.entries[i - 1]
    BY <1>1, RehashStep DEF hashtable_rehash
  <1>3. n \in Nat /\ table.entries \in [0..(n - 1) -> Slot]
    BY <1>1, TableFacts
  <1>4. Len(pending) \in Nat /\ DOMAIN pending = 1..Len(pending)
    BY <1>1, LenProperties
  <1>5. /\ DOMAIN pending' = 1..(n + Len(pending))
        /\ \A i \in 1..n : pending'[i] = table.entries[i - 1]
        /\ \A i \in (n + 1)..(n + Len(pending)) : pending'[i] = pending[i - n]
    <2> DEFINE s == Array(table) \o pending
    <2>1. s \in Seq(Slot) /\ Len(s) = n + Len(pending)
      BY <1>1, <1>2, ConcatProperties
    <2>2. ASSUME NEW i \in 1..(n + Len(pending))
          PROVE  s[i] = IF i <= n THEN Array(table)[i] ELSE pending[i - n]
      BY <1>1, <1>2, ConcatProperties
    <2>3. DOMAIN s = 1..(n + Len(pending))
      BY <2>1, LenProperties
    <2> HIDE DEF s
    <2>4. \A i \in 1..n : s[i] = table.entries[i - 1]
      BY <1>2, <1>3, <1>4, <2>2
    <2>5. \A i \in (n + 1)..(n + Len(pending)) : s[i] = pending[i - n]
      BY <1>3, <1>4, <2>2
    <2>6. pending' = s
      BY <1>2 DEF s
    <2> QED  BY <2>3, <2>4, <2>5, <2>6
  <1> HIDE DEF n
  <1>6. ASSUME NEW i \in Waiting'
        PROVE  \/ i - 1 \in Taken /\ i \in 1..n /\ pending'[i] = table.entries[i - 1]
               \/ i - n \in Waiting /\ i \in Int /\ pending'[i] = pending[i - n]
    <2>1. i \in 1..(n + Len(pending)) /\ pending'[i].taken
      BY <1>5 DEF Waiting
    <2>2. CASE i \in 1..n
      <3>1. i - 1 \in 0..(n - 1) /\ pending'[i] = table.entries[i - 1]
        BY <1>3, <1>5, <2>2
      <3> QED  BY <1>3, <2>1, <2>2, <3>1 DEF Taken
    <2>3. CASE i \in (n + 1)..(n + Len(pending))
      <3>1. i - n \in 1..Len(pending) /\ pending'[i] = pending[i - n]
        BY <1>3, <1>4, <1>5, <2>3
      <3> QED  BY <1>4, <2>1, <3>1 DEF Waiting
    <2> QED  BY <1>3, <1>4, <2>1, <2>2, <2>3
  <1>7. ASSUME NEW i \in Taken PROVE i + 1 \in Waiting' /\ pending'[i + 1] = table.entries[i]
    <2>1. i \in 0..(n - 1) /\ table.entries[i].taken
      BY <1>3 DEF Taken
    <2>2. i + 1 \in 1..n /\ (i + 1) - 1 = i /\ i + 1 \in 1..(n + Len(pending))
      BY <1>3, <1>4, <2>1
    <2> QED  BY <1>5, <2>1, <2>2 DEF Waiting
  <1>8. ASSUME NEW i \in Waiting PROVE i + n \in Waiting' /\ pending'[i + n] = pending[i]
    <2>1. i \in 1..Len(pending) /\ pending[i].taken
      BY <1>4 DEF Waiting
    <2>2. i + n \in (n + 1)..(n + Len(pending)) /\ (i + n) - n = i
          /\ i + n \in 1..(n + Len(pending))
      BY <1>3, <1>4, <2>1
    <2> QED  BY <1>5, <2>1, <2>2 DEF Waiting
  <1>9. Held' = Held
    <2>1. ASSUME NEW d \in Held PROVE d \in Held'
      BY <1>7, <1>8 DEF Held
    <2>2. ASSUME NEW d \in Held' PROVE d \in Held
      <3>1. PICK i \in Waiting' : d = pending'[i]
        BY <1>2 DEF Held
      <3> QED  BY <1>6, <3>1 DEF Held
    <2> QED  BY <2>1, <2>2
  <1>10. Apart'
    <2> SUFFICES ASSUME NEW i \in Waiting', NEW j \in Waiting', i # j
                 PROVE  Differ(pending'[i], pending'[j])
      BY <1>2 DEF Apart, Differ
    <2>1. CASE i - 1 \in Taken /\ i \in 1..n /\ pending'[i] = table.entries[i - 1]
      <3>1. CASE j - 1 \in Taken /\ j \in 1..n /\ pending'[j] = table.entries[j - 1]
        <4>1. i - 1 # j - 1
          BY <1>3, <2>1, <3>1
        <4> QED  BY <2>1, <3>1, <4>1 DEF MInv, Apart
      <3>2. CASE j - n \in Waiting /\ pending'[j] = pending[j - n]
        BY <2>1, <3>2 DEF MInv, Apart
      <3> QED  BY <1>6, <3>1, <3>2
    <2>2. CASE i - n \in Waiting /\ i \in Int /\ pending'[i] = pending[i - n]
      <3>1. CASE j - 1 \in Taken /\ pending'[j] = table.entries[j - 1]
        BY <2>2, <3>1 DEF MInv, Apart, Differ
      <3>2. CASE j - n \in Waiting /\ j \in Int /\ pending'[j] = pending[j - n]
        <4>1. i - n # j - n
          BY <1>3, <2>2, <3>2
        <4> QED  BY <2>2, <3>2, <4>1 DEF MInv, Apart
      <3> QED  BY <1>6, <3>1, <3>2
    <2> QED  BY <1>6, <2>1, <2>2
  <1>11. Reachable'
    BY <1>2 DEF Reachable
  <1> QED  BY <1>9, <1>10, <1>11

\* The entry of the key goes, and no other.
LEMMA DelHeld ==
    ASSUME Exact, MInv, NEW k \in Keys, del(k)
    PROVE  LET e == table.entries[find(table, k)] IN
           /\ Reachable' /\ Apart'
           /\ e \in Held /\ e.key = k /\ Held' = Held \ {e}
           /\ live' = live \ {e.val}
  <1> DEFINE i == find(table, k)
  <1>1. TypeOK /\ table \in Tables
    BY DEF MInv, CInv, TypeOK
  <1>2. /\ i \in Taken /\ STREQ(k, table.entries[i].key)
        /\ table'.table_size = table.table_size
        /\ table'.entries = [table.entries EXCEPT ![i] = Free]
        /\ Taken' = Taken \ {i}
    BY <1>1, DelStep
  <1>3. pending' = pending /\ pending = << >> /\ live' = live \ {table.entries[i].val}
    BY DEF del, Idle, destroyed
  <1> HIDE DEF i
  <1>4. Waiting = {} /\ Waiting' = {}
    BY <1>3 DEF Waiting
  <1>5. table.entries[i] \in Held /\ table.entries[i].key = k
    BY <1>2 DEF Held, STREQ, Exact
  <1>6. \A j \in Taken' : table'.entries[j] = table.entries[j]
    BY <1>1, <1>2, TableFacts, TakenFacts
  <1>7. Held' = Held \ {table.entries[i]}
    <2>1. \A j \in Taken : j # i => table.entries[j] # table.entries[i]
      BY <1>2 DEF MInv, Apart, Differ
    <2>2. Held = {table.entries[j] : j \in Taken} /\ Held' = {table'.entries[j] : j \in Taken'}
      BY <1>4 DEF Held
    <2> QED  BY <1>2, <1>6, <2>1, <2>2
  <1>8. Apart'
    <2> SUFFICES ASSUME NEW j \in Taken', NEW m \in Taken', j # m
                 PROVE  Differ(table'.entries[j], table'.entries[m])
      BY <1>4 DEF Apart, Differ
    <2> QED  BY <1>2, <1>6 DEF MInv, Apart
  <1>9. Reachable'
    <2> SUFFICES ASSUME NEW j \in Taken'
                 PROVE  \E m \in 0..(MaxChain - 1) : j = probe(table, table'.entries[j].key, m)
      BY <1>2 DEF Reachable, probe
    <2> QED  BY <1>2, <1>6 DEF MInv, Reachable
  <1> QED  BY <1>3, <1>5, <1>7, <1>8, <1>9 DEF i

\* Releasing the table destroys all there is.
LEMMA ReleaseHeld ==
    ASSUME MInv, hashtable_release
    PROVE  Reachable' /\ Apart' /\ Held' = {} /\ live' = {}
  <1>1. TypeOK /\ Counted /\ table \in Tables
    BY DEF MInv, CInv, TypeOK
  <1>2. table' = calloc(0) /\ pending' = << >> /\ pending = << >>
    BY DEF hashtable_release, Idle
  <1>3. Taken' = {} /\ Waiting' = {} /\ Waiting = {}
    <2>1. \A i \in DOMAIN table'.entries : ~table'.entries[i].taken
      BY <1>2, CallocFacts
    <2> QED  BY <1>2, <2>1 DEF Taken, Waiting
  <1>4. live = {table.entries[i].val : i \in Taken}
    BY <1>3 DEF MInv, Held
  <1>5. CASE table.size = 0
    <2>1. Taken = {}
      BY <1>1, <1>5, TakenFacts, FS_EmptySet DEF Counted
    <2> QED  BY <1>3, <1>4, <1>5, <2>1 DEF hashtable_release, Reachable, Apart, Held
  <1>6. CASE table.size # 0
    <2>1. live' = live \ UNION {{table.entries[i].val} : i \in Taken}
      BY <1>6 DEF hashtable_release, destroyed, Taken
    <2>2. live' = {}
      BY <1>4, <2>1
    <2> QED  BY <1>3, <2>2 DEF Reachable, Apart, Held
  <1> QED  BY <1>5, <1>6

\* The table holds nothing at first.
LEMMA InitMInv == Init => MInv /\ Held = {}
  <1> SUFFICES ASSUME Init PROVE MInv /\ Held = {}
    OBVIOUS
  <1>1. CInv
    BY InitCInv
  <1>2. Taken = {} /\ Waiting = {}
    <2>1. InitialSize \in Nat /\ table = calloc(InitialSize) /\ pending = << >>
      BY SizesAssumption DEF Init
    <2>2. \A i \in DOMAIN table.entries : ~table.entries[i].taken
      BY <2>1, CallocFacts
    <2> QED  BY <2>1, <2>2 DEF Taken, Waiting
  <1> QED  BY <1>1, <1>2 DEF MInv, Reachable, Apart, Held, Init

\* What every step does to what is held.
LEMMA StepHeld ==
    ASSUME Exact, MInv, Next
    PROVE  /\ MInv'
           /\ \A k \in Keys, v \in Vals : put(k, v) => Held' = Held \cup {Entry(k, v)}
           /\ hashtable_put \/ hashtable_rehash \/ skip => Held' = Held
           /\ \A k \in Keys : del(k) => \E e \in Held : e.key = k /\ Held' = Held \ {e}
  <1>1. CInv'
    BY NextCInv DEF MInv
  <1>2. live = {e.val : e \in Held}
    BY DEF MInv
  <1>3. ASSUME NEW k \in Keys, NEW v \in Vals, put(k, v)
        PROVE  MInv' /\ Held' = Held \cup {Entry(k, v)}
    <2>1. Reachable' /\ Apart' /\ Held' = Held \cup {Entry(k, v)}
      BY <1>3, CallHeld
    <2>2. live' = live \cup {v} /\ Entry(k, v).val = v
      BY <1>3 DEF put, Entry
    <2>3. live' = {e.val : e \in Held'}
      BY <1>2, <2>1, <2>2
    <2> QED  BY <1>1, <2>1, <2>3 DEF MInv
  <1>4. ASSUME hashtable_put \/ hashtable_rehash \/ skip
        PROVE  MInv' /\ Held' = Held
    <2>1. Reachable' /\ Apart' /\ Held' = Held
      BY <1>4, PutHeld, RehashHeld, SkipHeld
    <2>2. live' = live
      BY <1>4 DEF hashtable_put, hashtable_rehash, skip
    <2> QED  BY <1>1, <1>2, <2>1, <2>2 DEF MInv
  <1>5. ASSUME NEW k \in Keys, del(k)
        PROVE  MInv' /\ \E e \in Held : e.key = k /\ Held' = Held \ {e}
    <2>1. PICK e \in Held : e.key = k /\ Held' = Held \ {e} /\ live' = live \ {e.val}
      BY <1>5, DelHeld
    <2>2. Reachable' /\ Apart'
      BY <1>5, DelHeld
    <2>3. \A d \in Held : d.val = e.val => d = e
      BY HeldOnce DEF MInv
    <2>4. live' = {d.val : d \in Held'}
      BY <1>2, <2>1, <2>3
    <2> QED  BY <1>1, <2>1, <2>2, <2>4 DEF MInv
  <1>6. ASSUME hashtable_release
        PROVE  MInv'
    <2>1. Reachable' /\ Apart' /\ Held' = {} /\ live' = {}
      BY <1>6, ReleaseHeld
    <2>2. live' = {e.val : e \in Held'}
      BY <2>1
    <2> QED  BY <1>1, <2>1, <2>2 DEF MInv
  <1>7. MInv'
    BY <1>3, <1>4, <1>5, <1>6 DEF Next
  <1> QED  BY <1>3, <1>4, <1>5, <1>7

\* MInv is inductive.
LEMMA NextMInv ==
    ASSUME Exact, MInv, [Next]_vars
    PROVE  MInv'
  <1>1. CASE UNCHANGED vars
    <2>1. CInv'
      BY NextCInv DEF MInv
    <2>2. Taken' = Taken /\ Waiting' = Waiting /\ table' = table /\ pending' = pending /\ live' = live
      BY <1>1 DEF vars, Taken, Waiting
    <2> QED  BY <2>1, <2>2 DEF MInv, Reachable, Apart, Held, Differ, probe
  <1> QED  BY <1>1, StepHeld

\* Whenever no key is a prefix of another, every value that was handed to the table
\* is in one place until the destructor gets it (hashtable.c, hashtable_put,
\* hashtable_rehash, hashtable_del, hashtable_release).
THEOREM TableOwnsValues == Exact => (Spec => []OwnsValues)
  <1>1. MInv => OwnsValues
    <2> SUFFICES ASSUME MInv PROVE OwnsValues
      OBVIOUS
    <2>1. live = {table.entries[i].val : i \in Taken} \cup {pending[i].val : i \in Waiting}
      BY DEF MInv, Held
    <2> QED  BY <2>1 DEF MInv, Apart, Differ, OwnsValues
  <1> SUFFICES ASSUME Exact PROVE Spec => []OwnsValues
    OBVIOUS
  <1>2. Init => MInv
    BY InitMInv
  <1>3. MInv /\ [Next]_vars => MInv'
    BY NextMInv
  <1> QED  BY <1>1, <1>2, <1>3, PTL DEF Spec

-----------------------------------------------------------------------------
(* The refinement.                                                          *)

\* What callers observe is what is held.
Described ==
    /\ \A e \in Held : Contents[e.key] = e.val
    /\ \A k \in Keys : (\A e \in Held : e.key # k) => Contents[k] = NULL

\* hashtable_get finds what is held in the table, and nothing else.
LEMMA ContentsDescribed ==
    ASSUME Exact, MInv
    PROVE  Described
  <1>1. TypeOK /\ table \in Tables /\ Held \subseteq Filled
    BY HeldFacts DEF MInv, CInv, TypeOK
  <1>2. \A e \in Filled : e.key \in Keys
    BY DEF Filled
  <1>3. CASE released
    <2>1. Held = {}
      BY <1>1, <1>3 DEF TypeOK, Held, Waiting
    <2> QED  BY <1>3, <2>1 DEF Described, Contents
  <1>4. CASE ~released
    <2>1. table.table_size > 0
      BY <1>1, <1>4 DEF TypeOK
    <2>2. ASSUME NEW k \in Keys, \E i \in Waiting : pending[i].key = k
          PROVE  \E e \in Held : e.key = k /\ e.val = Contents[k]
      BY <1>4, <2>2 DEF Contents, Held
    <2>3. ASSUME NEW k \in Keys, ~\E i \in Waiting : pending[i].key = k
          PROVE  \/ \E e \in Held : e.key = k /\ e.val = Contents[k]
                 \/ Contents[k] = NULL /\ \A e \in Held : e.key # k
      <3>1. Contents[k] = hashtable_get(table, k)
        BY <1>4, <2>3 DEF Contents
      <3>2. CASE find(table, k) = HASHTABLE_ERR
        <4>1. hashtable_get(table, k) = NULL
          BY <3>2 DEF hashtable_get
        <4>2. ~hashtable_exists(table, k)
          BY <4>1 DEF hashtable_exists
        <4>3. \A i \in Taken : table.entries[i].key # k
          BY <1>4, <4>2, NotThere
        <4> QED  BY <2>3, <3>1, <4>1, <4>3 DEF Held
      <3>3. CASE find(table, k) # HASHTABLE_ERR
        <4>1. find(table, k) \in 0..(table.table_size - 1)
              /\ table.entries[find(table, k)].taken
              /\ STREQ(k, table.entries[find(table, k)].key)
          BY <1>1, <2>1, <3>3, FindFacts
        <4>2. find(table, k) \in Taken /\ table.entries[find(table, k)].key = k
          BY <1>1, <4>1, TakenFacts DEF STREQ, Exact
        <4>3. Contents[k] = table.entries[find(table, k)].val
          BY <3>1, <3>3 DEF hashtable_get
        <4> QED  BY <4>2, <4>3 DEF Held
      <3> QED  BY <3>2, <3>3
    <2>4. \A d, e \in Held : d.key = e.key => d = e
      BY HeldOnce DEF MInv
    <2>5. ASSUME NEW e \in Held PROVE Contents[e.key] = e.val
      <3>1. e.key \in Keys
        BY <1>1, <1>2
      <3> QED  BY <2>2, <2>3, <2>4, <3>1
    <2> QED  BY <2>2, <2>3, <2>5 DEF Described
  <1> QED  BY <1>3, <1>4

\* Every step is one of the map, and each call the one it is named for.
LEMMA StepRefines ==
    ASSUME Exact, MInv, Described, Described', [Next]_vars
    PROVE  /\ [Map!Next]_Contents
           /\ [CallsAsNamed]_vars
  <1>1. DOMAIN Contents = Keys /\ DOMAIN Contents' = Keys
        /\ Contents = [k \in Keys |-> Contents[k]] /\ Contents' = [k \in Keys |-> Contents'[k]]
    BY DEF Contents
  <1>2. CASE UNCHANGED vars
    <2>1. Contents' = Contents
      BY <1>2 DEF vars, Contents, Waiting
    <2> QED  BY <1>2, <2>1
  <1> SUFFICES ASSUME Next
               PROVE  [Map!Next]_Contents /\ CallsAsNamed
    BY <1>2
  <1>3. ASSUME NEW k \in Keys, NEW v \in Vals, put(k, v) PROVE Map!put(k, v)
    <2>1. Held' = Held \cup {Entry(k, v)} /\ Entry(k, v).key = k /\ Entry(k, v).val = v
      BY <1>3, StepHeld DEF Entry
    <2>2. Contents'[k] = v
      BY <2>1 DEF Described
    <2>3. ASSUME NEW j \in Keys, j # k PROVE Contents'[j] = Contents[j]
      BY <2>1, <2>3 DEF Described
    <2>4. Contents' = [Contents EXCEPT ![k] = v]
      BY <1>1, <2>2, <2>3
    <2> QED  BY <2>4 DEF Map!put
  <1>4. ASSUME NEW k \in Keys, del(k) PROVE Map!remove({k})
    <2>1. PICK e \in Held : e.key = k /\ Held' = Held \ {e}
      BY <1>4, StepHeld
    <2>2. Contents'[k] = NULL
      <3>1. \A d \in Held : d.key = k => d = e
        BY <2>1, HeldOnce DEF MInv
      <3> QED  BY <2>1, <3>1 DEF Described
    <2>3. ASSUME NEW j \in Keys, j # k PROVE Contents'[j] = Contents[j]
      BY <2>1, <2>3 DEF Described
    <2>4. Contents' = [j \in Keys |-> IF j \in {k} THEN NULL ELSE Contents[j]]
      BY <1>1, <2>2, <2>3
    <2> QED  BY <2>4 DEF Map!remove
  <1>5. ASSUME hashtable_put \/ hashtable_rehash \/ skip PROVE Contents' = Contents
    <2>1. Held' = Held
      BY <1>5, StepHeld
    <2>2. ASSUME NEW j \in Keys PROVE Contents'[j] = Contents[j]
      BY <2>1 DEF Described
    <2> QED  BY <1>1, <2>2
  <1>6. ASSUME hashtable_release PROVE Map!remove(Keys)
    <2>1. released' = TRUE
      BY <1>6 DEF hashtable_release
    <2>2. Contents' = [j \in Keys |-> IF j \in Keys THEN NULL ELSE Contents[j]]
      BY <2>1 DEF Contents
    <2> QED  BY <2>2 DEF Map!remove
  <1>7. [Map!Next]_Contents
    <2>1. ASSUME NEW k \in Keys, NEW v \in Vals, put(k, v) PROVE Map!Next
      BY <1>3, <2>1 DEF Map!Next
    <2>2. ASSUME NEW k \in Keys, del(k) PROVE Map!Next
      BY <1>4, <2>2 DEF Map!Next
    <2>3. ASSUME hashtable_release PROVE Map!Next
      BY <1>6, <2>3 DEF Map!Next
    <2> QED  BY <1>5, <2>1, <2>2, <2>3 DEF Next
  <1> QED  BY <1>3, <1>4, <1>5, <1>7 DEF CallsAsNamed

\* Whenever no key is a prefix of another, the table is the map that its header
\* promises: through collisions, holes and nested rehashes hashtable_get returns what
\* was put under a key and not deleted since (hashtable.c, all operations).
THEOREM TableIsMap == Exact => (Spec => RefinesMap)
  <1> SUFFICES ASSUME Exact PROVE Spec => RefinesMap
    OBVIOUS
  <1>1. Init => MInv
    BY InitMInv
  <1>2. MInv /\ [Next]_vars => MInv'
    BY NextMInv
  <1>3. MInv => Described
    BY ContentsDescribed
  <1>4. Init => Map!Init
    <2> SUFFICES ASSUME Init PROVE Map!Init
      OBVIOUS
    <2>1. Held = {} /\ Described
      BY InitMInv, ContentsDescribed
    <2>2. Contents = [k \in Keys |-> Contents[k]]
      BY DEF Contents
    <2>3. \A k \in Keys : Contents[k] = NULL
      BY <2>1 DEF Described
    <2> QED  BY <2>2, <2>3 DEF Map!Init
  <1>5. MInv /\ Described /\ Described' /\ [Next]_vars =>
        /\ [Map!Next]_Contents
        /\ [CallsAsNamed]_vars
    BY StepRefines
  <1> QED  BY <1>1, <1>2, <1>3, <1>4, <1>5, PTL DEF Spec, RefinesMap, Map!Spec

-----------------------------------------------------------------------------
(* What never fits.                                                         *)

\* At most MaxChain of the entries in the table have the same hash.
ChainsFit ==
    \A S \in SUBSET Taken :
        (\A i, j \in S : Hash[table.entries[i].key] = Hash[table.entries[j].key])
            => Cardinality(S) <= MaxChain

\* Of more than MaxChain keys with the same hash one is never stored, whatever size
\* the table has grown to: the put that would make them so many never returns
\* (hashtable.c, the loop of hashtable_put).
THEOREM CollidingKeysNeverFit == Exact => (Spec => []ChainsFit)
  <1> SUFFICES ASSUME Exact PROVE Spec => []ChainsFit
    OBVIOUS
  <1>1. ASSUME MInv PROVE ChainsFit
    <2> SUFFICES ASSUME NEW S \in SUBSET Taken, S # {},
                        \A i, j \in S : Hash[table.entries[i].key] = Hash[table.entries[j].key]
                 PROVE  Cardinality(S) <= MaxChain
      BY FS_EmptySet, SizesAssumption DEF ChainsFit
    <2>1. PICK i \in S : TRUE
      OBVIOUS
    <2> DEFINE k == table.entries[i].key
               N == 0..(MaxChain - 1)
               reach == {probe(table, k, j) : j \in N}
    <2>2. S \subseteq reach
      <3> SUFFICES ASSUME NEW m \in S PROVE m \in reach
        OBVIOUS
      <3>1. PICK j \in N : m = probe(table, table.entries[m].key, j)
        BY <1>1 DEF MInv, Reachable
      <3>2. probe(table, table.entries[m].key, j) = probe(table, k, j)
        BY DEF probe
      <3> QED  BY <3>1, <3>2
    <2>3. MaxChain \in Nat /\ MaxChain > 0
      BY SizesAssumption
    <2>4. IsFiniteSet(N) /\ Cardinality(N) = MaxChain
      BY <2>3, FS_Interval
    <2>5. IsFiniteSet(reach) /\ Cardinality(reach) <= MaxChain
      <3> DEFINE f == [j \in N |-> probe(table, k, j)]
      <3>1. f \in Surjection(N, reach)
        BY DEF Surjection
      <3> HIDE DEF f
      <3>2. IsFiniteSet(reach) /\ Cardinality(reach) <= Cardinality(N)
        BY <2>4, <3>1, FS_Surjection
      <3> QED  BY <2>4, <3>2
    <2> HIDE DEF reach
    <2>6. IsFiniteSet(S) /\ Cardinality(S) <= Cardinality(reach)
      BY <2>2, <2>5, FS_Subset
    <2> QED  BY <2>3, <2>5, <2>6, FS_CardinalityType
  <1>2. Init => MInv
    BY InitMInv
  <1>3. MInv /\ [Next]_vars => MInv'
    BY NextMInv
  <1> QED  BY <1>1, <1>2, <1>3, PTL DEF Spec
=============================================================================
