-------------------------- MODULE HashTableProofs ---------------------------
(***************************************************************************)
(* The hash table is correct for every hash function, every set of names   *)
(* and every capacity: its operations keep a table sound, and do what they *)
(* should to the set of its entries.                                       *)
(*                                                                         *)
(* Sound says that the way of an entry, from its natural slot to its own,  *)
(* has no empty slot.  The way is a cyclic interval, so that no remainder  *)
(* is left in the argument once Probe is characterised (ProbeIs).  For the *)
(* two loops, of ht_resize and of the deletion, the recursive functions    *)
(* that stand for them are first shown to exist (Loop), and then have an   *)
(* invariant at every index.                                               *)
(***************************************************************************)
EXTENDS HashTable, FiniteSetTheorems, WellFoundedInduction, TLAPS

-----------------------------------------------------------------------------
(* Numbers.                                                                *)

\* A nonempty set of natural numbers has a least element.
LEMMA Least ==
    ASSUME NEW S \in SUBSET Nat, S # {}
    PROVE  \E k \in S : \A l \in S : k <= l
<1>1. \A a, b \in Nat : a < b => <<a, b>> \in OpToRel(<, Nat)
    BY DEF OpToRel
<1>2. PICK k \in S : \A l \in S : <<l, k>> \notin OpToRel(<, Nat)
    BY WFMin, NatLessThanWellFounded
<1>3. \A l \in S : ~(l < k)
    BY <1>1, <1>2
<1> QED BY <1>3

\* r is a remainder of the division of a by c.
Splits(a, c, q, r) == q \in Int /\ r \in 0 .. c - 1 /\ a = (c * q) + r

\* There is only one.
LEMMA RemainderIs ==
    ASSUME NEW c \in Nat \ {0}, NEW a, NEW p, NEW r, NEW q, NEW s,
           Splits(a, c, p, r), Splits(a, c, q, s)
    PROVE  r = s
<1> USE DEF Splits
<1>1. c * (p - q) = s - r
    OBVIOUS
<1>2. CASE p - q >= 1
    <2>1. c * (p - q) >= c
        BY <1>2
    <2> QED BY <1>1, <2>1
<1>3. CASE p - q <= -1
    <2>1. c * (p - q) <= -c
        BY <1>3
    <2> QED BY <1>1, <2>1
<1>4. CASE p = q
    BY <1>4
<1> QED BY <1>2, <1>3, <1>4

\* d slots after the slot h of a ring of c slots.
After(c, h, d) == IF h + d < c THEN h + d ELSE h + d - c

\* The remainder of a sum is a slot of the ring.
LEMMA ModIs ==
    ASSUME NEW c \in Nat \ {0}, NEW a \in Nat, NEW d \in 0 .. c
    PROVE  /\ a % c \in 0 .. c - 1
           /\ (a + d) % c = After(c, a % c, d)
<1> DEFINE r == a % c
           q == a \div c
           s == (a + d) % c
           p == (a + d) \div c
           e == After(c, r, d)
<1>1. r \in 0 .. c - 1 /\ q \in Nat /\ a = (c * q) + r
    OBVIOUS
<1>2. Splits(a + d, c, p, s)
    <2>1. a + d \in Nat
        OBVIOUS
    <2> QED BY <2>1 DEF Splits
<1> HIDE DEF r, q, s, p
<1>3. e \in 0 .. c - 1 /\ (e = r + d \/ e = r + d - c)
    BY <1>1 DEF After
<1>4. \E w \in Int : Splits(a + d, c, w, e)
    <2>1. CASE e = r + d
        BY <1>1, <1>3, <2>1 DEF Splits
    <2>2. CASE e = r + d - c
        <3>1. c * (q + 1) = (c * q) + c /\ q + 1 \in Int
            BY <1>1
        <3>2. a + d = (c * (q + 1)) + e
            BY <1>1, <2>2, <3>1
        <3>3. Splits(a + d, c, q + 1, e)
            BY <1>3, <3>1, <3>2 DEF Splits
        <3> QED BY <3>1, <3>3
    <2> QED BY <1>3, <2>1, <2>2
<1>5. s = e
    BY <1>2, <1>4, RemainderIs
<1> QED BY <1>1, <1>5 DEF r, s

-----------------------------------------------------------------------------
(* Sound tables.                                                           *)

Arrays == UNION {[0 .. c - 1 -> Entry \cup {NULL}] : c \in Nat}

IsTable(t) ==
    /\ t \in [capacity : Nat \ {0}, entries : Arrays, count : Nat]
    /\ t.entries \in [Slots(t) -> Entry \cup {NULL}]

Occupied(t) == {i \in Slots(t) : t.entries[i] # NULL}

\* x is a slot on the way from slot a to slot b, b itself left out.
OnWay(a, x, b) == IF a <= b THEN a <= x /\ x < b ELSE a <= x \/ x < b

\* No search for the key ends before slot i at an empty slot.
Full(t, key, i) ==
    \A x \in Slots(t) : OnWay(Natural(t, key), x, i) => t.entries[x] # NULL

Unique(t) == \A i, j \in Occupied(t) : t.entries[i].key = t.entries[j].key => i = j

Sound(t) ==
    /\ IsTable(t)
    /\ t.count = Cardinality(Occupied(t)) /\ t.count < t.capacity
    /\ \A i \in Occupied(t) : Full(t, t.entries[i].key, i)
    /\ Unique(t)

LEMMA NaturalIs == ASSUME NEW t, IsTable(t), NEW key \in Names PROVE Natural(t, key) \in Slots(t)
<1>1. Hash[key] \in Nat /\ t.capacity \in Nat \ {0}
    BY HashAssumption DEF IsTable
<1>2. Hash[key] % t.capacity \in 0 .. t.capacity - 1
    BY <1>1
<1> QED BY <1>2 DEF Natural, Slots

\* Two slots lie on the way to each other in one order or the other.
LEMMA WayTotal ==
    ASSUME NEW a \in Int, NEW p \in Int, NEW q \in Int, p # q
    PROVE  OnWay(a, p, q) \/ OnWay(a, q, p)
<1>1. CASE a <= p /\ a <= q
    BY <1>1 DEF OnWay
<1>2. CASE a <= p /\ ~(a <= q)
    BY <1>2 DEF OnWay
<1>3. CASE ~(a <= p)
    BY <1>3 DEF OnWay
<1> QED BY <1>1, <1>2, <1>3

LEMMA OccupiedFinite ==
    ASSUME NEW t, IsTable(t)
    PROVE  /\ IsFiniteSet(Occupied(t)) /\ Cardinality(Occupied(t)) \in Nat
           /\ Cardinality(Occupied(t)) < t.capacity => \E i \in Slots(t) : t.entries[i] = NULL
<1>1. t.capacity \in Nat
    BY DEF IsTable
<1>2. IsFiniteSet(Slots(t)) /\ Cardinality(Slots(t)) = t.capacity
    <2>1. 0 \in Int /\ t.capacity - 1 \in Int /\ t.capacity \in Nat
        BY ONLY <1>1
    <2>2. IsFiniteSet(0 .. t.capacity - 1)
        BY ONLY <2>1, FS_Interval
    <2>3. Cardinality(0 .. t.capacity - 1) = IF 0 > t.capacity - 1 THEN 0 ELSE t.capacity - 1 - 0 + 1
        BY ONLY <2>1, FS_Interval
    <2> QED BY ONLY <2>1, <2>2, <2>3 DEF Slots
<1>3. Occupied(t) \in SUBSET Slots(t)
    BY DEF Occupied
<1>4. IsFiniteSet(Occupied(t))
    BY <1>2, <1>3, FS_Subset
<1>5. Cardinality(Occupied(t)) \in Nat
    BY <1>4, FS_CardinalityType
<1>6. Cardinality(Occupied(t)) < t.capacity => Occupied(t) # Slots(t)
    BY <1>1, <1>2
<1> QED BY <1>4, <1>5, <1>6 DEF Occupied

\* Where a search for the key ends.
Ending(t, key, p) ==
    /\ p \in Slots(t)
    /\ t.entries[p] = NULL \/ t.entries[p].key = key
    /\ \A x \in Slots(t) : OnWay(Natural(t, key), x, p) =>
           t.entries[x] # NULL /\ t.entries[x].key # key

\* Probe finds it, if there is an empty slot.
LEMMA ProbeEnds ==
    ASSUME NEW t, IsTable(t), NEW key \in Names, \E i \in Slots(t) : t.entries[i] = NULL
    PROVE  Ending(t, key, Probe(t, key))
<1> DEFINE c == t.capacity
           h == Natural(t, key)
           E == t.entries
           Ends(d) == \/ E[(Hash[key] + d) % c] = NULL
                      \/ E[(Hash[key] + d) % c].key = key
           First(d) == Ends(d) /\ \A b \in 0 .. d - 1 : ~Ends(b)
           first == CHOOSE d \in Slots(t) : First(d)
           D == {d \in Slots(t) : Ends(d)}
<1>1. c \in Nat \ {0} /\ h \in 0 .. c - 1 /\ Slots(t) = 0 .. c - 1
    BY NaturalIs DEF IsTable, Slots
<1>2. \A d \in 0 .. c : (Hash[key] + d) % c = After(c, h, d)
    BY <1>1, HashAssumption, ModIs DEF Natural
<1>3. Probe(t, key) = (Hash[key] + first) % c
    BY DEF Probe
<1>4. \A x \in Slots(t) : \E d \in Slots(t) : After(c, h, d) = x
    <2> SUFFICES ASSUME NEW x \in Slots(t) PROVE \E d \in Slots(t) : After(c, h, d) = x
        OBVIOUS
    <2> DEFINE d == IF x >= h THEN x - h ELSE x - h + c
    <2>1. x \in 0 .. c - 1 /\ h \in 0 .. c - 1 /\ c \in Nat
        BY <1>1
    <2>2. d \in 0 .. c - 1
        BY ONLY <2>1
    <2>3. After(c, h, d) = x
        BY ONLY <2>1 DEF After
    <2> QED BY <1>1, <2>2, <2>3
<1>5. \E d \in Slots(t) : First(d)
    <2>1. \E d \in Slots(t) : Ends(d)
        <3>1. PICK i \in Slots(t) : E[i] = NULL
            OBVIOUS
        <3>2. PICK d \in Slots(t) : After(c, h, d) = i
            BY <1>4
        <3>3. d \in 0 .. c
            BY <1>1
        <3> QED BY <1>2, <3>1, <3>2, <3>3
    <2> HIDE DEF Ends
    <2>2. D \in SUBSET Nat /\ D # {}
        BY <1>1, <2>1
    <2>3. PICK d \in D : \A b \in D : d <= b
        <3> HIDE DEF D
        <3> QED BY <2>2, Least
    <2>4. \A b \in 0 .. d - 1 : b \in Slots(t) /\ ~(d <= b)
        BY <1>1, <2>3
    <2> QED BY <2>3, <2>4
<1>6. first \in Slots(t) /\ First(first)
    <2> HIDE DEF First
    <2> QED BY <1>5
<1> HIDE DEF first
<1> DEFINE p == After(c, h, first)
<1>7. p \in Slots(t) /\ first \in 0 .. c /\ Probe(t, key) = p
    BY <1>1, <1>2, <1>3, <1>6 DEF After
<1>8. E[p] = NULL \/ E[p].key = key
    BY <1>2, <1>6, <1>7
<1>9. ASSUME NEW x \in Slots(t), OnWay(h, x, p)
      PROVE  E[x] # NULL /\ E[x].key # key
    <2> DEFINE b == IF x >= h THEN x - h ELSE x - h + c
    <2>1. b \in 0 .. first - 1 /\ b \in 0 .. c /\ After(c, h, b) = x
        <3>1. c \in Nat /\ h \in 0 .. c - 1 /\ first \in 0 .. c - 1 /\ x \in 0 .. c - 1
            BY <1>1, <1>6
        <3>2. IF h <= p THEN h <= x /\ x < p ELSE h <= x \/ x < p
            BY <1>9 DEF OnWay
        <3>3. p = IF h + first < c THEN h + first ELSE h + first - c
            BY DEF After
        <3>4. b \in 0 .. first - 1 /\ b \in 0 .. c
            BY ONLY <3>1, <3>2, <3>3
        <3>5. After(c, h, b) = x
            BY ONLY <3>1 DEF After
        <3> QED BY <3>4, <3>5
    <2>2. ~Ends(b)
        BY <1>6, <2>1
    <2> QED BY <1>2, <2>1, <2>2
<1> HIDE DEF p, E, h
<1> QED BY <1>7, <1>8, <1>9 DEF Ending, p, E, h

\* A sound table has an empty slot, and its keys and values are of their types.
LEMMA SoundFacts ==
    ASSUME NEW t, Sound(t)
    PROVE  /\ IsTable(t)
           /\ \E i \in Slots(t) : t.entries[i] = NULL
           /\ \A i \in Occupied(t) : /\ i \in Slots(t) /\ t.entries[i] \in Entry
                                     /\ t.entries[i].key \in Names
                                     /\ t.entries[i].value \in Variable
<1>1. \E i \in Slots(t) : t.entries[i] = NULL
    BY OccupiedFinite DEF Sound
<1>2. \A i \in Occupied(t) : i \in Slots(t) /\ t.entries[i] \in Entry
    BY DEF Sound, IsTable, Occupied
<1> QED BY <1>1, <1>2 DEF Sound, Entry

\* A search ends at one place only.
LEMMA ProbeUnique ==
    ASSUME NEW t, NEW key, IsTable(t), Natural(t, key) \in Slots(t),
           NEW p, NEW q, Ending(t, key, p), Ending(t, key, q)
    PROVE  p = q
<1> SUFFICES ASSUME p # q PROVE FALSE
    OBVIOUS
<1>1. p \in Int /\ q \in Int /\ Natural(t, key) \in Int /\ p \in Slots(t) /\ q \in Slots(t)
    BY DEF Ending, Slots, IsTable
<1>2. OnWay(Natural(t, key), p, q) \/ OnWay(Natural(t, key), q, p)
    BY <1>1, WayTotal
<1> QED BY <1>1, <1>2 DEF Ending

\* Probe finds an entry, if there is one with the key.
LEMMA Found ==
    ASSUME NEW t, Sound(t), NEW i \in Occupied(t)
    PROVE  Probe(t, t.entries[i].key) = i
<1> DEFINE key == t.entries[i].key
<1>1. key \in Names /\ IsTable(t) /\ i \in Slots(t) /\ Natural(t, key) \in Slots(t)
    BY SoundFacts, NaturalIs
<1>2. Ending(t, key, Probe(t, key))
    BY <1>1, ProbeEnds, SoundFacts
<1>3. Ending(t, key, i)
    <2> SUFFICES ASSUME NEW x \in Slots(t), OnWay(Natural(t, key), x, i)
                 PROVE  t.entries[x] # NULL /\ t.entries[x].key # key
        BY <1>1 DEF Ending
    <2>1. t.entries[x] # NULL /\ x \in Occupied(t)
        BY DEF Sound, Full, Occupied
    <2>2. x # i
        BY <1>1 DEF OnWay, Slots, IsTable
    <2> QED BY <2>1, <2>2 DEF Sound, Unique
<1> HIDE DEF key
<1>4. Probe(t, key) = i
    BY ONLY <1>1, <1>2, <1>3, ProbeUnique
<1> QED BY <1>4 DEF key

\* Otherwise it finds an empty slot.
LEMMA NotFound ==
    ASSUME NEW t, Sound(t), NEW key \in Names, \A i \in Occupied(t) : t.entries[i].key # key
    PROVE  /\ Probe(t, key) \in Slots(t) /\ t.entries[Probe(t, key)] = NULL
           /\ Full(t, key, Probe(t, key))
BY ProbeEnds, SoundFacts DEF Ending, Full, Occupied

\* ht_get returns the value of the entry with the key, or NULL.
LEMMA GetIs ==
    ASSUME NEW t, Sound(t), NEW key \in Names
    PROVE  /\ \A e \in Entries(t) : e \in Entry /\ (e.key = key => ht_get(t, key) = e.value)
           /\ (\A e \in Entries(t) : e.key # key) => ht_get(t, key) = NULL
           /\ ht_get(t, key) \in Variable \cup {NULL}
           /\ ht_get(t, key) # NULL => [key |-> key, value |-> ht_get(t, key)] \in Entries(t)
<1>1. \A e : e \in Entries(t) <=> \E i \in Occupied(t) : e = t.entries[i]
    BY DEF Entries, Occupied
<1>2. \A e \in Entries(t) : e \in Entry
    BY <1>1, SoundFacts
<1>3. ASSUME NEW i \in Occupied(t), t.entries[i].key = key
      PROVE  ht_get(t, key) = t.entries[i].value /\ ht_get(t, key) \in Variable
    <2>1. Probe(t, key) = i /\ t.entries[i] # NULL
        BY <1>3, Found DEF Occupied
    <2> QED BY <2>1, SoundFacts DEF ht_get
<1>4. ASSUME \A i \in Occupied(t) : t.entries[i].key # key
      PROVE  ht_get(t, key) = NULL
    BY <1>4, NotFound DEF ht_get
<1>5. ASSUME NEW i \in Occupied(t), t.entries[i].key = key
      PROVE  [key |-> key, value |-> ht_get(t, key)] = t.entries[i]
    <2>1. t.entries[i] \in Entry /\ ht_get(t, key) = t.entries[i].value
        BY <1>3, <1>5, SoundFacts
    <2> QED BY <1>5, <2>1 DEF Entry
<1>6. NULL \notin Variable
    BY NullAssumption
<1>7. \A e \in Entries(t) : e.key = key => ht_get(t, key) = e.value
    BY <1>1, <1>3
<1>8. (\A e \in Entries(t) : e.key # key) => ht_get(t, key) = NULL
    BY <1>1, <1>4
<1>9. ht_get(t, key) \in Variable \cup {NULL}
    BY <1>3, <1>4
<1>10. ht_get(t, key) # NULL => [key |-> key, value |-> ht_get(t, key)] \in Entries(t)
    BY <1>1, <1>4, <1>5
<1> QED BY <1>2, <1>7, <1>8, <1>9, <1>10

-----------------------------------------------------------------------------
(* Insertion.                                                              *)

\* One slot of the array changes.
Stored(t, i, e, n) == [t EXCEPT !.entries = [t.entries EXCEPT ![i] = e], !.count = n]

LEMMA StoredIs ==
    ASSUME NEW t, IsTable(t), NEW i \in Slots(t), NEW e \in Entry \cup {NULL}, NEW n \in Nat
    PROVE  LET u == Stored(t, i, e, n) IN
           /\ IsTable(u) /\ Slots(u) = Slots(t) /\ u.capacity = t.capacity /\ u.count = n
           /\ u.entries[i] = e /\ \A x \in Slots(t) : x # i => u.entries[x] = t.entries[x]
           /\ \A key : Natural(u, key) = Natural(t, key)
<1> DEFINE u == Stored(t, i, e, n)
           a == [t.entries EXCEPT ![i] = e]
           Tables == [capacity : Nat \ {0}, entries : Arrays, count : Nat]
<1>1. /\ a \in [Slots(t) -> Entry \cup {NULL}]
      /\ a[i] = e /\ \A x \in Slots(t) : x # i => a[x] = t.entries[x]
    BY DEF IsTable
<1>2. a \in Arrays
    <2>1. t.capacity \in Nat /\ Slots(t) = 0 .. t.capacity - 1
        BY DEF IsTable, Slots
    <2> HIDE DEF a
    <2> QED BY <1>1, <2>1 DEF Arrays
<1>3. t \in Tables
    BY DEF IsTable
<1>5. u.capacity = t.capacity /\ u.entries = a /\ u.count = n /\ u \in Tables
    <2> HIDE DEF a
    <2> QED BY <1>2, <1>3 DEF Stored, a
<1>6. Slots(u) = Slots(t)
    BY <1>5 DEF Slots
<1> HIDE DEF a, u
<1> QED BY <1>1, <1>5, <1>6 DEF IsTable, Natural, u

\* The assignment as Insert has it.
Assigned(t, i, e, n) == [t EXCEPT !.entries[i] = e, !.count = n]

LEMMA StoredBy ==
    ASSUME NEW t, IsTable(t), NEW i \in Slots(t), NEW e \in Entry \cup {NULL}, NEW n \in Nat
    PROVE  Assigned(t, i, e, n) = Stored(t, i, e, n)
<1> DEFINE a == [t.entries EXCEPT ![i] = e]
<1>1. a \in Arrays
    <2>1. a \in [Slots(t) -> Entry \cup {NULL}]
        BY DEF IsTable
    <2>2. t.capacity \in Nat /\ Slots(t) = 0 .. t.capacity - 1
        BY DEF IsTable, Slots
    <2> HIDE DEF a
    <2> QED BY <2>1, <2>2 DEF Arrays
<1>2. t \in [capacity : Nat \ {0}, entries : Arrays, count : Nat]
    BY DEF IsTable
<1> QED BY <1>1, <1>2 DEF Stored, Assigned

\* A new value for an entry.
LEMMA ReplaceOK ==
    ASSUME NEW t, Sound(t), NEW i \in Occupied(t), NEW v \in Variable
    PROVE  LET key == t.entries[i].key
               u   == Stored(t, i, [key |-> key, value |-> v], t.count)
           IN  /\ Sound(u) /\ u.capacity = t.capacity /\ u.count = t.count
               /\ \A e : e \in Entries(u) <=> \/ e = [key |-> key, value |-> v]
                                              \/ e \in Entries(t) /\ e.key # key
<1> DEFINE key == t.entries[i].key
           new == [key |-> key, value |-> v]
           u   == Stored(t, i, new, t.count)
<1>1. IsTable(t) /\ i \in Slots(t) /\ key \in Names /\ t.count \in Nat
    BY SoundFacts DEF IsTable
<1>2. new \in Entry /\ new \in Entry \cup {NULL} /\ new # NULL /\ new.key = key
    BY <1>1, EntryAssumption DEF Entry
<1> HIDE DEF new
<1>3. /\ IsTable(u) /\ Slots(u) = Slots(t) /\ u.capacity = t.capacity /\ u.count = t.count
      /\ u.entries[i] = new /\ \A x \in Slots(t) : x # i => u.entries[x] = t.entries[x]
      /\ \A k : Natural(u, k) = Natural(t, k)
    BY ONLY <1>1, <1>2, StoredIs
<1> HIDE DEF u
<1>4. Occupied(u) = Occupied(t) /\ \A x \in Occupied(t) : u.entries[x].key = t.entries[x].key
    BY <1>1, <1>2, <1>3 DEF Occupied
<1>5. \A x \in Slots(t) : u.entries[x] = NULL <=> t.entries[x] = NULL
    BY <1>2, <1>3 DEF Occupied
<1>6. \A x \in Occupied(u) : Full(u, u.entries[x].key, x)
    BY <1>3, <1>4, <1>5 DEF Full, Sound
<1>7. Sound(u)
    BY <1>3, <1>4, <1>6 DEF Sound, Unique
<1>8. \A x \in Occupied(t) : x # i => t.entries[x].key # key
    BY DEF Sound, Unique
<1>9. \A e : e \in Entries(u) <=> e = new \/ (e \in Entries(t) /\ e.key # key)
    <2>1. \A e : e \in Entries(u) <=> \E x \in Occupied(u) : e = u.entries[x]
        BY DEF Entries, Occupied
    <2>2. \A e : e \in Entries(t) <=> \E x \in Occupied(t) : e = t.entries[x]
        BY DEF Entries, Occupied
    <2>3. \A x \in Occupied(t) : x # i => u.entries[x] = t.entries[x]
        BY <1>3, SoundFacts
    <2> HIDE DEF key
    <2> QED BY <2>1, <2>2, <2>3, <1>3, <1>4, <1>8 DEF key
<1> QED BY <1>3, <1>7, <1>9 DEF u, new

\* The entries are those of the occupied slots.
LEMMA EntriesAre ==
    ASSUME NEW t
    PROVE  \A e : e \in Entries(t) <=> \E x \in Occupied(t) : e = t.entries[x]
BY DEF Entries, Occupied

\* A new entry in the empty slot where the search for its key ends.
LEMMA FillOK ==
    ASSUME NEW t, Sound(t), t.count + 1 < t.capacity, NEW i \in Slots(t), t.entries[i] = NULL,
           NEW new \in Entry, \A x \in Occupied(t) : t.entries[x].key # new.key,
           Full(t, new.key, i)
    PROVE  LET u == Stored(t, i, new, t.count + 1)
           IN  /\ Sound(u) /\ u.capacity = t.capacity /\ u.count = t.count + 1
               /\ \A e : e \in Entries(u) <=> e = new \/ e \in Entries(t)
<1> DEFINE u == Stored(t, i, new, t.count + 1)
<1>1. /\ IsTable(t) /\ t.count \in Nat /\ t.count + 1 \in Nat /\ t.capacity \in Nat
      /\ new \in Entry \cup {NULL} /\ new # NULL
    BY SoundFacts, EntryAssumption DEF IsTable
<1>2. /\ IsTable(u) /\ Slots(u) = Slots(t) /\ u.capacity = t.capacity /\ u.count = t.count + 1
      /\ u.entries[i] = new /\ \A x \in Slots(t) : x # i => u.entries[x] = t.entries[x]
      /\ \A k : Natural(u, k) = Natural(t, k)
    BY ONLY <1>1, StoredIs, i \in Slots(t)
<1> HIDE DEF u
<1>3. /\ Occupied(u) = Occupied(t) \cup {i} /\ i \notin Occupied(t)
      /\ \A x \in Occupied(t) : u.entries[x] = t.entries[x] /\ x \in Slots(t)
    BY <1>1, <1>2 DEF Occupied
<1>4. Cardinality(Occupied(u)) = Cardinality(Occupied(t)) + 1
    <2>1. IsFiniteSet(Occupied(t))
        BY <1>1, OccupiedFinite
    <2> QED BY ONLY <1>3, <2>1, FS_AddElement
<1>5. \A x \in Occupied(u) : Full(u, u.entries[x].key, x)
    <2>1. \A x \in Slots(t) : t.entries[x] # NULL => u.entries[x] # NULL
        BY <1>1, <1>2
    <2>2. \A x \in Occupied(u) : Full(t, u.entries[x].key, x)
        BY <1>2, <1>3 DEF Sound
    <2> QED BY <2>1, <2>2, <1>2 DEF Full
<1>6. Unique(u)
    <2>1. \A x \in Occupied(t) : u.entries[x].key # new.key
        BY <1>3
    <2> QED BY <2>1, <1>2, <1>3 DEF Unique, Sound
<1>7. Sound(u)
    BY <1>2, <1>4, <1>5, <1>6 DEF Sound
<1>8. \A e : e \in Entries(u) <=> e = new \/ e \in Entries(t)
    <2>1. \A e : e \in Entries(u) <=> \E x \in Occupied(u) : e = u.entries[x]
        BY EntriesAre
    <2>2. \A e : e \in Entries(t) <=> \E x \in Occupied(t) : e = t.entries[x]
        BY EntriesAre
    <2> QED BY <2>1, <2>2, <1>2, <1>3
<1> QED BY <1>2, <1>7, <1>8 DEF u

\* The entries of a table in which key has the value: of the others nothing changes.
Updated(t, u, key, value) ==
    \A e : e \in Entries(u) <=> \/ e = [key |-> key, value |-> value]
                                \/ e \in Entries(t) /\ e.key # key

\* Insert does so, if there is room or the key is there.
LEMMA InsertOK ==
    ASSUME NEW t, Sound(t), NEW key \in Names, NEW value \in Variable,
           \/ t.count + 1 < t.capacity
           \/ \E i \in Occupied(t) : t.entries[i].key = key
    PROVE  LET u == Insert(t, key, value)
           IN  /\ Sound(u) /\ Updated(t, u, key, value)
               /\ u.capacity = t.capacity /\ u.count \in {t.count, t.count + 1}
<1> DEFINE new == [key |-> key, value |-> value]
           i == Probe(t, key)
           n == IF t.entries[i] = NULL THEN t.count + 1 ELSE t.count
<1>1. IsTable(t) /\ t.count \in Nat /\ new \in Entry /\ new \in Entry \cup {NULL} /\ new.key = key
    BY SoundFacts DEF IsTable, Entry
<1>2. Insert(t, key, value) = Assigned(t, i, new, n)
    BY DEF Insert, Assigned
<1> HIDE DEF new, n, i
<1>3. ASSUME i \in Slots(t) PROVE Insert(t, key, value) = Stored(t, i, new, n)
    <2>1. n \in Nat
        BY <1>1 DEF n
    <2>2. Assigned(t, i, new, n) = Stored(t, i, new, n)
        BY ONLY <2>1, <1>1, <1>3, StoredBy
    <2> QED BY <1>2, <2>2
<1>4. CASE \E x \in Occupied(t) : t.entries[x].key = key
    <2>1. i \in Occupied(t) /\ t.entries[i].key = key /\ i \in Slots(t) /\ t.entries[i] # NULL
        BY <1>4, Found DEF i, Occupied
    <2>2. Insert(t, key, value) = Stored(t, i, new, t.count)
        BY <1>3, <2>1 DEF n
    <2>3. LET u == Stored(t, i, new, t.count)
          IN  /\ Sound(u) /\ u.capacity = t.capacity /\ u.count = t.count
              /\ \A e : e \in Entries(u) <=> e = new \/ (e \in Entries(t) /\ e.key # key)
        BY <2>1, ReplaceOK DEF new
    <2> QED BY <2>2, <2>3 DEF Updated, new
<1>5. CASE \A x \in Occupied(t) : t.entries[x].key # key
    <2>1. i \in Slots(t) /\ t.entries[i] = NULL /\ Full(t, key, i)
        BY <1>5, NotFound DEF i
    <2>2. Insert(t, key, value) = Stored(t, i, new, t.count + 1)
        BY <1>3, <2>1 DEF n
    <2>3. LET u == Stored(t, i, new, t.count + 1)
          IN  /\ Sound(u) /\ u.capacity = t.capacity /\ u.count = t.count + 1
              /\ \A e : e \in Entries(u) <=> e = new \/ e \in Entries(t)
        BY <2>1, <1>1, <1>5, FillOK
    <2>4. \A e \in Entries(t) : e.key # key
        BY <1>5, EntriesAre
    <2> QED BY <2>2, <2>3, <2>4 DEF Updated, new
<1> QED BY <1>4, <1>5

-----------------------------------------------------------------------------
(* New tables, and the loop of ht_resize.                                  *)

LEMMA NewTableOK ==
    ASSUME NEW c \in Nat \ {0}
    PROVE  LET u == NewTable(c)
           IN  Sound(u) /\ u.capacity = c /\ u.count = 0 /\ Entries(u) = {}
<1> DEFINE u == NewTable(c)
           a == [i \in 0 .. c - 1 |-> NULL]
<1>1. u = [capacity |-> c, entries |-> a, count |-> 0]
    BY DEF NewTable
<1>2. u.capacity = c /\ u.entries = a /\ u.count = 0 /\ Slots(u) = 0 .. c - 1
    BY <1>1 DEF Slots
<1>3. a \in [0 .. c - 1 -> Entry \cup {NULL}] /\ \A i \in 0 .. c - 1 : a[i] = NULL
    OBVIOUS
<1> HIDE DEF a
<1>4. a \in Arrays
    BY <1>3 DEF Arrays
<1>5. u \in [capacity : Nat \ {0}, entries : Arrays, count : Nat]
    BY <1>1, <1>4
<1> HIDE DEF u
<1>6. Occupied(u) = {}
    BY <1>2, <1>3 DEF Occupied
<1>7. Cardinality(Occupied(u)) = 0
    BY <1>6, FS_EmptySet
<1>8. Sound(u)
    BY <1>2, <1>3, <1>5, <1>6, <1>7 DEF Sound, IsTable, Unique
<1>9. Entries(u) = {}
    BY <1>6, EntriesAre
<1> QED BY <1>2, <1>8, <1>9 DEF u

\* f holds the new table after each of the first m turns of the loop.
ResizeLoop(t, f, m) ==
    f = [i \in 0 .. m |-> IF i = 0 THEN NewTable(2 * t.capacity)
                          ELSE Carry(f[i - 1], t.entries[i - 1])]

LEMMA ResizeLoopExists ==
    ASSUME NEW t, NEW n \in Nat
    PROVE  \E f : ResizeLoop(t, f, n)
<1> DEFINE Bad == {m \in Nat : ~ \E f : ResizeLoop(t, f, m)}
<1> SUFFICES ASSUME Bad # {} PROVE FALSE
    OBVIOUS
<1>1. PICK m \in Bad : \A l \in Bad : m <= l
    <2>1. Bad \in SUBSET Nat
        OBVIOUS
    <2> HIDE DEF Bad
    <2> QED BY <2>1, Least
<1>2. CASE m = 0
    <2> DEFINE f == [i \in 0 .. 0 |-> NewTable(2 * t.capacity)]
    <2>1. ResizeLoop(t, f, 0)
        BY DEF ResizeLoop
    <2> QED BY <1>2, <2>1
<1>3. CASE m # 0
    <2>1. m \in Nat /\ m - 1 \in Nat /\ m - 1 \notin Bad
        BY <1>1, <1>3
    <2>2. PICK f : ResizeLoop(t, f, m - 1)
        BY <2>1
    <2> DEFINE g == [i \in 0 .. m |-> IF i = m THEN Carry(f[m - 1], t.entries[m - 1]) ELSE f[i]]
    <2>3. \A i \in 0 .. m - 1 : f[i] = IF i = 0 THEN NewTable(2 * t.capacity)
                                       ELSE Carry(f[i - 1], t.entries[i - 1])
        BY <2>2 DEF ResizeLoop
    <2>4. \A i \in 0 .. m : g[i] = IF i = 0 THEN NewTable(2 * t.capacity)
                                   ELSE Carry(g[i - 1], t.entries[i - 1])
        <3> SUFFICES ASSUME NEW i \in 0 .. m
                     PROVE  g[i] = IF i = 0 THEN NewTable(2 * t.capacity)
                                   ELSE Carry(g[i - 1], t.entries[i - 1])
            OBVIOUS
        <3>1. i # 0 => i - 1 \in 0 .. m /\ g[i - 1] = f[i - 1]
            BY <2>1
        <3>2. CASE i = m
            BY <1>3, <3>1, <3>2
        <3>3. CASE i # m
            BY <2>1, <2>3, <3>1, <3>3
        <3> QED BY <3>2, <3>3
    <2>5. ResizeLoop(t, g, m)
        BY <2>4 DEF ResizeLoop
    <2> QED BY <2>1, <2>5, <1>1
<1> QED BY <1>2, <1>3

\* The new table u has the entries of the first m slots.
Carried(t, u, m) ==
    /\ Sound(u) /\ u.capacity = 2 * t.capacity /\ u.count <= m
    /\ \A e : e \in Entries(u) <=> \E x \in Occupied(t) : x < m /\ e = t.entries[x]

LEMMA CarryOK ==
    ASSUME NEW t, Sound(t), NEW m \in Slots(t), NEW u, Carried(t, u, m)
    PROVE  Carried(t, Carry(u, t.entries[m]), m + 1)
<1>1. IsTable(t) /\ t.capacity \in Nat /\ m \in Nat /\ m < t.capacity
    BY SoundFacts DEF IsTable, Slots
<1>2. u.count \in Nat
    BY SoundFacts DEF Carried, IsTable
<1>3. \A x \in Occupied(t) : x \in Nat
    BY <1>1 DEF Occupied, Slots
<1>4. CASE t.entries[m] = NULL
    <2>1. \A x \in Occupied(t) : x < m + 1 <=> x < m
        BY <1>1, <1>3, <1>4 DEF Occupied
    <2>2. Carry(u, t.entries[m]) = u
        BY <1>4 DEF Carry
    <2>3. u.count <= m + 1
        BY <1>1, <1>2 DEF Carried
    <2> QED BY <2>1, <2>2, <2>3 DEF Carried
<1>5. CASE t.entries[m] # NULL
    <2> DEFINE e == t.entries[m]
               v == Insert(u, e.key, e.value)
    <2>1. m \in Occupied(t) /\ e \in Entry /\ e.key \in Names /\ e.value \in Variable
        BY <1>5, SoundFacts DEF Occupied
    <2>2. e = [key |-> e.key, value |-> e.value]
        BY <2>1 DEF Entry
    <2>3. u.count + 1 < u.capacity
        BY <1>1, <1>2 DEF Carried
    <2>4. Carry(u, e) = v
        BY <1>5 DEF Carry
    <2> HIDE DEF e
    <2>5. /\ Sound(v) /\ Updated(u, v, e.key, e.value)
          /\ v.capacity = u.capacity /\ v.count \in {u.count, u.count + 1}
        <3>1. Sound(u)
            BY DEF Carried
        <3> QED BY ONLY <3>1, <2>1, <2>3, InsertOK
    <2> HIDE DEF v
    <2>6. v.count <= m + 1
        <3>1. u.count <= m
            BY DEF Carried
        <3> QED BY <3>1, <2>5, <1>1, <1>2
    <2>7. \A f : f \in Entries(v) <=> \E x \in Occupied(t) : x < m + 1 /\ f = t.entries[x]
        <3>1. \A x \in Occupied(t) : x < m => t.entries[x].key # e.key
            BY <1>1, <1>3, <2>1 DEF Sound, Unique, e
        <3>2. \A f : f \in Entries(v) <=> f = e \/ (f \in Entries(u) /\ f.key # e.key)
            BY <2>2, <2>5 DEF Updated
        <3>3. \A f : f \in Entries(u) <=> \E x \in Occupied(t) : x < m /\ f = t.entries[x]
            BY DEF Carried
        <3>4. \A f : f \in Entries(u) => f.key # e.key
            BY <3>1, <3>3
        <3>5. \A x \in Occupied(t) : x < m + 1 <=> (x < m \/ x = m)
            BY <1>1, <1>3
        <3> QED BY <3>2, <3>3, <3>4, <3>5, <2>1 DEF e
    <2>8. Carried(t, v, m + 1)
        BY <2>5, <2>6, <2>7 DEF Carried
    <2> QED BY <2>4, <2>8 DEF e
<1> QED BY <1>4, <1>5

\* ht_resize keeps every entry, in a sound table of twice the capacity.
LEMMA ResizeOK ==
    ASSUME NEW t, Sound(t)
    PROVE  LET u == ht_resize(t)
           IN  /\ Sound(u) /\ u.capacity = 2 * t.capacity /\ u.count <= t.capacity
               /\ Entries(u) = Entries(t)
<1> DEFINE c == t.capacity
           f == CHOOSE g : ResizeLoop(t, g, c)
           Bad == {m \in 0 .. c : ~Carried(t, f[m], m)}
<1>1. c \in Nat \ {0} /\ Slots(t) = 0 .. c - 1
    BY SoundFacts DEF IsTable, Slots
<1>2. ht_resize(t) = f[c]
    BY DEF ht_resize, ResizeLoop
<1>3. ResizeLoop(t, f, c)
    BY <1>1, ResizeLoopExists
<1> HIDE DEF f
<1>4. \A m \in 0 .. c : f[m] = IF m = 0 THEN NewTable(2 * c) ELSE Carry(f[m - 1], t.entries[m - 1])
    BY <1>3 DEF ResizeLoop
<1>5. Bad = {}
    <2> SUFFICES ASSUME Bad # {} PROVE FALSE
        OBVIOUS
    <2>1. PICK m \in Bad : \A l \in Bad : m <= l
        <3>1. Bad \in SUBSET Nat
            BY <1>1
        <3> HIDE DEF Bad
        <3> QED BY <3>1, Least
    <2>2. CASE m = 0
        <3> DEFINE u == NewTable(2 * c)
        <3>1. Sound(u) /\ u.capacity = 2 * c /\ u.count = 0 /\ Entries(u) = {}
            BY <1>1, NewTableOK
        <3>2. \A x \in Occupied(t) : ~(x < 0)
            BY <1>1 DEF Occupied
        <3> HIDE DEF u
        <3>3. Carried(t, u, 0)
            BY <3>1, <3>2 DEF Carried
        <3>4. f[0] = u
            BY <1>1, <1>4 DEF u
        <3> QED BY <2>1, <2>2, <3>3, <3>4
    <2>3. CASE m # 0
        <3>1. m - 1 \in Slots(t) /\ m - 1 \notin Bad /\ m - 1 \in 0 .. c /\ m \in 0 .. c
            BY <1>1, <2>1, <2>3
        <3>2. Carried(t, Carry(f[m - 1], t.entries[m - 1]), (m - 1) + 1)
            BY <3>1, CarryOK
        <3>3. f[m] = Carry(f[m - 1], t.entries[m - 1]) /\ (m - 1) + 1 = m
            BY <1>1, <1>4, <2>3, <3>1
        <3> QED BY <2>1, <3>2, <3>3
    <2> QED BY <2>2, <2>3
<1>6. Carried(t, f[c], c)
    BY <1>1, <1>5
<1>7. \A x \in Occupied(t) : x < c
    BY <1>1 DEF Occupied
<1>8. \A e : e \in Entries(f[c]) <=> e \in Entries(t)
    BY <1>6, <1>7, EntriesAre DEF Carried
<1>9. Entries(f[c]) = Entries(t)
    BY <1>8
<1> QED BY <1>2, <1>6, <1>9 DEF Carried

\* ht_set gives the key its value, in a sound table.
LEMMA SetOK ==
    ASSUME NEW t, Sound(t), t.capacity >= 4, NEW key \in Names, NEW value \in Variable
    PROVE  LET u == ht_set(t, key, value)
           IN  Sound(u) /\ Updated(t, u, key, value) /\ u.capacity >= t.capacity
<1>1. t.capacity \in Nat /\ t.count \in Nat
    BY SoundFacts DEF IsTable
<1>2. CASE Loaded(t)
    <2> DEFINE r == ht_resize(t)
               u == Insert(r, key, value)
    <2>1. Sound(r) /\ r.capacity = 2 * t.capacity /\ r.count <= t.capacity /\ Entries(r) = Entries(t)
        BY ResizeOK
    <2>2. ht_set(t, key, value) = u
        BY <1>2 DEF ht_set
    <2> HIDE DEF r
    <2>3. r.count \in Nat /\ r.count + 1 < r.capacity
        <3>1. r.count \in Nat
            BY <2>1, SoundFacts DEF IsTable
        <3> QED BY <1>1, <2>1, <3>1
    <2>4. Sound(u) /\ Updated(r, u, key, value) /\ u.capacity = r.capacity
        BY <2>1, <2>3, InsertOK
    <2>5. Updated(t, u, key, value)
        BY <2>1, <2>4 DEF Updated
    <2> HIDE DEF u
    <2> QED BY <1>1, <2>1, <2>2, <2>4, <2>5
<1>3. CASE ~Loaded(t)
    <2> DEFINE u == Insert(t, key, value)
    <2>1. t.count + 1 < t.capacity
        BY <1>1, <1>3 DEF Loaded, HT_LOAD_FACTOR_NUM, HT_LOAD_FACTOR_DEN
    <2>2. ht_set(t, key, value) = u
        BY <1>3 DEF ht_set
    <2>3. Sound(u) /\ Updated(t, u, key, value) /\ u.capacity = t.capacity
        BY <2>1, InsertOK
    <2> HIDE DEF u
    <2> QED BY <1>1, <2>2, <2>3
<1> QED BY <1>2, <1>3

-----------------------------------------------------------------------------
(* The loop of the deletion.                                               *)

\* How many slots after the slot p of a ring of c slots the slot x is.
Gap(c, p, x) == IF x >= p THEN x - p ELSE x - p + c

LEMMA GapIs ==
    ASSUME NEW c \in Nat \ {0}, NEW p \in 0 .. c - 1
    PROVE  /\ \A x \in 0 .. c - 1 : Gap(c, p, x) \in 0 .. c - 1 /\ After(c, p, Gap(c, p, x)) = x
           /\ \A d \in 0 .. c - 1 : After(c, p, d) \in 0 .. c - 1 /\ Gap(c, p, After(c, p, d)) = d
           /\ \A x \in 0 .. c - 1 : Gap(c, p, x) = 0 <=> x = p
           /\ \A d \in 0 .. c : (p + d) % c = After(c, p, d)
<1>1. p % c = p
    <2>1. Splits(p, c, p \div c, p % c)
        BY DEF Splits
    <2>2. Splits(p, c, 0, p)
        BY DEF Splits
    <2> QED BY <2>1, <2>2, RemainderIs
<1>2. \A d \in 0 .. c : (p + d) % c = After(c, p, d)
    <2>1. p \in Nat
        OBVIOUS
    <2> QED BY <1>1, <2>1, ModIs
<1>3. /\ \A x \in 0 .. c - 1 : Gap(c, p, x) \in 0 .. c - 1 /\ After(c, p, Gap(c, p, x)) = x
      /\ \A d \in 0 .. c - 1 : After(c, p, d) \in 0 .. c - 1 /\ Gap(c, p, After(c, p, d)) = d
      /\ \A x \in 0 .. c - 1 : Gap(c, p, x) = 0 <=> x = p
    BY DEF Gap, After
<1> QED BY <1>2, <1>3

\* Different slots have different gaps.
LEMMA GapInjective ==
    ASSUME NEW c \in Nat \ {0}, NEW p \in 0 .. c - 1, NEW x \in 0 .. c - 1, NEW y \in 0 .. c - 1,
           Gap(c, p, x) = Gap(c, p, y)
    PROVE  x = y
BY DEF Gap

\* The test of the code: the hole is on the way of the entry at scan.
LEMMA ShiftIs ==
    ASSUME NEW a \in Int, NEW h \in Int, NEW b \in Int, h # b
    PROVE  Shift(a, h, b) <=> OnWay(a, h, b)
BY DEF Shift, OnWay

\* An entry that moves back along its way has less way.
LEMMA WayShrinks ==
    ASSUME NEW a \in Int, NEW h \in Int, NEW b \in Int, NEW y \in Int,
           OnWay(a, h, b), OnWay(a, y, h)
    PROVE  OnWay(a, y, b) /\ y # b
BY DEF OnWay

\* A way from behind the run that comes by a slot of it comes by its end, too.
LEMMA WayEnds ==
    ASSUME NEW c \in Nat \ {0}, NEW p \in 0 .. c - 1, NEW a \in 0 .. c - 1,
           NEW x \in 0 .. c - 1, NEW y \in 0 .. c - 1, NEW z \in 0 .. c - 1,
           Gap(c, p, y) < Gap(c, p, z), x # z,
           Gap(c, p, x) < Gap(c, p, y) \/ Gap(c, p, x) >= Gap(c, p, z),
           OnWay(a, y, x)
    PROVE  OnWay(a, z, x)
BY DEF OnWay, Gap

\* The run behind an occupied slot ends before an empty one.
LEMMA RunIs ==
    ASSUME NEW t, Sound(t), NEW p \in Occupied(t)
    PROVE  LET c == t.capacity IN
           /\ Run(t, p) \in 0 .. c - 2
           /\ \A x \in Slots(t) : Gap(c, p, x) <= Run(t, p) => t.entries[x] # NULL
           /\ \E z \in Slots(t) : Gap(c, p, z) = Run(t, p) + 1 /\ t.entries[z] = NULL
<1> DEFINE c == t.capacity
           E == t.entries
           First(d) == /\ E[(p + d) % c] = NULL
                       /\ \A b \in 1 .. d - 1 : E[(p + b) % c] # NULL
           first == CHOOSE d \in 1 .. c : First(d)
           D == {d \in 1 .. c : E[(p + d) % c] = NULL}
<1>1. c \in Nat \ {0} /\ p \in 0 .. c - 1 /\ Slots(t) = 0 .. c - 1 /\ E[p] # NULL
    BY SoundFacts DEF IsTable, Slots, Occupied
<1>2. /\ \A x \in 0 .. c - 1 : Gap(c, p, x) \in 0 .. c - 1 /\ After(c, p, Gap(c, p, x)) = x
      /\ \A d \in 0 .. c - 1 : After(c, p, d) \in 0 .. c - 1 /\ Gap(c, p, After(c, p, d)) = d
      /\ \A x \in 0 .. c - 1 : Gap(c, p, x) = 0 <=> x = p
      /\ \A d \in 0 .. c : (p + d) % c = After(c, p, d)
    BY <1>1, GapIs
<1>3. Run(t, p) = first - 1
    BY DEF Run
<1>4. D \in SUBSET Nat /\ D # {}
    <2>1. PICK i \in Slots(t) : E[i] = NULL
        BY SoundFacts
    <2>2. Gap(c, p, i) \in 1 .. c /\ Gap(c, p, i) \in 0 .. c
        <3>1. i # p /\ i \in 0 .. c - 1
            BY <1>1, <2>1
        <3> QED BY ONLY <1>1, <3>1 DEF Gap
    <2>3. E[(p + Gap(c, p, i)) % c] = NULL
        BY <1>1, <1>2, <2>1, <2>2
    <2> QED BY <2>2, <2>3
<1>5. \E d \in 1 .. c : First(d)
    <2>1. PICK d \in D : \A b \in D : d <= b
        <3> HIDE DEF D
        <3> QED BY <1>4, Least
    <2>2. \A b \in 1 .. d - 1 : b \in 1 .. c /\ ~(d <= b)
        BY <1>1, <2>1
    <2> QED BY <2>1, <2>2
<1>6. first \in 1 .. c /\ First(first)
    <2> HIDE DEF First
    <2> QED BY <1>5
<1> HIDE DEF first
<1>7. first # c
    <2>1. After(c, p, c) = p
        BY <1>1 DEF After
    <2>2. c \in 0 .. c
        BY <1>1
    <2> QED BY <1>1, <1>2, <1>6, <2>1, <2>2
<1>8. first \in 1 .. c - 1
    BY <1>1, <1>6, <1>7
<1>9. \A x \in Slots(t) : Gap(c, p, x) <= first - 1 => E[x] # NULL
    <2> SUFFICES ASSUME NEW x \in Slots(t), Gap(c, p, x) <= first - 1 PROVE E[x] # NULL
        OBVIOUS
    <2>1. CASE x = p
        BY <1>1, <2>1
    <2>2. CASE x # p
        <3>1. Gap(c, p, x) \in 1 .. first - 1 /\ Gap(c, p, x) \in 0 .. c
            <4>1. Gap(c, p, x) \in 1 .. c - 1
                BY ONLY <1>1, <2>2, x \in Slots(t) DEF Gap
            <4> QED BY <1>1, <1>8, <4>1
        <3>2. (p + Gap(c, p, x)) % c = x
            BY <1>1, <1>2, <3>1
        <3> QED BY <1>6, <3>1, <3>2
    <2> QED BY <2>1, <2>2
<1>10. \E z \in Slots(t) : Gap(c, p, z) = (first - 1) + 1 /\ E[z] = NULL
    <2>1. first \in 0 .. c /\ first \in 0 .. c - 1 /\ (first - 1) + 1 = first
        BY <1>1, <1>8
    <2>2. After(c, p, first) \in Slots(t) /\ Gap(c, p, After(c, p, first)) = first
        BY <1>1, <1>2, <2>1
    <2>3. E[After(c, p, first)] = NULL
        BY <1>2, <1>6, <2>1
    <2> QED BY <2>1, <2>2, <2>3
<1>11. first - 1 \in 0 .. c - 2
    BY <1>1, <1>8
<1> QED BY <1>3, <1>9, <1>10, <1>11

\* After d turns of the loop that empties the slot p: the hole is in the run,
\* the entries but the deleted one are outside of the hole, each with a way of
\* occupied slots, and the hole is on none of those that were looked at.
Shifted(t, p, d, s) ==
    LET c == t.capacity
        L == Occupied(t) \ {s.hole}
    IN  /\ s.hole \in Occupied(t) /\ Gap(c, p, s.hole) <= d
        /\ s.entries \in [Slots(t) -> Entry \cup {NULL}]
        /\ \A x \in Slots(t) : s.entries[x] = NULL <=> t.entries[x] = NULL
        /\ \A x \in Slots(t) : Gap(c, p, x) > d => s.entries[x] = t.entries[x]
        /\ \A e : (\E x \in L : e = s.entries[x]) <=> (\E x \in Occupied(t) : x # p /\ e = t.entries[x])
        /\ \A x, y \in L : s.entries[x].key = s.entries[y].key => x = y
        /\ \A x \in L : \A y \in Slots(t) :
               OnWay(Natural(t, s.entries[x].key), y, x) =>
                   /\ t.entries[y] # NULL
                   /\ Gap(c, p, x) <= d \/ Gap(c, p, x) > Run(t, p) => y # s.hole

\* No entry behind the run has a way by a slot of the run.
LEMMA BehindRun ==
    ASSUME NEW t, Sound(t), NEW p \in Occupied(t), NEW d \in 0 .. Run(t, p),
           NEW y \in Slots(t), Gap(t.capacity, p, y) = d,
           NEW x \in Occupied(t),
           Gap(t.capacity, p, x) < d \/ Gap(t.capacity, p, x) > Run(t, p),
           NEW key \in Names, Full(t, key, x)
    PROVE  ~OnWay(Natural(t, key), y, x)
<1> DEFINE c == t.capacity
           a == Natural(t, key)
<1>1. c \in Nat \ {0} /\ Slots(t) = 0 .. c - 1 /\ p \in 0 .. c - 1 /\ a \in 0 .. c - 1
    BY SoundFacts, NaturalIs DEF IsTable, Slots, Occupied
<1>2. Run(t, p) \in 0 .. c - 2
    BY RunIs
<1>3. PICK z \in Slots(t) : Gap(c, p, z) = Run(t, p) + 1 /\ t.entries[z] = NULL
    BY RunIs
<1>4. x \in Slots(t) /\ x # z
    BY <1>3 DEF Occupied
<1>5. Gap(c, p, x) \in Int
    BY <1>1, <1>4 DEF Gap
<1>6. Gap(c, p, y) < Gap(c, p, z) /\ (Gap(c, p, x) < Gap(c, p, y) \/ Gap(c, p, x) >= Gap(c, p, z))
    BY <1>2, <1>3, <1>5
<1>7. OnWay(a, y, x) => OnWay(a, z, x)
    BY <1>1, <1>3, <1>4, <1>6, WayEnds
<1> QED BY <1>3, <1>7 DEF Full

\* The loop begins with the hole at the deleted entry.
LEMMA ShiftedFirst ==
    ASSUME NEW t, Sound(t), NEW p \in Occupied(t)
    PROVE  Shifted(t, p, 0, [entries |-> t.entries, hole |-> p])
<1> DEFINE c == t.capacity
           s == [entries |-> t.entries, hole |-> p]
<1>1. s.entries = t.entries /\ s.hole = p
    OBVIOUS
<1> HIDE DEF s
<1>2. c \in Nat \ {0} /\ Slots(t) = 0 .. c - 1 /\ p \in 0 .. c - 1
    BY SoundFacts DEF IsTable, Slots, Occupied
<1>3. t.entries \in [Slots(t) -> Entry \cup {NULL}]
    BY SoundFacts DEF IsTable
<1>4. Gap(c, p, p) = 0 /\ 0 \in 0 .. Run(t, p)
    <2>1. Run(t, p) \in 0 .. c - 2
        BY RunIs
    <2> QED BY <1>2, <2>1 DEF Gap
<1>5. ASSUME NEW x \in Occupied(t) \ {p}, NEW y \in Slots(t),
             OnWay(Natural(t, t.entries[x].key), y, x)
      PROVE  /\ t.entries[y] # NULL
             /\ Gap(c, p, x) <= 0 \/ Gap(c, p, x) > Run(t, p) => y # p
    <2>1. Full(t, t.entries[x].key, x) /\ t.entries[x].key \in Names
        BY SoundFacts DEF Sound
    <2>2. t.entries[y] # NULL
        BY <1>5, <2>1 DEF Full
    <2>3. ASSUME Gap(c, p, x) <= 0 \/ Gap(c, p, x) > Run(t, p)
          PROVE  y # p
        <3>1. x \in 0 .. c - 1 /\ x # p
            BY <1>2 DEF Occupied
        <3>2. ~(Gap(c, p, x) <= 0)
            BY ONLY <1>2, <3>1 DEF Gap
        <3>3. ~OnWay(Natural(t, t.entries[x].key), p, x)
            <4>1. x \in Occupied(t) /\ p \in Slots(t)
                BY <1>2
            <4>2. Gap(c, p, x) > Run(t, p)
                BY <2>3, <3>2
            <4> QED BY ONLY <1>4, <2>1, <4>1, <4>2, BehindRun, Sound(t), p \in Occupied(t)
        <3> QED BY <1>5, <3>3
    <2> QED BY <2>2, <2>3
<1>6. \A x, y \in Occupied(t) : t.entries[x].key = t.entries[y].key => x = y
    BY DEF Sound, Unique
<1> QED BY <1>1, <1>3, <1>4, <1>5, <1>6 DEF Shifted, s

\* A turn moves the entry at scan, or passes it.
LEMMA MoveOK ==
    ASSUME NEW t, Sound(t), NEW p \in Occupied(t), NEW d \in 1 .. Run(t, p),
           NEW s, Shifted(t, p, d - 1, s)
    PROVE  Shifted(t, p, d, Move(t, s, After(t.capacity, p, d)))
<1> DEFINE c == t.capacity
           scan == After(c, p, d)
           ne == s.entries[scan]
           h == s.hole
           a == Natural(t, ne.key)
           L == Occupied(t) \ {h}
           R == Run(t, p)
<1>1. c \in Nat \ {0} /\ Slots(t) = 0 .. c - 1 /\ p \in 0 .. c - 1 /\ IsTable(t)
    BY SoundFacts DEF IsTable, Slots, Occupied
<1>2. R \in 0 .. c - 2 /\ d \in 0 .. c - 1 /\ d \in 1 .. R /\ d \in 0 .. R
    BY <1>1, RunIs
<1>3. scan \in Slots(t) /\ Gap(c, p, scan) = d
    BY ONLY <1>1, <1>2 DEF After, Gap
<1>4. h \in Occupied(t) /\ h \in Slots(t) /\ Gap(c, p, h) <= d - 1
    BY DEF Shifted, Occupied
<1>5. \A x \in Slots(t) : Gap(c, p, x) \in Int
    BY <1>1 DEF Gap
<1>6. /\ s.entries \in [Slots(t) -> Entry \cup {NULL}]
      /\ \A x \in Slots(t) : s.entries[x] = NULL <=> t.entries[x] = NULL
      /\ \A x \in Slots(t) : Gap(c, p, x) > d - 1 => s.entries[x] = t.entries[x]
      /\ \A x, y \in L : s.entries[x].key = s.entries[y].key => x = y
    BY DEF Shifted
<1>7. \A e : (\E x \in L : e = s.entries[x]) <=> (\E x \in Occupied(t) : x # p /\ e = t.entries[x])
    BY DEF Shifted
<1>8. \A x \in L : \A y \in Slots(t) :
          OnWay(Natural(t, s.entries[x].key), y, x) =>
              /\ t.entries[y] # NULL
              /\ Gap(c, p, x) <= d - 1 \/ Gap(c, p, x) > R => y # h
    BY DEF Shifted
<1>9. scan # h /\ scan \in L /\ scan \in Occupied(t)
    <2>1. scan # h
        BY <1>2, <1>3, <1>4, <1>5
    <2>2. t.entries[scan] # NULL
        BY <1>2, <1>3, RunIs
    <2> QED BY <1>3, <2>1, <2>2 DEF Occupied
<1>10. \A x \in L : s.entries[x] \in Entry /\ s.entries[x].key \in Names /\ x \in Slots(t)
    BY <1>6 DEF Occupied, Entry
<1>11. ne # NULL /\ ne \in Entry /\ ne.key \in Names /\ a \in Slots(t)
    <2>1. ne # NULL /\ ne \in Entry /\ ne.key \in Names
        BY <1>6, <1>9, <1>10 DEF Occupied
    <2> HIDE DEF ne
    <2> QED BY <1>1, <2>1, NaturalIs
<1>12. Shift(a, h, scan) <=> OnWay(a, h, scan)
    BY <1>1, <1>3, <1>4, <1>9, <1>11, ShiftIs
<1> HIDE DEF scan, ne, a, h, R
<1>13. CASE ~Shift(a, h, scan)
    <2>1. Move(t, s, scan) = s
        BY <1>13 DEF Move, a, ne, h
    <2>2. \A x \in Slots(t) : Gap(c, p, x) > d => s.entries[x] = t.entries[x]
        BY <1>2, <1>5, <1>6
    <2>3. ASSUME NEW x \in L, NEW y \in Slots(t), OnWay(Natural(t, s.entries[x].key), y, x)
          PROVE  /\ t.entries[y] # NULL
                 /\ Gap(c, p, x) <= d \/ Gap(c, p, x) > R => y # h
        <3>1. t.entries[y] # NULL
            BY <1>8, <2>3
        <3>2. CASE Gap(c, p, x) = d
            <4>1. x = scan
                BY <1>1, <1>3, <1>10, <3>2, GapInjective
            <4> QED BY <1>12, <1>13, <2>3, <3>1, <4>1 DEF a, ne
        <3>3. CASE Gap(c, p, x) # d
            <4>1. Gap(c, p, x) <= d => Gap(c, p, x) <= d - 1
                BY <1>2, <1>5, <1>10, <3>3
            <4> QED BY <1>8, <2>3, <3>1, <4>1
        <3> QED BY <3>2, <3>3
    <2>4. Gap(c, p, h) <= d
        BY <1>2, <1>4, <1>5
    <2>5. Shifted(t, p, d, s)
        BY <1>4, <1>6, <1>7, <2>2, <2>3, <2>4 DEF Shifted, h, R
    <2> QED BY <2>1, <2>5 DEF scan
<1>14. CASE Shift(a, h, scan)
    <2> DEFINE E == [s.entries EXCEPT ![h] = ne]
               u == [entries |-> E, hole |-> scan]
               K == Occupied(t) \ {scan}
    <2>1. Move(t, s, scan) = u
        BY <1>14 DEF Move, a, ne, h
    <2>2. /\ E \in [Slots(t) -> Entry \cup {NULL}]
          /\ E[h] = ne /\ \A x \in Slots(t) : x # h => E[x] = s.entries[x]
        BY <1>4, <1>6, <1>11
    <2>3. u.entries = E /\ u.hole = scan
        OBVIOUS
    <2> HIDE DEF E
    <2>4. \A x \in Slots(t) : E[x] = NULL <=> t.entries[x] = NULL
        BY <1>4, <1>6, <1>11, <2>2 DEF Occupied
    <2>5. \A x \in Slots(t) : Gap(c, p, x) > d => E[x] = t.entries[x]
        <3> SUFFICES ASSUME NEW x \in Slots(t), Gap(c, p, x) > d PROVE E[x] = t.entries[x]
            OBVIOUS
        <3>1. Gap(c, p, x) > d - 1 /\ x # h
            BY <1>2, <1>4, <1>5
        <3> QED BY <1>6, <2>2, <3>1
    <2>6. /\ h \in K /\ \A x \in K : x # h => x \in L /\ E[x] = s.entries[x]
          /\ \A x \in L : x # scan => x \in K /\ E[x] = s.entries[x]
        BY <1>4, <1>9, <1>10, <2>2 DEF Occupied
    <2>7. \A e : (\E x \in K : e = E[x]) <=> (\E x \in L : e = s.entries[x])
        BY <1>9, <2>2, <2>6 DEF ne
    <2>8. \A x, y \in K : E[x].key = E[y].key => x = y
        BY <1>6, <1>9, <2>2, <2>6 DEF ne
    <2>9. ASSUME NEW x \in K, NEW y \in Slots(t), OnWay(Natural(t, E[x].key), y, x)
          PROVE  /\ t.entries[y] # NULL
                 /\ Gap(c, p, x) <= d \/ Gap(c, p, x) > R => y # scan
        <3>1. CASE x = h
            <4>1. OnWay(a, y, h) /\ OnWay(a, h, scan)
                BY <1>12, <1>14, <2>2, <2>9, <3>1 DEF a
            <4>2. OnWay(a, y, scan) /\ y # scan
                <5>1. a \in Int /\ y \in Int /\ h \in Int /\ scan \in Int
                    BY <1>1, <1>3, <1>4, <1>11
                <5> QED BY ONLY <4>1, <5>1, WayShrinks
            <4> QED BY <1>8, <1>9, <4>2 DEF a, ne
        <3>2. CASE x # h
            <4>1. x \in L /\ E[x] = s.entries[x] /\ x \in Slots(t) /\ x # scan
                BY <1>10, <2>6, <3>2
            <4>2. t.entries[y] # NULL
                BY <1>8, <2>9, <4>1
            <4>3. ASSUME Gap(c, p, x) <= d \/ Gap(c, p, x) > R
                  PROVE  y # scan
                <5>1. Gap(c, p, x) < d \/ Gap(c, p, x) > R
                    <6>1. Gap(c, p, x) # d
                        BY <1>1, <1>3, <4>1, GapInjective
                    <6> QED BY <1>2, <1>5, <4>1, <4>3, <6>1
                <5>2. Full(t, E[x].key, x) /\ E[x].key \in Names /\ x \in Occupied(t)
                    BY <1>8, <1>10, <4>1 DEF Full
                <5>3. ~OnWay(Natural(t, E[x].key), scan, x)
                    BY ONLY <1>2, <1>3, <5>1, <5>2, BehindRun, Sound(t), p \in Occupied(t) DEF R
                <5> QED BY <2>9, <5>3
            <4> QED BY <4>2, <4>3
        <3> QED BY <3>1, <3>2
    <2>10. Gap(c, p, scan) <= d
        BY <1>2, <1>3
    <2>11. \A e : (\E x \in K : e = E[x]) <=> (\E x \in Occupied(t) : x # p /\ e = t.entries[x])
        BY <1>7, <2>7
    <2> HIDE DEF u
    <2>12. Shifted(t, p, d, u)
        BY <1>9, <2>2, <2>3, <2>4, <2>5, <2>8, <2>9, <2>10, <2>11 DEF Shifted, R
    <2> QED BY <2>1, <2>12 DEF scan
<1> QED BY <1>13, <1>14

\* f holds the array and the hole after each of the first m turns.
ShiftLoop(t, p, f, m) ==
    f = [d \in 0 .. m |-> IF d = 0 THEN [entries |-> t.entries, hole |-> p]
                          ELSE Move(t, f[d - 1], (p + d) % t.capacity)]

LEMMA ShiftLoopExists ==
    ASSUME NEW t, NEW p, NEW n \in Nat
    PROVE  \E f : ShiftLoop(t, p, f, n)
<1> DEFINE Bad == {m \in Nat : ~ \E f : ShiftLoop(t, p, f, m)}
           First == [entries |-> t.entries, hole |-> p]
<1> SUFFICES ASSUME Bad # {} PROVE FALSE
    OBVIOUS
<1>1. PICK m \in Bad : \A l \in Bad : m <= l
    <2>1. Bad \in SUBSET Nat
        OBVIOUS
    <2> HIDE DEF Bad
    <2> QED BY <2>1, Least
<1>2. CASE m = 0
    <2> DEFINE f == [i \in 0 .. 0 |-> First]
    <2>1. ShiftLoop(t, p, f, 0)
        BY DEF ShiftLoop
    <2> QED BY <1>2, <2>1
<1>3. CASE m # 0
    <2>1. m \in Nat /\ m - 1 \in Nat /\ m - 1 \notin Bad
        BY <1>1, <1>3
    <2>2. PICK f : ShiftLoop(t, p, f, m - 1)
        BY <2>1
    <2> DEFINE Turn(r, i) == Move(t, r, (p + i) % t.capacity)
               g == [i \in 0 .. m |-> IF i = m THEN Turn(f[m - 1], m) ELSE f[i]]
    <2>3. \A i \in 0 .. m - 1 : f[i] = IF i = 0 THEN First ELSE Turn(f[i - 1], i)
        BY <2>2 DEF ShiftLoop
    <2> HIDE DEF First, Turn
    <2>4. \A i \in 0 .. m : g[i] = IF i = 0 THEN First ELSE Turn(g[i - 1], i)
        <3> SUFFICES ASSUME NEW i \in 0 .. m
                     PROVE  g[i] = IF i = 0 THEN First ELSE Turn(g[i - 1], i)
            OBVIOUS
        <3>1. i # 0 => i - 1 \in 0 .. m /\ g[i - 1] = f[i - 1]
            BY <2>1
        <3>2. CASE i = m
            BY <1>3, <3>1, <3>2
        <3>3. CASE i # m
            BY <2>1, <2>3, <3>1, <3>3
        <3> QED BY <3>2, <3>3
    <2>5. g = [i \in 0 .. m |-> IF i = 0 THEN First ELSE Turn(g[i - 1], i)]
        BY <2>4
    <2>6. ShiftLoop(t, p, g, m)
        BY <2>5 DEF ShiftLoop, First, Turn
    <2> QED BY <2>1, <2>6, <1>1
<1> QED BY <1>2, <1>3

\* So the loop ends with every entry looked at.
LEMMA BackwardShiftOK ==
    ASSUME NEW t, Sound(t), NEW p \in Occupied(t)
    PROVE  Shifted(t, p, Run(t, p), BackwardShift(t, p))
<1> DEFINE c == t.capacity
           n == Run(t, p)
           f == CHOOSE g : ShiftLoop(t, p, g, n)
           Bad == {d \in 0 .. n : ~Shifted(t, p, d, f[d])}
<1>1. c \in Nat \ {0} /\ p \in 0 .. c - 1 /\ n \in 0 .. c - 2 /\ n \in Nat
    <2>1. c \in Nat \ {0} /\ p \in 0 .. c - 1 /\ n \in 0 .. c - 2
        BY SoundFacts, RunIs DEF IsTable, Slots, Occupied
    <2> QED BY <2>1
<1>2. BackwardShift(t, p) = f[n]
    BY DEF BackwardShift, ShiftLoop
<1>3. ShiftLoop(t, p, f, n)
    BY <1>1, ShiftLoopExists
<1> HIDE DEF f
<1>4. \A d \in 0 .. n : f[d] = IF d = 0 THEN [entries |-> t.entries, hole |-> p]
                               ELSE Move(t, f[d - 1], (p + d) % c)
    BY <1>3 DEF ShiftLoop
<1>5. Bad = {}
    <2> SUFFICES ASSUME Bad # {} PROVE FALSE
        OBVIOUS
    <2>1. PICK d \in Bad : \A l \in Bad : d <= l
        <3>1. Bad \in SUBSET Nat
            BY <1>1
        <3> HIDE DEF Bad
        <3> QED BY <3>1, Least
    <2>2. CASE d = 0
        <3>1. f[0] = [entries |-> t.entries, hole |-> p]
            BY <1>1, <1>4
        <3> QED BY <2>1, <2>2, <3>1, ShiftedFirst
    <2>3. CASE d # 0
        <3>1. d - 1 \in 0 .. n /\ d - 1 \notin Bad /\ d \in 1 .. n /\ d \in 0 .. c /\ d \in 0 .. n
            BY <1>1, <2>1, <2>3
        <3>2. Shifted(t, p, d, Move(t, f[d - 1], After(c, p, d)))
            BY <3>1, MoveOK
        <3>3. (p + d) % c = After(c, p, d)
            <4>1. \A i \in 0 .. c : (p + i) % c = After(c, p, i)
                BY ONLY <1>1, GapIs
            <4> QED BY <3>1, <4>1
        <3>4. f[d] = Move(t, f[d - 1], (p + d) % c)
            BY <1>4, <2>3, <3>1
        <3> QED BY <2>1, <3>2, <3>3, <3>4
    <2> QED BY <2>2, <2>3
<1>6. n \in 0 .. n
    BY <1>1
<1> QED BY <1>2, <1>5, <1>6

\* Other entries and another count.
Refilled(t, a, n) == [t EXCEPT !.entries = a, !.count = n]

LEMMA RefilledIs ==
    ASSUME NEW t, IsTable(t), NEW a \in [Slots(t) -> Entry \cup {NULL}], NEW n \in Nat
    PROVE  LET u == Refilled(t, a, n) IN
           /\ IsTable(u) /\ Slots(u) = Slots(t) /\ u.capacity = t.capacity /\ u.count = n
           /\ u.entries = a
           /\ \A key : Natural(u, key) = Natural(t, key)
<1> DEFINE u == Refilled(t, a, n)
           Tables == [capacity : Nat \ {0}, entries : Arrays, count : Nat]
<1>1. a \in Arrays
    <2>1. t.capacity \in Nat /\ Slots(t) = 0 .. t.capacity - 1
        BY DEF IsTable, Slots
    <2> QED BY <2>1 DEF Arrays
<1>2. t \in Tables
    BY DEF IsTable
<1>3. u.capacity = t.capacity /\ u.entries = a /\ u.count = n /\ u \in Tables
    BY <1>1, <1>2 DEF Refilled
<1>4. Slots(u) = Slots(t)
    BY <1>3 DEF Slots
<1> HIDE DEF u
<1> QED BY <1>3, <1>4 DEF IsTable, Natural, u

\* ht_remove takes the entry of the key away, in a sound table.
LEMMA RemoveOK ==
    ASSUME NEW t, Sound(t), NEW key \in Names
    PROVE  LET u == ht_remove(t, key)
           IN  /\ Sound(u) /\ u.capacity = t.capacity
               /\ \A e : e \in Entries(u) <=> e \in Entries(t) /\ e.key # key
<1> DEFINE p == Probe(t, key)
<1>1. IsTable(t) /\ t.count \in Nat /\ t.capacity \in Nat
    BY SoundFacts DEF IsTable
<1>2. CASE \A x \in Occupied(t) : t.entries[x].key # key
    <2>1. ht_remove(t, key) = t
        BY <1>2, NotFound DEF ht_remove
    <2>2. \A e \in Entries(t) : e.key # key
        BY <1>2, EntriesAre
    <2> QED BY <2>1, <2>2
<1>3. CASE \E x \in Occupied(t) : t.entries[x].key = key
    <2>1. p \in Occupied(t) /\ t.entries[p].key = key /\ t.entries[p] # NULL
        BY <1>3, Found DEF Occupied
    <2> DEFINE s == BackwardShift(t, p)
               h == s.hole
               a == [s.entries EXCEPT ![h] = NULL]
               n == t.count - 1
               u == Refilled(t, a, n)
               L == Occupied(t) \ {h}
    <2>2. ht_remove(t, key) = u
        BY <2>1 DEF ht_remove, Refilled
    <2> HIDE DEF p
    <2>3. Shifted(t, p, Run(t, p), s)
        BY <2>1, BackwardShiftOK
    <2> HIDE DEF s
    <2>4. /\ h \in Occupied(t) /\ h \in Slots(t)
          /\ s.entries \in [Slots(t) -> Entry \cup {NULL}]
          /\ \A x \in Slots(t) : s.entries[x] = NULL <=> t.entries[x] = NULL
          /\ \A x, y \in L : s.entries[x].key = s.entries[y].key => x = y
        BY <2>3 DEF Shifted, Occupied
    <2>5. \A e : (\E x \in L : e = s.entries[x]) <=> (\E x \in Occupied(t) : x # p /\ e = t.entries[x])
        BY <2>3 DEF Shifted
    <2>6. \A x \in L : \A y \in Slots(t) :
              OnWay(Natural(t, s.entries[x].key), y, x) => t.entries[y] # NULL /\ y # h
        <3>1. Run(t, p) \in Int /\ \A x \in L : Gap(t.capacity, p, x) \in Int
            <4>1. Run(t, p) \in Int /\ p \in Int
                BY <1>1, <2>1, RunIs DEF Occupied, Slots
            <4>2. \A x \in L : x \in Int
                BY <1>1 DEF Occupied, Slots
            <4> QED BY <1>1, <4>1, <4>2 DEF Gap
        <3>2. \A x \in L : Gap(t.capacity, p, x) <= Run(t, p) \/ Gap(t.capacity, p, x) > Run(t, p)
            BY <3>1
        <3> QED BY <2>3, <3>2 DEF Shifted
    <2>7. /\ a \in [Slots(t) -> Entry \cup {NULL}]
          /\ a[h] = NULL /\ \A x \in Slots(t) : x # h => a[x] = s.entries[x]
        BY <2>4
    <2> HIDE DEF a
    <2>8. L = {x \in Slots(t) : a[x] # NULL}
        BY <2>4, <2>7 DEF Occupied
    <2>9. IsFiniteSet(L) /\ Cardinality(L) = n /\ n \in Nat
        <3>1. IsFiniteSet(Occupied(t)) /\ t.count = Cardinality(Occupied(t))
            BY <1>1, OccupiedFinite DEF Sound
        <3>2. IsFiniteSet(L) /\ Cardinality(L) = Cardinality(Occupied(t)) - 1
            BY <2>4, <3>1, FS_RemoveElement
        <3>3. Cardinality(L) \in Nat
            BY <3>2, FS_CardinalityType
        <3> QED BY <3>1, <3>2, <3>3
    <2> HIDE DEF n
    <2>10. /\ IsTable(u) /\ Slots(u) = Slots(t) /\ u.capacity = t.capacity /\ u.count = n
           /\ u.entries = a
           /\ \A k : Natural(u, k) = Natural(t, k)
        BY ONLY <1>1, <2>7, <2>9, RefilledIs
    <2> HIDE DEF u
    <2>11. Occupied(u) = L /\ \A x \in L : u.entries[x] = s.entries[x] /\ x \in Slots(t)
        BY <2>7, <2>8, <2>10 DEF Occupied
    <2>12. \A x \in Occupied(u) : Full(u, u.entries[x].key, x)
        <3> SUFFICES ASSUME NEW x \in L, NEW y \in Slots(t), OnWay(Natural(t, s.entries[x].key), y, x)
                     PROVE  a[y] # NULL
            BY <2>10, <2>11 DEF Full
        <3> QED BY <2>4, <2>6, <2>7
    <2>13. Unique(u)
        BY <2>4, <2>11 DEF Unique
    <2>14. u.count < u.capacity
        <3>1. t.count < t.capacity
            BY DEF Sound
        <3> QED BY <1>1, <2>10, <3>1 DEF n
    <2>15. Sound(u)
        BY <2>9, <2>10, <2>11, <2>12, <2>13, <2>14 DEF Sound
    <2>16. \A e : e \in Entries(u) <=> e \in Entries(t) /\ e.key # key
        <3>1. \A e : e \in Entries(u) <=> \E x \in L : e = s.entries[x]
            BY <2>11, EntriesAre
        <3>2. \A e : e \in Entries(t) <=> \E x \in Occupied(t) : e = t.entries[x]
            BY EntriesAre
        <3>3. \A x \in Occupied(t) : x # p <=> t.entries[x].key # key
            BY <2>1 DEF Sound, Unique
        <3> QED BY <2>5, <3>1, <3>2, <3>3
    <2> QED BY <2>2, <2>10, <2>15, <2>16
<1> QED BY <1>2, <1>3

-----------------------------------------------------------------------------
(* The table is a map.                                                     *)

\* ht_get of a table, from its entries.
LEMMA GetUpdated ==
    ASSUME NEW t, NEW u, Sound(t), Sound(u), NEW key \in Names, NEW value \in Variable,
           Updated(t, u, key, value), NEW m \in Names
    PROVE  ht_get(u, m) = IF m = key THEN value ELSE ht_get(t, m)
<1> DEFINE new == [key |-> key, value |-> value]
<1>1. new \in Entries(u) /\ new.key = key /\ new.value = value
    BY DEF Updated
<1>2. CASE m = key
    BY <1>1, <1>2, GetIs
<1>3. CASE m # key
    <2>1. \A e : e.key = m => (e \in Entries(u) <=> e \in Entries(t))
        BY <1>1, <1>3 DEF Updated
    <2> DEFINE e == [key |-> m, value |-> ht_get(t, m)]
    <2>2. CASE ht_get(t, m) # NULL
        <3>1. e \in Entries(t) /\ e.key = m /\ e.value = ht_get(t, m)
            BY <2>2, GetIs
        <3> HIDE DEF e
        <3>2. ht_get(u, m) = e.value
            BY <2>1, <3>1, GetIs
        <3> QED BY <1>3, <3>1, <3>2
    <2>3. CASE ht_get(t, m) = NULL
        <3>1. \A f \in Entries(t) : f.key # m
            <4>1. \A f \in Entries(t) : f.key = m => f.value = NULL /\ f \in Entry
                BY <2>3, GetIs
            <4> QED BY <4>1, NullAssumption DEF Entry
        <3>2. \A f \in Entries(u) : f.key # m
            BY <2>1, <3>1
        <3> QED BY <1>3, <2>3, <3>2, GetIs
    <2> QED BY <2>2, <2>3
<1> QED BY <1>2, <1>3

\* After ht_set the key has the value, and no other key has another one than
\* before: whatever the hash function, the collisions and the resizing.
THEOREM SetIsUpdate ==
    ASSUME NEW t, Sound(t), t.capacity >= 4, NEW key \in Names, NEW value \in Variable
    PROVE  /\ Sound(ht_set(t, key, value))
           /\ \A m \in Names :
                ht_get(ht_set(t, key, value), m) = IF m = key THEN value ELSE ht_get(t, m)
<1> DEFINE u == ht_set(t, key, value)
<1>1. Sound(u) /\ Updated(t, u, key, value)
    BY SetOK
<1> HIDE DEF u
<1>2. \A m \in Names : ht_get(u, m) = IF m = key THEN value ELSE ht_get(t, m)
    BY <1>1, GetUpdated
<1> QED BY <1>1, <1>2 DEF u

\* After ht_remove the key is not there, and every other key has its value:
\* no entry that was shifted back, or not, is lost to a search.
THEOREM RemoveIsDelete ==
    ASSUME NEW t, Sound(t), NEW key \in Names
    PROVE  /\ Sound(ht_remove(t, key))
           /\ \A m \in Names :
                ht_get(ht_remove(t, key), m) = IF m = key THEN NULL ELSE ht_get(t, m)
<1> DEFINE u == ht_remove(t, key)
<1>1. Sound(u) /\ \A e : e \in Entries(u) <=> e \in Entries(t) /\ e.key # key
    BY RemoveOK
<1> HIDE DEF u
<1>2. ASSUME NEW m \in Names PROVE ht_get(u, m) = IF m = key THEN NULL ELSE ht_get(t, m)
    <2> DEFINE e == [key |-> m, value |-> ht_get(t, m)]
    <2>1. CASE m = key
        BY <1>1, <2>1, GetIs
    <2>2. CASE m # key /\ ht_get(t, m) # NULL
        <3>1. e \in Entries(t) /\ e.key = m /\ e.value = ht_get(t, m)
            <4>1. Sound(t) /\ m \in Names /\ ht_get(t, m) # NULL
                BY <2>2
            <4>2. e \in Entries(t)
                BY ONLY <4>1, GetIs
            <4> QED BY <4>2
        <3> HIDE DEF e
        <3>2. ht_get(u, m) = e.value
            BY <1>1, <2>2, <3>1, GetIs
        <3> QED BY <2>2, <3>1, <3>2
    <2>3. CASE m # key /\ ht_get(t, m) = NULL
        <3>1. \A f \in Entries(t) : f.key # m
            <4>1. \A f \in Entries(t) : f.key = m => f.value = NULL /\ f \in Entry
                BY <2>3, GetIs
            <4> QED BY <4>1, NullAssumption DEF Entry
        <3> QED BY <1>1, <2>3, <3>1, GetIs
    <2> QED BY <2>1, <2>2, <2>3
<1> QED BY <1>1, <1>2 DEF u

=============================================================================
