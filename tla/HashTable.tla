------------------------------ MODULE HashTable ------------------------------
(***************************************************************************)
(* The hash table (foundation/hashtable.c): open addressing with linear    *)
(* probing, doubling before an insertion at three quarters, deletion by    *)
(* shifting the entries behind the hole back.  A table is a value here;    *)
(* its slots are numbered from 0, as in the code, and NULL stands for an   *)
(* empty slot and for the answer "not found".                              *)
(***************************************************************************)
EXTENDS VariableTypes, Integers, FiniteSets, Sequences

CONSTANTS
    Hash,               \* ht_fnv1a: a number for each key
    HT_INITIAL_CAP      \* slots of a new table, 16 in the code

ASSUME HashAssumption == Hash \in [Names -> Nat]

\* Two slots would not do: three quarters of two leave no slot empty.
ASSUME CapAssumption ==
    /\ HT_INITIAL_CAP \in Nat /\ HT_INITIAL_CAP >= 4
    /\ \E e \in 2..16 : HT_INITIAL_CAP = 2^e

Entry == [key : Names, value : Variable]

ASSUME EntryAssumption == NULL \notin Entry

HT_LOAD_FACTOR_NUM == 3

HT_LOAD_FACTOR_DEN == 4

Slots(t) == 0 .. t.capacity - 1

\* capacity is a power of two, so that & mask is the remainder.
Natural(t, key) == Hash[key] % t.capacity

NewTable(capacity) ==
    [capacity |-> capacity, entries |-> [i \in 0 .. capacity - 1 |-> NULL], count |-> 0]

ht_init == NewTable(HT_INITIAL_CAP)

\* Where the loop of ht_set, ht_get and ht_remove ends: the first slot, from
\* the natural one on, that is empty or has the key.
Probe(t, key) ==
    LET Ends(d) == \/ t.entries[(Hash[key] + d) % t.capacity] = NULL
                   \/ t.entries[(Hash[key] + d) % t.capacity].key = key
        first   == CHOOSE d \in Slots(t) : Ends(d) /\ \A c \in 0 .. d - 1 : ~Ends(c)
    IN  (Hash[key] + first) % t.capacity

ht_get(t, key) ==
    LET e == t.entries[Probe(t, key)] IN IF e = NULL THEN NULL ELSE e.value

\* The loop of ht_set: a new entry, or a new value for the one there is.
Insert(t, key, value) ==
    LET i == Probe(t, key)
    IN  [t EXCEPT !.entries[i] = [key |-> key, value |-> value],
                  !.count      = IF t.entries[i] = NULL THEN @ + 1 ELSE @]

Carry(new, e) == IF e = NULL THEN new ELSE Insert(new, e.key, e.value)

\* The new table is at most three eighths full: its insertions never resize.
ht_resize(t) ==
    LET new[i \in 0 .. t.capacity] ==
            IF i = 0 THEN NewTable(2 * t.capacity) ELSE Carry(new[i - 1], t.entries[i - 1])
    IN  new[t.capacity]

Loaded(t) == t.count * HT_LOAD_FACTOR_DEN >= t.capacity * HT_LOAD_FACTOR_NUM

\* Mutant: the table grows only when it is more than three quarters full.
ht_set_LateResize(t, key, value) ==
    Insert(IF t.count * HT_LOAD_FACTOR_DEN > t.capacity * HT_LOAD_FACTOR_NUM
           THEN ht_resize(t) ELSE t,
           key, value)

ht_set(t, key, value) == Insert(IF Loaded(t) THEN ht_resize(t) ELSE t, key, value)

\* Mutant: no thought is given to the end of the array.
Shift_NoWrap(natural, hole, scan) == natural <= hole

\* May the entry at scan, whose natural slot is given, move to the hole?
Shift(natural, hole, scan) ==
    IF scan > hole THEN natural <= hole \/ natural > scan
    ELSE natural > scan /\ natural <= hole

\* How many entries follow the hole up to the next empty slot.
Run(t, hole) ==
    (CHOOSE d \in 1 .. t.capacity :
        /\ t.entries[(hole + d) % t.capacity] = NULL
        /\ \A c \in 1 .. d - 1 : t.entries[(hole + c) % t.capacity] # NULL) - 1

\* The entry at scan moves back into the hole and leaves a new one, or stays.
Move(t, s, scan) ==
    LET ne == s.entries[scan]
    IN  IF Shift(Natural(t, ne.key), s.hole, scan)
        THEN [entries |-> [s.entries EXCEPT ![s.hole] = ne], hole |-> scan]
        ELSE s

BackwardShift(t, hole) ==
    LET s[d \in 0 .. Run(t, hole)] ==
            IF d = 0 THEN [entries |-> t.entries, hole |-> hole]
            ELSE Move(t, s[d - 1], (hole + d) % t.capacity)
    IN  s[Run(t, hole)]

ht_remove(t, key) ==
    LET i == Probe(t, key)
        s == BackwardShift(t, i)
    IN  IF t.entries[i] = NULL THEN t
        ELSE [t EXCEPT !.entries = [s.entries EXCEPT ![s.hole] = NULL],
                       !.count   = @ - 1]

\* What ht_foreach visits.
Entries(t) == {t.entries[i] : i \in {j \in Slots(t) : t.entries[j] # NULL}}

=============================================================================
