---------------------------- MODULE EnvironProofs ----------------------------
(***************************************************************************)
(* The chain of hash tables implements the scopes of module Scopes, for    *)
(* every hash function, all sets of names and texts and any depth of       *)
(* scopes; so what is proved of Scopes holds of the code's chain, too.     *)
(*                                                                         *)
(* The invariant (Invariant) says that every table of the chain is sound.  *)
(* For the operations of exec/variable.c it is shown what they do to the   *)
(* View of a chain, the functions its tables stand for; every action of    *)
(* Environ is then an action of Scopes.                                    *)
(***************************************************************************)
EXTENDS Environ, HashTableProofs

P == INSTANCE ScopesProofs WITH scopes <- view

-----------------------------------------------------------------------------
(* Chains.                                                                 *)

Tables == [capacity : Nat \ {0}, entries : Arrays, count : Nat]

\* A scope with names of N.
Frame(N) ==
    {s \in [vars : Tables, is_temporary : BOOLEAN] :
        Sound(s.vars) /\ s.vars.capacity >= 4 /\ \A x \in Entries(s.vars) : x.key \in N}

Chain(N, e) == e \in Seq(Frame(N)) /\ Len(e) >= 1

\* The types of both modules are the same.
LEMMA SameTypes ==
    /\ Abstract!Value = Value /\ Abstract!Variable = Variable
    /\ \A v : Abstract!Fresh(v) = Fresh(v)
    /\ \A t : Abstract!String(t) = String(t) /\ Abstract!Array(t) = Array(t)
<1>1. Abstract!Value = Value
    BY DEF Abstract!Value, Value
<1>2. Abstract!Variable = Variable
    BY <1>1 DEF Abstract!Variable, Variable
<1> QED BY <1>1, <1>2 DEF Abstract!Fresh, Fresh, Abstract!String, String, Abstract!Array, Array

\* Contents shows what ht_get finds.
LEMMA ContentsIs ==
    ASSUME NEW N \in SUBSET Names, NEW s \in Frame(N)
    PROVE  /\ Contents(s) \in Abstract!Scope /\ Contents(s).is_temporary = s.is_temporary
           /\ \A n \in Names : Contents(s).vars[n] = ht_get(s.vars, n)
<1> DEFINE t == s.vars
           f == [n \in Names |-> IF \E x \in Entries(t) : x.key = n
                                 THEN (CHOOSE x \in Entries(t) : x.key = n).value
                                 ELSE NULL]
<1>1. Sound(t) /\ s.is_temporary \in BOOLEAN
    BY DEF Frame
<1>2. ASSUME NEW n \in Names
      PROVE  f[n] = ht_get(t, n) /\ f[n] \in Variable \cup {NULL}
    <2>1. ht_get(t, n) \in Variable \cup {NULL}
        BY <1>1, GetIs
    <2>2. CASE \E x \in Entries(t) : x.key = n
        <3> DEFINE x == CHOOSE x \in Entries(t) : x.key = n
        <3>1. x \in Entries(t) /\ x.key = n
            BY <2>2
        <3>2. f[n] = x.value
            BY <2>2
        <3> HIDE DEF x, f
        <3>3. x.value = ht_get(t, n)
            BY <1>1, <3>1, GetIs
        <3> QED BY <2>1, <3>2, <3>3
    <2>3. CASE ~ \E x \in Entries(t) : x.key = n
        BY <1>1, <2>1, <2>3, GetIs
    <2> QED BY <2>2, <2>3
<1>3. Contents(s) = [vars |-> f, is_temporary |-> s.is_temporary]
    BY DEF Contents
<1>4. f \in [Names -> Variable \cup {NULL}]
    BY <1>2
<1> HIDE DEF f
<1> QED BY <1>1, <1>2, <1>3, <1>4, SameTypes DEF Abstract!Scope

\* What the chain holds.
LEMMA ViewIs ==
    ASSUME NEW N \in SUBSET Names, NEW e, Chain(N, e)
    PROVE  /\ View(e) \in Seq(Abstract!Scope) /\ Len(View(e)) = Len(e) /\ Len(e) \in Nat \ {0}
           /\ \A i \in 1 .. Len(e) :
                /\ View(e)[i].is_temporary = e[i].is_temporary
                /\ \A n \in Names : /\ View(e)[i].vars[n] = In(e, i, n)
                                    /\ In(e, i, n) \in Variable \cup {NULL}
<1>1. DOMAIN e = 1 .. Len(e) /\ Len(e) \in Nat \ {0}
    BY DEF Chain
<1>2. \A i \in 1 .. Len(e) : e[i] \in Frame(N)
    BY DEF Chain
<1>3. View(e) = [i \in 1 .. Len(e) |-> Contents(e[i])]
    BY <1>1 DEF View
<1>4. \A i \in 1 .. Len(e) : View(e)[i] \in Abstract!Scope
    BY <1>2, <1>3, ContentsIs
<1>5. View(e) \in Seq(Abstract!Scope) /\ Len(View(e)) = Len(e)
    BY <1>1, <1>3, <1>4
<1>6. ASSUME NEW i \in 1 .. Len(e)
      PROVE  /\ View(e)[i].is_temporary = e[i].is_temporary
             /\ \A n \in Names : /\ View(e)[i].vars[n] = In(e, i, n)
                                 /\ In(e, i, n) \in Variable \cup {NULL}
    <2>1. \A n \in Names : ht_get(e[i].vars, n) \in Variable \cup {NULL}
        BY <1>2, GetIs DEF Frame
    <2> QED BY <1>2, <1>3, <2>1, ContentsIs DEF In
<1> QED BY <1>1, <1>5, <1>6

\* Another variable, or none, for a name of a scope, in a view.
VPut(s, i, n, x) == [s EXCEPT ![i].vars[n] = x]

LEMMA VPutIs ==
    ASSUME NEW s \in Seq(Abstract!Scope), NEW i \in 1 .. Len(s), NEW n \in Names,
           NEW x \in Variable \cup {NULL}
    PROVE  /\ VPut(s, i, n, x) \in Seq(Abstract!Scope) /\ Len(VPut(s, i, n, x)) = Len(s)
           /\ \A k \in 1 .. Len(s) :
                /\ VPut(s, i, n, x)[k].is_temporary = s[k].is_temporary
                /\ \A m \in Names :
                    VPut(s, i, n, x)[k].vars[m] = IF k = i /\ m = n THEN x ELSE s[k].vars[m]
<1> DEFINE u == VPut(s, i, n, x)
<1>1. Len(s) \in Nat /\ DOMAIN s = 1 .. Len(s)
    OBVIOUS
<1>2. \A k \in 1 .. Len(s) : s[k] \in [vars : [Names -> Variable \cup {NULL}], is_temporary : BOOLEAN]
    <2>1. Abstract!Scope = [vars : [Names -> Variable \cup {NULL}], is_temporary : BOOLEAN]
        BY SameTypes DEF Abstract!Scope
    <2>2. \A k \in 1 .. Len(s) : s[k] \in Abstract!Scope
        OBVIOUS
    <2> QED BY <2>1, <2>2
<1>3. u = [k \in 1 .. Len(s) |-> IF k = i THEN [s[k] EXCEPT !.vars = [@ EXCEPT ![n] = x]] ELSE s[k]]
    BY <1>1 DEF VPut
<1>4. \A k \in 1 .. Len(s) :
          /\ u[k] \in [vars : [Names -> Variable \cup {NULL}], is_temporary : BOOLEAN]
          /\ u[k].is_temporary = s[k].is_temporary
          /\ \A m \in Names : u[k].vars[m] = IF k = i /\ m = n THEN x ELSE s[k].vars[m]
    <2> SUFFICES ASSUME NEW k \in 1 .. Len(s)
                 PROVE  /\ u[k] \in [vars : [Names -> Variable \cup {NULL}], is_temporary : BOOLEAN]
                        /\ u[k].is_temporary = s[k].is_temporary
                        /\ \A m \in Names : u[k].vars[m] = IF k = i /\ m = n THEN x ELSE s[k].vars[m]
        OBVIOUS
    <2> DEFINE f == s[k]
               a == [f.vars EXCEPT ![n] = x]
    <2>1. f \in [vars : [Names -> Variable \cup {NULL}], is_temporary : BOOLEAN]
        BY <1>2
    <2>2. u[k] = IF k = i THEN [f EXCEPT !.vars = a] ELSE f
        BY <1>3
    <2> HIDE DEF u, f
    <2>3. a \in [Names -> Variable \cup {NULL}] /\ \A m \in Names : a[m] = IF m = n THEN x ELSE f.vars[m]
        BY <2>1
    <2> HIDE DEF a
    <2>4. /\ [f EXCEPT !.vars = a] \in [vars : [Names -> Variable \cup {NULL}], is_temporary : BOOLEAN]
          /\ [f EXCEPT !.vars = a].vars = a /\ [f EXCEPT !.vars = a].is_temporary = f.is_temporary
        BY <2>1, <2>3
    <2> QED BY <2>1, <2>2, <2>3, <2>4 DEF f
<1> HIDE DEF u
<1>5. \A k \in 1 .. Len(s) : u[k] \in Abstract!Scope
    BY <1>4, SameTypes DEF Abstract!Scope
<1>6. u \in Seq(Abstract!Scope) /\ Len(u) = Len(s)
    BY <1>1, <1>3, <1>5
<1> QED BY <1>4, <1>6 DEF u

\* Views with the same variables are equal.
LEMMA SameView ==
    ASSUME NEW s \in Seq(Abstract!Scope), NEW u \in Seq(Abstract!Scope), Len(s) = Len(u),
           \A i \in 1 .. Len(s) : /\ s[i].is_temporary = u[i].is_temporary
                                  /\ \A n \in Names : s[i].vars[n] = u[i].vars[n]
    PROVE  s = u
<1>1. \A a, b \in Abstract!Scope :
          a.is_temporary = b.is_temporary /\ (\A n \in Names : a.vars[n] = b.vars[n]) => a = b
    <2> SUFFICES ASSUME NEW a \in Abstract!Scope, NEW b \in Abstract!Scope,
                        a.is_temporary = b.is_temporary, \A n \in Names : a.vars[n] = b.vars[n]
                 PROVE  a = b
        OBVIOUS
    <2>1. a.vars = b.vars
        BY DEF Abstract!Scope
    <2> QED BY <2>1 DEF Abstract!Scope
<1>2. \A i \in 1 .. Len(s) : s[i] = u[i]
    BY <1>1
<1> QED BY <1>2

-----------------------------------------------------------------------------
(* What the operations on one table do to the view.                        *)

\* Another table for a scope.
With(f, t) == [f EXCEPT !.vars = t]

LEMMA WithIs ==
    ASSUME NEW N, NEW f \in Frame(N), NEW t, Sound(t), t.capacity >= 4,
           \A x \in Entries(t) : x.key \in N
    PROVE  With(f, t) \in Frame(N) /\ With(f, t).vars = t /\ With(f, t).is_temporary = f.is_temporary
<1>1. t \in Tables
    BY SoundFacts DEF IsTable, Tables
<1>2. f \in [vars : Tables, is_temporary : BOOLEAN]
    BY DEF Frame
<1> DEFINE g == With(f, t)
<1>3. g \in [vars : Tables, is_temporary : BOOLEAN] /\ g.vars = t /\ g.is_temporary = f.is_temporary
    BY <1>1, <1>2 DEF With
<1> HIDE DEF g
<1> QED BY <1>3 DEF Frame, g

Swapped(e, i, t) == [e EXCEPT ![i] = With(e[i], t)]

\* u is the chain e but for the variable of name n in scope i.
Puts(N, e, u, i, n, x) ==
    /\ Chain(N, u) /\ Len(u) = Len(e) /\ View(u) = VPut(View(e), i, n, x)
    /\ \A k \in 1 .. Len(e) : u[k].is_temporary = e[k].is_temporary

\* One table of a chain changes, at one name.
LEMMA TableChanges ==
    ASSUME NEW N \in SUBSET Names, NEW e, Chain(N, e), NEW i \in 1 .. Len(e), NEW n \in Names,
           NEW x \in Variable \cup {NULL},
           NEW t, Sound(t), t.capacity >= 4, \A y \in Entries(t) : y.key \in N,
           \A m \in Names : ht_get(t, m) = IF m = n THEN x ELSE In(e, i, m)
    PROVE  Puts(N, e, Swapped(e, i, t), i, n, x)
<1> DEFINE f == With(e[i], t)
           u == [e EXCEPT ![i] = f]
           V == View(e)
<1>1. e \in Seq(Frame(N)) /\ Len(e) \in Nat /\ e[i] \in Frame(N)
    BY DEF Chain
<1>2. f \in Frame(N) /\ f.vars = t /\ f.is_temporary = e[i].is_temporary
    BY <1>1, WithIs
<1> HIDE DEF f
<1>3. /\ u \in Seq(Frame(N)) /\ Len(u) = Len(e) /\ u[i] = f
      /\ \A k \in 1 .. Len(e) : k # i => u[k] = e[k]
    BY <1>1, <1>2
<1> HIDE DEF u
<1>4. Chain(N, u)
    BY <1>3 DEF Chain
<1>5. \A k \in 1 .. Len(e) : u[k].is_temporary = e[k].is_temporary
    BY <1>2, <1>3
<1>6. \A k \in 1 .. Len(e) : \A m \in Names :
          In(u, k, m) = IF k = i /\ m = n THEN x ELSE In(e, k, m)
    BY <1>2, <1>3 DEF In
<1>7. /\ V \in Seq(Abstract!Scope) /\ Len(V) = Len(e)
      /\ \A k \in 1 .. Len(e) : /\ V[k].is_temporary = e[k].is_temporary
                                /\ \A m \in Names : V[k].vars[m] = In(e, k, m)
    BY ViewIs
<1>8. /\ View(u) \in Seq(Abstract!Scope) /\ Len(View(u)) = Len(u)
      /\ \A k \in 1 .. Len(u) : /\ View(u)[k].is_temporary = u[k].is_temporary
                                /\ \A m \in Names : View(u)[k].vars[m] = In(u, k, m)
    BY <1>4, ViewIs
<1> HIDE DEF V
<1>9. /\ VPut(V, i, n, x) \in Seq(Abstract!Scope) /\ Len(VPut(V, i, n, x)) = Len(V)
      /\ \A k \in 1 .. Len(V) :
            /\ VPut(V, i, n, x)[k].is_temporary = V[k].is_temporary
            /\ \A m \in Names :
                VPut(V, i, n, x)[k].vars[m] = IF k = i /\ m = n THEN x ELSE V[k].vars[m]
    <2>1. i \in 1 .. Len(V)
        BY <1>7
    <2> QED BY ONLY <2>1, <1>7, VPutIs, n \in Names, x \in Variable \cup {NULL}
<1>10. View(u) = VPut(V, i, n, x)
    <2> DEFINE a == View(u)
               b == VPut(V, i, n, x)
    <2>1. a \in Seq(Abstract!Scope) /\ b \in Seq(Abstract!Scope) /\ Len(a) = Len(b) /\ Len(a) = Len(e)
        BY <1>3, <1>7, <1>8, <1>9
    <2>2. \A k \in 1 .. Len(e) : a[k].is_temporary = b[k].is_temporary
        BY <1>3, <1>5, <1>7, <1>8, <1>9
    <2>3. \A k \in 1 .. Len(e) : \A m \in Names : a[k].vars[m] = b[k].vars[m]
        <3> SUFFICES ASSUME NEW k \in 1 .. Len(e), NEW m \in Names PROVE a[k].vars[m] = b[k].vars[m]
            OBVIOUS
        <3>1. a[k].vars[m] = In(u, k, m)
            BY <1>3, <1>8
        <3>2. V[k].vars[m] = In(e, k, m)
            BY <1>7
        <3>3. b[k].vars[m] = IF k = i /\ m = n THEN x ELSE V[k].vars[m]
            BY <1>7, <1>9
        <3> QED BY ONLY <3>1, <3>2, <3>3, <1>6, k \in 1 .. Len(e), m \in Names
    <2> HIDE DEF a, b
    <2>4. a = b
        BY <2>1, <2>2, <2>3, SameView
    <2> QED BY <2>4 DEF a, b
<1> QED BY <1>3, <1>4, <1>5, <1>10 DEF u, f, V, Puts, Swapped

\* A pointer to the variable leads to its entry.
LEMMA EntryOf ==
    ASSUME NEW N \in SUBSET Names, NEW e, Chain(N, e), NEW i \in 1 .. Len(e), NEW n \in Names,
           In(e, i, n) # NULL
    PROVE  LET t == e[i].vars
               p == Probe(t, n)
           IN  p \in Occupied(t) /\ t.entries[p].key = n /\ t.entries[p] \in Entry /\ n \in N
<1> DEFINE t == e[i].vars
<1>1. Sound(t) /\ \A x \in Entries(t) : x.key \in N
    BY DEF Chain, Frame
<1>2. [key |-> n, value |-> ht_get(t, n)] \in Entries(t)
    BY <1>1, GetIs DEF In
<1> HIDE DEF t
<1>3. PICK x \in Occupied(t) : t.entries[x] = [key |-> n, value |-> ht_get(t, n)]
    BY <1>2, EntriesAre
<1>4. t.entries[x].key = n /\ t.entries[x] \in Entry
    BY <1>1, <1>3, SoundFacts
<1>5. Probe(t, n) = x
    BY <1>1, <1>4, Found
<1>6. n \in N
    <2>1. [key |-> n, value |-> ht_get(t, n)].key = n
        OBVIOUS
    <2> QED BY <1>1, <1>2, <2>1
<1> QED BY <1>3, <1>4, <1>5, <1>6 DEF t

\* An assignment through the pointer, as the code has it.
Reassign(t, p, var) == [t EXCEPT !.entries[p].value = var]

LEMMA ReassignIs ==
    ASSUME NEW t, IsTable(t), NEW p \in Slots(t), t.entries[p] \in Entry, NEW var \in Variable
    PROVE  Reassign(t, p, var) = Stored(t, p, [key |-> t.entries[p].key, value |-> var], t.count)
<1> DEFINE new == [key |-> t.entries[p].key, value |-> var]
           a == [t.entries EXCEPT ![p] = new]
           T == [capacity : Nat \ {0}, entries : Arrays, count : Nat]
<1>1. t \in T /\ t.count \in Nat
    BY DEF IsTable
<1>2. [t.entries[p] EXCEPT !.value = var] = new /\ new \in Entry
    BY DEF Entry
<1>3. Reassign(t, p, var) = [t EXCEPT !.entries = a]
    <2>1. Reassign(t, p, var) = [t EXCEPT !.entries = [@ EXCEPT ![p] = [t.entries[p] EXCEPT !.value = var]]]
        BY DEF Reassign
    <2> QED BY <1>2, <2>1
<1>4. a \in Arrays
    <2>1. a \in [Slots(t) -> Entry \cup {NULL}]
        BY <1>2 DEF IsTable
    <2>2. t.capacity \in Nat /\ Slots(t) = 0 .. t.capacity - 1
        BY DEF IsTable, Slots
    <2> HIDE DEF a
    <2> QED BY <2>1, <2>2 DEF Arrays
<1>5. Stored(t, p, new, t.count) = [t EXCEPT !.entries = a, !.count = t.count]
    BY DEF Stored
<1> HIDE DEF a
<1>6. [t EXCEPT !.entries = a] = [t EXCEPT !.entries = a, !.count = t.count]
    BY <1>1, <1>4
<1> QED BY <1>3, <1>5, <1>6

LEMMA ChangeOK ==
    ASSUME NEW N \in SUBSET Names, NEW e, Chain(N, e), NEW i \in 1 .. Len(e), NEW n \in Names,
           In(e, i, n) # NULL, NEW var \in Variable
    PROVE  Puts(N, e, Change(e, i, n, var), i, n, var)
<1> DEFINE t == e[i].vars
           p == Probe(t, n)
           new == [key |-> n, value |-> var]
           r == Stored(t, p, new, t.count)
<1>1. /\ Sound(t) /\ t.capacity >= 4 /\ IsTable(t) /\ \A x \in Entries(t) : x.key \in N
      /\ e[i] \in [vars : Tables, is_temporary : BOOLEAN] /\ DOMAIN e = 1 .. Len(e)
    BY SoundFacts DEF Chain, Frame
<1>2. p \in Occupied(t) /\ p \in Slots(t) /\ t.entries[p].key = n /\ t.entries[p] \in Entry /\ n \in N
    BY EntryOf DEF Occupied
<1>3. Change(e, i, n, var) = Swapped(e, i, r)
    <2>1. Reassign(t, p, var) = r
        BY <1>1, <1>2, ReassignIs
    <2> HIDE DEF r
    <2>2. Change(e, i, n, var) = [e EXCEPT ![i] = [@ EXCEPT !.vars = Reassign(t, p, var)]]
        BY DEF Change, Reassign
    <2> QED BY <2>1, <2>2 DEF With, Swapped
<1>4. /\ Sound(r) /\ r.capacity = t.capacity
      /\ \A f : f \in Entries(r) <=> f = new \/ (f \in Entries(t) /\ f.key # n)
    BY <1>1, <1>2, ReplaceOK
<1> HIDE DEF r, t, p
<1>5. Updated(t, r, n, var)
    BY <1>4 DEF Updated
<1>6. \A m \in Names : ht_get(r, m) = IF m = n THEN var ELSE ht_get(t, m)
    BY <1>1, <1>4, <1>5, GetUpdated
<1>7. \A x \in Entries(r) : x.key \in N
    <2>1. new.key = n
        OBVIOUS
    <2> QED BY <1>1, <1>2, <1>4, <2>1
<1>8. var \in Variable \cup {NULL} /\ r.capacity >= 4
    BY <1>1, <1>4
<1>9. \A m \in Names : ht_get(r, m) = IF m = n THEN var ELSE In(e, i, m)
    BY <1>6 DEF In, t
<1>10. Puts(N, e, Swapped(e, i, r), i, n, var)
    BY <1>4, <1>7, <1>8, <1>9, TableChanges
<1> QED BY <1>3, <1>10

LEMMA AddOK ==
    ASSUME NEW N \in SUBSET Names, NEW e, Chain(N, e), NEW i \in 1 .. Len(e), NEW n \in N,
           NEW var \in Variable
    PROVE  Puts(N, e, Add(e, i, n, var), i, n, var)
<1> DEFINE t == e[i].vars
           r == ht_set(t, n, var)
<1>1. /\ Sound(t) /\ t.capacity >= 4 /\ t.capacity \in Int /\ \A x \in Entries(t) : x.key \in N
      /\ DOMAIN e = 1 .. Len(e) /\ n \in Names
    BY SoundFacts DEF Chain, Frame, IsTable
<1>2. Add(e, i, n, var) = Swapped(e, i, r)
    BY <1>1 DEF Add, With, Swapped
<1>3. Sound(r) /\ Updated(t, r, n, var) /\ r.capacity >= t.capacity
    BY <1>1, SetOK
<1>4. \A m \in Names : ht_get(r, m) = IF m = n THEN var ELSE In(e, i, m)
    BY <1>1, SetIsUpdate DEF In
<1> HIDE DEF r
<1>5. \A x \in Entries(r) : x.key \in N
    <2>1. [key |-> n, value |-> var].key = n
        OBVIOUS
    <2> QED BY <1>1, <1>3, <2>1 DEF Updated
<1>6. var \in Variable \cup {NULL} /\ r.capacity >= 4
    <2>1. r.capacity \in Int
        BY <1>3, SoundFacts DEF IsTable
    <2> QED BY <1>1, <1>3, <2>1
<1> HIDE DEF t
<1>7. Puts(N, e, Swapped(e, i, r), i, n, var)
    BY <1>1, <1>3, <1>4, <1>5, <1>6, TableChanges
<1> QED BY <1>2, <1>7

\* The table of scope i without the name.
Drop(e, i, n) == [e EXCEPT ![i].vars = ht_remove(@, n)]

LEMMA DropOK ==
    ASSUME NEW N \in SUBSET Names, NEW e, Chain(N, e), NEW i \in 1 .. Len(e), NEW n \in Names
    PROVE  Puts(N, e, Drop(e, i, n), i, n, NULL)
<1> DEFINE t == e[i].vars
           r == ht_remove(t, n)
<1>1. /\ Sound(t) /\ t.capacity >= 4 /\ \A x \in Entries(t) : x.key \in N
      /\ DOMAIN e = 1 .. Len(e)
    BY DEF Chain, Frame
<1>2. Drop(e, i, n) = Swapped(e, i, r)
    BY <1>1 DEF Drop, With, Swapped
<1>3. Sound(r) /\ r.capacity = t.capacity /\ \A f : f \in Entries(r) <=> f \in Entries(t) /\ f.key # n
    BY <1>1, RemoveOK
<1>4. \A m \in Names : ht_get(r, m) = IF m = n THEN NULL ELSE In(e, i, m)
    BY <1>1, RemoveIsDelete DEF In
<1> HIDE DEF r
<1>5. \A x \in Entries(r) : x.key \in N
    BY <1>1, <1>3
<1>6. r.capacity >= 4
    BY <1>1, <1>3
<1> HIDE DEF t
<1>7. Puts(N, e, Swapped(e, i, r), i, n, NULL)
    BY <1>3, <1>4, <1>5, <1>6, TableChanges
<1> QED BY <1>2, <1>7

-----------------------------------------------------------------------------
(* The scope in which a name is found.                                     *)

Topmost(e, n, i) ==
    /\ i \in 0 .. Len(e)
    /\ i # 0 => In(e, i, n) # NULL
    /\ \A j \in i + 1 .. Len(e) : In(e, j, n) = NULL

\* The largest of a set of scopes.
LEMMA LargestIs ==
    ASSUME NEW d \in Nat, NEW I \in SUBSET (1 .. d), I # {}
    PROVE  Max(I) \in I /\ \A y \in I : y <= Max(I)
<1> DEFINE D == {d - x : x \in I}
<1>1. D \in SUBSET Nat /\ D # {}
    OBVIOUS
<1>2. PICK k \in D : \A l \in D : k <= l
    <2> HIDE DEF D
    <2> QED BY <1>1, Least
<1>3. PICK x \in I : k = d - x
    OBVIOUS
<1>4. \A y \in I : d - y \in D /\ y \in Int /\ x \in Int
    OBVIOUS
<1>5. \A y \in I : x >= y
    <2> HIDE DEF D
    <2> QED BY <1>2, <1>3, <1>4
<1>6. Max(I) \in I /\ \A y \in I : Max(I) >= y
    BY <1>5 DEF Max
<1> HIDE DEF D
<1> QED BY <1>6

LEMMA GetIsTopmost ==
    ASSUME NEW e, Len(e) \in Nat, NEW n
    PROVE  Topmost(e, n, environ_get(e, n))
<1> DEFINE I == {i \in 1 .. Len(e) : ht_get(e[i].vars, n) # NULL}
           w == environ_get(e, n)
<1>1. w = IF I # {} THEN Max(I) ELSE 0
    BY DEF environ_get, SelectLastInSeq
<1>2. CASE I = {}
    BY <1>1, <1>2 DEF Topmost, In
<1>3. CASE I # {}
    <2>1. I \in SUBSET (1 .. Len(e))
        OBVIOUS
    <2>2. w \in I /\ \A y \in I : y <= w
        <3> HIDE DEF I, w
        <3> QED BY <1>1, <1>3, <2>1, LargestIs
    <2> HIDE DEF w
    <2>3. w \in 1 .. Len(e) /\ In(e, w, n) # NULL
        BY <2>2 DEF In
    <2>4. \A j \in w + 1 .. Len(e) : In(e, j, n) = NULL
        <3> SUFFICES ASSUME NEW j \in w + 1 .. Len(e), In(e, j, n) # NULL PROVE FALSE
            OBVIOUS
        <3>1. j \in I
            BY <2>3 DEF In
        <3> QED BY <2>2, <2>3, <3>1
    <2> QED BY <2>3, <2>4 DEF Topmost, w
<1> QED BY <1>2, <1>3

LEMMA TopmostUnique ==
    ASSUME NEW e, Len(e) \in Nat, NEW n, NEW i, NEW j, Topmost(e, n, i), Topmost(e, n, j)
    PROVE  i = j
<1>1. i \in 0 .. Len(e) /\ j \in 0 .. Len(e)
    BY DEF Topmost
<1>2. ~(i < j) /\ ~(j < i)
    BY <1>1 DEF Topmost
<1> QED BY <1>1, <1>2

\* The place of an assignment, and what it leaves there.
Target(e, n) == IF environ_get(e, n) = 0 THEN 1 ELSE environ_get(e, n)

Written(e, i, n, v) == IF In(e, i, n) # NULL THEN [In(e, i, n) EXCEPT !.value = v] ELSE Fresh(v)

LEMMA ChainFacts ==
    ASSUME NEW N \in SUBSET Names, NEW e, Chain(N, e), NEW n \in Names
    PROVE  /\ Len(e) \in Nat \ {0} /\ Len(e) \in 1 .. Len(e) /\ 1 \in 1 .. Len(e)
           /\ environ_get(e, n) \in 0 .. Len(e) /\ Target(e, n) \in 1 .. Len(e)
           /\ environ_get(e, n) # 0 => /\ environ_get(e, n) \in 1 .. Len(e)
                                       /\ In(e, environ_get(e, n), n) # NULL
                                       /\ In(e, environ_get(e, n), n) \in Variable
           /\ environ_get(e, n) = 0 => \A i \in 1 .. Len(e) : In(e, i, n) = NULL
           /\ \A i \in 1 .. Len(e) : In(e, i, n) \in Variable \cup {NULL}
<1>1. Len(e) \in Nat \ {0} /\ \A i \in 1 .. Len(e) : In(e, i, n) \in Variable \cup {NULL}
    BY ViewIs
<1>2. Topmost(e, n, environ_get(e, n))
    BY <1>1, GetIsTopmost
<1>3. environ_get(e, n) \in 0 .. Len(e) /\ (environ_get(e, n) # 0 => environ_get(e, n) \in 1 .. Len(e))
    BY <1>1, <1>2 DEF Topmost
<1> QED BY <1>1, <1>2, <1>3 DEF Topmost, Target

LEMMA NewVariable ==
    ASSUME NEW v \in Value, NEW r \in BOOLEAN
    PROVE  /\ variable_new(v, r) \in Variable /\ Fresh(v) \in Variable
           /\ variable_new(v, FALSE) = Fresh(v)
           /\ variable_new(v, r) = [Fresh(v) EXCEPT !.readonly = r]
           /\ variable_new(v, r) = [value |-> v, export |-> FALSE, readonly |-> r]
<1> DEFINE f == Fresh(v)
           x == [value |-> v, export |-> FALSE, readonly |-> r]
<1>1. f = [value |-> v, export |-> FALSE, readonly |-> FALSE] /\ f \in Variable /\ x \in Variable
    BY DEF Fresh, Variable
<1>2. variable_new(v, r) = [f EXCEPT !.readonly = r]
    BY DEF variable_new
<1>3. /\ f.value = v /\ ~f.export /\ ~f.readonly /\ f.export = FALSE /\ f.readonly = FALSE
      /\ x.value = v /\ x.export = FALSE /\ x.readonly = r
    BY <1>1
<1> HIDE DEF f, x
<1>4. [f EXCEPT !.readonly = r] = x
    BY <1>1, <1>3 DEF Variable
<1>5. [f EXCEPT !.readonly = FALSE] = f
    BY <1>1, <1>3 DEF Variable
<1>6. variable_new(v, FALSE) = [f EXCEPT !.readonly = FALSE]
    BY DEF variable_new, f
<1> QED BY <1>1, <1>2, <1>4, <1>5, <1>6 DEF f, x

\* Assignments to the fields of a variable.
LEMMA FieldsType ==
    ASSUME NEW x \in Variable, NEW v \in Value, NEW r \in BOOLEAN
    PROVE  /\ [x EXCEPT !.value = v] \in Variable
           /\ [x EXCEPT !.value = v, !.readonly = r] \in Variable
           /\ ~x.readonly => [x EXCEPT !.value = v, !.readonly = FALSE] = [x EXCEPT !.value = v]
BY DEF Variable

LEMMA FlagsType ==
    ASSUME NEW x \in Variable
    PROVE  [x EXCEPT !.export = TRUE] \in Variable /\ [x EXCEPT !.readonly = TRUE] \in Variable
BY DEF Variable

LEMMA WrittenType ==
    ASSUME NEW N \in SUBSET Names, NEW e, Chain(N, e), NEW n \in Names, NEW i \in 1 .. Len(e),
           NEW v \in Value
    PROVE  Written(e, i, n, v) \in Variable
BY ChainFacts, FieldsType, NewVariable DEF Written

-----------------------------------------------------------------------------
(* The functions of exec/variable.c.                                       *)

LEMMA SetValueOK ==
    ASSUME NEW N \in SUBSET Names, NEW e, Chain(N, e), NEW n \in Names, NEW i \in 1 .. Len(e),
           In(e, i, n) # NULL, NEW v \in Value
    PROVE  Puts(N, e, SetValue(e, i, n, v), i, n, Written(e, i, n, v))
<1>1. [In(e, i, n) EXCEPT !.value = v] \in Variable
    BY ChainFacts, FieldsType
<1> QED BY <1>1, ChangeOK DEF SetValue, Written

\* environ_set_flags on the innermost scope.
LEMMA SetFlagsOK ==
    ASSUME NEW N \in SUBSET Names, NEW e, Chain(N, e), NEW n \in N, NEW v \in Value, NEW r \in BOOLEAN
    PROVE  LET d == Len(e)
               u == environ_set_flags(e, d, n, v, r)
           IN  /\ check_readonly(e, n) => u = e
               /\ ~check_readonly(e, n) =>
                    Puts(N, e, u, d, n,
                         IF In(e, d, n) = NULL THEN variable_new(v, r)
                         ELSE [In(e, d, n) EXCEPT !.value = v, !.readonly = r])
<1> DEFINE d == Len(e)
           x == In(e, d, n)
           w == environ_get(e, n)
           o == SubSeq(e, 1, d - 1)
           u == environ_set_flags(e, d, n, v, r)
           new == [x EXCEPT !.value = v, !.readonly = r]
<1>1. /\ d \in Nat \ {0} /\ d \in 1 .. d /\ n \in Names /\ x \in Variable \cup {NULL}
      /\ w \in 0 .. d /\ (w # 0 => In(e, w, n) \in Variable)
      /\ Topmost(e, n, w)
    BY ChainFacts, GetIsTopmost
<1>2. Len(o) = d - 1 /\ Len(o) \in Nat /\ \A i \in 1 .. d - 1 : In(o, i, n) = In(e, i, n)
    <2>1. e \in Seq(Frame(N))
        BY DEF Chain
    <2>2. Len(o) = d - 1 /\ \A i \in 1 .. d - 1 : o[i] = e[i]
        <3>1. d - 1 \in Nat /\ d - 1 <= Len(e)
            BY <1>1
        <3> DEFINE c == d - 1
        <3> HIDE DEF c, d
        <3>2. c \in Nat /\ Len(SubSeq(e, 1, c)) = c /\ \A i \in 1 .. c : SubSeq(e, 1, c)[i] = e[i]
            BY <2>1, <3>1 DEF c
        <3> QED BY <3>2 DEF c
    <2> QED BY <1>1, <2>2 DEF In
<1>3. u = CASE x # NULL /\ x.readonly -> e
            [] x # NULL /\ ~x.readonly -> Change(e, d, n, new)
            [] x = NULL /\ check_readonly(o, n) -> e
            [] OTHER -> Add(e, d, n, variable_new(v, r))
    BY DEF environ_set_flags
<1> HIDE DEF u, x, w, o
<1>4. check_readonly(e, n) <=> w # 0 /\ In(e, w, n).readonly
    BY DEF check_readonly, w
<1>5. CASE x # NULL
    <2>1. w = d
        <3>1. Topmost(e, n, d)
            BY <1>1, <1>5 DEF Topmost, x
        <3> QED BY <1>1, <3>1, TopmostUnique DEF w
    <2>2. check_readonly(e, n) <=> x.readonly
        BY <1>1, <1>4, <2>1 DEF x
    <2>3. x \in Variable
        BY <1>1, <1>5
    <2>4. CASE x.readonly
        <3>1. u = e
            BY <1>3, <1>5, <2>4
        <3> QED BY <2>2, <2>4, <3>1 DEF u
    <2>5. CASE ~x.readonly
        <3>1. u = Change(e, d, n, new)
            BY <1>3, <1>5, <2>5
        <3>2. new \in Variable
            BY <2>3, FieldsType
        <3>3. Puts(N, e, u, d, n, new)
            BY <1>1, <1>5, <3>1, <3>2, ChangeOK DEF x
        <3> QED BY <1>5, <2>2, <2>5, <3>3 DEF u, x
    <2> QED BY <2>4, <2>5
<1>6. CASE x = NULL
    <2>1. w = environ_get(o, n) /\ w \in 0 .. d - 1
        <3>1. w # d
            BY <1>1, <1>6 DEF Topmost, x
        <3>2. w \in 0 .. d - 1
            BY <1>1, <3>1
        <3>3. Topmost(o, n, w)
            BY <1>1, <1>2, <3>2 DEF Topmost
        <3>4. Topmost(o, n, environ_get(o, n))
            BY <1>2, GetIsTopmost
        <3> QED BY <1>2, <3>2, <3>3, <3>4, TopmostUnique
    <2>2. check_readonly(o, n) <=> check_readonly(e, n)
        <3>1. w # 0 => In(o, w, n) = In(e, w, n)
            BY <1>1, <1>2, <2>1
        <3> QED BY <1>4, <2>1, <3>1 DEF check_readonly
    <2>3. CASE check_readonly(e, n)
        BY <1>3, <1>6, <2>2, <2>3 DEF u
    <2>4. CASE ~check_readonly(e, n)
        <3>1. u = Add(e, d, n, variable_new(v, r))
            BY <1>3, <1>6, <2>2, <2>4
        <3>2. Puts(N, e, u, d, n, variable_new(v, r))
            BY <1>1, <3>1, AddOK, NewVariable
        <3> QED BY <1>6, <2>4, <3>2 DEF u, x
    <2> QED BY <2>3, <2>4
<1> QED BY <1>5, <1>6

\* environ_set on the innermost scope.
LEMMA SetOnTop ==
    ASSUME NEW N \in SUBSET Names, NEW e, Chain(N, e), NEW n \in N, NEW v \in Value
    PROVE  LET d == Len(e)
               u == environ_set(e, d, n, v)
           IN  /\ check_readonly(e, n) => u = e
               /\ ~check_readonly(e, n) => Puts(N, e, u, d, n, Written(e, d, n, v))
<1> DEFINE d == Len(e)
           x == In(e, d, n)
           u == environ_set(e, d, n, v)
           y == IF x = NULL THEN variable_new(v, FALSE)
                ELSE [x EXCEPT !.value = v, !.readonly = FALSE]
<1>1. /\ d \in Nat \ {0} /\ d \in 1 .. d /\ n \in Names /\ x \in Variable \cup {NULL}
      /\ Topmost(e, n, environ_get(e, n))
    BY ChainFacts, GetIsTopmost
<1>2. u = environ_set_flags(e, d, n, v, FALSE)
    BY DEF environ_set
<1>3. /\ check_readonly(e, n) => u = e
      /\ ~check_readonly(e, n) => Puts(N, e, u, d, n, y)
    <2>1. FALSE \in BOOLEAN
        OBVIOUS
    <2> HIDE DEF u
    <2> QED BY <1>2, <2>1, SetFlagsOK
<1> HIDE DEF u
<1>4. ASSUME ~check_readonly(e, n) PROVE y = Written(e, d, n, v)
    <2>1. CASE x = NULL
        BY <2>1, NewVariable DEF Written
    <2>2. CASE x # NULL
        <3>1. Topmost(e, n, d)
            BY <1>1, <2>2 DEF Topmost
        <3>2. environ_get(e, n) = d
            BY <1>1, <3>1, TopmostUnique
        <3>3. ~x.readonly
            BY <1>1, <1>4, <3>2 DEF check_readonly
        <3>4. [x EXCEPT !.value = v, !.readonly = FALSE] = [x EXCEPT !.value = v]
            BY <1>1, <2>2, <3>3, FieldsType
        <3> QED BY <2>2, <3>4 DEF Written
    <2> QED BY <2>1, <2>2
<1> HIDE DEF y
<1> QED BY <1>3, <1>4 DEF u

\* environ_assign: the visible variable, or a new global one.
LEMMA AssignOK ==
    ASSUME NEW N \in SUBSET Names, NEW e, Chain(N, e), NEW n \in N, NEW v \in Value
    PROVE  LET i == Target(e, n)
               u == environ_assign(e, n, v)
           IN  /\ check_readonly(e, n) => u = e
               /\ ~check_readonly(e, n) => Puts(N, e, u, i, n, Written(e, i, n, v))
<1> DEFINE w == environ_get(e, n)
           i == Target(e, n)
           u == environ_assign(e, n, v)
<1>1. /\ n \in Names /\ i \in 1 .. Len(e) /\ 1 \in 1 .. Len(e) /\ w \in 0 .. Len(e)
      /\ w # 0 => w \in 1 .. Len(e) /\ In(e, w, n) # NULL
      /\ w = 0 => \A k \in 1 .. Len(e) : In(e, k, n) = NULL
    BY ChainFacts
<1>2. u = CASE w # 0 /\ In(e, w, n).readonly -> e
            [] w # 0 /\ ~In(e, w, n).readonly -> SetValue(e, w, n, v)
            [] OTHER -> environ_set(e, 1, n, v)
    BY DEF environ_assign
<1> HIDE DEF u, w
<1>3. check_readonly(e, n) <=> w # 0 /\ In(e, w, n).readonly
    BY DEF check_readonly, w
<1>4. CASE check_readonly(e, n)
    BY <1>2, <1>3, <1>4 DEF u
<1>5. CASE w # 0 /\ ~check_readonly(e, n)
    <2>1. u = SetValue(e, w, n, v) /\ i = w
        BY <1>2, <1>3, <1>5 DEF Target, w
    <2>2. Puts(N, e, u, w, n, Written(e, w, n, v))
        BY <1>1, <1>5, <2>1, SetValueOK
    <2> QED BY <1>5, <2>1, <2>2 DEF u
<1>6. CASE w = 0
    <2> DEFINE o == SubSeq(e, 1, 1 - 1)
    <2>1. ~check_readonly(o, n)
        <3>1. Len(o) = 0
            <4>1. e \in Seq(Frame(N))
                BY DEF Chain
            <4> QED BY <4>1
        <3> HIDE DEF o
        <3>2. environ_get(o, n) \in 0 .. 0
            BY <3>1, GetIsTopmost DEF Topmost
        <3> QED BY <3>2 DEF check_readonly
    <2>2. u = environ_set_flags(e, 1, n, v, FALSE)
        BY <1>2, <1>6 DEF environ_set
    <2>3. In(e, 1, n) = NULL
        BY <1>1, <1>6
    <2>4. environ_set_flags(e, 1, n, v, FALSE) = Add(e, 1, n, variable_new(v, FALSE))
        BY <2>1, <2>3 DEF environ_set_flags
    <2>5. variable_new(v, FALSE) = Fresh(v) /\ Fresh(v) \in Variable /\ Written(e, 1, n, v) = Fresh(v)
        BY <2>3, NewVariable DEF Written
    <2>6. Puts(N, e, u, 1, n, Written(e, 1, n, v))
        BY <1>1, <2>2, <2>4, <2>5, AddOK
    <2>7. i = 1 /\ ~check_readonly(e, n)
        BY <1>3, <1>6 DEF Target, w
    <2> QED BY <2>6, <2>7 DEF u
<1> QED BY <1>1, <1>4, <1>5, <1>6

\* environ_set_local: readonly or not.
LEMMA SetLocalOK ==
    ASSUME NEW N \in SUBSET Names, NEW e, Chain(N, e), NEW n \in N, NEW v \in Value
    PROVE  Puts(N, e, environ_set_local(e, n, v), Len(e), n, Written(e, Len(e), n, v))
<1> DEFINE d == Len(e)
<1>1. n \in Names /\ d \in 1 .. Len(e)
    BY ChainFacts
<1>2. CASE In(e, d, n) # NULL
    BY <1>1, <1>2, SetValueOK DEF environ_set_local
<1>3. CASE In(e, d, n) = NULL
    <2>1. Written(e, d, n, v) = Fresh(v) /\ variable_new(v, FALSE) = Fresh(v) /\ Fresh(v) \in Variable
        BY <1>3, NewVariable DEF Written
    <2>2. environ_set_local(e, n, v) = Add(e, d, n, Fresh(v))
        BY <1>3, <2>1 DEF environ_set_local
    <2> QED BY <1>1, <2>1, <2>2, AddOK
<1> QED BY <1>2, <1>3

\* environ_export
LEMMA ExportOK ==
    ASSUME NEW N \in SUBSET Names, NEW e, Chain(N, e), NEW n \in Names
    PROVE  LET w == environ_get(e, n)
               u == environ_export(e, n)
           IN  /\ w = 0 => u = e
               /\ w # 0 => Puts(N, e, u, w, n, [In(e, w, n) EXCEPT !.export = TRUE])
<1> DEFINE w == environ_get(e, n)
           x == [In(e, w, n) EXCEPT !.export = TRUE]
<1>1. CASE w = 0
    BY <1>1 DEF environ_export
<1>2. CASE w # 0
    <2>1. w \in 1 .. Len(e) /\ In(e, w, n) # NULL /\ In(e, w, n) \in Variable
        BY <1>2, ChainFacts
    <2>2. environ_export(e, n) = Change(e, w, n, x)
        BY <1>2 DEF environ_export
    <2>3. x \in Variable
        BY <2>1, FlagsType
    <2> HIDE DEF x, w
    <2>4. Puts(N, e, environ_export(e, n), w, n, x)
        BY <2>1, <2>2, <2>3, ChangeOK
    <2> QED BY <1>2, <2>4 DEF w, x
<1> QED BY <1>1, <1>2

\* environ_unset
LEMMA UnsetOK ==
    ASSUME NEW N \in SUBSET Names, NEW e, Chain(N, e), NEW n \in Names
    PROVE  LET w == environ_get(e, n)
               u == environ_unset(e, n)
           IN  /\ w = 0 \/ check_readonly(e, n) => u = e
               /\ ~(w = 0 \/ check_readonly(e, n)) => Puts(N, e, u, w, n, NULL)
<1> DEFINE w == environ_get(e, n)
<1>1. CASE w = 0 \/ check_readonly(e, n)
    BY <1>1 DEF environ_unset
<1>2. CASE ~(w = 0 \/ check_readonly(e, n))
    <2>1. w \in 1 .. Len(e)
        BY <1>2, ChainFacts
    <2>2. environ_unset(e, n) = Drop(e, w, n)
        BY <1>2 DEF environ_unset, Drop
    <2> HIDE DEF w
    <2>3. Puts(N, e, environ_unset(e, n), w, n, NULL)
        BY <2>1, <2>2, DropOK
    <2> QED BY <1>2, <2>3 DEF w
<1> QED BY <1>1, <1>2

-----------------------------------------------------------------------------
(* Scopes that come and go.                                                *)

LEMMA NewScope ==
    ASSUME NEW N, NEW b \in BOOLEAN
    PROVE  /\ environ_new(b) \in Frame(N) /\ environ_new(b).is_temporary = b
           /\ \A n \in Names : ht_get(environ_new(b).vars, n) = NULL
<1> DEFINE t == NewTable(HT_INITIAL_CAP)
<1>1. HT_INITIAL_CAP \in Nat \ {0} /\ HT_INITIAL_CAP >= 4
    BY CapAssumption
<1>2. Sound(t) /\ t.capacity = HT_INITIAL_CAP /\ Entries(t) = {}
    BY <1>1, NewTableOK
<1> HIDE DEF t
<1>3. environ_new(b) = [vars |-> t, is_temporary |-> b]
    BY DEF environ_new, ht_init, t
<1>4. t \in Tables
    BY <1>2, SoundFacts DEF IsTable, Tables
<1>5. \A n \in Names : ht_get(t, n) = NULL
    BY <1>2, GetIs
<1> QED BY <1>1, <1>2, <1>3, <1>4, <1>5 DEF Frame

LEMMA EmptyScopeIs ==
    ASSUME NEW b \in BOOLEAN
    PROVE  /\ Abstract!EmptyScope(b) \in Abstract!Scope /\ Abstract!EmptyScope(b).is_temporary = b
           /\ \A n \in Names : Abstract!EmptyScope(b).vars[n] = NULL
BY DEF Abstract!EmptyScope, Abstract!Scope

\* OP_PUSH_SCOPE and OP_EXEC_FUNC
LEMMA PushOK ==
    ASSUME NEW N \in SUBSET Names, NEW e, Chain(N, e), NEW b \in BOOLEAN
    PROVE  LET u == Append(e, environ_new(b))
           IN  /\ Chain(N, u) /\ Len(u) = Len(e) + 1
               /\ \A k \in 1 .. Len(e) : u[k] = e[k]
               /\ u[Len(e) + 1].is_temporary = b
               /\ \A n \in Names : In(u, Len(e) + 1, n) = NULL
               /\ View(u) = Append(View(e), Abstract!EmptyScope(b))
<1> DEFINE f == environ_new(b)
           u == Append(e, f)
           d == Len(e)
           z == Abstract!EmptyScope(b)
           V == View(e)
           a == View(u)
           c == Append(V, z)
<1>1. /\ f \in Frame(N) /\ f.is_temporary = b /\ \A n \in Names : ht_get(f.vars, n) = NULL
      /\ e \in Seq(Frame(N)) /\ d \in Nat /\ d >= 1
    BY NewScope DEF Chain
<1> HIDE DEF f
<1>2. u \in Seq(Frame(N)) /\ Len(u) = d + 1 /\ u[d + 1] = f /\ \A k \in 1 .. d : u[k] = e[k]
    BY <1>1
<1> HIDE DEF u, d
<1>3. Chain(N, u)
    BY <1>1, <1>2 DEF Chain
<1>4. \A n \in Names : In(u, d + 1, n) = NULL
    BY <1>1, <1>2 DEF In
<1>5. /\ V \in Seq(Abstract!Scope) /\ Len(V) = d
      /\ \A k \in 1 .. d : /\ V[k].is_temporary = e[k].is_temporary
                           /\ \A m \in Names : V[k].vars[m] = In(e, k, m)
    BY ViewIs DEF d
<1>6. /\ a \in Seq(Abstract!Scope) /\ Len(a) = d + 1
      /\ \A k \in 1 .. d + 1 : /\ a[k].is_temporary = u[k].is_temporary
                               /\ \A m \in Names : a[k].vars[m] = In(u, k, m)
    <2>1. /\ a \in Seq(Abstract!Scope) /\ Len(a) = Len(u)
          /\ \A k \in 1 .. Len(u) : /\ a[k].is_temporary = u[k].is_temporary
                                    /\ \A m \in Names : a[k].vars[m] = In(u, k, m)
        BY <1>3, ViewIs
    <2> HIDE DEF a
    <2> QED BY <1>2, <2>1
<1>7. z \in Abstract!Scope /\ z.is_temporary = b /\ \A n \in Names : z.vars[n] = NULL
    BY EmptyScopeIs
<1> HIDE DEF V, a, z
<1>8. c \in Seq(Abstract!Scope) /\ Len(c) = d + 1 /\ c[d + 1] = z /\ \A k \in 1 .. d : c[k] = V[k]
    BY <1>1, <1>5, <1>7
<1> HIDE DEF c
<1>9. ASSUME NEW k \in 1 .. d + 1
      PROVE  a[k].is_temporary = c[k].is_temporary /\ \A m \in Names : a[k].vars[m] = c[k].vars[m]
    <2>1. CASE k = d + 1
        BY <1>1, <1>2, <1>4, <1>6, <1>7, <1>8, <2>1
    <2>2. CASE k # d + 1
        <3>1. k \in 1 .. d /\ c[k] = V[k] /\ u[k] = e[k]
            BY <1>1, <1>2, <1>8, <2>2
        <3> QED BY <1>5, <1>6, <3>1 DEF In
    <2> QED BY <2>1, <2>2
<1>10. a = c
    BY <1>6, <1>8, <1>9, SameView
<1> QED BY <1>1, <1>2, <1>3, <1>4, <1>10 DEF u, f, d, a, c, V, z

\* OP_POP_SCOPE and OP_RET
LEMMA PopOK ==
    ASSUME NEW N \in SUBSET Names, NEW e, Chain(N, e), Len(e) > 1
    PROVE  LET u == Front(e)
           IN  /\ Chain(N, u) /\ Len(u) = Len(e) - 1
               /\ \A k \in 1 .. Len(e) - 1 : u[k] = e[k]
               /\ View(u) = SubSeq(View(e), 1, Len(e) - 1)
<1> DEFINE d == Len(e) - 1
           u == SubSeq(e, 1, d)
           V == View(e)
           a == View(u)
           c == SubSeq(V, 1, d)
<1>1. e \in Seq(Frame(N)) /\ d \in Nat /\ d >= 1 /\ Len(e) \in Nat /\ d <= Len(e)
    BY DEF Chain
<1>2. Front(e) = u
    BY DEF Front
<1>3. /\ V \in Seq(Abstract!Scope) /\ Len(V) = Len(e)
      /\ \A k \in 1 .. Len(e) : /\ V[k].is_temporary = e[k].is_temporary
                                /\ \A m \in Names : V[k].vars[m] = In(e, k, m)
    BY ViewIs
<1> HIDE DEF d, V
<1>4. u \in Seq(Frame(N)) /\ Len(u) = d /\ \A k \in 1 .. d : u[k] = e[k] /\ k \in 1 .. Len(e)
    BY <1>1
<1>5. c \in Seq(Abstract!Scope) /\ Len(c) = d /\ \A k \in 1 .. d : c[k] = V[k]
    BY <1>1, <1>3
<1> HIDE DEF u, c
<1>6. Chain(N, u)
    BY <1>1, <1>4 DEF Chain
<1>7. /\ a \in Seq(Abstract!Scope) /\ Len(a) = d
      /\ \A k \in 1 .. d : /\ a[k].is_temporary = u[k].is_temporary
                           /\ \A m \in Names : a[k].vars[m] = In(u, k, m)
    <2>1. /\ a \in Seq(Abstract!Scope) /\ Len(a) = Len(u)
          /\ \A k \in 1 .. Len(u) : /\ a[k].is_temporary = u[k].is_temporary
                                    /\ \A m \in Names : a[k].vars[m] = In(u, k, m)
        BY <1>6, ViewIs
    <2> HIDE DEF a
    <2> QED BY <1>4, <2>1
<1> HIDE DEF a
<1>8. ASSUME NEW k \in 1 .. d
      PROVE  a[k].is_temporary = c[k].is_temporary /\ \A m \in Names : a[k].vars[m] = c[k].vars[m]
    <2>1. u[k] = e[k] /\ k \in 1 .. Len(e) /\ c[k] = V[k]
        BY <1>4, <1>5
    <2>2. /\ a[k].is_temporary = u[k].is_temporary
          /\ \A m \in Names : a[k].vars[m] = In(u, k, m)
        BY <1>7
    <2>3. /\ V[k].is_temporary = e[k].is_temporary
          /\ \A m \in Names : V[k].vars[m] = In(e, k, m)
        BY <1>3, <2>1
    <2>4. \A m \in Names : In(u, k, m) = In(e, k, m)
        BY ONLY <2>1 DEF In
    <2> QED BY ONLY <2>1, <2>2, <2>3, <2>4
<1>9. a = c
    BY <1>5, <1>7, <1>8, SameView
<1> QED BY <1>2, <1>4, <1>6, <1>9 DEF u, d, a, c, V

-----------------------------------------------------------------------------
(* The state, and the scopes it stands for.                                *)

Fits(e) == Chain(work.names, e) /\ ~e[1].is_temporary /\ Len(e) <= work.depth

Invariant == work \in Workloads /\ Fits(env) /\ view = View(env)

LEMMA WorkFacts ==
    ASSUME work \in Workloads
    PROVE  work.names \in SUBSET Names /\ work.texts \in SUBSET Texts /\ work.depth \in Nat \ {0}
BY WorkloadAssumption

LEMMA ValueTypes == ASSUME NEW t \in Texts PROVE String(t) \in Value /\ Array(t) \in Value
BY DEF String, Array, Value

\* What Scopes says of the view is what the code finds in the tables.
LEMMA AbstractIs ==
    ASSUME Invariant
    PROVE  /\ Len(env) \in Nat \ {0} /\ Abstract!Depth = Len(env)
           /\ \A i \in 1 .. Len(env) : view[i].is_temporary = env[i].is_temporary
           /\ \A n \in Names : \A i \in 1 .. Len(env) :
                /\ Abstract!Has(i, n) <=> In(env, i, n) # NULL
                /\ view[i].vars[n] = In(env, i, n)
<1>1. work.names \in SUBSET Names /\ Chain(work.names, env) /\ view = View(env)
    BY WorkFacts DEF Invariant, Fits
<1>2. /\ Len(View(env)) = Len(env) /\ Len(env) \in Nat \ {0}
      /\ \A i \in 1 .. Len(env) :
           /\ View(env)[i].is_temporary = env[i].is_temporary
           /\ \A n \in Names : View(env)[i].vars[n] = In(env, i, n)
    BY <1>1, ViewIs
<1> QED BY <1>1, <1>2 DEF Abstract!Depth, Abstract!Has

LEMMA WhereIs ==
    ASSUME Invariant, NEW n \in Names
    PROVE  /\ Abstract!Where(n) = environ_get(env, n)
           /\ Abstract!Frozen(n) <=> check_readonly(env, n)
<1> DEFINE w == environ_get(env, n)
           Top(i) == Abstract!Has(i, n) /\ \A j \in i + 1 .. Abstract!Depth : ~Abstract!Has(j, n)
           c == CHOOSE i \in 1 .. Abstract!Depth : Top(i)
<1>1. /\ Len(env) \in Nat \ {0} /\ Abstract!Depth = Len(env)
      /\ \A i \in 1 .. Len(env) : /\ Abstract!Has(i, n) <=> In(env, i, n) # NULL
                                  /\ view[i].vars[n] = In(env, i, n)
    BY AbstractIs
<1>2. Topmost(env, n, w) /\ w \in 0 .. Len(env)
    BY <1>1, GetIsTopmost DEF Topmost
<1>3. Abstract!Where(n) = IF \E i \in 1 .. Abstract!Depth : Abstract!Has(i, n) THEN c ELSE 0
    BY DEF Abstract!Where
<1> HIDE DEF w
<1>4. ASSUME w = 0 PROVE Abstract!Where(n) = w
    BY <1>1, <1>2, <1>3, <1>4 DEF Topmost
<1>5. ASSUME w # 0 PROVE Abstract!Where(n) = w
    <2>1. w \in 1 .. Abstract!Depth /\ Top(w)
        BY <1>1, <1>2, <1>5 DEF Topmost
    <2>2. c \in 1 .. Abstract!Depth /\ Top(c)
        <3> HIDE DEF Top
        <3> QED BY <2>1
    <2>3. Abstract!Where(n) = c
        BY <1>3, <2>1
    <2> HIDE DEF c
    <2>4. Topmost(env, n, c)
        BY <1>1, <2>2 DEF Topmost
    <2>5. c = w
        BY <1>1, <1>2, <2>4, TopmostUnique
    <2> QED BY <2>3, <2>5
<1>6. Abstract!Where(n) = w
    BY <1>4, <1>5
<1>7. Abstract!Frozen(n) <=> w # 0 /\ In(env, w, n).readonly
    BY <1>1, <1>2, <1>6 DEF Abstract!Frozen
<1> QED BY <1>6, <1>7 DEF w, check_readonly

LEMMA WriteIs ==
    ASSUME Invariant, NEW n \in Names, NEW i \in 1 .. Len(env)
    PROVE  /\ \A x : Abstract!Put(i, n, x) = VPut(view, i, n, x)
           /\ \A v : Abstract!Write(i, n, v) = VPut(view, i, n, Written(env, i, n, v))
<1>1. (Abstract!Has(i, n) <=> In(env, i, n) # NULL) /\ view[i].vars[n] = In(env, i, n)
    BY AbstractIs
<1>2. \A x : Abstract!Put(i, n, x) = VPut(view, i, n, x)
    BY DEF Abstract!Put, VPut
<1>3. \A v : Abstract!Write(i, n, v) = Abstract!Put(i, n, Written(env, i, n, v))
    BY <1>1, SameTypes DEF Abstract!Write, Written
<1> QED BY <1>2, <1>3

\* A statement can start here and there.
LEMMA GuardsAre ==
    ASSUME Invariant
    PROVE  (Statement <=> Abstract!Statement) /\ (Command <=> Abstract!Command)
<1>1. Statement <=> Abstract!Statement
    BY AbstractIs DEF Statement, Abstract!Statement, Innermost
<1> QED BY <1>1 DEF Command, Abstract!Command

\* A chain in which one variable changed fits.
LEMMA PutsFits ==
    ASSUME Invariant, NEW e, NEW i, NEW n, NEW x, Puts(work.names, env, e, i, n, x)
    PROVE  Fits(e) /\ View(e) = VPut(view, i, n, x)
<1>1. Len(env) >= 1 /\ Len(env) \in Nat
    BY DEF Invariant, Fits, Chain
<1> QED BY <1>1 DEF Invariant, Fits, Puts

LEMMA StepKeeps == ASSUME Invariant, NEW e, Only(e), Fits(e) PROVE Invariant'
BY DEF Invariant, Only, Fits, Chain

\* The variables of the chain after a change.
LEMMA PutsIn ==
    ASSUME NEW N \in SUBSET Names, NEW e, Chain(N, e), NEW u, NEW i \in 1 .. Len(e), NEW n \in Names,
           NEW x \in Variable \cup {NULL}, Puts(N, e, u, i, n, x)
    PROVE  /\ Chain(N, u) /\ Len(u) = Len(e)
           /\ \A k \in 1 .. Len(e) : \A m \in Names :
                In(u, k, m) = IF k = i /\ m = n THEN x ELSE In(e, k, m)
<1>1. Chain(N, u) /\ Len(u) = Len(e) /\ View(u) = VPut(View(e), i, n, x)
    BY DEF Puts
<1>2. /\ View(e) \in Seq(Abstract!Scope) /\ Len(View(e)) = Len(e)
      /\ \A k \in 1 .. Len(e) : \A m \in Names : View(e)[k].vars[m] = In(e, k, m)
    BY ViewIs
<1>3. \A k \in 1 .. Len(e) : \A m \in Names : View(u)[k].vars[m] = In(u, k, m)
    BY <1>1, ViewIs
<1>4. \A k \in 1 .. Len(e) : \A m \in Names :
          VPut(View(e), i, n, x)[k].vars[m] = IF k = i /\ m = n THEN x ELSE View(e)[k].vars[m]
    <2>1. i \in 1 .. Len(View(e))
        BY <1>2
    <2> QED BY <1>2, <2>1, VPutIs
<1> QED BY <1>1, <1>2, <1>3, <1>4

-----------------------------------------------------------------------------
(* The steps that change a variable are those of Scopes.                   *)

LEMMA SetVarStep ==
    ASSUME Invariant, NEW n \in work.names, NEW v \in Value, OP_SET_VAR(n, v)
    PROVE  Invariant' /\ Abstract!Assign(n, v)
<1> DEFINE e == environ_assign(env, n, v)
           i == Target(env, n)
<1>1. n \in Names /\ work.names \in SUBSET Names /\ Chain(work.names, env)
    BY WorkFacts DEF Invariant, Fits
<1>2. i \in 1 .. Len(env)
    BY <1>1, ChainFacts
<1>3. /\ check_readonly(env, n) => e = env
      /\ ~check_readonly(env, n) => Puts(work.names, env, e, i, n, Written(env, i, n, v))
    BY <1>1, AssignOK
<1>4. Only(e) /\ Statement /\ UNCHANGED armed
    BY DEF OP_SET_VAR
<1> HIDE DEF e
<1>5. Fits(e) /\ View(e) = IF check_readonly(env, n) THEN view ELSE VPut(view, i, n, Written(env, i, n, v))
    BY <1>3, PutsFits DEF Invariant
<1>6. i = IF Abstract!Where(n) = 0 THEN 1 ELSE Abstract!Where(n)
    BY <1>1, WhereIs DEF Target
<1> HIDE DEF i
<1>7. view' = IF Abstract!Frozen(n) THEN view ELSE Abstract!Write(i, n, v)
    BY <1>1, <1>2, <1>4, <1>5, WhereIs, WriteIs DEF Only
<1>8. Abstract!Assign(n, v)
    BY <1>4, <1>6, <1>7, GuardsAre DEF Abstract!Assign, Only
<1> QED BY <1>4, <1>5, <1>8, StepKeeps

LEMMA SetLocalStep ==
    ASSUME Invariant, NEW n \in work.names, NEW v \in Value, OP_SET_LOCAL(n, v)
    PROVE  Invariant' /\ Abstract!AssignLocal(n, v)
<1> DEFINE d == Len(env)
           e == environ_set(env, d, n, v)
<1>1. n \in Names /\ work.names \in SUBSET Names /\ Chain(work.names, env)
    BY WorkFacts DEF Invariant, Fits
<1>2. d \in 1 .. Len(env) /\ Abstract!Depth = d
    BY <1>1, ChainFacts, AbstractIs
<1>3. /\ check_readonly(env, n) => e = env
      /\ ~check_readonly(env, n) => Puts(work.names, env, e, d, n, Written(env, d, n, v))
    BY <1>1, SetOnTop
<1>4. Only(e) /\ Statement /\ d > 1 /\ UNCHANGED armed
    BY DEF OP_SET_LOCAL, Innermost
<1> HIDE DEF e
<1>5. Fits(e) /\ View(e) = IF check_readonly(env, n) THEN view ELSE VPut(view, d, n, Written(env, d, n, v))
    BY <1>3, PutsFits DEF Invariant
<1>6. view' = IF Abstract!Frozen(n) THEN view ELSE Abstract!Write(d, n, v)
    BY <1>1, <1>2, <1>4, <1>5, WhereIs, WriteIs DEF Only
<1>7. Abstract!AssignLocal(n, v)
    BY <1>2, <1>4, <1>6, GuardsAre DEF Abstract!AssignLocal, Only
<1> QED BY <1>4, <1>5, <1>7, StepKeeps

LEMMA ExpandParamStep ==
    ASSUME Invariant, NEW n \in work.names, NEW v \in Value, NEW colon, OP_EXPAND_PARAM(n, v, colon)
    PROVE  Invariant' /\ Abstract!AssignDefault(n, v, colon)
<1> DEFINE d == Len(env)
           u == environ_set(env, d, n, v)
           w == environ_get(env, n)
           condition == w # 0 /\ ~(colon /\ In(env, w, n).value = String(""))
           e == IF condition THEN env ELSE u
<1>1. n \in Names /\ work.names \in SUBSET Names /\ Chain(work.names, env)
    BY WorkFacts DEF Invariant, Fits
<1>2. d \in 1 .. Len(env) /\ Abstract!Depth = d
    BY <1>1, ChainFacts, AbstractIs
<1>3. /\ check_readonly(env, n) => u = env
      /\ ~check_readonly(env, n) => Puts(work.names, env, u, d, n, Written(env, d, n, v))
    BY <1>1, SetOnTop
<1>4. /\ Statement \/ armed
      /\ env' = e /\ view' = View(e)
      /\ got' = IF condition THEN value_to_string(In(env, w, n).value) ELSE v
      /\ UNCHANGED <<armed, child, work>>
    BY DEF OP_EXPAND_PARAM, Innermost
<1>5. w = Abstract!Where(n) /\ (w # 0 => w \in 1 .. Len(env))
    BY <1>1, WhereIs, ChainFacts
<1>6. w # 0 => In(env, w, n) = view[w].vars[n]
    BY <1>1, <1>5, AbstractIs
<1> HIDE DEF u, w
<1>7. condition <=> ~Abstract!Missing(n, colon)
    BY <1>5, <1>6, SameTypes DEF Abstract!Missing
<1>8. Fits(u) /\ View(u) = IF check_readonly(env, n) THEN view ELSE VPut(view, d, n, Written(env, d, n, v))
    BY <1>3, PutsFits DEF Invariant
<1>9. /\ Fits(e)
      /\ View(e) = IF Abstract!Missing(n, colon) /\ ~Abstract!Frozen(n)
                   THEN Abstract!Write(d, n, v) ELSE view
    BY <1>1, <1>2, <1>7, <1>8, WhereIs, WriteIs DEF Invariant
<1>10. got' = IF Abstract!Missing(n, colon) THEN v
              ELSE Abstract!value_to_string(view[Abstract!Where(n)].vars[n].value)
    BY <1>4, <1>5, <1>6, <1>7, SameTypes DEF value_to_string, Abstract!value_to_string, Abstract!Missing
<1> HIDE DEF e, condition
<1>11. Abstract!AssignDefault(n, v, colon)
    BY <1>2, <1>4, <1>9, <1>10, GuardsAre DEF Abstract!AssignDefault
<1>12. Invariant'
    BY <1>4, <1>9 DEF Invariant, Fits, Chain
<1> QED BY <1>11, <1>12

LEMMA LocalStep ==
    ASSUME Invariant, NEW n \in work.names, NEW v \in Value, builtin_local(n, v)
    PROVE  Invariant' /\ Abstract!Local(n, v)
<1> DEFINE d == Len(env)
           e == environ_set_local(env, n, v)
<1>1. n \in Names /\ work.names \in SUBSET Names /\ Chain(work.names, env)
    BY WorkFacts DEF Invariant, Fits
<1>2. d \in 1 .. Len(env) /\ Abstract!Depth = d
    BY <1>1, ChainFacts, AbstractIs
<1>3. Puts(work.names, env, e, d, n, Written(env, d, n, v))
    BY <1>1, SetLocalOK
<1>4. Only(e) /\ Command
    BY DEF builtin_local
<1> HIDE DEF e
<1>5. Fits(e) /\ View(e) = VPut(view, d, n, Written(env, d, n, v))
    BY <1>3, PutsFits
<1>6. view' = Abstract!Write(d, n, v)
    BY <1>1, <1>2, <1>4, <1>5, WriteIs DEF Only
<1>7. Abstract!Local(n, v)
    BY <1>2, <1>4, <1>6, GuardsAre DEF Abstract!Local, Only
<1> QED BY <1>4, <1>5, <1>7, StepKeeps

LEMMA ExportStep ==
    ASSUME Invariant, NEW n \in work.names, builtin_export(n)
    PROVE  Invariant' /\ Abstract!Export(n)
<1> DEFINE w == environ_get(env, n)
           e == environ_export(env, n)
           x == [In(env, w, n) EXCEPT !.export = TRUE]
<1>1. n \in Names /\ work.names \in SUBSET Names /\ Chain(work.names, env)
    BY WorkFacts DEF Invariant, Fits
<1>2. (w # 0 => w \in 1 .. Len(env)) /\ w = Abstract!Where(n)
    BY <1>1, ChainFacts, WhereIs
<1>3. (w = 0 => e = env) /\ (w # 0 => Puts(work.names, env, e, w, n, x))
    BY <1>1, ExportOK
<1>4. Only(e) /\ Command
    BY DEF builtin_export
<1>5. w # 0 => x = [view[w].vars[n] EXCEPT !.export = TRUE]
    BY <1>1, <1>2, AbstractIs
<1> HIDE DEF e, x, w
<1>6. Fits(e) /\ View(e) = IF w = 0 THEN view ELSE VPut(view, w, n, x)
    BY <1>3, PutsFits DEF Invariant
<1>7. view' = IF w = 0 THEN view ELSE Abstract!Put(w, n, x)
    BY <1>1, <1>2, <1>4, <1>6, WriteIs DEF Only
<1>8. Abstract!Export(n)
    BY <1>2, <1>4, <1>5, <1>7, GuardsAre DEF Abstract!Export, Only
<1> QED BY <1>4, <1>6, <1>8, StepKeeps

LEMMA UnsetStep ==
    ASSUME Invariant, NEW n \in work.names, builtin_unset(n)
    PROVE  Invariant' /\ Abstract!Unset(n)
<1> DEFINE w == environ_get(env, n)
           e == environ_unset(env, n)
           Refused == w = 0 \/ check_readonly(env, n)
<1>1. n \in Names /\ work.names \in SUBSET Names /\ Chain(work.names, env)
    BY WorkFacts DEF Invariant, Fits
<1>2. (w # 0 => w \in 1 .. Len(env)) /\ w = Abstract!Where(n)
    BY <1>1, ChainFacts, WhereIs
<1>3. (Refused => e = env) /\ (~Refused => Puts(work.names, env, e, w, n, NULL))
    BY <1>1, UnsetOK
<1>4. Only(e) /\ Command
    BY DEF builtin_unset
<1> HIDE DEF e, w
<1>5. Fits(e) /\ View(e) = IF Refused THEN view ELSE VPut(view, w, n, NULL)
    BY <1>3, PutsFits DEF Invariant
<1>6. view' = IF Refused THEN view ELSE Abstract!Put(w, n, NULL)
    BY <1>1, <1>2, <1>4, <1>5, WriteIs DEF Only
<1>7. Abstract!Unset(n)
    BY <1>1, <1>2, <1>4, <1>6, WhereIs, GuardsAre DEF Abstract!Unset, Only
<1> QED BY <1>4, <1>5, <1>7, StepKeeps

LEMMA ReadonlyStep ==
    ASSUME Invariant, NEW n \in work.names, builtin_readonly(n)
    PROVE  Invariant' /\ Abstract!Readonly(n)
<1> DEFINE w == environ_get(env, n)
           d == Len(env)
           new == [Fresh(String("")) EXCEPT !.readonly = TRUE]
           x == [In(env, w, n) EXCEPT !.readonly = TRUE]
           e == IF w = 0 THEN environ_set_flags(env, d, n, String(""), TRUE) ELSE Change(env, w, n, x)
<1>1. n \in Names /\ work.names \in SUBSET Names /\ Chain(work.names, env)
    BY WorkFacts DEF Invariant, Fits
<1>2. /\ w # 0 => w \in 1 .. Len(env) /\ In(env, w, n) # NULL /\ In(env, w, n) \in Variable
      /\ w = 0 => In(env, d, n) = NULL
      /\ d \in 1 .. Len(env) /\ w = Abstract!Where(n) /\ Abstract!Depth = d
    BY <1>1, ChainFacts, WhereIs, AbstractIs
<1>3. Only(e) /\ Command
    BY DEF builtin_readonly, Innermost
<1>4. new = [Abstract!Fresh(Abstract!String("")) EXCEPT !.readonly = TRUE]
    BY SameTypes
<1>5. w # 0 => x = [view[w].vars[n] EXCEPT !.readonly = TRUE]
    BY <1>1, <1>2, AbstractIs
<1>6. CASE w = 0
    <2>1. ~check_readonly(env, n)
        BY <1>6 DEF check_readonly
    <2>2. String("") \in Value /\ TRUE \in BOOLEAN /\ variable_new(String(""), TRUE) = new
        <3>1. String("") \in Value
            BY EmptyAssumption, ValueTypes
        <3> QED BY <3>1, NewVariable
    <2>3. e = environ_set_flags(env, d, n, String(""), TRUE)
        BY <1>6
    <2> HIDE DEF e, new
    <2>4. Puts(work.names, env, e, d, n, new)
        BY <1>1, <1>2, <1>6, <2>1, <2>2, <2>3, SetFlagsOK
    <2>5. Fits(e) /\ View(e) = VPut(view, d, n, new)
        BY <2>4, PutsFits
    <2>6. view' = Abstract!Put(d, n, new)
        BY <1>1, <1>2, <1>3, <2>5, WriteIs DEF Only
    <2>7. Abstract!Readonly(n)
        BY <1>2, <1>3, <1>4, <1>6, <2>6, GuardsAre DEF Abstract!Readonly, Only
    <2> QED BY <1>3, <2>5, <2>7, StepKeeps
<1>7. CASE w # 0
    <2>1. e = Change(env, w, n, x) /\ x \in Variable
        BY <1>2, <1>7, FlagsType
    <2> HIDE DEF e, x, w
    <2>2. Puts(work.names, env, e, w, n, x)
        BY <1>1, <1>2, <1>7, <2>1, ChangeOK
    <2>3. Fits(e) /\ View(e) = VPut(view, w, n, x)
        BY <2>2, PutsFits
    <2>4. view' = Abstract!Put(w, n, x)
        BY <1>1, <1>2, <1>3, <1>7, <2>3, WriteIs DEF Only
    <2>5. Abstract!Readonly(n)
        BY <1>2, <1>3, <1>5, <1>7, <2>4, GuardsAre DEF Abstract!Readonly, Only
    <2> QED BY <1>3, <2>3, <2>5, StepKeeps
<1> QED BY <1>6, <1>7

LEMMA ReadonlyValueStep ==
    ASSUME Invariant, NEW n \in work.names, NEW v \in Value, builtin_readonly_value(n, v)
    PROVE  Invariant' /\ Abstract!ReadonlyValue(n, v)
<1> DEFINE d == Len(env)
           y == In(env, d, n)
           e == environ_set_flags(env, d, n, v, TRUE)
           x == IF y = NULL THEN variable_new(v, TRUE)
                ELSE [y EXCEPT !.value = v, !.readonly = TRUE]
           old == IF Abstract!Has(d, n) THEN view[d].vars[n] ELSE Abstract!Fresh(v)
<1>1. n \in Names /\ work.names \in SUBSET Names /\ Chain(work.names, env)
    BY WorkFacts DEF Invariant, Fits
<1>2. d \in 1 .. Len(env) /\ Abstract!Depth = d
    BY <1>1, ChainFacts, AbstractIs
<1>3. Only(e) /\ Command
    BY DEF builtin_readonly_value, Innermost
<1>4. x = [old EXCEPT !.value = v, !.readonly = TRUE]
    <2>1. old = IF y = NULL THEN Fresh(v) ELSE y
        BY <1>1, <1>2, AbstractIs, SameTypes
    <2>2. variable_new(v, TRUE) = [Fresh(v) EXCEPT !.value = v, !.readonly = TRUE]
        <3> DEFINE f == Fresh(v)
                   g == [value |-> v, export |-> FALSE, readonly |-> TRUE]
        <3>1. variable_new(v, TRUE) = g /\ f \in Variable /\ g \in Variable
            BY NewVariable
        <3>2. /\ f.export = FALSE
              /\ g.value = v /\ g.export = FALSE /\ g.readonly = TRUE
            BY DEF Fresh
        <3> HIDE DEF f, g
        <3>3. [f EXCEPT !.value = v, !.readonly = TRUE] = g
            BY <3>1, <3>2 DEF Variable
        <3> QED BY <3>1, <3>3 DEF f
    <2> HIDE DEF old
    <2> QED BY <2>1, <2>2
<1>5. /\ check_readonly(env, n) => e = env
      /\ ~check_readonly(env, n) => Puts(work.names, env, e, d, n, x)
    <2>1. TRUE \in BOOLEAN
        OBVIOUS
    <2> HIDE DEF e
    <2> QED BY <1>1, <2>1, SetFlagsOK DEF e
<1> HIDE DEF e, x, old
<1>6. Fits(e) /\ View(e) = IF check_readonly(env, n) THEN view ELSE VPut(view, d, n, x)
    BY <1>5, PutsFits DEF Invariant
<1>7. view' = IF Abstract!Frozen(n) THEN view ELSE Abstract!Put(d, n, x)
    BY <1>1, <1>2, <1>3, <1>6, WhereIs, WriteIs DEF Only
<1>8. Abstract!ReadonlyValue(n, v)
    BY <1>2, <1>3, <1>4, <1>7, GuardsAre DEF Abstract!ReadonlyValue, Only, old
<1> QED BY <1>3, <1>6, <1>8, StepKeeps

\* A change at the visible variable, or at one that is visible after it.
LEMMA StillTopmost ==
    ASSUME NEW N \in SUBSET Names, NEW e, Chain(N, e), NEW u, NEW n \in Names, NEW i \in 1 .. Len(e),
           \A j \in i + 1 .. Len(e) : In(e, j, n) = NULL,
           NEW x \in Variable, Puts(N, e, u, i, n, x)
    PROVE  environ_get(u, n) = i /\ In(u, i, n) = x
<1>1. /\ Len(u) = Len(e) /\ Len(e) \in Nat
      /\ \A k \in 1 .. Len(e) : In(u, k, n) = IF k = i THEN x ELSE In(e, k, n)
    <2>1. Len(e) \in Nat
        BY ViewIs
    <2>2. x \in Variable \cup {NULL}
        OBVIOUS
    <2>3. /\ Len(u) = Len(e)
          /\ \A k \in 1 .. Len(e) : \A m \in Names :
                In(u, k, m) = IF k = i /\ m = n THEN x ELSE In(e, k, m)
        BY <2>2, PutsIn
    <2> QED BY <2>1, <2>3
<1>2. x # NULL
    BY NullAssumption
<1>3. In(u, i, n) = x /\ \A j \in i + 1 .. Len(e) : j \in 1 .. Len(e) /\ j # i
    BY <1>1
<1>4. Topmost(u, n, i)
    BY <1>1, <1>2, <1>3 DEF Topmost
<1>5. environ_get(u, n) = i
    BY <1>1, <1>4, GetIsTopmost, TopmostUnique
<1> QED BY <1>3, <1>5

LEMMA PutTwice ==
    ASSUME NEW s \in Seq(Abstract!Scope), NEW i \in 1 .. Len(s), NEW n \in Names,
           NEW x \in Variable \cup {NULL}, NEW y \in Variable \cup {NULL}
    PROVE  VPut(VPut(s, i, n, x), i, n, y) = VPut(s, i, n, y)
<1> DEFINE a == VPut(s, i, n, x)
           b == VPut(a, i, n, y)
           c == VPut(s, i, n, y)
<1>1. /\ a \in Seq(Abstract!Scope) /\ Len(a) = Len(s)
      /\ \A k \in 1 .. Len(s) : /\ a[k].is_temporary = s[k].is_temporary
                                /\ \A m \in Names : a[k].vars[m] = IF k = i /\ m = n THEN x ELSE s[k].vars[m]
    BY VPutIs
<1>2. /\ c \in Seq(Abstract!Scope) /\ Len(c) = Len(s)
      /\ \A k \in 1 .. Len(s) : /\ c[k].is_temporary = s[k].is_temporary
                                /\ \A m \in Names : c[k].vars[m] = IF k = i /\ m = n THEN y ELSE s[k].vars[m]
    BY VPutIs
<1> HIDE DEF a, c
<1>3. /\ b \in Seq(Abstract!Scope) /\ Len(b) = Len(a)
      /\ \A k \in 1 .. Len(a) : /\ b[k].is_temporary = a[k].is_temporary
                                /\ \A m \in Names : b[k].vars[m] = IF k = i /\ m = n THEN y ELSE a[k].vars[m]
    <2>1. i \in 1 .. Len(a)
        BY <1>1
    <2> QED BY <1>1, <2>1, VPutIs
<1> HIDE DEF b
<1>4. \A k \in 1 .. Len(b) : /\ b[k].is_temporary = c[k].is_temporary
                             /\ \A m \in Names : b[k].vars[m] = c[k].vars[m]
    BY <1>1, <1>2, <1>3
<1>5. b = c
    BY <1>1, <1>2, <1>3, <1>4, SameView
<1> QED BY <1>5 DEF a, b, c

LEMMA ExportValueStep ==
    ASSUME Invariant, NEW n \in work.names, NEW v \in Value, builtin_export_value(n, v)
    PROVE  Invariant' /\ Abstract!ExportValue(n, v)
<1> DEFINE w == environ_get(env, n)
           i == Target(env, n)
           q == environ_assign(env, n, v)
           e == environ_export(q, n)
           y == Written(env, i, n, v)
           z == [y EXCEPT !.export = TRUE]
           o == In(env, i, n)
           x == IF Abstract!Has(i, n) THEN view[i].vars[n] ELSE Abstract!Fresh(v)
           r == [x EXCEPT !.value = IF Abstract!Frozen(n) THEN @ ELSE v, !.export = TRUE]
<1>1. n \in Names /\ work.names \in SUBSET Names /\ Chain(work.names, env)
    BY WorkFacts DEF Invariant, Fits
<1>2. /\ i \in 1 .. Len(env) /\ w \in 0 .. Len(env) /\ o \in Variable \cup {NULL}
      /\ w # 0 => w = i /\ o # NULL
      /\ w = 0 => i = 1 /\ o = NULL
      /\ \A j \in i + 1 .. Len(env) : In(env, j, n) = NULL
    <2>1. Topmost(env, n, w)
        BY <1>1, ChainFacts, GetIsTopmost
    <2>2. /\ i \in 1 .. Len(env) /\ w \in 0 .. Len(env) /\ o \in Variable \cup {NULL}
          /\ w # 0 => In(env, w, n) # NULL
          /\ w = 0 => \A k \in 1 .. Len(env) : In(env, k, n) = NULL
        BY <1>1, ChainFacts
    <2>3. i = IF w = 0 THEN 1 ELSE w
        BY DEF Target
    <2> HIDE DEF w, i
    <2>4. \A j \in i + 1 .. Len(env) : In(env, j, n) = NULL
        BY <2>1, <2>2, <2>3 DEF Topmost
    <2> QED BY <2>2, <2>3, <2>4
<1>3. Only(e) /\ Command
    BY DEF builtin_export_value
<1>4. /\ check_readonly(env, n) => q = env
      /\ ~check_readonly(env, n) => Puts(work.names, env, q, i, n, y)
    BY <1>1, AssignOK
<1>5. /\ y \in Variable /\ z \in Variable /\ y # NULL
      /\ z \in Variable \cup {NULL} /\ y \in Variable \cup {NULL}
    <2>1. y \in Variable
        BY <1>1, <1>2, WrittenType
    <2> HIDE DEF y
    <2> QED BY <2>1, FlagsType, NullAssumption
<1>6. x = IF o # NULL THEN o ELSE Fresh(v)
    BY <1>1, <1>2, AbstractIs, SameTypes
<1>7. (Abstract!Frozen(n) <=> check_readonly(env, n)) /\ Abstract!Where(n) = w
    BY <1>1, WhereIs
<1>8. i = IF Abstract!Where(n) = 0 THEN 1 ELSE Abstract!Where(n)
    BY <1>7 DEF Target
<1>9. Fits(e) /\ View(e) = VPut(view, i, n, r)
    <2>1. CASE check_readonly(env, n)
        <3>1. w # 0 /\ w = i /\ o \in Variable
            BY <1>2, <2>1 DEF check_readonly
        <3>2. e = environ_export(env, n)
            BY <1>4, <2>1
        <3>3. Puts(work.names, env, e, i, n, [o EXCEPT !.export = TRUE])
            <4> HIDE DEF e
            <4> QED BY <1>1, <3>1, <3>2, ExportOK
        <3>4. r = [o EXCEPT !.export = TRUE]
            <4>1. x = o
                BY <1>2, <1>6, <3>1
            <4>2. r = [o EXCEPT !.value = o.value, !.export = TRUE]
                BY <1>7, <2>1, <4>1
            <4>3. [o EXCEPT !.value = o.value, !.export = TRUE] = [o EXCEPT !.export = TRUE]
                <5> HIDE DEF o
                <5> QED BY <3>1 DEF Variable
            <4> QED BY <4>2, <4>3
        <3> HIDE DEF e, r
        <3> QED BY <3>3, <3>4, PutsFits
    <2>2. CASE ~check_readonly(env, n)
        <3>1. Puts(work.names, env, q, i, n, y) /\ Chain(work.names, q)
            BY <1>4, <2>2 DEF Puts
        <3> HIDE DEF q, y
        <3>2. environ_get(q, n) = i /\ In(q, i, n) = y
            BY <1>1, <1>2, <1>5, <3>1, StillTopmost
        <3>3. Puts(work.names, q, e, i, n, z)
            <4>1. i # 0
                BY <1>2
            <4> HIDE DEF e
            <4> QED BY <1>1, <3>1, <3>2, <4>1, ExportOK DEF e
        <3> HIDE DEF e
        <3>4. /\ Len(q) = Len(env) /\ View(q) = VPut(view, i, n, y)
              /\ \A k \in 1 .. Len(env) : q[k].is_temporary = env[k].is_temporary
            BY <3>1 DEF Puts, Invariant
        <3>5. Len(env) \in Nat \ {0} /\ view \in Seq(Abstract!Scope) /\ Len(view) = Len(env)
            BY <1>1, ViewIs DEF Invariant
        <3>6. /\ Chain(work.names, e) /\ Len(e) = Len(env) /\ View(e) = VPut(VPut(view, i, n, y), i, n, z)
              /\ \A k \in 1 .. Len(env) : e[k].is_temporary = env[k].is_temporary
            BY <3>3, <3>4 DEF Puts
        <3>7. View(e) = VPut(view, i, n, z)
            <4>1. VPut(VPut(view, i, n, y), i, n, z) = VPut(view, i, n, z)
                <5>1. i \in 1 .. Len(view)
                    BY <1>2, <3>5
                <5> HIDE DEF z, i
                <5> QED BY <1>1, <1>5, <3>5, <5>1, PutTwice
            <4> QED BY <3>6, <4>1
        <3>8. Fits(e)
            BY <3>5, <3>6 DEF Fits, Invariant
        <3>9. r = z
            <4>1. r = [x EXCEPT !.value = v, !.export = TRUE]
                BY <1>7, <2>2
            <4>2. CASE o # NULL
                BY <1>6, <4>1, <4>2 DEF y, Written
            <4>3. CASE o = NULL
                <5> DEFINE f == Fresh(v)
                <5>1. f \in Variable /\ f.value = v
                    BY NewVariable DEF Fresh
                <5>2. x = f /\ y = f
                    BY <1>6, <4>3 DEF y, Written
                <5> HIDE DEF f, x
                <5>3. [f EXCEPT !.value = v, !.export = TRUE] = [f EXCEPT !.export = TRUE]
                    BY <5>1 DEF Variable
                <5> QED BY <4>1, <5>2, <5>3
            <4> QED BY <4>2, <4>3
        <3> QED BY <3>7, <3>8, <3>9
    <2> QED BY <2>1, <2>2
<1> HIDE DEF e, r, i
<1>10. view' = Abstract!Put(i, n, r)
    BY <1>1, <1>2, <1>3, <1>9, WriteIs DEF Only
<1>11. Abstract!ExportValue(n, v)
    BY <1>3, <1>8, <1>10, GuardsAre DEF Abstract!ExportValue, Only, r
<1> QED BY <1>3, <1>9, <1>11, StepKeeps

\* SetArray: in place when the visible variable is an array, readonly or not.
Refused(e, n) == check_readonly(e, n) /\ ~In(e, environ_get(e, n), n).value.array

LEMMA SetArrayOK ==
    ASSUME NEW N \in SUBSET Names, NEW e, Chain(N, e), NEW n \in N, NEW t \in Texts
    PROVE  LET i == Target(e, n)
               u == SetArray(e, n, t)
           IN  /\ Refused(e, n) => u = e
               /\ ~Refused(e, n) => Puts(N, e, u, i, n, Written(e, i, n, Array(t)))
<1> DEFINE w == environ_get(e, n)
           i == Target(e, n)
           u == SetArray(e, n, t)
           a == w # 0 /\ In(e, w, n).value.array
<1>1. /\ n \in Names /\ w # 0 => w \in 1 .. Len(e) /\ In(e, w, n) # NULL
      /\ Array(t) \in Value
    BY ChainFacts, ValueTypes
<1>2. u = IF a THEN SetValue(e, w, n, Array(t)) ELSE environ_assign(e, n, Array(t))
    BY DEF SetArray
<1>3. /\ check_readonly(e, n) => environ_assign(e, n, Array(t)) = e
      /\ ~check_readonly(e, n) =>
            Puts(N, e, environ_assign(e, n, Array(t)), i, n, Written(e, i, n, Array(t)))
    BY <1>1, AssignOK
<1> HIDE DEF u
<1>4. CASE a
    <2>1. n \in Names /\ w \in 1 .. Len(e) /\ In(e, w, n) # NULL /\ i = w /\ u = SetValue(e, w, n, Array(t))
        BY <1>1, <1>2, <1>4 DEF Target
    <2>2. ~Refused(e, n)
        BY <1>4 DEF Refused
    <2> HIDE DEF w, i
    <2>3. Puts(N, e, u, w, n, Written(e, w, n, Array(t)))
        BY <1>1, <2>1, SetValueOK
    <2> QED BY <2>1, <2>2, <2>3 DEF u, i
<1>5. CASE ~a
    <2>1. Refused(e, n) <=> check_readonly(e, n)
        BY <1>5 DEF Refused, check_readonly
    <2>2. u = environ_assign(e, n, Array(t))
        BY <1>2, <1>5
    <2> QED BY <1>3, <2>1, <2>2 DEF u
<1> QED BY <1>4, <1>5

LEMMA RefusedIs ==
    ASSUME Invariant, NEW n \in Names
    PROVE  Refused(env, n) <=>
             Abstract!Frozen(n) /\ ~view[Abstract!Where(n)].vars[n].value.array
<1>1. Chain(work.names, env) /\ work.names \in SUBSET Names
    BY WorkFacts DEF Invariant, Fits
<1>2. environ_get(env, n) # 0 => environ_get(env, n) \in 1 .. Len(env)
    BY <1>1, ChainFacts
<1>3. check_readonly(env, n) => environ_get(env, n) # 0
    BY DEF check_readonly
<1> QED BY <1>2, <1>3, WhereIs, AbstractIs DEF Refused

LEMMA SetArrayStep ==
    ASSUME Invariant, NEW n \in work.names, NEW t \in Texts, OP_SET_ARRAY(n, t)
    PROVE  Invariant' /\ Abstract!AssignElement(n, t)
<1> DEFINE e == SetArray(env, n, t)
           i == Target(env, n)
<1>1. n \in Names /\ work.names \in SUBSET Names /\ Chain(work.names, env)
    BY WorkFacts DEF Invariant, Fits
<1>2. i \in 1 .. Len(env)
    BY <1>1, ChainFacts
<1>3. /\ Refused(env, n) => e = env
      /\ ~Refused(env, n) => Puts(work.names, env, e, i, n, Written(env, i, n, Array(t)))
    BY <1>1, SetArrayOK
<1>4. Only(e) /\ Statement /\ UNCHANGED armed
    BY DEF OP_SET_ARRAY
<1> HIDE DEF e
<1>5. Fits(e) /\ View(e) = IF Refused(env, n) THEN view ELSE VPut(view, i, n, Written(env, i, n, Array(t)))
    BY <1>3, PutsFits DEF Invariant
<1>6. i = IF Abstract!Where(n) = 0 THEN 1 ELSE Abstract!Where(n)
    BY <1>1, WhereIs DEF Target
<1> HIDE DEF i
<1>7. view' = IF Refused(env, n) THEN view ELSE Abstract!Write(i, n, Array(t))
    BY <1>1, <1>2, <1>4, <1>5, WriteIs DEF Only
<1>8. view' = Abstract!Element(n, t)
    BY <1>1, <1>6, <1>7, RefusedIs, SameTypes DEF Abstract!Element
<1>9. Abstract!AssignElement(n, t)
    BY <1>4, <1>8, GuardsAre DEF Abstract!AssignElement, Only
<1> QED BY <1>4, <1>5, <1>9, StepKeeps

LEMMA SetArrayBulkStep ==
    ASSUME Invariant, NEW n \in work.names, NEW t \in Texts, OP_SET_ARRAY_BULK(n, t)
    PROVE  Invariant' /\ Abstract!Assign(n, Array(t))
<1> DEFINE v == Array(t)
           e == environ_assign(env, n, v)
           i == Target(env, n)
<1>0. v \in Value
    BY ValueTypes
<1>4. Only(e) /\ Statement /\ UNCHANGED armed
    BY DEF OP_SET_ARRAY_BULK, SetArrayBulk, Statement, Innermost
<1> HIDE DEF v
<1>1. n \in Names /\ work.names \in SUBSET Names /\ Chain(work.names, env)
    BY WorkFacts DEF Invariant, Fits
<1>2. i \in 1 .. Len(env)
    BY <1>1, ChainFacts
<1>3. /\ check_readonly(env, n) => e = env
      /\ ~check_readonly(env, n) => Puts(work.names, env, e, i, n, Written(env, i, n, v))
    BY <1>0, <1>1, AssignOK
<1> HIDE DEF e
<1>5. Fits(e) /\ View(e) = IF check_readonly(env, n) THEN view ELSE VPut(view, i, n, Written(env, i, n, v))
    BY <1>3, PutsFits DEF Invariant
<1>6. i = IF Abstract!Where(n) = 0 THEN 1 ELSE Abstract!Where(n)
    BY <1>1, WhereIs DEF Target
<1> HIDE DEF i
<1>7. view' = IF Abstract!Frozen(n) THEN view ELSE Abstract!Write(i, n, v)
    BY <1>1, <1>2, <1>4, <1>5, WhereIs, WriteIs DEF Only
<1>8. Abstract!Assign(n, v)
    BY <1>4, <1>6, <1>7, GuardsAre DEF Abstract!Assign, Only
<1> QED BY <1>4, <1>5, <1>8, StepKeeps DEF v

-----------------------------------------------------------------------------
(* The prefix assignments work on the chain with one more scope.           *)

\* The pushed scope hides nothing.
LEMMA PushedFacts ==
    ASSUME NEW N \in SUBSET Names, NEW e, Chain(N, e), NEW b \in BOOLEAN, NEW n \in Names
    PROVE  LET u == Append(e, environ_new(b))
           IN  /\ environ_get(u, n) = environ_get(e, n) /\ Target(u, n) = Target(e, n)
               /\ check_readonly(u, n) <=> check_readonly(e, n)
               /\ Refused(u, n) <=> Refused(e, n)
               /\ \A i \in 1 .. Len(e) : In(u, i, n) = In(e, i, n)
<1> DEFINE u == Append(e, environ_new(b))
           w == environ_get(e, n)
<1>1. /\ Len(u) = Len(e) + 1 /\ In(u, Len(e) + 1, n) = NULL
      /\ \A i \in 1 .. Len(e) : u[i] = e[i]
    <2>1. /\ Len(u) = Len(e) + 1 /\ \A m \in Names : In(u, Len(e) + 1, m) = NULL
          /\ \A k \in 1 .. Len(e) : u[k] = e[k]
        BY PushOK
    <2> HIDE DEF u
    <2> QED BY <2>1
<1>2. Len(e) \in Nat \ {0} /\ w \in 0 .. Len(e) /\ Topmost(e, n, w)
    BY ChainFacts, GetIsTopmost
<1> HIDE DEF u, w
<1>3. \A i \in 1 .. Len(e) : In(u, i, n) = In(e, i, n)
    BY <1>1 DEF In
<1>4. Topmost(u, n, w)
    <2>1. w \in 0 .. Len(u) /\ (w # 0 => In(u, w, n) # NULL)
        BY <1>1, <1>2, <1>3 DEF Topmost
    <2>2. ASSUME NEW j \in w + 1 .. Len(u) PROVE In(u, j, n) = NULL
        <3>1. CASE j = Len(e) + 1
            BY <1>1, <3>1
        <3>2. CASE j # Len(e) + 1
            <4>1. j \in w + 1 .. Len(e) /\ j \in 1 .. Len(e)
                BY <1>1, <1>2, <3>2
            <4> QED BY <1>2, <1>3, <4>1 DEF Topmost
        <3> QED BY <3>1, <3>2
    <2> QED BY <2>1, <2>2 DEF Topmost
<1>5. environ_get(u, n) = w
    <2>1. Len(u) \in Nat
        BY <1>1, <1>2
    <2> QED BY <1>4, <2>1, GetIsTopmost, TopmostUnique
<1>6. w # 0 => In(u, w, n) = In(e, w, n)
    BY <1>2, <1>3
<1>7. /\ Target(u, n) = Target(e, n) /\ (check_readonly(u, n) <=> check_readonly(e, n))
      /\ Refused(u, n) <=> Refused(e, n)
    BY <1>5, <1>6 DEF Target, check_readonly, Refused, w
<1> QED BY <1>3, <1>5, <1>7 DEF u, w

\* A variable put into a view with one more scope.
LEMMA VPutBelow ==
    ASSUME NEW s \in Seq(Abstract!Scope), NEW z \in Abstract!Scope, NEW i \in 1 .. Len(s),
           NEW n \in Names, NEW x \in Variable \cup {NULL}
    PROVE  VPut(Append(s, z), i, n, x) = Append(VPut(s, i, n, x), z)
<1> DEFINE d == Len(s)
           a == VPut(s, i, n, x)
           l == Append(s, z)
           b == VPut(l, i, n, x)
           c == Append(a, z)
<1>1. /\ a \in Seq(Abstract!Scope) /\ Len(a) = d /\ d \in Nat
      /\ \A k \in 1 .. d : /\ a[k].is_temporary = s[k].is_temporary
                           /\ \A m \in Names : a[k].vars[m] = IF k = i /\ m = n THEN x ELSE s[k].vars[m]
    BY VPutIs
<1> HIDE DEF a, d
<1>2. l \in Seq(Abstract!Scope) /\ Len(l) = d + 1 /\ l[d + 1] = z /\ \A k \in 1 .. d : l[k] = s[k]
    BY <1>1 DEF d
<1>3. c \in Seq(Abstract!Scope) /\ Len(c) = d + 1 /\ c[d + 1] = z /\ \A k \in 1 .. d : c[k] = a[k]
    BY <1>1
<1> HIDE DEF l, c
<1>4. /\ b \in Seq(Abstract!Scope) /\ Len(b) = Len(l)
      /\ \A k \in 1 .. Len(l) : /\ b[k].is_temporary = l[k].is_temporary
                                /\ \A m \in Names : b[k].vars[m] = IF k = i /\ m = n THEN x ELSE l[k].vars[m]
    <2>1. i \in 1 .. Len(l)
        BY <1>1, <1>2 DEF d
    <2>2. l \in Seq(Abstract!Scope)
        BY <1>2
    <2> QED BY ONLY <2>1, <2>2, VPutIs, n \in Names, x \in Variable \cup {NULL}
<1> HIDE DEF b
<1>5. ASSUME NEW k \in 1 .. d + 1
      PROVE  b[k].is_temporary = c[k].is_temporary /\ \A m \in Names : b[k].vars[m] = c[k].vars[m]
    <2>1. CASE k = d + 1
        <3>1. k # i
            BY <1>1, <2>1 DEF d
        <3>2. k \in 1 .. Len(l) /\ l[k] = z /\ c[k] = z
            BY <1>2, <1>3, <2>1
        <3>3. /\ b[k].is_temporary = l[k].is_temporary
              /\ \A m \in Names : b[k].vars[m] = IF k = i /\ m = n THEN x ELSE l[k].vars[m]
            BY <1>4, <3>2
        <3> QED BY ONLY <3>1, <3>2, <3>3
    <2>2. CASE k # d + 1
        <3>1. k \in 1 .. d /\ k \in 1 .. Len(l) /\ l[k] = s[k] /\ c[k] = a[k]
            BY <1>1, <1>2, <1>3, <2>2
        <3>2. /\ a[k].is_temporary = s[k].is_temporary
              /\ \A m \in Names : a[k].vars[m] = IF k = i /\ m = n THEN x ELSE s[k].vars[m]
            BY <1>1, <3>1
        <3>3. /\ b[k].is_temporary = l[k].is_temporary
              /\ \A m \in Names : b[k].vars[m] = IF k = i /\ m = n THEN x ELSE l[k].vars[m]
            BY <1>4, <3>1
        <3> QED BY ONLY <3>1, <3>2, <3>3
    <2> QED BY <2>1, <2>2
<1>6. b = c
    <2>1. b \in Seq(Abstract!Scope) /\ c \in Seq(Abstract!Scope) /\ Len(b) = d + 1 /\ Len(c) = d + 1
        BY <1>2, <1>3, <1>4
    <2> QED BY ONLY <2>1, <1>5, SameView
<1> QED BY <1>6 DEF a, b, c, l

LEMMA VPutOnTop ==
    ASSUME NEW s \in Seq(Abstract!Scope), NEW z \in Abstract!Scope,
           NEW n \in Names, NEW x \in Variable \cup {NULL}
    PROVE  VPut(Append(s, z), Len(s) + 1, n, x) = Append(s, [z EXCEPT !.vars[n] = x])
<1> DEFINE d == Len(s)
           l == Append(s, z)
           f == [z EXCEPT !.vars = [@ EXCEPT ![n] = x]]
<1>1. d \in Nat /\ Len(l) = d + 1 /\ DOMAIN l = 1 .. d + 1 /\ l[d + 1] = z
    OBVIOUS
<1>2. VPut(l, d + 1, n, x) = [l EXCEPT ![d + 1] = f]
    BY <1>1 DEF VPut
<1>3. [l EXCEPT ![d + 1] = f] = Append(s, f)
    <2> DEFINE a == [l EXCEPT ![d + 1] = f]
               c == Append(s, f)
    <2>1. f \in Abstract!Scope
        BY SameTypes DEF Abstract!Scope
    <2> HIDE DEF f, d
    <2>2. a \in Seq(Abstract!Scope) /\ Len(a) = d + 1 /\ \A k \in 1 .. d + 1 : a[k] = IF k = d + 1 THEN f ELSE s[k]
        <3>1. l \in Seq(Abstract!Scope) /\ Len(l) = d + 1 /\ \A k \in 1 .. d : l[k] = s[k]
            BY <1>1 DEF d
        <3> HIDE DEF l
        <3>2. a \in Seq(Abstract!Scope) /\ Len(a) = d + 1
            BY <1>1, <2>1, <3>1
        <3>3. ASSUME NEW k \in 1 .. d + 1 PROVE a[k] = IF k = d + 1 THEN f ELSE l[k]
            BY <1>1, <3>3
        <3>4. \A k \in 1 .. d + 1 : k # d + 1 => k \in 1 .. d
            BY <1>1
        <3> HIDE DEF a
        <3> QED BY <3>1, <3>2, <3>3, <3>4
    <2>3. c \in Seq(Abstract!Scope) /\ Len(c) = d + 1 /\ \A k \in 1 .. d + 1 : c[k] = IF k = d + 1 THEN f ELSE s[k]
        BY <1>1, <2>1 DEF d
    <2> HIDE DEF a, c
    <2>4. \A k \in 1 .. d + 1 : a[k] = c[k]
        BY <2>2, <2>3
    <2>5. a = c
        BY <2>2, <2>3, <2>4
    <2> QED BY <2>5 DEF a, c
<1> QED BY <1>2, <1>3

\* One variable set twice.
LEMMA PutsTwice ==
    ASSUME NEW N \in SUBSET Names, NEW e, Chain(N, e), NEW q, NEW u, NEW i \in 1 .. Len(e),
           NEW n \in Names, NEW x \in Variable, NEW y \in Variable,
           Puts(N, e, q, i, n, x), Puts(N, q, u, i, n, y)
    PROVE  Puts(N, e, u, i, n, y)
<1> DEFINE V == View(e)
<1>1. /\ Chain(N, u) /\ Len(u) = Len(e) /\ View(u) = VPut(VPut(V, i, n, x), i, n, y)
      /\ \A k \in 1 .. Len(e) : u[k].is_temporary = e[k].is_temporary
    BY DEF Puts
<1>2. V \in Seq(Abstract!Scope) /\ i \in 1 .. Len(V)
    BY ViewIs
<1> HIDE DEF V
<1>3. x \in Variable \cup {NULL} /\ y \in Variable \cup {NULL}
    OBVIOUS
<1>4. VPut(VPut(V, i, n, x), i, n, y) = VPut(V, i, n, y)
    BY ONLY <1>2, <1>3, PutTwice, n \in Names
<1> QED BY <1>1, <1>4 DEF Puts, V

LEMMA PutsKeepsFit ==
    ASSUME NEW e, Fits(e), NEW u, NEW i, NEW n, NEW x, Puts(work.names, e, u, i, n, x)
    PROVE  Fits(u)
<1>1. Len(e) >= 1 /\ Len(e) \in Nat
    BY DEF Fits, Chain
<1> QED BY <1>1 DEF Fits, Puts

\* There is room for one more scope.
LEMMA PushFits ==
    ASSUME Invariant, Depth, NEW b \in BOOLEAN
    PROVE  LET u == Append(env, environ_new(b))
           IN  /\ Fits(u) /\ Chain(work.names, u) /\ Len(u) = Len(env) + 1
               /\ u[Len(env) + 1].is_temporary = b
               /\ \A n \in Names : In(u, Len(env) + 1, n) = NULL
               /\ View(u) = Append(view, Abstract!EmptyScope(b))
<1> DEFINE u == Append(env, environ_new(b))
<1>1. work.names \in SUBSET Names /\ Chain(work.names, env)
    BY WorkFacts DEF Invariant, Fits
<1>2. /\ Chain(work.names, u) /\ Len(u) = Len(env) + 1
      /\ \A k \in 1 .. Len(env) : u[k] = env[k]
      /\ u[Len(env) + 1].is_temporary = b
      /\ \A n \in Names : In(u, Len(env) + 1, n) = NULL
      /\ View(u) = Append(View(env), Abstract!EmptyScope(b))
    <2>1. Chain(work.names, u) /\ Len(u) = Len(env) + 1
        BY ONLY <1>1, PushOK, b \in BOOLEAN
    <2>2. \A k \in 1 .. Len(env) : u[k] = env[k]
        BY ONLY <1>1, PushOK, b \in BOOLEAN
    <2>3. u[Len(env) + 1].is_temporary = b
        BY ONLY <1>1, PushOK, b \in BOOLEAN
    <2>4. ASSUME NEW n \in Names PROVE In(u, Len(env) + 1, n) = NULL
        <3>1. env \in Seq(Frame(work.names))
            BY <1>1 DEF Chain
        <3>2. u[Len(env) + 1] = environ_new(b)
            BY <3>1
        <3> HIDE DEF u
        <3> QED BY <3>2, NewScope DEF In
    <2>5. View(u) = Append(View(env), Abstract!EmptyScope(b))
        BY ONLY <1>1, PushOK, b \in BOOLEAN
    <2> QED BY <2>1, <2>2, <2>3, <2>4, <2>5
<1> HIDE DEF u
<1>3. Len(env) \in Nat \ {0} /\ work.depth \in Nat /\ Len(env) < work.depth
    BY <1>1, WorkFacts, ViewIs DEF Invariant, Depth, Innermost
<1>4. Fits(u)
    BY <1>2, <1>3 DEF Fits, Invariant
<1> QED BY <1>2, <1>4 DEF u, Invariant

\* A variable put below the pushed scope, and into it.
LEMMA PrefixView ==
    ASSUME Invariant, Depth, NEW n \in Names, NEW x \in Variable, NEW e, NEW i \in 1 .. Len(env) + 1,
           Puts(work.names, OP_PUSH_SCOPE, e, i, n, x)
    PROVE  /\ Fits(e)
           /\ i # Len(env) + 1 =>
                View(e) = Append(VPut(view, i, n, x), Abstract!EmptyScope(TRUE))
           /\ i = Len(env) + 1 =>
                View(e) = Append(view, [Abstract!EmptyScope(TRUE) EXCEPT !.vars[n] = x])
<1> DEFINE u == OP_PUSH_SCOPE
           z == Abstract!EmptyScope(TRUE)
<1>0. TRUE \in BOOLEAN
    OBVIOUS
<1>1. Fits(u) /\ View(u) = Append(view, z)
    BY <1>0, PushFits DEF OP_PUSH_SCOPE
<1>2. /\ view \in Seq(Abstract!Scope) /\ Len(view) = Len(env) /\ Len(env) \in Nat
      /\ z \in Abstract!Scope /\ x \in Variable \cup {NULL}
    BY <1>0, WorkFacts, ViewIs, EmptyScopeIs DEF Invariant, Fits
<1>3. Fits(e)
    BY <1>1, PutsKeepsFit
<1>4. View(e) = VPut(Append(view, z), i, n, x)
    BY <1>1 DEF Puts
<1> HIDE DEF z
<1>5. ASSUME i # Len(env) + 1 PROVE View(e) = Append(VPut(view, i, n, x), z)
    <2>1. i \in 1 .. Len(view)
        BY <1>2, <1>5
    <2> QED BY <1>2, <1>4, <2>1, VPutBelow
<1>6. ASSUME i = Len(env) + 1 PROVE View(e) = Append(view, [z EXCEPT !.vars[n] = x])
    <2>1. View(e) = VPut(Append(view, z), Len(view) + 1, n, x)
        BY <1>2, <1>4, <1>6
    <2> QED BY <1>2, <2>1, VPutOnTop
<1> QED BY <1>3, <1>5, <1>6 DEF z

LEMMA PrefixStep ==
    ASSUME Invariant, NEW n \in work.names, NEW v \in Value, PrefixAssign(n, v)
    PROVE  Invariant' /\ Abstract!Prefix(n, v)
<1> DEFINE w == environ_get(env, n)
           d == Len(env) + 1
           u == OP_PUSH_SCOPE
           q == environ_set(u, d, n, v)
           e == environ_export(q, n)
           z == Abstract!EmptyScope(TRUE)
           o == In(env, w, n)
           x == [o EXCEPT !.export = TRUE]
           y == [Fresh(v) EXCEPT !.export = TRUE]
<1>0. TRUE \in BOOLEAN
    OBVIOUS
<1>1. n \in Names /\ work.names \in SUBSET Names /\ Chain(work.names, env) /\ Depth
    BY WorkFacts DEF Invariant, Fits, PrefixAssign
<1>2. Only(e) /\ Statement /\ armed' = TRUE
    BY DEF PrefixAssign, Innermost
<1>3. /\ Chain(work.names, u) /\ Len(u) = d /\ \A m \in Names : In(u, d, m) = NULL
      /\ Len(env) \in Nat \ {0}
    BY <1>0, <1>1, PushFits, ViewIs DEF OP_PUSH_SCOPE
<1>4. /\ environ_get(u, n) = w /\ (check_readonly(u, n) <=> check_readonly(env, n))
      /\ \A i \in 1 .. Len(env) : In(u, i, n) = In(env, i, n)
    BY <1>0, <1>1, PushedFacts DEF OP_PUSH_SCOPE
<1>5. /\ check_readonly(u, n) => q = u
      /\ ~check_readonly(u, n) => Puts(work.names, u, q, d, n, Written(u, d, n, v))
    <2> HIDE DEF u, d
    <2>1. /\ check_readonly(u, n) => environ_set(u, Len(u), n, v) = u
          /\ ~check_readonly(u, n) =>
                Puts(work.names, u, environ_set(u, Len(u), n, v), Len(u), n, Written(u, Len(u), n, v))
        BY <1>1, <1>3, SetOnTop
    <2> QED BY <1>3, <2>1
<1>6. Written(u, d, n, v) = Fresh(v)
    BY <1>1, <1>3 DEF Written
<1>7. (Abstract!Frozen(n) <=> check_readonly(env, n)) /\ Abstract!Where(n) = w
    BY <1>1, WhereIs
<1>8. Fits(e) /\ View(e) = IF check_readonly(env, n) THEN Append(VPut(view, w, n, x), z)
                           ELSE Append(view, [z EXCEPT !.vars[n] = y])
    <2>1. CASE check_readonly(env, n)
        <3>1. /\ w # 0 /\ w \in 1 .. Len(env) /\ o \in Variable /\ w \in 1 .. d /\ w # d
            <4>1. w # 0
                BY <2>1 DEF check_readonly
            <4>2. w \in 1 .. Len(env) /\ o \in Variable
                BY <1>1, <4>1, ChainFacts
            <4> HIDE DEF w, o
            <4> QED BY <1>3, <4>1, <4>2
        <3>2. e = environ_export(u, n) /\ In(u, w, n) = o
            BY <1>4, <1>5, <2>1, <3>1
        <3>3. Puts(work.names, u, e, w, n, x)
            <4> HIDE DEF e, u, w, o
            <4> QED BY <1>1, <1>3, <1>4, <3>1, <3>2, ExportOK
        <3>4. x \in Variable
            BY <3>1, FlagsType
        <3> HIDE DEF e, x, w
        <3> QED BY <1>1, <2>1, <3>1, <3>3, <3>4, PrefixView
    <2>2. CASE ~check_readonly(env, n)
        <3> DEFINE f == Fresh(v)
        <3>1. f \in Variable /\ y \in Variable
            BY NewVariable, FlagsType
        <3> HIDE DEF f
        <3>2. Puts(work.names, u, q, d, n, f) /\ Chain(work.names, q)
            BY <1>4, <1>5, <1>6, <2>2 DEF f, Puts
        <3>3. d \in 1 .. Len(u) /\ d \in 1 .. d /\ d # 0 /\ \A j \in d + 1 .. Len(u) : In(u, j, n) = NULL
            BY <1>3
        <3> HIDE DEF q, u, d
        <3>4. environ_get(q, n) = d /\ In(q, d, n) = f
            BY <1>1, <1>3, <3>1, <3>2, <3>3, StillTopmost
        <3>5. Puts(work.names, q, e, d, n, y)
            <4>1. y = [f EXCEPT !.export = TRUE]
                BY DEF f
            <4> HIDE DEF e, y
            <4> QED BY <1>1, <3>2, <3>3, <3>4, <4>1, ExportOK DEF e
        <3> HIDE DEF e, y
        <3>6. Puts(work.names, u, e, d, n, y)
            BY <1>1, <1>3, <3>1, <3>2, <3>3, <3>5, PutsTwice
        <3>7. Fits(e) /\ View(e) = Append(view, [z EXCEPT !.vars[n] = y])
            BY <1>1, <3>1, <3>3, <3>6, PrefixView DEF u, d
        <3> QED BY <2>2, <3>7
    <2> QED BY <2>1, <2>2
<1>9. check_readonly(env, n) => /\ w \in 1 .. Len(env)
                                /\ x = [view[w].vars[n] EXCEPT !.export = TRUE]
    BY <1>1, ChainFacts, AbstractIs DEF check_readonly
<1>10. y = [Abstract!Fresh(v) EXCEPT !.export = TRUE]
    BY SameTypes
<1> HIDE DEF e, x, y, w
<1>11. view' = IF Abstract!Frozen(n) THEN Append(Abstract!Put(w, n, x), z)
               ELSE Append(view, [z EXCEPT !.vars[n] = y])
    BY <1>1, <1>2, <1>7, <1>8, <1>9, WriteIs DEF Only
<1>12. Abstract!Prefix(n, v)
    BY <1>2, <1>7, <1>9, <1>10, <1>11, GuardsAre DEF Abstract!Prefix, Only
<1> QED BY <1>2, <1>8, <1>12, StepKeeps

LEMMA PrefixArrayStep ==
    ASSUME Invariant, NEW n \in work.names, NEW t \in Texts, PrefixArray(n, t)
    PROVE  Invariant' /\ Abstract!PrefixArray(n, t)
<1> DEFINE d == Len(env) + 1
           v == Array(t)
           u == OP_PUSH_SCOPE
           e == environ_set(u, d, n, v)
           z == Abstract!EmptyScope(TRUE)
           f == Fresh(v)
<1>0. TRUE \in BOOLEAN /\ v \in Value /\ f \in Variable /\ f = Abstract!Fresh(Abstract!Array(t))
    BY ValueTypes, NewVariable, SameTypes
<1>1. n \in Names /\ work.names \in SUBSET Names /\ Chain(work.names, env) /\ Depth
    BY WorkFacts DEF Invariant, Fits, PrefixArray
<1>2. /\ Fits(u) /\ Chain(work.names, u) /\ Len(u) = d /\ u[d].is_temporary = TRUE
      /\ \A m \in Names : In(u, d, m) = NULL
      /\ View(u) = Append(view, z)
      /\ Len(env) \in Nat \ {0}
    BY <1>0, <1>1, PushFits, ViewIs DEF OP_PUSH_SCOPE
<1>3. Only(e) /\ Statement /\ armed' = TRUE
    BY <1>2 DEF PrefixArray, SetArrayBulk
<1>4. check_readonly(u, n) <=> check_readonly(env, n)
    BY <1>0, <1>1, PushedFacts DEF OP_PUSH_SCOPE
<1> HIDE DEF v
<1>5. /\ check_readonly(u, n) => e = u
      /\ ~check_readonly(u, n) => Puts(work.names, u, e, d, n, Written(u, d, n, v))
    <2> HIDE DEF u, d
    <2>1. /\ check_readonly(u, n) => environ_set(u, Len(u), n, v) = u
          /\ ~check_readonly(u, n) =>
                Puts(work.names, u, environ_set(u, Len(u), n, v), Len(u), n, Written(u, Len(u), n, v))
        BY <1>0, <1>1, <1>2, SetOnTop
    <2> QED BY <1>2, <2>1
<1>6. Written(u, d, n, v) = f
    BY <1>1, <1>2 DEF Written
<1> HIDE DEF e, f, z
<1>7. Fits(e) /\ View(e) = IF check_readonly(env, n) THEN Append(view, z)
                           ELSE Append(view, [z EXCEPT !.vars[n] = f])
    <2>1. CASE check_readonly(env, n)
        BY <1>2, <1>4, <1>5, <2>1
    <2>2. CASE ~check_readonly(env, n)
        <3>1. Puts(work.names, OP_PUSH_SCOPE, e, d, n, f) /\ d \in 1 .. Len(env) + 1
            BY <1>2, <1>4, <1>5, <1>6, <2>2
        <3>2. Fits(e) /\ View(e) = Append(view, [z EXCEPT !.vars[n] = f])
            <4> HIDE DEF u
            <4> QED BY <1>0, <1>1, <3>1, PrefixView DEF z
        <3> QED BY <2>2, <3>2
    <2> QED BY <2>1, <2>2
<1>8. view' = Append(view, IF Abstract!Frozen(n) THEN z ELSE [z EXCEPT !.vars[n] = f])
    BY <1>1, <1>3, <1>7, WhereIs DEF Only
<1>9. Abstract!PrefixArray(n, t)
    BY <1>0, <1>3, <1>8, GuardsAre DEF Abstract!PrefixArray, Only, z
<1> QED BY <1>3, <1>7, <1>9, StepKeeps

LEMMA PrefixElementStep ==
    ASSUME Invariant, NEW n \in work.names, NEW t \in Texts, PrefixElement(n, t)
    PROVE  Invariant' /\ Abstract!PrefixElement(n, t)
<1> DEFINE i == Target(env, n)
           u == OP_PUSH_SCOPE
           e == SetArray(u, n, t)
           z == Abstract!EmptyScope(TRUE)
           x == Written(env, i, n, Array(t))
<1>0. TRUE \in BOOLEAN /\ Array(t) \in Value
    BY ValueTypes
<1>1. n \in Names /\ work.names \in SUBSET Names /\ Chain(work.names, env) /\ Depth
    BY WorkFacts DEF Invariant, Fits, PrefixElement
<1>2. /\ Fits(u) /\ Chain(work.names, u) /\ View(u) = Append(view, z)
    BY <1>0, <1>1, PushFits DEF OP_PUSH_SCOPE
<1>3. Only(e) /\ Statement /\ armed' = TRUE
    BY DEF PrefixElement
<1>4. i \in 1 .. Len(env) /\ Len(env) \in Nat \ {0} /\ i \in 1 .. Len(env) + 1 /\ i # Len(env) + 1
    <2>1. i \in 1 .. Len(env) /\ Len(env) \in Nat \ {0}
        BY <1>1, ChainFacts
    <2> HIDE DEF i
    <2> QED BY <2>1
<1>5. /\ Target(u, n) = i /\ (Refused(u, n) <=> Refused(env, n)) /\ Written(u, i, n, Array(t)) = x
    <2>1. Target(u, n) = i /\ (Refused(u, n) <=> Refused(env, n))
        BY <1>0, <1>1, PushedFacts DEF OP_PUSH_SCOPE
    <2>2. \A k \in 1 .. Len(env) : In(u, k, n) = In(env, k, n)
        BY <1>0, <1>1, PushedFacts DEF OP_PUSH_SCOPE
    <2> HIDE DEF u, i
    <2> QED BY <1>4, <2>1, <2>2 DEF Written, i
<1>6. x \in Variable
    BY <1>0, <1>1, <1>4, WrittenType
<1>7. /\ Refused(env, n) => e = u
      /\ ~Refused(env, n) => Puts(work.names, u, e, i, n, x)
    <2> HIDE DEF u
    <2>1. /\ Refused(u, n) => e = u
          /\ ~Refused(u, n) => Puts(work.names, u, e, Target(u, n), n, Written(u, Target(u, n), n, Array(t)))
        BY <1>1, <1>2, SetArrayOK
    <2> QED BY <1>5, <2>1
<1>8. i = IF Abstract!Where(n) = 0 THEN 1 ELSE Abstract!Where(n)
    BY <1>1, WhereIs DEF Target
<1>9. Abstract!Write(i, n, Array(t)) = VPut(view, i, n, x)
    BY <1>1, <1>4, WriteIs
<1> HIDE DEF e, x, i, z
<1>10. Fits(e) /\ View(e) = Append(IF Refused(env, n) THEN view ELSE VPut(view, i, n, x), z)
    <2>1. CASE Refused(env, n)
        BY <1>2, <1>7, <2>1
    <2>2. CASE ~Refused(env, n)
        <3>1. Fits(e) /\ View(e) = Append(VPut(view, i, n, x), z)
            <4>1. Puts(work.names, OP_PUSH_SCOPE, e, i, n, x)
                BY <1>7, <2>2
            <4> HIDE DEF u
            <4> QED BY <1>1, <1>4, <1>6, <4>1, PrefixView DEF z
        <3> QED BY <2>2, <3>1
    <2> QED BY <2>1, <2>2
<1>11. view' = Append(Abstract!Element(n, t), z)
    <2>1. Abstract!Element(n, t) = IF Refused(env, n) THEN view ELSE Abstract!Write(i, n, Array(t))
        BY <1>1, <1>8, RefusedIs, SameTypes DEF Abstract!Element
    <2> QED BY <1>3, <1>9, <1>10, <2>1 DEF Only
<1>12. Abstract!PrefixElement(n, t)
    BY <1>3, <1>11, GuardsAre DEF Abstract!PrefixElement, Only, z
<1> QED BY <1>3, <1>10, <1>12, StepKeeps

-----------------------------------------------------------------------------
(* The steps that read, and those that change the chain itself.            *)

LEMMA ReadStep ==
    ASSUME Invariant, NEW n \in work.names, OP_GET_VAR(n)
    PROVE  Invariant' /\ Abstract!Read(n)
<1> DEFINE w == environ_get(env, n)
<1>1. n \in Names /\ work.names \in SUBSET Names /\ Chain(work.names, env)
    BY WorkFacts DEF Invariant, Fits
<1>2. w = Abstract!Where(n) /\ (w # 0 => w \in 1 .. Len(env))
    BY <1>1, WhereIs, ChainFacts
<1>3. /\ UNCHANGED <<env, view, armed, child, work>>
      /\ got' = IF w = 0 THEN String("") ELSE In(env, w, n).value
    BY DEF OP_GET_VAR
<1>4. w # 0 => In(env, w, n) = view[w].vars[n]
    BY <1>1, <1>2, AbstractIs
<1> HIDE DEF w
<1>5. Abstract!Read(n)
    BY <1>2, <1>3, <1>4, SameTypes DEF Abstract!Read
<1>6. Invariant'
    BY <1>3 DEF Invariant, Fits, Chain, View
<1> QED BY <1>5, <1>6

\* OP_POP_SCOPE and OP_RET leave the innermost scope.
LEMMA LeaveFits ==
    ASSUME Invariant, Len(env) > 1
    PROVE  Fits(Front(env)) /\ View(Front(env)) = SubSeq(view, 1, Abstract!Depth - 1)
<1>1. work.names \in SUBSET Names /\ Chain(work.names, env) /\ view = View(env)
    BY WorkFacts DEF Invariant, Fits
<1> DEFINE u == Front(env)
<1>2. /\ Chain(work.names, u) /\ Len(u) = Len(env) - 1
      /\ \A k \in 1 .. Len(env) - 1 : u[k] = env[k]
      /\ View(u) = SubSeq(View(env), 1, Len(env) - 1)
    BY <1>1, PopOK
<1> HIDE DEF u
<1>3. Len(env) \in Nat \ {0} /\ Abstract!Depth = Len(env) /\ work.depth \in Nat
    BY AbstractIs, WorkFacts DEF Invariant
<1>4. u[1] = env[1] /\ Len(u) <= work.depth
    BY <1>2, <1>3 DEF Invariant, Fits
<1> QED BY <1>1, <1>2, <1>3, <1>4 DEF Invariant, Fits, u

LEMMA PopStep ==
    ASSUME Invariant, OP_POP_SCOPE
    PROVE  Invariant' /\ Abstract!PopScope
<1> DEFINE e == Front(env)
<1>1. Only(e) /\ env[Len(env)].is_temporary /\ ~armed /\ UNCHANGED armed
    BY DEF OP_POP_SCOPE, Innermost
<1>2. /\ Len(env) \in Nat \ {0} /\ Abstract!Depth = Len(env)
      /\ \A i \in 1 .. Len(env) : view[i].is_temporary = env[i].is_temporary
    BY AbstractIs
<1>3. Len(env) > 1
    <2>1. ~env[1].is_temporary
        BY DEF Invariant, Fits
    <2>2. Len(env) # 1
        BY <1>1, <2>1
    <2> QED BY <1>2, <2>2
<1>4. Fits(e) /\ View(e) = SubSeq(view, 1, Abstract!Depth - 1)
    BY <1>3, LeaveFits
<1> HIDE DEF e
<1>5. Abstract!PopScope
    BY <1>1, <1>2, <1>4 DEF Abstract!PopScope, Only
<1> QED BY <1>1, <1>4, <1>5, StepKeeps

LEMMA ReturnStep ==
    ASSUME Invariant, OP_RET
    PROVE  Invariant' /\ Abstract!Return
<1> DEFINE e == Front(env)
<1>1. Only(e) /\ Statement /\ Len(env) > 1 /\ UNCHANGED armed
    BY DEF OP_RET, Innermost
<1>2. Abstract!Depth = Len(env)
    BY AbstractIs
<1>3. Fits(e) /\ View(e) = SubSeq(view, 1, Abstract!Depth - 1)
    BY <1>1, LeaveFits
<1> HIDE DEF e
<1>4. Abstract!Return
    BY <1>1, <1>2, <1>3, GuardsAre DEF Abstract!Return, Only
<1> QED BY <1>1, <1>3, <1>4, StepKeeps

LEMMA CallStep ==
    ASSUME Invariant, OP_EXEC_FUNC
    PROVE  Invariant' /\ Abstract!Call
<1> DEFINE e == Append(env, environ_new(FALSE))
<1>1. Only(e) /\ Command /\ Depth
    BY DEF OP_EXEC_FUNC
<1>2. Fits(e) /\ View(e) = Append(view, Abstract!EmptyScope(FALSE))
    <2>1. FALSE \in BOOLEAN
        OBVIOUS
    <2> QED BY <1>1, <2>1, PushFits
<1> HIDE DEF e
<1>3. Abstract!Call
    BY <1>1, <1>2, GuardsAre DEF Abstract!Call, Only
<1> QED BY <1>1, <1>2, <1>3, StepKeeps

\* export_var_cb is called for what the table holds.
LEMMA ExportedIs ==
    ASSUME NEW N \in SUBSET Names, NEW e, Chain(N, e), NEW i \in 1 .. Len(e), NEW n \in Names
    PROVE  (\E x \in Entries(e[i].vars) : x.key = n /\ x.value.export)
             <=> In(e, i, n) # NULL /\ In(e, i, n).export
<1> DEFINE t == e[i].vars
           v == In(e, i, n)
<1>1. Sound(t)
    BY DEF Chain, Frame
<1>2. v = ht_get(t, n)
    BY DEF In
<1> HIDE DEF t, v
<1>3. /\ \A x \in Entries(t) : x \in Entry /\ (x.key = n => v = x.value)
      /\ v # NULL => [key |-> n, value |-> v] \in Entries(t)
    BY <1>1, <1>2, GetIs
<1>4. ASSUME NEW x \in Entries(t), x.key = n, x.value.export PROVE v # NULL /\ v.export
    <2>1. v = x.value /\ v \in Variable
        BY <1>3, <1>4 DEF Entry
    <2> QED BY <1>4, <2>1, NullAssumption
<1>5. ASSUME v # NULL, v.export PROVE \E x \in Entries(t) : x.key = n /\ x.value.export
    <2> DEFINE x == [key |-> n, value |-> v]
    <2>1. x \in Entries(t) /\ x.key = n /\ x.value = v
        BY <1>3, <1>5
    <2> HIDE DEF x
    <2> QED BY <1>5, <2>1
<1> QED BY <1>4, <1>5 DEF t, v

LEMMA ExecuteStep ==
    ASSUME Invariant, OP_EXEC_SIMPLE
    PROVE  Invariant' /\ Abstract!Execute
<1>1. work.names \in SUBSET Names /\ Chain(work.names, env)
    BY WorkFacts DEF Invariant, Fits
<1>2. /\ Len(env) \in Nat \ {0} /\ Abstract!Depth = Len(env)
      /\ \A n \in Names : \A i \in 1 .. Len(env) :
           /\ Abstract!Has(i, n) <=> In(env, i, n) # NULL
           /\ view[i].vars[n] = In(env, i, n)
    BY AbstractIs
<1>3. Command /\ child' = environ_export_to_c(env) /\ UNCHANGED <<env, view, got, work>>
    BY DEF OP_EXEC_SIMPLE
<1>4. ASSUME NEW n \in Names PROVE environ_export_to_c(env)[n] = Abstract!Environment(n)
    <2> DEFINE I == {i \in 1 .. Len(env) :
                       \E x \in Entries(env[i].vars) : x.key = n /\ x.value.export}
               J == {i \in 1 .. Abstract!Depth : Abstract!Has(i, n) /\ view[i].vars[n].export}
               k == IF I # {} THEN Max(I) ELSE 0
               c == CHOOSE j \in J : \A l \in J : l <= j
    <2>1. I = J
        <3>1. \A i \in 1 .. Len(env) :
                  (\E x \in Entries(env[i].vars) : x.key = n /\ x.value.export)
                  <=> Abstract!Has(i, n) /\ view[i].vars[n].export
            <4>1. \A i \in 1 .. Len(env) :
                      (\E x \in Entries(env[i].vars) : x.key = n /\ x.value.export)
                      <=> In(env, i, n) # NULL /\ In(env, i, n).export
                BY <1>1, ExportedIs
            <4>2. ASSUME NEW i \in 1 .. Len(env)
                  PROVE  In(env, i, n) # NULL /\ In(env, i, n).export
                         <=> Abstract!Has(i, n) /\ view[i].vars[n].export
                BY <1>2
            <4> QED BY <4>1, <4>2
        <3> QED BY <1>2, <3>1
    <2>2. environ_export_to_c(env)[n] =
            IF k # 0 /\ ~In(env, k, n).value.array THEN In(env, k, n).value.text ELSE Host[n]
        BY DEF environ_export_to_c, SelectLastInSeq
    <2>3. Abstract!Environment(n) =
            IF J # {} /\ ~view[c].vars[n].value.array THEN view[c].vars[n].value.text ELSE Host[n]
        BY DEF Abstract!Environment
    <2>4. J \in SUBSET (1 .. Len(env))
        BY <1>2
    <2> HIDE DEF I, J
    <2>5. CASE J = {}
        BY <2>1, <2>2, <2>3, <2>5
    <2>6. CASE J # {}
        <3>1. k \in J /\ \A y \in J : y <= k
            BY <1>2, <2>1, <2>4, <2>6, LargestIs
        <3>2. c \in J /\ \A y \in J : y <= c
            <4> HIDE DEF k
            <4> QED BY <3>1
        <3> HIDE DEF k, c
        <3>3. k = c /\ k \in 1 .. Len(env) /\ k # 0
            BY <2>4, <3>1, <3>2
        <3>4. view[c].vars[n] = In(env, k, n)
            BY <1>2, <3>3
        <3> QED BY <2>2, <2>3, <2>6, <3>3, <3>4
    <2> QED BY <2>5, <2>6
<1>5. environ_export_to_c(env) = [n \in Names |-> Abstract!Environment(n)]
    <2> DEFINE f == environ_export_to_c(env)
    <2>1. f = [n \in Names |-> f[n]]
        BY DEF environ_export_to_c
    <2> HIDE DEF f
    <2>2. \A n \in Names : f[n] = Abstract!Environment(n)
        BY <1>4 DEF f
    <2> QED BY <2>1, <2>2 DEF f
<1>6. Abstract!Execute
    BY <1>3, <1>5, GuardsAre DEF Abstract!Execute
<1>7. Invariant'
    BY <1>3 DEF Invariant, Fits, Chain, View
<1> QED BY <1>6, <1>7

-----------------------------------------------------------------------------
(* The theorems.                                                           *)

LEMMA InitKeeps == ASSUME Init PROVE Invariant /\ Abstract!Init
<1> DEFINE f == environ_new(FALSE)
           e == <<f>>
           z == Abstract!EmptyScope(FALSE)
<1>1. /\ work \in Workloads /\ env = e /\ view = View(env) /\ armed = FALSE
      /\ got = String("") /\ child = Host
    BY DEF Init
<1>2. f \in Frame(work.names) /\ f.is_temporary = FALSE /\ \A n \in Names : ht_get(f.vars, n) = NULL
    BY NewScope
<1>3. z \in Abstract!Scope /\ z.is_temporary = FALSE /\ \A n \in Names : z.vars[n] = NULL
    BY EmptyScopeIs
<1>4. work.names \in SUBSET Names /\ work.depth \in Nat \ {0}
    BY <1>1, WorkFacts
<1> HIDE DEF f, z
<1>5. e \in Seq(Frame(work.names)) /\ Len(e) = 1 /\ e[1] = f
    BY <1>2
<1> HIDE DEF e
<1>6. Chain(work.names, e) /\ Fits(e)
    BY <1>2, <1>4, <1>5 DEF Chain, Fits
<1>7. View(e) = <<z>>
    <2> DEFINE V == View(e)
    <2>1. /\ V \in Seq(Abstract!Scope) /\ Len(V) = 1
          /\ V[1].is_temporary = FALSE /\ \A n \in Names : V[1].vars[n] = NULL
        <3>1. /\ V \in Seq(Abstract!Scope) /\ Len(V) = Len(e)
              /\ \A i \in 1 .. Len(e) : /\ V[i].is_temporary = e[i].is_temporary
                                        /\ \A n \in Names : V[i].vars[n] = In(e, i, n)
            BY <1>4, <1>6, ViewIs
        <3> HIDE DEF V
        <3> QED BY <1>2, <1>5, <3>1 DEF In
    <2> HIDE DEF V
    <2> DEFINE c == <<z>>
    <2>2. c \in Seq(Abstract!Scope) /\ Len(c) = 1 /\ c[1] = z
        BY <1>3
    <2> HIDE DEF c
    <2>3. V = c
        <3>1. \A i \in 1 .. Len(V) : /\ V[i].is_temporary = c[i].is_temporary
                                     /\ \A n \in Names : V[i].vars[n] = c[i].vars[n]
            <4>1. \A i \in 1 .. Len(V) : i = 1
                BY <2>1
            <4> QED BY <1>3, <2>1, <2>2, <4>1
        <3>2. V \in Seq(Abstract!Scope) /\ c \in Seq(Abstract!Scope) /\ Len(V) = Len(c)
            BY <2>1, <2>2
        <3> QED BY ONLY <3>1, <3>2, SameView
    <2> QED BY <2>3 DEF V, c
<1>8. Invariant
    BY <1>1, <1>6 DEF Invariant
<1>9. Abstract!Init
    BY <1>1, <1>7, SameTypes DEF Abstract!Init, z
<1> QED BY <1>8, <1>9

LEMMA StepSimulated ==
    ASSUME Invariant, [Next]_vars
    PROVE  Invariant' /\ [Abstract!Next]_(Abstract!vars)
<1>0. work.names \in SUBSET Names /\ work.texts \in SUBSET Texts
    BY WorkFacts DEF Invariant
<1>1. ASSUME NEW n \in work.names, NEW t \in work.texts,
             \/ OP_SET_VAR(n, String(t))
             \/ OP_SET_LOCAL(n, String(t))
             \/ OP_SET_ARRAY(n, t)
             \/ OP_SET_ARRAY_BULK(n, t)
             \/ PrefixAssign(n, String(t))
             \/ PrefixArray(n, t)
             \/ PrefixElement(n, t)
             \/ builtin_export_value(n, String(t))
             \/ builtin_readonly_value(n, String(t))
             \/ builtin_local(n, String(t))
             \/ \E colon \in BOOLEAN : OP_EXPAND_PARAM(n, String(t), colon)
      PROVE  Invariant' /\ Abstract!Next
    <2>1. /\ n \in Names /\ t \in Texts /\ String(t) \in Value
          /\ String(t) = Abstract!String(t) /\ Array(t) = Abstract!Array(t)
        BY <1>0, ValueTypes, SameTypes
    <2>2. CASE OP_SET_VAR(n, String(t))
        <3>1. Invariant' /\ Abstract!Assign(n, String(t))
            BY <2>1, <2>2, SetVarStep
        <3> QED BY <2>1, <3>1 DEF Abstract!Next, Abstract!Other
    <2>3. CASE OP_SET_LOCAL(n, String(t))
        <3>1. Invariant' /\ Abstract!AssignLocal(n, String(t))
            BY <2>1, <2>3, SetLocalStep
        <3> QED BY <2>1, <3>1 DEF Abstract!Next, Abstract!Other
    <2>4. CASE OP_SET_ARRAY(n, t)
        <3>1. Invariant' /\ Abstract!AssignElement(n, t)
            BY <2>1, <2>4, SetArrayStep
        <3> QED BY <2>1, <3>1 DEF Abstract!Next, Abstract!Override
    <2>5. CASE OP_SET_ARRAY_BULK(n, t)
        <3>1. Invariant' /\ Abstract!Assign(n, Array(t))
            BY <2>1, <2>5, SetArrayBulkStep
        <3> QED BY <2>1, <3>1 DEF Abstract!Next, Abstract!Other
    <2>6. CASE PrefixAssign(n, String(t))
        <3>1. Invariant' /\ Abstract!Prefix(n, String(t))
            BY <2>1, <2>6, PrefixStep
        <3> QED BY <2>1, <3>1 DEF Abstract!Next, Abstract!Other
    <2>7. CASE PrefixArray(n, t)
        <3>1. Invariant' /\ Abstract!PrefixArray(n, t)
            BY <2>1, <2>7, PrefixArrayStep
        <3> QED BY <2>1, <3>1 DEF Abstract!Next, Abstract!Other
    <2>8. CASE PrefixElement(n, t)
        <3>1. Invariant' /\ Abstract!PrefixElement(n, t)
            BY <2>1, <2>8, PrefixElementStep
        <3> QED BY <2>1, <3>1 DEF Abstract!Next, Abstract!Override
    <2>9. CASE builtin_export_value(n, String(t))
        <3>1. Invariant' /\ Abstract!ExportValue(n, String(t))
            BY <2>1, <2>9, ExportValueStep
        <3> QED BY <2>1, <3>1 DEF Abstract!Next, Abstract!Other
    <2>10. CASE builtin_readonly_value(n, String(t))
        <3>1. Invariant' /\ Abstract!ReadonlyValue(n, String(t))
            BY <2>1, <2>10, ReadonlyValueStep
        <3> QED BY <2>1, <3>1 DEF Abstract!Next, Abstract!Other
    <2>11. CASE builtin_local(n, String(t))
        <3>1. Invariant' /\ Abstract!Local(n, String(t))
            BY <2>1, <2>11, LocalStep
        <3> QED BY <2>1, <3>1 DEF Abstract!Next, Abstract!Override
    <2>12. ASSUME NEW colon \in BOOLEAN, OP_EXPAND_PARAM(n, String(t), colon)
           PROVE  Invariant' /\ Abstract!Next
        <3>1. Invariant' /\ Abstract!AssignDefault(n, String(t), colon)
            BY <2>1, <2>12, ExpandParamStep
        <3> QED BY <2>1, <3>1 DEF Abstract!Next, Abstract!Other
    <2> QED BY <1>1, <2>2, <2>3, <2>4, <2>5, <2>6, <2>7, <2>8, <2>9, <2>10, <2>11, <2>12
<1>2. ASSUME NEW n \in work.names,
             builtin_export(n) \/ builtin_unset(n) \/ builtin_readonly(n) \/ OP_GET_VAR(n)
      PROVE  Invariant' /\ Abstract!Next
    <2>1. n \in Names
        BY <1>0
    <2>2. CASE builtin_export(n)
        <3>1. Invariant' /\ Abstract!Export(n)
            BY <2>2, ExportStep
        <3> QED BY <2>1, <3>1 DEF Abstract!Next, Abstract!Other
    <2>3. CASE builtin_unset(n)
        <3>1. Invariant' /\ Abstract!Unset(n)
            BY <2>3, UnsetStep
        <3> QED BY <2>1, <3>1 DEF Abstract!Next, Abstract!Other
    <2>4. CASE builtin_readonly(n)
        <3>1. Invariant' /\ Abstract!Readonly(n)
            BY <2>4, ReadonlyStep
        <3> QED BY <2>1, <3>1 DEF Abstract!Next, Abstract!Other
    <2>5. CASE OP_GET_VAR(n)
        <3>1. Invariant' /\ Abstract!Read(n)
            BY <2>5, ReadStep
        <3> QED BY <2>1, <3>1 DEF Abstract!Next, Abstract!Other
    <2> QED BY <1>2, <2>2, <2>3, <2>4, <2>5
<1>3. ASSUME OP_POP_SCOPE \/ OP_RET PROVE Invariant' /\ Abstract!Next
    BY <1>3, PopStep, ReturnStep DEF Abstract!Next, Abstract!Exit
<1>4. ASSUME OP_EXEC_FUNC \/ OP_EXEC_SIMPLE PROVE Invariant' /\ Abstract!Next
    BY <1>4, CallStep, ExecuteStep DEF Abstract!Next, Abstract!Other
<1>5. ASSUME UNCHANGED vars PROVE Invariant' /\ UNCHANGED Abstract!vars
    BY <1>5 DEF Invariant, Fits, Chain, View, vars, Abstract!vars
<1> QED BY <1>1, <1>2, <1>3, <1>4, <1>5 DEF Next

\* The chain implements the scopes: every run of the code's operations on hash
\* tables is a run of Scopes, whatever the hash function, the names and the
\* depth, and with it every collision, resizing and shift.
THEOREM ChainImplementsScopes == Spec => Implements
<1>1. Init => Invariant /\ Abstract!Init
    BY InitKeeps
<1>2. Invariant /\ [Next]_vars => Invariant' /\ [Abstract!Next]_(Abstract!vars)
    BY StepSimulated
<1> QED BY <1>1, <1>2, PTL DEF Spec, Implements, Abstract!Spec

LEMMA InvariantHolds == Spec => []Invariant
<1>1. Init => Invariant
    BY InitKeeps
<1>2. Invariant /\ [Next]_vars => Invariant'
    BY StepSimulated
<1> QED BY <1>1, <1>2, PTL DEF Spec

\* The tables of every scope stay sound: no key twice, an empty slot, the right
\* count, and every entry is where the search for it ends.
THEOREM TablesStaySound == Spec => []TablesSound
<1>1. Invariant => TablesSound
    <2> SUFFICES ASSUME Invariant, NEW k \in DOMAIN env PROVE
                LET t        == env[k].vars
                    O        == {i \in Slots(t) : t.entries[i] # NULL}
                IN  /\ DOMAIN t.entries = Slots(t)
                    /\ t.count = Cardinality(O)
                    /\ t.count < t.capacity
                    /\ \A i \in O :
                        /\ Probe(t, t.entries[i].key) = i
                        /\ \A j \in O : t.entries[i].key = t.entries[j].key => i = j
        BY DEF TablesSound
    <2> DEFINE t == env[k].vars
    <2>1. Sound(t)
        BY DEF Invariant, Fits, Chain, Frame
    <2> HIDE DEF t
    <2>2. \A i \in Occupied(t) : Probe(t, t.entries[i].key) = i
        BY <2>1, Found
    <2>3. DOMAIN t.entries = Slots(t)
        BY <2>1 DEF Sound, IsTable
    <2> QED BY <2>1, <2>2, <2>3 DEF t, Sound, Unique, Occupied
<1> QED BY <1>1, InvariantHolds, PTL

\* The theorems of ScopesProofs are about the same specification as Implements:
\* the definitions of both instances are equal when they are expanded.
LEMMA SameSpec ==
    /\ Abstract!Spec <=> P!Spec
    /\ Abstract!TypeOK <=> P!TypeOK
    /\ Abstract!HidesOuter <=> P!HidesOuter
    /\ Abstract!ReadonlyKept <=> P!ReadonlyKept
<1>1. Abstract!Init <=> P!Init
    BY DEF Abstract!Init, P!Init, Abstract!EmptyScope, P!EmptyScope, Abstract!String, P!String
<1>2. (UNCHANGED Abstract!vars <=> UNCHANGED P!vars) /\ (Abstract!Next <=> P!Next)
    BY DEF Abstract!vars, P!vars, Abstract!String, P!String, Abstract!Array, P!Array,
           Abstract!Fresh, P!Fresh, Abstract!EmptyScope, P!EmptyScope,
           Abstract!Depth, P!Depth, Abstract!Has, P!Has,
           Abstract!Where, P!Where, Abstract!Frozen, P!Frozen,
           Abstract!Put, P!Put, Abstract!Write, P!Write,
           Abstract!Statement, P!Statement, Abstract!Command, P!Command,
           Abstract!Read, P!Read, Abstract!Assign, P!Assign,
           Abstract!AssignLocal, P!AssignLocal, Abstract!Missing, P!Missing,
           Abstract!AssignDefault, P!AssignDefault,
           Abstract!value_to_string, P!value_to_string, Abstract!Element, P!Element,
           Abstract!AssignElement, P!AssignElement, Abstract!Prefix, P!Prefix,
           Abstract!PrefixArray, P!PrefixArray, Abstract!PrefixElement, P!PrefixElement,
           Abstract!PopScope, P!PopScope, Abstract!Call, P!Call,
           Abstract!Return, P!Return, Abstract!Export, P!Export,
           Abstract!ExportValue, P!ExportValue, Abstract!Unset, P!Unset,
           Abstract!Readonly, P!Readonly, Abstract!ReadonlyValue, P!ReadonlyValue,
           Abstract!Local, P!Local, Abstract!Environment, P!Environment,
           Abstract!Execute, P!Execute, Abstract!Override, P!Override,
           Abstract!Exit, P!Exit, Abstract!Other, P!Other,
           Abstract!Next, P!Next
<1>3. [Abstract!Next]_(Abstract!vars) <=> [P!Next]_(P!vars)
    BY <1>2
<1>4. Abstract!Spec <=> P!Spec
    BY <1>1, <1>3, PTL DEF Abstract!Spec, P!Spec
<1>5. Abstract!TypeOK <=> P!TypeOK
    BY DEF Abstract!TypeOK, P!TypeOK, Abstract!Scope, P!Scope, Abstract!Depth, P!Depth,
           Abstract!Value, P!Value, Abstract!Variable, P!Variable
<1>6. Abstract!HidesOuter <=> P!HidesOuter
    BY DEF Abstract!HidesOuter, P!HidesOuter, Abstract!Has, P!Has, Abstract!Depth, P!Depth,
           Abstract!vars, P!vars
<1>7. Abstract!ReadonlyKept <=> P!ReadonlyKept
    BY DEF Abstract!ReadonlyKept, P!ReadonlyKept, Abstract!vars, P!vars,
           Abstract!String, P!String, Abstract!Array, P!Array, Abstract!Fresh, P!Fresh,
           Abstract!EmptyScope, P!EmptyScope, Abstract!Depth, P!Depth, Abstract!Has, P!Has,
           Abstract!Where, P!Where, Abstract!Frozen, P!Frozen, Abstract!Put, P!Put,
           Abstract!Write, P!Write, Abstract!Statement, P!Statement,
           Abstract!Command, P!Command, Abstract!Element, P!Element, Abstract!Local, P!Local,
           Abstract!AssignElement, P!AssignElement, Abstract!PrefixElement, P!PrefixElement,
           Abstract!PopScope, P!PopScope, Abstract!Return, P!Return,
           Abstract!Override, P!Override, Abstract!Exit, P!Exit
<1> QED BY <1>4, <1>5, <1>6, <1>7

\* What is assumed of the constants there is assumed here.
LEMMA SameAssumptions ==
    /\ Host \in [Names -> Texts \cup {NULL}] /\ "" \in Texts
    /\ NULL \notin P!Variable /\ NULL \notin Texts
BY NullAssumption, EmptyAssumption, HostAssumption DEF Variable, Value, P!Variable, P!Value

\* The scopes the chain stands for keep their shape (the outermost one is not
\* temporary, a command waits only in a temporary one), and the tables hold no
\* name that the script has not used.
THEOREM EnvironTypeOK == Spec => []TypeOK
<1>1. P!Spec => []P!TypeOK
    BY SameAssumptions, P!TypeCorrect
<1>2. Spec => []Abstract!TypeOK
    BY <1>1, SameSpec, ChainImplementsScopes, PTL DEF Implements
<1>3. Invariant /\ Abstract!TypeOK => TypeOK
    <2> SUFFICES ASSUME Invariant, Abstract!TypeOK, NEW i \in DOMAIN env, NEW x \in Entries(env[i].vars)
                 PROVE  x.key \in work.names
        BY DEF TypeOK, Invariant, Fits, Innermost
    <2> QED BY DEF Invariant, Fits, Chain, Frame
<1> QED BY <1>2, <1>3, InvariantHolds, PTL

\* No operation on the chain touches a variable that another one hides.
THEOREM EnvironHidesOuter == Spec => HidesOuter
<1>1. P!Spec => P!HidesOuter
    BY SameAssumptions, P!HiddenIsSafe
<1> QED BY <1>1, SameSpec, ChainImplementsScopes DEF Implements, HidesOuter

\* A readonly variable of the chain keeps its value and its flag, but for local
\* and for the element of an array, and nothing comes to hide it.
THEOREM EnvironReadonlyKept == Spec => ReadonlyKept
<1>1. P!Spec => P!ReadonlyKept
    BY SameAssumptions, P!ReadonlyIsKept
<1> QED BY <1>1, SameSpec, ChainImplementsScopes DEF Implements, ReadonlyKept

=============================================================================
