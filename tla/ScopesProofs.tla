---------------------------- MODULE ScopesProofs ----------------------------
(***************************************************************************)
(* Proofs about Scopes, for any set of names and texts and any depth of    *)
(* calls: TypeOK, HidesOuter and ReadonlyKept.                             *)
(*                                                                         *)
(* Every operation is reduced to what it does to the chain of scopes: it   *)
(* puts at most one variable, in a place that no inner scope hides         *)
(* (Changed), and then adds or drops a scope.  All operations but local    *)
(* and the assignment of an array element respect readonly in doing so     *)
(* (ChangedGently).  The theorems follow from these shapes alone.          *)
(***************************************************************************)
EXTENDS Scopes, WellFoundedInduction, TLAPS

\* A set of numbers between 1 and d that is not empty has a largest one.
LEMMA LargestOf ==
    ASSUME NEW d \in Nat, NEW T, T \subseteq 1..d, T # {}
    PROVE  \E x \in T : \A y \in T : y <= x
<1> DEFINE R == OpToRel(<, Nat)
           U == {d - x : x \in T}
<1>0. \A x \in T : x \in Nat /\ x <= d /\ d - x \in Nat
    OBVIOUS
<1>1. IsWellFoundedOn(R, Nat)
    BY NatLessThanWellFounded
<1>2. U \subseteq Nat /\ U # {}
    <2>1. U \subseteq Nat
        BY <1>0
    <2>2. U # {}
        BY Zenon
    <2> QED
        BY <2>1, <2>2
<1> HIDE DEF R, U
<1>3. \E u \in U : \A w \in U : <<w, u>> \notin R
    BY <1>1, <1>2, WFMin
<1>4. PICK u \in U : \A w \in U : ~(w < u)
    BY <1>2, <1>3 DEF R, OpToRel
<1>5. PICK x \in T : u = d - x
    BY <1>4 DEF U
<1>6. ASSUME NEW y \in T PROVE y <= x
    <2>1. d - y \in U
        BY Zenon DEF U
    <2> QED
        BY <1>0, <1>4, <1>5, <2>1
<1> QED
    BY <1>6

-----------------------------------------------------------------------------
\* Where is the innermost scope that has the name, if one has.
LEMMA WhereFacts ==
    ASSUME TypeOK, NEW n \in Names
    PROVE  /\ Where(n) \in 0..Depth
           /\ Where(n) # 0 => Has(Where(n), n)
           /\ Where(n) # 0 => scopes[Where(n)].vars[n] \in Variable
           /\ \A j \in Where(n) + 1 .. Depth : ~Has(j, n)
<1> DEFINE T == {i \in 1..Depth : Has(i, n)}
<1>1. Depth \in Nat
    BY DEF TypeOK, Depth
<1>2. CASE T = {}
    BY <1>1, <1>2 DEF Where
<1>3. CASE T # {}
    <2>1. T \subseteq 1..Depth
        OBVIOUS
    <2>2. PICK x \in T : \A y \in T : y <= x
        <3> HIDE DEF T
        <3> QED
            BY <1>1, <1>3, <2>1, LargestOf
    <2>3. x \in 1..Depth /\ Has(x, n) /\ \A j \in x + 1 .. Depth : ~Has(j, n)
        BY <1>1, <2>2
    <2>4. Where(n) = CHOOSE i \in 1..Depth : Has(i, n) /\ \A j \in i + 1 .. Depth : ~Has(j, n)
        BY <2>3 DEF Where
    <2>5. Where(n) \in 1..Depth /\ Has(Where(n), n) /\ \A j \in Where(n) + 1 .. Depth : ~Has(j, n)
        BY <2>3, <2>4
    <2>6. scopes[Where(n)].vars[n] \in Variable
        <3>1. scopes[Where(n)] \in Scope
            BY <2>5 DEF TypeOK, Depth
        <3> QED
            BY <2>5, <3>1 DEF Scope, Has
    <2> QED
        BY <1>1, <2>5, <2>6
<1> QED
    BY <1>2, <1>3

\* Put changes one variable of one scope and nothing else.
LEMMA PutFacts ==
    ASSUME TypeOK, NEW i \in 1..Depth, NEW n \in Names, NEW x \in Variable \cup {NULL}
    PROVE  /\ Put(i, n, x) \in Seq(Scope)
           /\ Len(Put(i, n, x)) = Depth
           /\ \A k \in 1..Depth :
                /\ Put(i, n, x)[k].is_temporary = scopes[k].is_temporary
                /\ \A m \in Names :
                    Put(i, n, x)[k].vars[m] = IF k = i /\ m = n THEN x ELSE scopes[k].vars[m]
<1> DEFINE s == Put(i, n, x)
<1>1. scopes \in Seq(Scope) /\ Depth \in Nat /\ DOMAIN scopes = 1..Depth
    BY DEF TypeOK, Depth
<1>2. \A k \in 1..Depth : scopes[k] \in Scope
    BY <1>1
<1>3. s = [k \in 1..Depth |-> IF k = i
                              THEN [scopes[k] EXCEPT !.vars = [@ EXCEPT ![n] = x]]
                              ELSE scopes[k]]
    BY <1>1 DEF Put
<1>4. \A k \in 1..Depth : s[k] \in Scope
    BY <1>2, <1>3 DEF Scope
<1>5. s \in Seq(Scope) /\ Len(s) = Depth
    BY <1>1, <1>3, <1>4
<1>6. \A k \in 1..Depth :
                /\ s[k].is_temporary = scopes[k].is_temporary
                /\ \A m \in Names :
                    s[k].vars[m] = IF k = i /\ m = n THEN x ELSE scopes[k].vars[m]
    BY <1>2, <1>3 DEF Scope
<1> QED
    BY <1>5, <1>6

-----------------------------------------------------------------------------
(* What a step does to the scopes: at most one variable, which no other    *)
(* one hides, gets another value; then a scope is added or dropped.        *)

Innermost(i, n) == i \in 1..Depth /\ \A j \in i + 1 .. Depth : ~Has(j, n)

Changed(s) ==
    \/ s = scopes
    \/ \E n \in Names : \E i \in 1..Depth : \E x \in Variable \cup {NULL} :
        Innermost(i, n) /\ s = Put(i, n, x)

\* The same, with readonly respected.
Respects(i, n, x) ==
    /\ Frozen(n) => i = Where(n)
    /\ Has(i, n) /\ scopes[i].vars[n].readonly
        => x # NULL /\ x.value = scopes[i].vars[n].value /\ x.readonly

ChangedGently(s) ==
    \/ s = scopes
    \/ \E n \in Names : \E i \in 1..Depth : \E x \in Variable \cup {NULL} :
        Innermost(i, n) /\ Respects(i, n, x) /\ s = Put(i, n, x)

Dropped(s) == Depth > 1 /\ s = SubSeq(scopes, 1, Depth - 1)

\* ChangedGently is the stronger of the two.
LEMMA GentleIsChange == ASSUME NEW s, ChangedGently(s) PROVE Changed(s)
    BY DEF ChangedGently, Changed

\* The places at which the operations write are hidden by no other scope.
LEMMA WhereInnermost ==
    ASSUME TypeOK, NEW n \in Names
    PROVE  /\ Where(n) # 0 => Innermost(Where(n), n)
           /\ Where(n) = 0 => Innermost(1, n)
           /\ Innermost(Depth, n)
    <1>1. Depth \in Nat /\ Depth >= 1
        BY DEF TypeOK, Depth
    <1> QED
        BY <1>1, WhereFacts DEF Innermost

\* A new variable is a variable.
LEMMA FreshType == ASSUME NEW v \in Value PROVE Fresh(v) \in Variable
    BY DEF Fresh, Variable

\* Strings and arrays are values.
LEMMA ValueType == ASSUME NEW t \in Texts PROVE String(t) \in Value /\ Array(t) \in Value
    BY DEF String, Array, Value

\* Write, at a place where it may happen.
LEMMA WriteChanges ==
    ASSUME TypeOK, NEW n \in Names, NEW v \in Value, NEW i, Innermost(i, n)
    PROVE  /\ Changed(Write(i, n, v))
           /\ ~Frozen(n) => ChangedGently(Write(i, n, v))
<1> DEFINE x == IF Has(i, n) THEN [scopes[i].vars[n] EXCEPT !.value = v] ELSE Fresh(v)
<1>1. i \in 1..Depth
    BY DEF Innermost
<1>2. Has(i, n) => scopes[i].vars[n] \in Variable
    <2>1. scopes[i] \in Scope
        BY <1>1 DEF TypeOK, Depth
    <2> QED
        BY <2>1 DEF Scope, Has
<1>3. x \in Variable
    BY <1>2, FreshType DEF Variable
<1>4. Write(i, n, v) = Put(i, n, x)
    BY DEF Write
<1>5. Changed(Write(i, n, v))
    BY <1>1, <1>3, <1>4 DEF Changed
<1>6. ASSUME ~Frozen(n) PROVE Respects(i, n, x)
    <2>1. Has(i, n) => i = Where(n)
        BY <1>1, WhereFacts DEF Innermost, TypeOK, Depth
    <2>2. Has(i, n) => ~scopes[i].vars[n].readonly
        BY <1>1, <1>6, <2>1 DEF Frozen
    <2> QED
        BY <1>6, <2>2 DEF Respects
<1> QED
    BY <1>1, <1>3, <1>4, <1>5, <1>6 DEF ChangedGently

\* Put at the visible variable, with its value and its readonly flag kept.
LEMMA FlagsChange ==
    ASSUME TypeOK, NEW n \in Names, Where(n) # 0, NEW x \in Variable,
           x.value = scopes[Where(n)].vars[n].value,
           scopes[Where(n)].vars[n].readonly => x.readonly
    PROVE  ChangedGently(Put(Where(n), n, x))
<1>1. Where(n) \in 1..Depth /\ Innermost(Where(n), n)
    BY WhereFacts, WhereInnermost DEF Innermost
<1>2. Respects(Where(n), n, x)
    BY NullAssumption DEF Respects
<1> QED
    BY <1>1, <1>2 DEF ChangedGently

Fits(e) == e \in Scope /\ \A m \in Names : Frozen(m) => e.vars[m] = NULL

GentleStep ==
    \/ ChangedGently(scopes')
    \/ \E s, e : ChangedGently(s) /\ Fits(e) /\ scopes' = Append(s, e)

OverrideStep ==
    \/ Changed(scopes')
    \/ \E s : Changed(s) /\ scopes' = Append(s, EmptyScope(TRUE))

\* A new scope without variables hides nothing.
LEMMA EmptyFits == ASSUME NEW b \in BOOLEAN PROVE Fits(EmptyScope(b))
    BY DEF Fits, EmptyScope, Scope

\* A new scope with one variable hides nothing that is readonly.
LEMMA OneFits ==
    ASSUME NEW n \in Names, ~Frozen(n), NEW x \in Variable
    PROVE  Fits([EmptyScope(TRUE) EXCEPT !.vars[n] = x])
<1> DEFINE e == [EmptyScope(TRUE) EXCEPT !.vars[n] = x]
<1>1. e.vars = [[m \in Names |-> NULL] EXCEPT ![n] = x] /\ e.is_temporary = TRUE
    BY DEF EmptyScope
<1>2. e \in Scope
    BY DEF EmptyScope, Scope
<1>3. \A m \in Names : m # n => e.vars[m] = NULL
    BY <1>1
<1> HIDE DEF e
<1>4. Fits(e)
    BY <1>2, <1>3 DEF Fits
<1> QED
    BY <1>4 DEF e

\* name=value respects readonly.
LEMMA AssignStep ==
    ASSUME TypeOK, NEW n \in Names, NEW v \in Value, Assign(n, v)
    PROVE  GentleStep
<1> DEFINE i == IF Where(n) = 0 THEN 1 ELSE Where(n)
<1>1. CASE Frozen(n)
    BY <1>1 DEF Assign, GentleStep, ChangedGently
<1>2. CASE ~Frozen(n)
    <2>1. scopes' = Write(i, n, v)
        BY <1>2 DEF Assign
    <2>2. Innermost(i, n)
        BY WhereInnermost
    <2> HIDE DEF i
    <2> QED
        BY <1>2, <2>1, <2>2, WriteChanges DEF GentleStep
<1> QED
    BY <1>1, <1>2

\* name=value for a local name respects readonly.
LEMMA AssignLocalStep ==
    ASSUME TypeOK, NEW n \in Names, NEW v \in Value, AssignLocal(n, v)
    PROVE  GentleStep
<1>1. CASE Frozen(n)
    BY <1>1 DEF AssignLocal, GentleStep, ChangedGently
<1>2. CASE ~Frozen(n)
    BY <1>2, WhereInnermost, WriteChanges DEF AssignLocal, GentleStep
<1> QED
    BY <1>1, <1>2

\* ${name:=value} respects readonly.
LEMMA AssignDefaultStep ==
    ASSUME TypeOK, NEW n \in Names, NEW v \in Value, NEW colon, AssignDefault(n, v, colon)
    PROVE  GentleStep
<1>1. CASE ~Missing(n, colon) \/ Frozen(n)
    BY <1>1 DEF AssignDefault, GentleStep, ChangedGently
<1>2. CASE Missing(n, colon) /\ ~Frozen(n)
    BY <1>2, WhereInnermost, WriteChanges DEF AssignDefault, GentleStep
<1> QED
    BY <1>1, <1>2

\* name[0]=value changes one variable, which is visible.
LEMMA ElementChanges ==
    ASSUME TypeOK, NEW n \in Names, NEW t \in Texts
    PROVE  Changed(Element(n, t))
<1> DEFINE i == IF Where(n) = 0 THEN 1 ELSE Where(n)
<1>1. Innermost(i, n)
    BY WhereInnermost
<1>2. Element(n, t) = scopes \/ Element(n, t) = Write(i, n, Array(t))
    BY DEF Element
<1> HIDE DEF i
<1> QED
    BY <1>1, <1>2, WriteChanges, ValueType DEF Changed

\* name=value before a command respects readonly, its export included.
LEMMA PrefixStep ==
    ASSUME TypeOK, NEW n \in Names, NEW v \in Value, Prefix(n, v)
    PROVE  GentleStep
<1>1. CASE Frozen(n)
    <2> DEFINE x == [scopes[Where(n)].vars[n] EXCEPT !.export = TRUE]
    <2>1. Where(n) # 0 /\ scopes[Where(n)].vars[n] \in Variable
        BY <1>1, WhereFacts DEF Frozen
    <2>2. /\ x \in Variable /\ x.value = scopes[Where(n)].vars[n].value
          /\ x.readonly = scopes[Where(n)].vars[n].readonly
        BY <2>1 DEF Variable
    <2>3. scopes' = Append(Put(Where(n), n, x), EmptyScope(TRUE))
        BY <1>1 DEF Prefix
    <2> HIDE DEF x
    <2> QED
        BY <2>1, <2>2, <2>3, FlagsChange, EmptyFits DEF GentleStep
<1>2. CASE ~Frozen(n)
    <2> DEFINE x == [Fresh(v) EXCEPT !.export = TRUE]
    <2>1. x \in Variable
        BY DEF Fresh, Variable
    <2>2. scopes' = Append(scopes, [EmptyScope(TRUE) EXCEPT !.vars[n] = x])
        BY <1>2 DEF Prefix
    <2> HIDE DEF x
    <2> QED
        BY <1>2, <2>1, <2>2, OneFits DEF GentleStep, ChangedGently
<1> QED
    BY <1>1, <1>2

\* name=(value) before a command respects readonly.
LEMMA PrefixArrayStep ==
    ASSUME TypeOK, NEW n \in Names, NEW t \in Texts, PrefixArray(n, t)
    PROVE  GentleStep
<1>1. CASE Frozen(n)
    BY <1>1, EmptyFits DEF PrefixArray, GentleStep, ChangedGently
<1>2. CASE ~Frozen(n)
    <2>1. Fresh(Array(t)) \in Variable
        BY FreshType, ValueType
    <2>2. scopes' = Append(scopes, [EmptyScope(TRUE) EXCEPT !.vars[n] = Fresh(Array(t))])
        BY <1>2 DEF PrefixArray
    <2> QED
        BY <1>2, <2>1, <2>2, OneFits DEF GentleStep, ChangedGently
<1> QED
    BY <1>1, <1>2

\* The flags of the visible variable change: export name, readonly name.
LEMMA ExportStep ==
    ASSUME TypeOK, NEW n \in Names, Export(n)
    PROVE  GentleStep
<1>1. CASE Where(n) = 0
    BY <1>1 DEF Export, GentleStep, ChangedGently
<1>2. CASE Where(n) # 0
    <2> DEFINE x == [scopes[Where(n)].vars[n] EXCEPT !.export = TRUE]
    <2>1. scopes[Where(n)].vars[n] \in Variable
        BY <1>2, WhereFacts
    <2>2. /\ x \in Variable /\ x.value = scopes[Where(n)].vars[n].value
          /\ x.readonly = scopes[Where(n)].vars[n].readonly
        BY <2>1 DEF Variable
    <2>3. scopes' = Put(Where(n), n, x)
        BY <1>2 DEF Export
    <2> HIDE DEF x
    <2> QED
        BY <1>2, <2>2, <2>3, FlagsChange DEF GentleStep
<1> QED
    BY <1>1, <1>2

\* export name=value: the value of a readonly variable stays.
LEMMA ExportValueStep ==
    ASSUME TypeOK, NEW n \in Names, NEW v \in Value, ExportValue(n, v)
    PROVE  GentleStep
<1> DEFINE i == IF Where(n) = 0 THEN 1 ELSE Where(n)
           old == IF Has(i, n) THEN scopes[i].vars[n] ELSE Fresh(v)
           x == [old EXCEPT !.value = IF Frozen(n) THEN @ ELSE v, !.export = TRUE]
<1>1. scopes' = Put(i, n, x)
    BY DEF ExportValue
<1>2. Innermost(i, n) /\ i \in 1..Depth
    BY WhereInnermost DEF Innermost
<1>3. Has(i, n) => i = Where(n) /\ scopes[i].vars[n] \in Variable
    BY <1>2, WhereFacts
<1>4. Has(i, n) /\ scopes[i].vars[n].readonly => Frozen(n)
    BY <1>3, WhereFacts DEF Frozen, TypeOK
<1>5. old \in Variable
    BY <1>3, FreshType
<1>6. Has(i, n) => old = scopes[i].vars[n]
    OBVIOUS
<1>7. Frozen(n) => i = Where(n)
    BY DEF Frozen
<1> HIDE DEF i, old
<1>8. x \in Variable /\ x.readonly = old.readonly /\ (Frozen(n) => x.value = old.value)
    BY <1>5 DEF Variable
<1> HIDE DEF x
<1>9. Respects(i, n, x)
    BY <1>4, <1>6, <1>7, <1>8, NullAssumption DEF Respects
<1> QED
    BY <1>1, <1>2, <1>8, <1>9 DEF GentleStep, ChangedGently

\* unset removes a variable that is not readonly.
LEMMA UnsetStep ==
    ASSUME TypeOK, NEW n \in Names, Unset(n)
    PROVE  GentleStep
<1>1. CASE Where(n) = 0 \/ Frozen(n)
    BY <1>1 DEF Unset, GentleStep, ChangedGently
<1>2. CASE Where(n) # 0 /\ ~Frozen(n)
    <2>1. scopes' = Put(Where(n), n, NULL)
        BY <1>2 DEF Unset
    <2>2. Innermost(Where(n), n) /\ Where(n) \in 1..Depth
        BY <1>2, WhereInnermost DEF Innermost
    <2>3. Respects(Where(n), n, NULL)
        BY <1>2 DEF Respects, Frozen
    <2> QED
        BY <2>1, <2>2, <2>3 DEF GentleStep, ChangedGently
<1> QED
    BY <1>1, <1>2

\* readonly name sets a flag or makes a variable.
LEMMA ReadonlyStep ==
    ASSUME TypeOK, NEW n \in Names, Readonly(n)
    PROVE  GentleStep
<1>1. CASE Where(n) = 0
    <2> DEFINE x == [Fresh(String("")) EXCEPT !.readonly = TRUE]
    <2>1. x \in Variable
        BY EmptyAssumption, ValueType DEF Fresh, Variable
    <2>2. scopes' = Put(Depth, n, x)
        BY <1>1 DEF Readonly
    <2>3. Innermost(Depth, n) /\ Depth \in 1..Depth
        BY WhereInnermost DEF Innermost
    <2>4. ~Has(Depth, n) /\ ~Frozen(n)
        BY <1>1, <2>3, WhereFacts DEF Frozen
    <2> HIDE DEF x
    <2>5. Respects(Depth, n, x)
        BY <2>4 DEF Respects
    <2> QED
        BY <2>1, <2>2, <2>3, <2>5 DEF GentleStep, ChangedGently
<1>2. CASE Where(n) # 0
    <2> DEFINE x == [scopes[Where(n)].vars[n] EXCEPT !.readonly = TRUE]
    <2>1. scopes[Where(n)].vars[n] \in Variable
        BY <1>2, WhereFacts
    <2>2. x \in Variable /\ x.value = scopes[Where(n)].vars[n].value /\ x.readonly
        BY <2>1 DEF Variable
    <2>3. scopes' = Put(Where(n), n, x)
        BY <1>2 DEF Readonly
    <2> HIDE DEF x
    <2> QED
        BY <1>2, <2>2, <2>3, FlagsChange DEF GentleStep
<1> QED
    BY <1>1, <1>2

\* readonly name=value respects an earlier readonly, of any scope.
LEMMA ReadonlyValueStep ==
    ASSUME TypeOK, NEW n \in Names, NEW v \in Value, ReadonlyValue(n, v)
    PROVE  GentleStep
<1>1. CASE Frozen(n)
    BY <1>1 DEF ReadonlyValue, GentleStep, ChangedGently
<1>2. CASE ~Frozen(n)
    <2> DEFINE old == IF Has(Depth, n) THEN scopes[Depth].vars[n] ELSE Fresh(v)
               x == [old EXCEPT !.value = v, !.readonly = TRUE]
    <2>1. scopes' = Put(Depth, n, x)
        BY <1>2 DEF ReadonlyValue
    <2>2. Innermost(Depth, n) /\ Depth \in 1..Depth
        BY WhereInnermost DEF Innermost
    <2>3. Has(Depth, n) => Where(n) = Depth
        BY <2>2, WhereFacts
    <2>4. old \in Variable
        BY <2>2, <2>3, WhereFacts, FreshType
    <2> HIDE DEF old
    <2>5. x \in Variable
        BY <2>4 DEF Variable
    <2> HIDE DEF x
    <2>6. Respects(Depth, n, x)
        BY <1>2, <2>2, <2>3 DEF Respects, Frozen
    <2> QED
        BY <2>1, <2>2, <2>5, <2>6 DEF GentleStep, ChangedGently
<1> QED
    BY <1>1, <1>2

\* All operations but those of Override and Exit respect readonly.
LEMMA OtherEffect == ASSUME TypeOK, Other PROVE GentleStep
<1>1. ASSUME NEW n \in Names, NEW t \in Texts,
             \/ Assign(n, String(t))
             \/ Assign(n, Array(t))
             \/ AssignLocal(n, String(t))
             \/ Prefix(n, String(t))
             \/ PrefixArray(n, t)
             \/ ExportValue(n, String(t))
             \/ ReadonlyValue(n, String(t))
             \/ \E colon \in BOOLEAN : AssignDefault(n, String(t), colon)
      PROVE  GentleStep
    BY <1>1, ValueType, AssignStep, AssignLocalStep, AssignDefaultStep, PrefixStep, PrefixArrayStep,
       ExportValueStep, ReadonlyValueStep
<1>2. ASSUME NEW n \in Names, Export(n) \/ Unset(n) \/ Readonly(n)
      PROVE  GentleStep
    BY <1>2, ExportStep, UnsetStep, ReadonlyStep
<1>3. CASE Call
    BY <1>3, EmptyFits DEF Call, GentleStep, ChangedGently
<1>4. CASE Execute \/ \E n \in Names : Read(n)
    BY <1>4 DEF Execute, Read, GentleStep, ChangedGently
<1> QED
    BY <1>1, <1>2, <1>3, <1>4 DEF Other

\* local and the assignment of an element write to the visible variable or to the innermost scope.
LEMMA OverrideEffect == ASSUME TypeOK, Override PROVE OverrideStep
<1>1. ASSUME NEW n \in Names, NEW t \in Texts, Local(n, String(t))
      PROVE  OverrideStep
    BY <1>1, ValueType, WhereInnermost, WriteChanges DEF Local, OverrideStep
<1>2. ASSUME NEW n \in Names, NEW t \in Texts, AssignElement(n, t) \/ PrefixElement(n, t)
      PROVE  OverrideStep
    BY <1>2, ElementChanges DEF AssignElement, PrefixElement, OverrideStep
<1> QED
    BY <1>1, <1>2 DEF Override

\* The end of a command or of a call drops one scope, never the global one.
LEMMA ExitEffect == ASSUME TypeOK, Exit PROVE Dropped(scopes')
<1>1. PopScope => Depth # 1
    BY DEF PopScope, TypeOK
<1> QED
    BY <1>1 DEF Exit, PopScope, Return, Dropped, TypeOK, Depth

-----------------------------------------------------------------------------
\* A chain in which one variable has changed: its type, and what is hidden.
LEMMA ChangedFacts ==
    ASSUME TypeOK, NEW s, Changed(s)
    PROVE  /\ s \in Seq(Scope)
           /\ Len(s) = Depth
           /\ \A k \in 1..Depth : s[k].is_temporary = scopes[k].is_temporary
           /\ \A n \in Names : \A j \in 1..Depth : \A i \in 1 .. j - 1 :
                Has(i, n) /\ Has(j, n) => s[i].vars[n] = scopes[i].vars[n]
<1>1. CASE s = scopes
    BY <1>1 DEF TypeOK, Depth
<1>2. ASSUME NEW m \in Names, NEW k \in 1..Depth, NEW x \in Variable \cup {NULL},
             Innermost(k, m), s = Put(k, m, x)
      PROVE  /\ s \in Seq(Scope)
             /\ Len(s) = Depth
             /\ \A i \in 1..Depth : s[i].is_temporary = scopes[i].is_temporary
             /\ \A n \in Names : \A j \in 1..Depth : \A i \in 1 .. j - 1 :
                    Has(i, n) /\ Has(j, n) => s[i].vars[n] = scopes[i].vars[n]
    <2>1. /\ s \in Seq(Scope)
          /\ Len(s) = Depth
          /\ \A i \in 1..Depth : s[i].is_temporary = scopes[i].is_temporary
        BY <1>2, PutFacts
    <2>2. ASSUME NEW n \in Names, NEW j \in 1..Depth, NEW i \in 1 .. j - 1, Has(i, n), Has(j, n)
          PROVE  s[i].vars[n] = scopes[i].vars[n]
        <3>1. i \in 1..Depth
            BY DEF TypeOK, Depth
        <3>2. ~(i = k /\ n = m)
            BY <1>2, <2>2 DEF Innermost, TypeOK, Depth
        <3> QED
            BY <1>2, <3>1, <3>2, PutFacts
    <2> QED
        BY <2>1, <2>2
<1> QED
    BY <1>1, <1>2 DEF Changed

\* The three shapes of a step.
LEMMA NextShape ==
    ASSUME TypeOK, Next
    PROVE  \/ Changed(scopes')
           \/ \E s, e : Changed(s) /\ e \in Scope /\ scopes' = Append(s, e)
           \/ Dropped(scopes')
<1>1. CASE Other
    BY <1>1, OtherEffect, GentleIsChange DEF GentleStep, Fits
<1>2. CASE Override
    BY <1>2, OverrideEffect, EmptyFits DEF OverrideStep, Fits
<1>3. CASE Exit
    BY <1>3, ExitEffect
<1> QED
    BY <1>1, <1>2, <1>3 DEF Next

\* The chain keeps its type and its global scope.
LEMMA ScopesStay ==
    ASSUME TypeOK, Next
    PROVE  /\ scopes' \in Seq(Scope)
           /\ Depth' >= 1
           /\ ~scopes'[1].is_temporary
<1>1. CASE Changed(scopes')
    BY <1>1, ChangedFacts DEF TypeOK, Depth
<1>2. ASSUME NEW s, NEW e, Changed(s), e \in Scope, scopes' = Append(s, e)
      PROVE  /\ scopes' \in Seq(Scope)
             /\ Depth' >= 1
             /\ ~scopes'[1].is_temporary
    <2>1. s \in Seq(Scope) /\ Len(s) = Depth /\ ~s[1].is_temporary
        BY <1>2, ChangedFacts DEF TypeOK
    <2> QED
        BY <1>2, <2>1 DEF TypeOK, Depth
<1>3. CASE Dropped(scopes')
    BY <1>3 DEF Dropped, TypeOK, Depth
<1> QED
    BY <1>1, <1>2, <1>3, NextShape

\* A command waits for its start only in a temporary scope.
LEMMA ArmedStays ==
    ASSUME TypeOK, Next
    PROVE  armed' \in BOOLEAN /\ (armed' => scopes'[Depth'].is_temporary)
<1>1. ASSUME NEW n \in Names, NEW t \in Texts,
             \/ Assign(n, String(t)) \/ Assign(n, Array(t))
             \/ AssignLocal(n, String(t)) \/ AssignElement(n, t)
      PROVE  armed' = FALSE
    BY <1>1 DEF Assign, AssignLocal, AssignElement, Statement, TypeOK
<1>2. ASSUME \/ \E n \in Names, t \in Texts :
                    ExportValue(n, String(t)) \/ ReadonlyValue(n, String(t)) \/ Local(n, String(t))
             \/ \E n \in Names : Export(n) \/ Unset(n) \/ Readonly(n)
             \/ Call \/ Execute
      PROVE  armed' = FALSE
    BY <1>2 DEF ExportValue, Export, Unset, Readonly, ReadonlyValue, Local, Call, Execute, Command
<1>3. ASSUME NEW s, NEW e, Changed(s), e.is_temporary = TRUE, armed' = TRUE, scopes' = Append(s, e),
             e \in Scope
      PROVE  armed' \in BOOLEAN /\ (armed' => scopes'[Depth'].is_temporary)
    <2>1. s \in Seq(Scope)
        BY <1>3, ChangedFacts
    <2> QED
        BY <1>3, <2>1 DEF Depth
<1>4. ASSUME NEW n \in Names, NEW t \in Texts,
             Prefix(n, String(t)) \/ PrefixArray(n, t) \/ PrefixElement(n, t)
      PROVE  armed' \in BOOLEAN /\ (armed' => scopes'[Depth'].is_temporary)
    <2>1. armed' = TRUE
        BY <1>4 DEF Prefix, PrefixArray, PrefixElement
    <2>2. EmptyScope(TRUE) \in Scope /\ EmptyScope(TRUE).is_temporary = TRUE
        BY EmptyFits DEF Fits, EmptyScope
    <2>3. ASSUME ~Frozen(n), NEW x \in Variable
          PROVE  /\ [EmptyScope(TRUE) EXCEPT !.vars[n] = x] \in Scope
                 /\ [EmptyScope(TRUE) EXCEPT !.vars[n] = x].is_temporary = TRUE
        BY <2>3, OneFits DEF Fits, EmptyScope
    <2>4. Changed(scopes) /\ Changed(Element(n, t))
        BY ElementChanges DEF Changed
    <2>5. /\ [Fresh(String(t)) EXCEPT !.export = TRUE] \in Variable
          /\ Fresh(Array(t)) \in Variable
        BY ValueType, FreshType DEF Fresh, Variable
    <2>6. CASE PrefixElement(n, t)
        BY <1>3, <2>1, <2>2, <2>4, <2>6 DEF PrefixElement
    <2>7. CASE PrefixArray(n, t)
        BY <1>3, <2>1, <2>2, <2>3, <2>4, <2>5, <2>7 DEF PrefixArray
    <2>8. CASE Prefix(n, String(t))
        <3>1. CASE ~Frozen(n)
            BY <1>3, <2>1, <2>3, <2>4, <2>5, <2>8, <3>1 DEF Prefix
        <3>2. CASE Frozen(n)
            <4> DEFINE x == [scopes[Where(n)].vars[n] EXCEPT !.export = TRUE]
            <4>1. Where(n) # 0 /\ scopes[Where(n)].vars[n] \in Variable
                BY <3>2, WhereFacts DEF Frozen
            <4>2. x \in Variable
                BY <4>1 DEF Variable
            <4>3. Innermost(Where(n), n) /\ Where(n) \in 1..Depth
                BY <4>1, WhereInnermost DEF Innermost
            <4>4. scopes' = Append(Put(Where(n), n, x), EmptyScope(TRUE))
                BY <2>8, <3>2 DEF Prefix
            <4> HIDE DEF x
            <4>5. Changed(Put(Where(n), n, x))
                BY <4>2, <4>3 DEF Changed
            <4> QED
                BY <1>3, <2>1, <2>2, <4>4, <4>5
        <3> QED
            BY <3>1, <3>2
    <2> QED
        BY <1>4, <2>6, <2>7, <2>8
<1>5. ASSUME PopScope \/ Return
      PROVE  armed' = FALSE
    BY <1>5 DEF PopScope, Return, Statement, TypeOK
<1>6. ASSUME NEW n \in Names, Read(n)
      PROVE  armed' \in BOOLEAN /\ (armed' => scopes'[Depth'].is_temporary)
    BY <1>6 DEF Read, TypeOK, Depth
<1>7. ASSUME NEW n \in Names, NEW t \in Texts, NEW colon \in BOOLEAN,
             AssignDefault(n, String(t), colon)
      PROVE  armed' \in BOOLEAN /\ (armed' => scopes'[Depth'].is_temporary)
    <2>1. Changed(scopes')
        <3>1. CASE scopes' = scopes
            BY <3>1 DEF Changed
        <3>2. CASE scopes' = Write(Depth, n, String(t))
            BY <3>2, ValueType, WhereInnermost, WriteChanges
        <3> QED
            BY <1>7, <3>1, <3>2 DEF AssignDefault
    <2>2. Depth' = Depth /\ Depth \in 1..Depth /\ scopes'[Depth].is_temporary = scopes[Depth].is_temporary
        BY <2>1, ChangedFacts DEF TypeOK, Depth
    <2> QED
        BY <1>7, <2>2 DEF AssignDefault, TypeOK
<1> QED
    BY <1>1, <1>2, <1>4, <1>5, <1>6, <1>7 DEF Next, Override, Exit, Other

\* What is read and what programs see are texts.
LEMMA ObservedStays ==
    ASSUME TypeOK, Next
    PROVE  got' \in Value /\ child' \in [Names -> Texts \cup {NULL}]
<1>1. ASSUME NEW n \in Names, Read(n)
      PROVE  got' \in Value /\ child' = child
    <2>1. String("") \in Value
        BY EmptyAssumption, ValueType
    <2>2. Where(n) # 0 => scopes[Where(n)].vars[n].value \in Value
        BY WhereFacts DEF Variable
    <2> QED
        BY <1>1, <2>1, <2>2 DEF Read
<1>2. CASE Execute
    <2>1. ASSUME NEW n \in Names PROVE Environment(n) \in Texts \cup {NULL}
        <3> DEFINE E == {i \in 1..Depth : Has(i, n) /\ scopes[i].vars[n].export}
                   i == CHOOSE j \in E : \A k \in E : k <= j
        <3>1. Host[n] \in Texts \cup {NULL}
            BY HostAssumption
        <3>2. ASSUME E # {} PROVE scopes[i].vars[n].value.text \in Texts
            <4>1. E \subseteq 1..Depth /\ Depth \in Nat
                BY DEF TypeOK, Depth
            <4>2. \E j \in E : \A k \in E : k <= j
                <5> HIDE DEF E
                <5> QED
                    BY <3>2, <4>1, LargestOf
            <4>3. i \in E
                BY <4>2
            <4>4. i \in 1..Depth /\ Has(i, n)
                BY <4>3
            <4> HIDE DEF i, E
            <4>5. scopes[i] \in Scope
                BY <4>4 DEF TypeOK, Depth
            <4>6. scopes[i].vars[n] \in Variable
                BY <4>4, <4>5 DEF Scope, Has
            <4> QED
                BY <4>6 DEF Variable, Value
        <3>3. Environment(n) = IF E # {} /\ ~scopes[i].vars[n].value.array
                               THEN scopes[i].vars[n].value.text ELSE Host[n]
            BY DEF Environment
        <3> HIDE DEF E, i
        <3> QED
            BY <3>1, <3>2, <3>3
    <2> QED
        BY <1>2, <2>1 DEF Execute, TypeOK
<1>3. ASSUME NEW n \in Names, NEW t \in Texts, NEW colon \in BOOLEAN,
             AssignDefault(n, String(t), colon)
      PROVE  got' \in Value /\ child' = child
    <2>1. String("") \in Value /\ String(t) \in Value
        BY EmptyAssumption, ValueType
    <2>2. ~Missing(n, colon) => value_to_string(scopes[Where(n)].vars[n].value) \in Value
        BY <2>1, WhereFacts DEF Missing, Variable, value_to_string
    <2> QED
        BY <1>3, <2>1, <2>2 DEF AssignDefault
<1>4. ASSUME ~Execute, ~\E n \in Names : Read(n),
             ~\E n \in Names, t \in Texts, colon \in BOOLEAN : AssignDefault(n, String(t), colon)
      PROVE  got' = got /\ child' = child
    BY <1>4 DEF Next, Override, Exit, Other, Assign, AssignLocal, AssignElement, Prefix,
                PrefixArray, PrefixElement, PopScope, Call, Return, Export, ExportValue,
                Unset, Readonly, ReadonlyValue, Local
<1> QED
    BY <1>1, <1>2, <1>3, <1>4 DEF TypeOK

-----------------------------------------------------------------------------
\* The type invariant of the scopes, for any names, texts and depth: there is
\* always a global scope that is not temporary, and a command waits for its
\* start only in a temporary one.
THEOREM TypeCorrect == Spec => []TypeOK
<1>1. Init => TypeOK
    <2>1. EmptyScope(FALSE) \in Scope
        BY EmptyFits DEF Fits
    <2>2. String("") \in Value
        BY EmptyAssumption, ValueType
    <2>3. PICK e \in Scope : e = EmptyScope(FALSE) /\ ~e.is_temporary
        BY <2>1 DEF EmptyScope
    <2>4. <<e>> \in Seq(Scope) /\ Len(<<e>>) = 1 /\ <<e>>[1] = e
        OBVIOUS
    <2>5. Init => scopes = <<e>> /\ armed = FALSE /\ got \in Value /\ child = Host
        BY <2>2, <2>3, Zenon DEF Init
    <2>6. Init => scopes \in Seq(Scope) /\ Depth = 1 /\ ~scopes[1].is_temporary
        BY <2>3, <2>4, <2>5 DEF Depth
    <2>7. Init => armed \in BOOLEAN /\ ~armed
        BY <2>5, Zenon
    <2>8. Init => Depth >= 1
        BY <2>6
    <2> QED
        BY <2>5, <2>6, <2>7, <2>8, HostAssumption, Zenon DEF TypeOK
<1>2. TypeOK /\ [Next]_vars => TypeOK'
    <2>1. ASSUME TypeOK, Next PROVE TypeOK'
        BY <2>1, ScopesStay, ArmedStays, ObservedStays DEF TypeOK
    <2>2. ASSUME TypeOK, UNCHANGED vars PROVE TypeOK'
        BY <2>2 DEF TypeOK, vars, Depth
    <2> QED
        BY <2>1, <2>2
<1> QED
    BY <1>1, <1>2, PTL DEF Spec

\* No step touches a variable that another one hides, in a chain of scopes of
\* any length.
THEOREM HiddenIsSafe == Spec => HidesOuter
<1>1. TypeOK /\ [Next]_vars =>
        [\A n \in Names : \A j \in 1..Depth : \A i \in 1 .. j - 1 :
            Has(i, n) /\ Has(j, n) => scopes'[i].vars[n] = scopes[i].vars[n]]_vars
    <2> SUFFICES ASSUME TypeOK, Next, NEW n \in Names, NEW j \in 1..Depth, NEW i \in 1 .. j - 1,
                        Has(i, n), Has(j, n)
                 PROVE  scopes'[i].vars[n] = scopes[i].vars[n]
        OBVIOUS
    <2>1. CASE Changed(scopes')
        BY <2>1, ChangedFacts
    <2>2. ASSUME NEW s, NEW e, Changed(s), e \in Scope, scopes' = Append(s, e)
          PROVE  scopes'[i].vars[n] = scopes[i].vars[n]
        <3>1. s \in Seq(Scope) /\ Len(s) = Depth /\ s[i].vars[n] = scopes[i].vars[n]
            BY <2>2, ChangedFacts
        <3> QED
            BY <2>2, <3>1 DEF Depth
    <2>3. CASE Dropped(scopes')
        BY <2>3 DEF Dropped, TypeOK, Depth
    <2> QED
        BY <2>1, <2>2, <2>3, NextShape
<1> QED
    BY <1>1, TypeCorrect, PTL DEF Spec, HidesOuter

\* The scopes after a gentle step, before one is added.
LEMMA GentleFacts ==
    ASSUME TypeOK, NEW s, ChangedGently(s)
    PROVE  /\ s \in Seq(Scope)
           /\ Len(s) = Depth
           /\ \A n \in Names : \A i \in 1..Depth :
                Has(i, n) /\ scopes[i].vars[n].readonly
                => /\ s[i].vars[n] # NULL
                   /\ s[i].vars[n].value = scopes[i].vars[n].value
                   /\ s[i].vars[n].readonly
           /\ \A n \in Names : Frozen(n) =>
                \A i \in Where(n) + 1 .. Depth : s[i].vars[n] = NULL
<1>1. s \in Seq(Scope) /\ Len(s) = Depth
    BY GentleIsChange, ChangedFacts
<1>2. CASE s = scopes
    BY <1>1, <1>2, WhereFacts DEF Has
<1>3. ASSUME NEW m \in Names, NEW k \in 1..Depth, NEW x \in Variable \cup {NULL},
             Innermost(k, m), Respects(k, m, x), s = Put(k, m, x)
      PROVE  /\ \A n \in Names : \A i \in 1..Depth :
                    Has(i, n) /\ scopes[i].vars[n].readonly
                    => /\ s[i].vars[n] # NULL
                       /\ s[i].vars[n].value = scopes[i].vars[n].value
                       /\ s[i].vars[n].readonly
             /\ \A n \in Names : Frozen(n) =>
                    \A i \in Where(n) + 1 .. Depth : s[i].vars[n] = NULL
    <2>1. \A i \in 1..Depth : \A n \in Names :
            s[i].vars[n] = IF i = k /\ n = m THEN x ELSE scopes[i].vars[n]
        BY <1>3, PutFacts
    <2>2. ASSUME NEW n \in Names, NEW i \in 1..Depth, Has(i, n), scopes[i].vars[n].readonly
          PROVE  /\ s[i].vars[n] # NULL
                 /\ s[i].vars[n].value = scopes[i].vars[n].value
                 /\ s[i].vars[n].readonly
        BY <1>3, <2>1, <2>2 DEF Respects, Has
    <2>3. ASSUME NEW n \in Names, Frozen(n), NEW i \in Where(n) + 1 .. Depth
          PROVE  s[i].vars[n] = NULL
        <3>1. i \in 1..Depth /\ scopes[i].vars[n] = NULL /\ i # Where(n)
            BY <2>3, WhereFacts DEF Has, TypeOK, Depth
        <3>2. ~(i = k /\ n = m)
            BY <1>3, <2>3, <3>1 DEF Respects
        <3> QED
            BY <2>1, <3>1, <3>2
    <2> QED
        BY <2>2, <2>3
<1> QED
    BY <1>1, <1>2, <1>3 DEF ChangedGently

\* What a gentle step leaves: the variables of all scopes that stay.
LEMMA GentleKeeps ==
    ASSUME TypeOK, GentleStep
    PROVE  /\ \A n \in Names : \A i \in 1..Depth :
                Has(i, n) /\ scopes[i].vars[n].readonly
                => /\ Has(i, n)'
                   /\ scopes'[i].vars[n].value = scopes[i].vars[n].value
                   /\ scopes'[i].vars[n].readonly
           /\ \A n \in Names : Frozen(n) => Where(n)' = Where(n)
<1>1. PICK s : /\ ChangedGently(s)
               /\ scopes' = s \/ \E e : Fits(e) /\ scopes' = Append(s, e)
    BY DEF GentleStep
<1>2. s \in Seq(Scope) /\ Len(s) = Depth /\ Depth \in Nat
    BY <1>1, GentleFacts DEF TypeOK, Depth
<1>3. /\ Depth' \in Nat /\ Depth' >= Depth
      /\ \A i \in 1..Depth : scopes'[i] = s[i]
      /\ \A n \in Names : Frozen(n) => \A i \in Depth + 1 .. Depth' : scopes'[i].vars[n] = NULL
    <2>1. CASE scopes' = s
        BY <1>2, <2>1 DEF Depth
    <2>2. ASSUME NEW e, Fits(e), scopes' = Append(s, e)
          PROVE  /\ Depth' \in Nat /\ Depth' >= Depth
                 /\ \A i \in 1..Depth : scopes'[i] = s[i]
                 /\ \A n \in Names : Frozen(n) =>
                        \A i \in Depth + 1 .. Depth' : scopes'[i].vars[n] = NULL
        <3>1. Len(scopes') = Depth + 1 /\ scopes'[Depth + 1] = e /\ \A i \in 1..Depth : scopes'[i] = s[i]
            BY <1>2, <2>2 DEF Fits
        <3>2. Depth' = Depth + 1
            BY <3>1 DEF Depth
        <3> QED
            BY <1>2, <2>2, <3>1, <3>2 DEF Fits
    <2> QED
        BY <1>1, <2>1, <2>2
<1>4. ASSUME NEW n \in Names, NEW i \in 1..Depth, Has(i, n), scopes[i].vars[n].readonly
      PROVE  /\ Has(i, n)'
             /\ scopes'[i].vars[n].value = scopes[i].vars[n].value
             /\ scopes'[i].vars[n].readonly
    BY <1>1, <1>3, <1>4, GentleFacts DEF Has
<1>5. ASSUME NEW n \in Names, Frozen(n) PROVE Where(n)' = Where(n)
    <2>1. PICK w \in 1..Depth : w = Where(n) /\ Has(w, n) /\ scopes[w].vars[n].readonly
        BY <1>5, WhereFacts DEF Frozen
    <2>2. Has(w, n)'
        BY <1>4, <2>1
    <2>3. \A i \in w + 1 .. Depth' : ~Has(i, n)'
        <3>1. \A i \in w + 1 .. Depth : s[i].vars[n] = NULL
            BY <1>1, <1>5, <2>1, GentleFacts
        <3> QED
            BY <1>2, <1>3, <1>5, <2>1, <3>1 DEF Has
    <2>4. w \in 1..Depth'
        BY <1>2, <1>3, <2>1
    <2>5. \A i \in 1..Depth' : (Has(i, n)' /\ \A j \in i + 1 .. Depth' : ~Has(j, n)') <=> i = w
        BY <1>2, <1>3, <2>1, <2>2, <2>3, <2>4
    <2>6. Where(n)' = CHOOSE i \in 1..Depth' : Has(i, n)' /\ \A j \in i + 1 .. Depth' : ~Has(j, n)'
        BY <2>2, <2>4 DEF Where
    <2>7. Where(n)' = w
        BY <2>4, <2>5, <2>6
    <2> QED
        BY <2>1, <2>7
<1> QED
    BY <1>4, <1>5

\* A readonly variable keeps its value and its flag in every step but local
\* and the assignment of an array element, and is not hidden by any other.
THEOREM ReadonlyIsKept == Spec => ReadonlyKept
<1> DEFINE Kept == \A n \in Names : \A i \in 1..Depth :
                Has(i, n) /\ scopes[i].vars[n].readonly /\ i <= Depth'
                => /\ Has(i, n)'
                   /\ scopes'[i].vars[n].value = scopes[i].vars[n].value
                   /\ scopes'[i].vars[n].readonly
           Seen == Exit \/ \A n \in Names : Frozen(n) => Where(n)' = Where(n)
<1>1. TypeOK /\ [Next]_vars => [Override \/ (Kept /\ Seen)]_vars
    <2> SUFFICES ASSUME TypeOK, Next, ~Override PROVE Kept /\ Seen
        OBVIOUS
    <2>1. CASE Other
        BY <2>1, OtherEffect, GentleKeeps
    <2>2. CASE Exit
        <3>1. \A i \in 1..Depth : i <= Depth' => scopes'[i] = scopes[i]
            BY <2>2, ExitEffect DEF Dropped, TypeOK, Depth
        <3> QED
            BY <2>2, <3>1 DEF Has
    <2> QED
        BY <2>1, <2>2 DEF Next
<1> QED
    BY <1>1, TypeCorrect, PTL DEF Spec, ReadonlyKept
=============================================================================
