-------------------------- MODULE TokenBudgetProofs --------------------------
(***************************************************************************)
(* What holds of TokenBudget for any number of generations, days and ticks,*)
(* any estimates, time to live and limit: no reservation leaks, the        *)
(* reserved tokens are exact until one expires, what is spent is charged   *)
(* once, and, where QuotaKept says, the limit holds.                       *)
(***************************************************************************)
EXTENDS TokenBudget, FiniteSetTheorems, WellFoundedInduction, TLAPS

-----------------------------------------------------------------------------
(* Sums *)

(***************************************************************************)
(* Total is a fold, and a fold is a recursive function that chooses the    *)
(* next element.  A sum of naturals is also a number of units: of the      *)
(* pairs <<x, i>> with i in 1..f[x].  That the two are the same is shown   *)
(* once, by a counterexample of least size; the lemmas after it follow     *)
(* from what the library says of cardinalities.                            *)
(***************************************************************************)
Units(f, S) == UNION {{x} \X (1..f[x]) : x \in S}
Count(f, S) == Cardinality(Units(f, S))

Summable(f, S) == IsFiniteSet(S) /\ \A x \in S : f[x] \in Nat

\* The units of one element.
LEMMA UnitsOfOne ==
  ASSUME NEW f, NEW x, f[x] \in Nat
  PROVE  /\ IsFiniteSet({x} \X (1..f[x]))
         /\ Cardinality({x} \X (1..f[x])) = f[x]
<1> PICK n \in Nat : n = f[x]
  OBVIOUS
<1>1. IsFiniteSet({x}) /\ Cardinality({x}) = 1
  BY FS_Singleton
<1>2. IsFiniteSet(1..n) /\ Cardinality(1..n) = n
  <2>1. 1 \in Int /\ n \in Int
    OBVIOUS
  <2>2. IsFiniteSet(1..n)
    BY <2>1, FS_Interval
  <2>3. Cardinality(1..n) = IF 1 > n THEN 0 ELSE n - 1 + 1
    BY <2>1, FS_Interval
  <2>4. Cardinality(1..n) \in Nat
    BY <2>2, FS_CardinalityType
  <2>5. PICK k \in Nat : k = Cardinality(1..n)
    BY <2>4
  <2>6. k = IF 1 > n THEN 0 ELSE n - 1 + 1
    BY <2>3, <2>5
  <2>7. k = n
    BY <2>6
  <2> QED
    BY <2>2, <2>5, <2>7
<1> DEFINE one == {x}
           some == 1..n
<1>3. IsFiniteSet(one) /\ IsFiniteSet(some) /\ Cardinality(one) = 1 /\ Cardinality(some) = n
  BY <1>1, <1>2
<1>4. IsFiniteSet(one \X some) /\ Cardinality(one \X some) = n
  <2> HIDE DEF one, some
  <2>1. IsFiniteSet(one \X some) /\ Cardinality(one \X some) = Cardinality(one) * Cardinality(some)
    BY <1>3, FS_Product
  <2>2. Cardinality(one) * Cardinality(some) = 1 * n
    BY <1>3
  <2>3. 1 * n = n
    OBVIOUS
  <2> QED
    BY <2>1, <2>2, <2>3
<1> QED
  BY <1>4

\* Finitely many naturals have finitely many units.
LEMMA UnitsFinite ==
  ASSUME NEW f, NEW S, Summable(f, S)
  PROVE  IsFiniteSet(Units(f, S)) /\ Count(f, S) \in Nat
<1> DEFINE T == {{x} \X (1..f[x]) : x \in S}
           m == [x \in S |-> {x} \X (1..f[x])]
<1>1. m \in Surjection(S, T)
  BY DEF Surjection
<1>2. IsFiniteSet(T)
  BY <1>1, FS_Surjection DEF Summable
<1>3. \A u \in T : IsFiniteSet(u)
  BY UnitsOfOne DEF Summable
<1>4. IsFiniteSet(UNION T)
  BY <1>2, <1>3, FS_UNION
<1> QED
  BY <1>4, FS_CardinalityType DEF Units, Count

LEMMA SummableBelow ==
  ASSUME NEW f, NEW S, Summable(f, S), NEW T \in SUBSET S
  PROVE  Summable(f, T)
BY FS_Subset DEF Summable

\* The units of two disjoint sets.
LEMMA CountUnion ==
  ASSUME NEW f, NEW S, NEW T, Summable(f, S), Summable(f, T), S \cap T = {}
  PROVE  Count(f, S \cup T) = Count(f, S) + Count(f, T)
<1>1. Units(f, S \cup T) = Units(f, S) \cup Units(f, T)
  BY DEF Units
<1>2. Units(f, S) \cap Units(f, T) = {}
  BY DEF Units
<1>3. IsFiniteSet(Units(f, S)) /\ IsFiniteSet(Units(f, T)) /\ Count(f, S) \in Nat /\ Count(f, T) \in Nat
  BY UnitsFinite
<1>4. Cardinality(Units(f, S) \cap Units(f, T)) = 0
  BY <1>2, FS_EmptySet
<1>5. Cardinality(Units(f, S) \cup Units(f, T)) =
        Cardinality(Units(f, S)) + Cardinality(Units(f, T)) - Cardinality(Units(f, S) \cap Units(f, T))
  BY <1>3, FS_Union
<1> DEFINE both == Units(f, S) \cup Units(f, T)
<1>6. PICK m \in Nat, n \in Nat : m = Cardinality(Units(f, S)) /\ n = Cardinality(Units(f, T))
  BY <1>3 DEF Count
<1>7. Cardinality(both) = m + n - 0
  BY <1>4, <1>5, <1>6
<1>8. m + n - 0 = m + n
  OBVIOUS
<1> HIDE DEF both
<1> QED
  BY <1>1, <1>6, <1>7, <1>8 DEF Count, both

LEMMA CountOne ==
  ASSUME NEW f, NEW x, f[x] \in Nat
  PROVE  Count(f, {x}) = f[x]
<1>1. Units(f, {x}) = {x} \X (1..f[x])
  BY DEF Units
<1> QED
  BY <1>1, UnitsOfOne DEF Count

LEMMA CountNone ==
  ASSUME NEW f
  PROVE  Count(f, {}) = 0
<1>1. Units(f, {}) = {}
  BY DEF Units
<1> QED
  BY <1>1, FS_EmptySet DEF Count

\* The fold takes one element after the other.
Taken(s) == CHOOSE x \in s : TRUE
FoldsTo(g, f, S) ==
  g = [s \in SUBSET S |-> IF s = {} THEN 0 ELSE f[Taken(s)] + g[s \ {Taken(s)}]]

LEMMA CountTakes ==
  ASSUME NEW f, NEW S, Summable(f, S), S # {}
  PROVE  /\ Taken(S) \in S
         /\ Count(f, S) = f[Taken(S)] + Count(f, S \ {Taken(S)})
<1>1. PICK x \in S : x = Taken(S)
  BY DEF Taken
<1>2. Summable(f, {x}) /\ Summable(f, S \ {x}) /\ f[x] \in Nat
  BY SummableBelow DEF Summable
<1>3. Count(f, {x} \cup (S \ {x})) = Count(f, {x}) + Count(f, S \ {x})
  BY <1>2, CountUnion
<1>4. {x} \cup (S \ {x}) = S
  OBVIOUS
<1> QED
  BY <1>1, <1>2, <1>3, <1>4, CountOne

\* Whatever folds f over S counts units.
LEMMA FoldCounts ==
  ASSUME NEW f, NEW S, Summable(f, S), NEW g, FoldsTo(g, f, S)
  PROVE  \A s \in SUBSET S : g[s] = Count(f, s)
<1> DEFINE Bad == {s \in SUBSET S : g[s] # Count(f, s)}
<1>1. IsWellFoundedOn(StrictSubsetOrdering(S), SUBSET S)
  BY FS_StrictSubsetOrderingWellFounded, FS_FiniteSubsetsOfFinite DEF Summable
<1>2. ASSUME Bad # {} PROVE FALSE
  <2>1. PICK s \in Bad : \A t \in Bad : <<t, s>> \notin StrictSubsetOrdering(S)
    <3>1. Bad \subseteq SUBSET S
      OBVIOUS
    <3> HIDE DEF Bad
    <3> QED
      BY <1>1, <1>2, <3>1, WFMin
  <2>2. s \in SUBSET S /\ g[s] # Count(f, s) /\ Summable(f, s)
    BY SummableBelow
  <2>3. g[s] = IF s = {} THEN 0 ELSE f[Taken(s)] + g[s \ {Taken(s)}]
    BY <2>2 DEF FoldsTo
  <2>4. s # {}
    BY <2>2, <2>3, CountNone
  <2>5. Taken(s) \in s /\ Count(f, s) = f[Taken(s)] + Count(f, s \ {Taken(s)})
    BY <2>2, <2>4, CountTakes
  <2>6. <<s \ {Taken(s)}, s>> \in StrictSubsetOrdering(S)
    BY <2>2, <2>5 DEF StrictSubsetOrdering
  <2>7. g[s \ {Taken(s)}] = Count(f, s \ {Taken(s)})
    BY <2>1, <2>2, <2>6
  <2> QED
    BY <2>2, <2>3, <2>4, <2>5, <2>7
<1> QED
  BY <1>2

\* A total is a number of units.
LEMMA TotalCounts ==
  ASSUME NEW f, NEW S, Summable(f, S)
  PROVE  Total(f, S) = Count(f, S)
<1> DEFINE i == [s \in SUBSET S |-> Count(f, s)]
           g == CHOOSE h : FoldsTo(h, f, S)
<1>1. FoldsTo(i, f, S)
  <2>1. ASSUME NEW s \in SUBSET S
        PROVE  i[s] = IF s = {} THEN 0 ELSE f[Taken(s)] + i[s \ {Taken(s)}]
    <3>1. CASE s = {}
      BY <3>1, CountNone
    <3>2. CASE s # {}
      <4>1. Taken(s) \in s /\ Count(f, s) = f[Taken(s)] + Count(f, s \ {Taken(s)})
        BY <3>2, SummableBelow, CountTakes
      <4> QED
        BY <3>2, <4>1
    <3> QED
      BY <3>1, <3>2
  <2> QED
    BY <2>1 DEF FoldsTo
<1>2. FoldsTo(g, f, S)
  <2> HIDE DEF i
  <2>1. \E h : FoldsTo(h, f, S)
    BY <1>1
  <2> QED
    BY <2>1, Zenon
<1>3. Total(f, S) = g[S]
  BY Zenon DEF Total, MapThenSumSet, MapThenFoldSet, FoldsTo, Taken
<1> HIDE DEF g
<1> QED
  BY <1>2, <1>3, FoldCounts

LEMMA TotalNatural ==
  ASSUME NEW f, NEW S, Summable(f, S)
  PROVE  Total(f, S) \in Nat
BY TotalCounts, UnitsFinite

LEMMA TotalNone ==
  ASSUME NEW f
  PROVE  Total(f, {}) = 0
<1>1. Summable(f, {})
  BY FS_EmptySet DEF Summable
<1> QED
  BY <1>1, TotalCounts, CountNone

LEMMA TotalUnion ==
  ASSUME NEW f, NEW S, NEW T, Summable(f, S), Summable(f, T), S \cap T = {}
  PROVE  Total(f, S \cup T) = Total(f, S) + Total(f, T)
<1>1. Summable(f, S \cup T)
  BY FS_Union DEF Summable
<1> QED
  BY <1>1, TotalCounts, CountUnion

LEMMA TotalWithout ==
  ASSUME NEW f, NEW S, Summable(f, S), NEW x \in S
  PROVE  /\ Total(f, S) = Total(f, S \ {x}) + f[x]
         /\ Total(f, S \ {x}) \in Nat /\ f[x] \in Nat
<1>1. Summable(f, {x}) /\ Summable(f, S \ {x}) /\ f[x] \in Nat
  BY SummableBelow DEF Summable
<1>2. Total(f, (S \ {x}) \cup {x}) = Total(f, S \ {x}) + Total(f, {x})
  BY <1>1, TotalUnion
<1>3. (S \ {x}) \cup {x} = S
  OBVIOUS
<1>4. Total(f, {x}) = f[x]
  <2>1. Total(f, {x}) = Count(f, {x})
    BY <1>1, TotalCounts
  <2>2. Count(f, {x}) = f[x]
    BY <1>1, CountOne
  <2> QED
    BY <2>1, <2>2
<1> QED
  BY <1>1, <1>2, <1>3, <1>4, TotalNatural

\* A part is what is left when the rest is taken off.
LEMMA TotalSplit ==
  ASSUME NEW f, NEW S, Summable(f, S), NEW T \in SUBSET S
  PROVE  /\ Total(f, S) = Total(f, S \ T) + Total(f, T)
         /\ Total(f, S \ T) \in Nat /\ Total(f, T) \in Nat
<1>1. Summable(f, T) /\ Summable(f, S \ T)
  BY SummableBelow
<1>2. Total(f, (S \ T) \cup T) = Total(f, S \ T) + Total(f, T)
  BY <1>1, TotalUnion
<1>3. (S \ T) \cup T = S
  OBVIOUS
<1> QED
  BY <1>1, <1>2, <1>3, TotalNatural

\* A total depends on the elements of its set only.
LEMMA TotalSame ==
  ASSUME NEW f, NEW g, NEW S, Summable(f, S), \A x \in S : g[x] = f[x]
  PROVE  Summable(g, S) /\ Total(g, S) = Total(f, S)
<1>1. Summable(g, S)
  BY DEF Summable
<1>2. Units(g, S) = Units(f, S)
  BY DEF Units
<1> QED
  BY <1>1, <1>2, TotalCounts DEF Count

-----------------------------------------------------------------------------
(* Rows, transactions and locks *)

\* A row is its generation's, of a day that has come, with what is left of its
\* time; a generation that has not reserved has none.
Rows ==
  \A c \in Calls :
    /\ resv[c] # NoRow => /\ resv[c].amount = Est[c]
                          /\ resv[c].day \in 1..today
                          /\ resv[c].ttl + ticks >= TTL
    /\ call[c].pc \in {"new"} \cup Reserving => resv[c] = NoRow

\* A settlement holds its row if it found one, and nothing is charged before it.
Settlements ==
  \A c \in Calls :
    /\ call[c].found => call[c].pc \in {"holding", "charging"} /\ resv[c] # NoRow
    /\ call[c].pc \in {"holding", "charging"} /\ ~ call[c].found => resv[c] = NoRow
    /\ call[c].pc \in Reserving \cup Settling => call[c].day \in 1..today
    /\ call[c].pc \notin Ended => charge[c] = NoCharge

\* What a transaction saw expire had been reserved, and what it has deleted
\* nobody holds.
Expiries ==
  \A r \in Calls :
    /\ \A e \in call[r].expired : call[e].pc \notin {"new"} \cup Reserving
    /\ call[r].pc = "deciding" => \A e \in Gone(r, call[r].day) : ~ call[e].found

Locked == {"expiring", "deciding", "charging"}

Locks == \A c \in Calls : call[c].pc \in Locked => lock[LockDay(c)] = c

\* Before a time to live has passed nothing expires, and a generation has its
\* row until it has settled.
Young ==
  ticks < TTL =>
    \A c \in Calls :
      /\ call[c].expired = {}
      /\ call[c].pc \in {"reserved", "dispatched"} \cup Settling => resv[c] # NoRow

Shape == TypeOK /\ Rows /\ Settlements /\ Expiries /\ Locks /\ Young

\* What a generation c may become while the tables stay as they are.
Legal(c, r) ==
  /\ r \in Call
  /\ r.pc \in {"new"} \cup Reserving => call[c].pc \in {"new"} \cup Reserving
  /\ r.found => r.pc \in {"holding", "charging"} /\ resv[c] # NoRow
  /\ r.pc \in {"holding", "charging"} /\ ~ r.found => resv[c] = NoRow
  /\ r.pc \in Reserving \cup Settling => r.day \in 1..today
  /\ r.pc \notin Ended => call[c].pc \notin Ended
  /\ \A e \in r.expired : call[e].pc \notin {"new"} \cup Reserving
  /\ r.pc = "deciding" =>
       \A e \in r.expired : resv[e] # NoRow /\ resv[e].day = r.day => ~ call[e].found
  /\ r.found /\ ~ call[c].found =>
       \A o \in Calls : call[o].pc = "deciding" => c \notin Gone(o, call[o].day)
  /\ ticks < TTL =>
       /\ r.expired = {}
       /\ r.pc \in {"reserved", "dispatched"} \cup Settling => resv[c] # NoRow

\* ... and the locks with it.
LegalLocks(c, r, l) ==
  /\ l \in [Days -> Calls \cup {NoCall}]
  /\ \A d \in Days : \A o \in Calls \ {c} : lock[d] = o => l[d] = o
  /\ r.pc \in Locked => l[IF r.found THEN resv[c].day ELSE r.day] = c

LEMMA DaysSoFar ==
  ASSUME TypeOK
  PROVE  1..today \subseteq Days /\ today \in Nat /\ LastDay \in Nat
BY BudgetAssumption DEF TypeOK, Days

LEMMA LockDayIsADay ==
  ASSUME TypeOK, Rows, Settlements, NEW c \in Calls, call[c].pc \in Reserving \cup Settling
  PROVE  LockDay(c) \in Days
<1>1. call[c].found \in BOOLEAN
  BY DEF TypeOK, Call
<1> QED
  BY <1>1, DaysSoFar DEF Rows, Settlements, LockDay

LEMMA Moved ==
  ASSUME Shape, NEW c \in Calls, NEW r, Legal(c, r), NEW l, LegalLocks(c, r, l),
         call' = [call EXCEPT ![c] = r], lock' = l,
         UNCHANGED <<today, ticks, usage, resv, charge>>
  PROVE  Shape'
<1>1. \A o \in Calls : call'[o] = IF o = c THEN r ELSE call[o]
  BY DEF Shape, TypeOK
<1>2. TypeOK'
  BY DEF Shape, TypeOK, Legal, LegalLocks
<1>3. Rows'
  BY <1>1 DEF Shape, Rows, Legal
<1>4. Settlements'
  BY <1>1 DEF Shape, Settlements, Legal
<1>5. Expiries'
  <2>1. ASSUME NEW o \in Calls, NEW e \in call'[o].expired
        PROVE  call'[e].pc \notin {"new"} \cup Reserving
    <3>1. e \in Calls
      BY <1>2 DEF TypeOK, Call
    <3>2. call[e].pc \notin {"new"} \cup Reserving
      BY <1>1, <2>1 DEF Shape, Expiries, Legal
    <3> QED
      BY <1>1, <3>1, <3>2 DEF Legal
  <2>2. ASSUME NEW o \in Calls, call'[o].pc = "deciding", NEW e \in Gone(o, call[o].day)'
        PROVE  ~ call'[e].found
    <3>1. e \in Calls /\ e \in call'[o].expired /\ resv[e] # NoRow /\ resv[e].day = call'[o].day
      BY <1>2, <2>2 DEF TypeOK, Call, Gone
    <3>2. CASE o = c
      <4>1. ~ call[e].found
        BY <1>1, <2>2, <3>1, <3>2 DEF Legal
      <4>2. ~ r.found
        BY <1>1, <2>2, <3>2 DEF Legal
      <4> QED
        BY <1>1, <3>1, <4>1, <4>2
    <3>3. CASE o # c
      <4>1. call[o].pc = "deciding" /\ e \in Gone(o, call[o].day)
        BY <1>1, <2>2, <3>1, <3>3 DEF Gone
      <4>2. ~ call[e].found
        BY <4>1 DEF Shape, Expiries
      <4>3. e = c => ~ r.found
        BY <4>1, <4>2 DEF Legal
      <4> QED
        BY <1>1, <3>1, <4>2, <4>3
    <3> QED
      BY <3>2, <3>3
  <2> QED
    BY <2>1, <2>2 DEF Expiries
<1>6. Locks'
  <2>1. ASSUME NEW o \in Calls, call'[o].pc \in Locked
        PROVE  lock'[LockDay(o)'] = o
    <3>1. CASE o = c
      BY <1>1, <2>1, <3>1 DEF LockDay, LegalLocks
    <3>2. CASE o # c
      <4>1. call'[o] = call[o]
        BY <1>1, <3>2
      <4>2. LockDay(o)' = LockDay(o)
        BY <4>1 DEF LockDay
      <4>3. PICK d : d = LockDay(o)
        OBVIOUS
      <4>4. d \in Days
        BY <2>1, <4>1, <4>3, LockDayIsADay DEF Shape, Locked, Reserving, Settling
      <4>5. lock[d] = o
        BY <2>1, <4>1, <4>3 DEF Shape, Locks
      <4>6. l[d] = o
        BY <3>2, <4>4, <4>5 DEF LegalLocks
      <4> QED
        BY <4>2, <4>3, <4>6
    <3> QED
      BY <3>1, <3>2
  <2> QED
    BY <2>1 DEF Locks
<1>7. Young'
  BY <1>1 DEF Shape, Young, Legal
<1> QED
  BY <1>2, <1>3, <1>4, <1>5, <1>6, <1>7 DEF Shape

LEMMA NewCallIsACall == NewCall \in Call
BY DEF NewCall, Call, Phases, Days

LEMMA ExpiredWereReserved ==
  ASSUME Shape
  PROVE  /\ Expired \subseteq Calls
         /\ \A e \in Expired : call[e].pc \notin {"new"} \cup Reserving
         /\ ticks < TTL => Expired = {}
<1>1. \A e \in Expired : e \in Calls /\ resv[e] # NoRow /\ resv[e].ttl = 0
  BY DEF Expired
<1>2. ticks \in Nat /\ TTL \in Nat
  BY BudgetAssumption DEF Shape, TypeOK
<1>3. \A e \in Expired : 0 + ticks >= TTL
  BY <1>1 DEF Shape, Rows
<1>4. ticks < TTL => ~ (0 + ticks >= TTL)
  BY <1>2
<1> QED
  BY <1>1, <1>3, <1>4 DEF Shape, Rows

\* The end of a transaction that writes nothing.
LEMMA Ends ==
  ASSUME Shape, NEW c \in Calls, NEW pc \in Ended, EndsAt(c, pc),
         UNCHANGED <<today, ticks, usage, resv, charge>>
  PROVE  Shape'
<1> DEFINE r == [NewCall EXCEPT !.pc = pc]
           l == [d \in Days |-> IF lock[d] = c THEN NoCall ELSE lock[d]]
<1>1. r \in Call /\ r.pc = pc /\ r.expired = {} /\ ~ r.found
  BY DEF NewCall, Call, Phases, Days, Ended
<1>2. pc \notin {"new"} \cup Reserving \cup Settling /\ pc \notin Locked /\ pc \notin {"reserved", "dispatched"}
  BY DEF Ended, Reserving, Settling, Locked
<1>3. pc \notin {"holding", "charging", "deciding"}
  BY DEF Ended
<1>4. l \in [Days -> Calls \cup {NoCall}] /\ \A d \in Days : \A o \in Calls \ {c} : lock[d] = o => l[d] = o
  BY DEF Shape, TypeOK
<1>5. call' = [call EXCEPT ![c] = r] /\ lock' = l
  BY DEF EndsAt
<1> HIDE DEF r, l
<1>6. Legal(c, r)
  BY <1>1, <1>2, <1>3 DEF Legal
<1>7. LegalLocks(c, r, l)
  BY <1>1, <1>2, <1>4 DEF LegalLocks
<1> QED
  BY <1>5, <1>6, <1>7, Moved

\* The start of a transaction, at the date and the expiries of its time.
LEMMA Begins ==
  ASSUME Shape, NEW c \in Calls, NEW pc \in {"reserving", "settling"}, NEW commits \in BOOLEAN, NEW tokens \in Nat,
         Begin(c, pc, commits, tokens),
         \/ pc = "reserving" /\ call[c].pc = "new"
         \/ pc = "settling" /\ call[c].pc \in {"reserved", "dispatched"},
         UNCHANGED <<today, ticks, usage, resv, charge, lock>>
  PROVE  Shape'
<1> DEFINE r == [NewCall EXCEPT !.pc = pc, !.day = today, !.expired = Expired,
                                !.commits = commits, !.tokens = tokens]
<1>0. PICK x : x = Expired
  OBVIOUS
<1>1. x \subseteq Calls /\ (\A e \in x : call[e].pc \notin {"new"} \cup Reserving) /\ (ticks < TTL => x = {})
  BY <1>0, ExpiredWereReserved
<1>2. r.pc = pc /\ r.expired = x /\ ~ r.found /\ r.day = today
  BY <1>0 DEF NewCall
<1>3. today \in Days /\ today \in 1..today
  BY DaysSoFar DEF Shape, TypeOK, Days
<1>4. pc \in Phases
  BY DEF Phases, Reserving, Settling
<1>10. r \in Call
  BY <1>0, <1>1, <1>3, <1>4, NewCallIsACall DEF Call
<1>5. call' = [call EXCEPT ![c] = r] /\ lock' = lock
  BY DEF Begin
<1> HIDE DEF r
<1>6. call[c].pc \in {"new", "reserved", "dispatched"} /\ call[c].pc \notin Ended
  BY DEF Ended
<1>7. pc = "settling" => (ticks < TTL => resv[c] # NoRow)
  BY DEF Shape, Young
<1>8. Legal(c, r)
  BY <1>1, <1>2, <1>3, <1>6, <1>7, <1>10 DEF Legal, Reserving, Settling
<1>9. LegalLocks(c, r, lock)
  BY <1>2 DEF LegalLocks, Locked, Shape, TypeOK
<1> QED
  BY <1>5, <1>8, <1>9, Moved

LEMMA StartsReserve ==
  ASSUME Shape, NEW c \in Calls, StartReserve(c)
  PROVE  Shape'
BY Begins DEF StartReserve

LEMMA StartsSettle ==
  ASSUME Shape, NEW c \in Calls, StartSettle(c)
  PROVE  Shape'
<1>1. CASE call[c].pc \in {"reserved", "dispatched"} /\ Begin(c, "settling", FALSE, 0)
  BY <1>1, Begins DEF StartSettle
<1>2. CASE call[c].pc = "dispatched" /\ \E n \in Actuals \cup {Est[c]} : Begin(c, "settling", TRUE, n)
  <2>1. PICK n \in Actuals \cup {Est[c]} : Begin(c, "settling", TRUE, n)
    BY <1>2
  <2>2. n \in Nat
    BY BudgetAssumption
  <2> QED
    BY <1>2, <2>1, <2>2, Begins DEF StartSettle
<1> QED
  BY <1>1, <1>2 DEF StartSettle

\* Where a generation goes on as it is.
LEMMA GoesOn ==
  ASSUME Shape, NEW c \in Calls, NEW pc, Goto(c, pc), NEW l, lock' = l,
         Legal(c, [call[c] EXCEPT !.pc = pc]), LegalLocks(c, [call[c] EXCEPT !.pc = pc], l),
         UNCHANGED <<today, ticks, usage, resv, charge>>
  PROVE  Shape'
<1> DEFINE r == [call[c] EXCEPT !.pc = pc]
<1>1. call' = [call EXCEPT ![c] = r]
  BY DEF Goto, Shape, TypeOK
<1> HIDE DEF r
<1>2. Legal(c, r) /\ LegalLocks(c, r, l)
  BY DEF r
<1> QED
  BY <1>1, <1>2, Moved

LEMMA CallAt ==
  ASSUME NEW k \in Call, NEW pc \in Phases
  PROVE  /\ [k EXCEPT !.pc = pc] \in Call /\ [k EXCEPT !.pc = pc].pc = pc
         /\ [k EXCEPT !.pc = pc].expired = k.expired /\ [k EXCEPT !.pc = pc].found = k.found
         /\ [k EXCEPT !.pc = pc].day = k.day
BY DEF Call

LEMMA Dispatches ==
  ASSUME Shape, NEW c \in Calls, Dispatch(c)
  PROVE  Shape'
<1> DEFINE r == [call[c] EXCEPT !.pc = "dispatched"]
<1>1. /\ r \in Call /\ r.pc = "dispatched" /\ r.expired = call[c].expired /\ r.found = call[c].found
      /\ call[c].pc = "reserved"
  <2>1. call[c] \in Call /\ "dispatched" \in Phases
    BY DEF Shape, TypeOK, Phases
  <2> QED
    BY <2>1, CallAt DEF Dispatch
<1> HIDE DEF r
<1>2. ~ call[c].found
  BY <1>1 DEF Shape, Settlements
<1>3. Legal(c, r)
  BY <1>1, <1>2 DEF Legal, Reserving, Settling, Ended, Shape, Expiries, Young
<1>4. LegalLocks(c, r, lock)
  BY <1>1 DEF LegalLocks, Locked, Shape, TypeOK
<1> QED
  BY <1>3, <1>4, GoesOn DEF Dispatch, r

LEMMA TakesLock ==
  ASSUME Shape, NEW c \in Calls, TakeLock(c)
  PROVE  Shape'
<1>1. PICK pc : /\ Goto(c, pc)
                /\ \/ call[c].pc = "reserving" /\ pc = "expiring"
                   \/ call[c].pc = "holding" /\ pc = "charging"
  BY DEF TakeLock
<1> DEFINE r == [call[c] EXCEPT !.pc = pc]
<1>2. PICK d : d = LockDay(c)
  OBVIOUS
<1> DEFINE l == [lock EXCEPT ![d] = c]
<1>3. /\ r \in Call /\ r.pc = pc /\ r.expired = call[c].expired /\ r.found = call[c].found /\ r.day = call[c].day
  <2>1. call[c] \in Call /\ pc \in Phases
    BY <1>1 DEF Shape, TypeOK, Phases, Reserving, Settling
  <2> QED
    BY <2>1, CallAt
<1>4. d \in Days
  BY <1>1, <1>2, LockDayIsADay DEF Shape, Reserving, Settling
<1>5. lock[d] = NoCall /\ lock' = l
  BY <1>2 DEF TakeLock
<1>6. d = IF r.found THEN resv[c].day ELSE r.day
  BY <1>2, <1>3 DEF LockDay
<1>7. LegalLocks(c, r, l)
  <2>1. l \in [Days -> Calls \cup {NoCall}] /\ l[d] = c
    BY <1>4 DEF Shape, TypeOK
  <2>2. \A e \in Days : \A o \in Calls \ {c} : lock[e] = o => l[e] = o
    BY <1>4, <1>5, BudgetAssumption DEF Shape, TypeOK
  <2> QED
    BY <1>6, <2>1, <2>2 DEF LegalLocks
<1> HIDE DEF r, l
<1>8. Legal(c, r)
  BY <1>1, <1>3 DEF Legal, Reserving, Settling, Ended, Shape, Expiries, Young, Settlements
<1> QED
  BY <1>1, <1>5, <1>7, <1>8, GoesOn DEF TakeLock, r

LEMMA DenyEnds ==
  ASSUME Shape, NEW c \in Calls, Deny(c) \/ RollBack(c) \/ Crash(c)
  PROVE  Shape'
<1>1. PICK pc \in Ended : EndsAt(c, pc)
  BY DEF Deny, RollBack, Crash, Ended
<1>2. UNCHANGED <<today, ticks, usage, resv, charge>>
  BY DEF Deny, RollBack, Crash
<1> QED
  BY <1>1, <1>2, Ends

LEMMA FindsReservation ==
  ASSUME Shape, NEW c \in Calls, FindReservation(c)
  PROVE  Shape'
<1>1. PICK k \in Call : k = call[c]
  BY DEF Shape, TypeOK
<1>2. /\ k.pc = "settling" /\ ~ k.found
      /\ \A o \in Calls : call[o].pc = "deciding" => c \notin Gone(o, call[o].day)
      /\ UNCHANGED <<today, ticks, usage, resv, charge>>
  <2>1. k.pc = "settling"
    BY <1>1 DEF FindReservation
  <2> QED
    BY <1>1, <2>1 DEF FindReservation, Shape, Settlements
<1>3. CASE resv[c] = NoRow /\ ~ call[c].commits /\ EndsAt(c, "done")
  BY <1>2, <1>3, Ends DEF Ended
<1>4. CASE resv[c] # NoRow /\ call' = [call EXCEPT ![c].pc = "holding", ![c].found = TRUE] /\ UNCHANGED lock
  <2> DEFINE r == [k EXCEPT !.pc = "holding", !.found = TRUE]
  <2>1. call' = [call EXCEPT ![c] = r]
    BY <1>1, <1>4
  <2>2. r \in Call /\ r.pc = "holding" /\ r.found /\ r.expired = k.expired /\ r.day = k.day
    BY DEF Call, Phases, Settling
  <2> HIDE DEF r
  <2>3. Legal(c, r)
    BY <1>1, <1>2, <1>4, <2>2 DEF Legal, Reserving, Settling, Ended, Shape, Expiries, Young, Settlements
  <2>4. LegalLocks(c, r, lock)
    BY <2>2 DEF LegalLocks, Locked, Shape, TypeOK
  <2> QED
    BY <1>2, <1>4, <2>1, <2>3, <2>4, Moved
<1>5. CASE resv[c] = NoRow /\ call[c].commits /\ Goto(c, "holding") /\ UNCHANGED lock
  <2> DEFINE r == [k EXCEPT !.pc = "holding"]
  <2>1. call' = [call EXCEPT ![c] = r]
    BY <1>1, <1>5 DEF Goto
  <2>2. r \in Call /\ r.pc = "holding" /\ r.found = k.found /\ r.expired = k.expired /\ r.day = k.day
    BY CallAt DEF Phases, Settling
  <2> HIDE DEF r
  <2>3. Legal(c, r)
    BY <1>1, <1>2, <1>5, <2>2 DEF Legal, Reserving, Settling, Ended, Shape, Expiries, Young, Settlements
  <2>4. LegalLocks(c, r, lock)
    BY <2>2 DEF LegalLocks, Locked, Shape, TypeOK
  <2> QED
    BY <1>2, <1>5, <2>1, <2>3, <2>4, Moved
<1> QED
  BY <1>1, <1>3, <1>4, <1>5 DEF FindReservation

\* A commit: c's transaction ends, and of the others' rows some are deleted,
\* which nobody holds and a time to live has passed for.
LEMMA Written ==
  ASSUME Shape, TypeOK', NEW c \in Calls, NEW pc \in Ended \cup {"reserved"}, EndsAt(c, pc),
         UNCHANGED <<today, ticks>>,
         \A e \in Calls \ {c} :
           /\ charge'[e] = charge[e]
           /\ resv'[e] = resv[e] \/ (resv'[e] = NoRow /\ ~ call[e].found /\ ~ (ticks < TTL)),
         \/ resv'[c] = NoRow /\ pc # "reserved"
         \/ /\ call[c].pc = "deciding" /\ charge'[c] = NoCharge
            /\ resv'[c] = [day |-> call[c].day, amount |-> Est[c], ttl |-> TTL]
  PROVE  Shape'
<1> DEFINE r == [NewCall EXCEPT !.pc = pc]
<1>1. /\ r.pc = pc /\ r.expired = {} /\ ~ r.found
      /\ \A e \in Calls : call'[e] = IF e = c THEN r ELSE call[e]
      /\ \A d \in Days : lock'[d] = IF lock[d] = c THEN NoCall ELSE lock[d]
  BY DEF EndsAt, Shape, TypeOK, NewCall
<1>2. pc \notin {"new"} \cup Reserving \cup Settling /\ pc \notin Locked
  BY DEF Ended, Reserving, Settling, Locked
<1>3. pc \notin {"holding", "charging", "deciding"}
  BY DEF Ended
<1> HIDE DEF r
<1>4. TTL \in Nat \ {0} /\ ticks \in Nat /\ Est[c] \in Nat \ {0}
  BY BudgetAssumption DEF Shape, TypeOK
<1>5. resv'[c] # NoRow =>
        /\ call[c].pc = "deciding" /\ charge'[c] = NoCharge
        /\ resv'[c].day = call[c].day /\ resv'[c].amount = Est[c] /\ resv'[c].ttl = TTL
        /\ call[c].day \in 1..today
  BY DEF Shape, Settlements, Reserving
<1>6. Rows'
  <2>1. ASSUME NEW e \in Calls, e # c
        PROVE  /\ resv'[e] # NoRow => /\ resv'[e].amount = Est[e]
                                      /\ resv'[e].day \in 1..today
                                      /\ resv'[e].ttl + ticks >= TTL
               /\ call'[e].pc \in {"new"} \cup Reserving => resv'[e] = NoRow
    BY <1>1, <2>1 DEF Shape, Rows
  <2>2. resv'[c] # NoRow => resv'[c].ttl + ticks >= TTL
    BY <1>4, <1>5
  <2> QED
    BY <1>1, <1>2, <1>5, <2>1, <2>2 DEF Rows
<1>7. Settlements'
  <2>1. ASSUME NEW e \in Calls, e # c
        PROVE  /\ call'[e].found => call'[e].pc \in {"holding", "charging"} /\ resv'[e] # NoRow
               /\ call'[e].pc \in {"holding", "charging"} /\ ~ call'[e].found => resv'[e] = NoRow
               /\ call'[e].pc \in Reserving \cup Settling => call'[e].day \in 1..today
               /\ call'[e].pc \notin Ended => charge'[e] = NoCharge
    BY <1>1, <2>1 DEF Shape, Settlements
  <2>2. pc \notin Ended => charge'[c] = NoCharge
    OBVIOUS
  <2> QED
    BY <1>1, <1>2, <1>3, <2>1, <2>2 DEF Settlements
<1>8. Expiries'
  <2>1. ASSUME NEW o \in Calls, NEW e \in call'[o].expired
        PROVE  call'[e].pc \notin {"new"} \cup Reserving
    <3>1. e \in Calls /\ e \in call[o].expired
      BY <1>1, <2>1 DEF TypeOK, Call
    <3> QED
      BY <1>1, <1>2, <3>1 DEF Shape, Expiries
  <2>2. ASSUME NEW o \in Calls, call'[o].pc = "deciding", NEW e \in Gone(o, call[o].day)'
        PROVE  ~ call'[e].found
    <3>1. call'[o] = call[o] /\ o # c
      BY <1>1, <1>3, <2>2
    <3>2. e \in Calls /\ e \in call[o].expired /\ resv'[e] # NoRow /\ resv'[e].day = call[o].day
      BY <2>2, <3>1 DEF TypeOK, Call, Gone
    <3>3. CASE e = c
      BY <1>1, <3>2, <3>3
    <3>4. CASE e # c
      <4>1. resv'[e] = resv[e]
        BY <3>2, <3>4
      <4>2. e \in Gone(o, call[o].day)
        BY <3>2, <4>1 DEF Gone
      <4> QED
        BY <1>1, <2>2, <3>1, <3>2, <3>4, <4>2 DEF Shape, Expiries
    <3> QED
      BY <3>3, <3>4
  <2> QED
    BY <2>1, <2>2 DEF Expiries
<1>9. Locks'
  <2>1. ASSUME NEW o \in Calls, call'[o].pc \in Locked
        PROVE  lock'[LockDay(o)'] = o
    <3>1. call'[o] = call[o] /\ o # c
      BY <1>1, <1>2, <2>1
    <3>2. LockDay(o)' = LockDay(o)
      <4>1. call[o].found => resv'[o] = resv[o]
        BY <3>1
      <4> QED
        BY <3>1, <4>1 DEF LockDay
    <3>3. PICK d : d = LockDay(o)
      OBVIOUS
    <3>4. d \in Days
      BY <2>1, <3>1, <3>3, LockDayIsADay DEF Shape, Locked, Reserving, Settling
    <3>5. lock[d] = o
      BY <2>1, <3>1, <3>3 DEF Shape, Locks
    <3>6. lock'[d] = o
      BY <1>1, <3>1, <3>4, <3>5
    <3> QED
      BY <3>2, <3>3, <3>6
  <2> QED
    BY <2>1 DEF Locks
<1>10. Young'
  <2>1. ASSUME ticks < TTL, NEW e \in Calls
        PROVE  /\ call'[e].expired = {}
               /\ call'[e].pc \in {"reserved", "dispatched"} \cup Settling => resv'[e] # NoRow
    <3>1. CASE e = c
      <4>1. pc = "reserved" => resv'[c] # NoRow
        <5>1. pc = "reserved" => resv'[c].amount = Est[c]
          OBVIOUS
        <5> QED
          BY <1>4, <5>1 DEF NoRow
      <4> QED
        BY <1>1, <1>2, <3>1, <4>1 DEF Ended
    <3>2. CASE e # c
      BY <1>1, <2>1, <3>2 DEF Shape, Young
    <3> QED
      BY <3>1, <3>2
  <2> QED
    BY <2>1 DEF Young
<1> QED
  BY <1>6, <1>7, <1>8, <1>9, <1>10 DEF Shape

\* The sums of the model are sums of naturals.
LEMMA Amounts ==
  ASSUME TypeOK, NEW S \in SUBSET Calls
  PROVE  Summable([c \in Calls |-> resv[c].amount], S)
BY BudgetAssumption, FS_Subset DEF TypeOK, Summable

LEMMA AmountOfPart ==
  ASSUME TypeOK, NEW S \in SUBSET Calls, NEW T \in SUBSET S
  PROVE  Amount(S) = Amount(S \ T) + Amount(T) /\ Amount(S \ T) \in Nat /\ Amount(T) \in Nat
BY Amounts, TotalSplit DEF Amount

LEMMA AmountOfOne ==
  ASSUME TypeOK, NEW S \in SUBSET Calls, NEW c \in S
  PROVE  Amount(S) = Amount(S \ {c}) + resv[c].amount /\ Amount(S \ {c}) \in Nat /\ resv[c].amount \in Nat
<1> DEFINE f == [x \in Calls |-> resv[x].amount]
<1>1. f[c] = resv[c].amount
  OBVIOUS
<1>2. Summable(f, S)
  BY Amounts
<1> HIDE DEF f
<1>3. Total(f, S) = Total(f, S \ {c}) + f[c] /\ Total(f, S \ {c}) \in Nat /\ f[c] \in Nat
  BY <1>2, TotalWithout
<1> QED
  BY <1>1, <1>3 DEF Amount, f

LEMMA AmountIsNat ==
  ASSUME TypeOK, NEW S \in SUBSET Calls
  PROVE  Amount(S) \in Nat
BY Amounts, TotalNatural DEF Amount

LEMMA AmountOfNone == Amount({}) = 0
BY TotalNone DEF Amount

LEMMA DaysFinite == IsFiniteSet(Days)
<1>1. 1 \in Int /\ LastDay \in Int
  BY BudgetAssumption
<1> QED
  BY <1>1, FS_Interval DEF Days

LEMMA UsedSums ==
  ASSUME TypeOK
  PROVE  Summable(Used, Days)
BY DaysFinite DEF TypeOK, Used, Summable

LEMMA UnexpiredFacts ==
  ASSUME TypeOK, NEW c \in Calls, NEW d \in Days
  PROVE  /\ Gone(c, d) \in SUBSET RowsOf(d) /\ Gone(c, d) \in SUBSET Calls
         /\ Amount(Gone(c, d)) \in Nat /\ usage[d].reserved \in Nat /\ usage[d].spent \in Nat
         /\ Unexpired(c, d) \in Nat
<1>1. Gone(c, d) \in SUBSET RowsOf(d) /\ Gone(c, d) \in SUBSET Calls
  BY DEF TypeOK, Call, Gone, RowsOf
<1>2. Amount(Gone(c, d)) \in Nat
  BY <1>1, AmountIsNat
<1>3. usage[d].reserved \in Nat /\ usage[d].spent \in Nat
  BY DEF TypeOK
<1>4. PICK m \in Nat, n \in Nat : m = usage[d].reserved /\ n = Amount(Gone(c, d))
  BY <1>2, <1>3
<1>5. Minus(m, n) \in Nat
  BY DEF Minus
<1> QED
  BY <1>1, <1>2, <1>3, <1>4, <1>5 DEF Unexpired

\* What ReadUsage sees of the other days.
LEMMA OtherDays ==
  ASSUME TypeOK, NEW d \in Days
  PROVE  /\ Total(Used, Days) = Total(Used, Days \ {d}) + usage[d].spent + usage[d].reserved
         /\ Total(Used, Days \ {d}) \in Nat
<1>1. Total(Used, Days) = Total(Used, Days \ {d}) + Used[d] /\ Total(Used, Days \ {d}) \in Nat
  BY UsedSums, TotalWithout
<1>2. PICK u : u = Total(Used, Days \ {d})
  OBVIOUS
<1>3. PICK s \in Nat, v \in Nat : s = usage[d].spent /\ v = usage[d].reserved
  BY DEF TypeOK
<1>4. Used[d] = s + v
  BY <1>3 DEF Used
<1>5. u + (s + v) = u + s + v
  BY <1>1, <1>2
<1> QED
  BY <1>1, <1>2, <1>3, <1>4, <1>5

LEMMA ReadsUsage ==
  ASSUME Shape, NEW c \in Calls, ReadUsage(c)
  PROVE  Shape'
<1>1. PICK k \in Call : k = call[c]
  BY DEF Shape, TypeOK
<1>2. k.pc = "expiring" /\ ~ k.found /\ k.day \in 1..today /\ k.day \in Days /\ RowsHeldAgainst(c) = {}
  BY <1>1, DaysSoFar DEF ReadUsage, Shape, Settlements, Reserving
<1>3. PICK n : n = Total(Used, Days \ {k.day}) + usage[k.day].spent + Unexpired(c, k.day)
  OBVIOUS
<1>4. n \in Nat
  <2>1. Total(Used, Days \ {k.day}) \in Nat
    BY <1>2, OtherDays DEF Shape
  <2>2. usage[k.day].spent \in Nat /\ Unexpired(c, k.day) \in Nat
    BY <1>2, UnexpiredFacts DEF Shape
  <2> QED
    BY <1>3, <2>1, <2>2
<1> DEFINE r == [k EXCEPT !.pc = "deciding", !.seen = n]
<1>5. call' = [call EXCEPT ![c] = r]
  BY <1>1, <1>3 DEF ReadUsage
<1>6. r \in Call /\ r.pc = "deciding" /\ ~ r.found /\ r.expired = k.expired /\ r.day = k.day
  BY <1>2, <1>4 DEF Call, Phases, Reserving
<1> HIDE DEF r
<1>7. ASSUME NEW e \in r.expired, resv[e] # NoRow, resv[e].day = r.day
      PROVE  ~ call[e].found
  <2>1. e \in Calls /\ e \in Gone(c, k.day)
    BY <1>1, <1>6, <1>7 DEF Gone, Call
  <2>2. LockDay(c) = k.day
    BY <1>1, <1>2 DEF LockDay
  <2>3. e # c => ~ HoldsRow(e)
    BY <1>2, <2>1, <2>2 DEF RowsHeldAgainst
  <2> QED
    BY <1>1, <1>2, <2>1, <2>3 DEF HoldsRow, Shape, Settlements
<1>8. Legal(c, r)
  BY <1>1, <1>2, <1>6, <1>7 DEF Legal, Reserving, Settling, Ended, Shape, Expiries, Young, Settlements
<1>9. LegalLocks(c, r, lock)
  <2>1. lock[LockDay(c)] = c
    BY <1>1, <1>2 DEF Shape, Locks, Locked
  <2>2. LockDay(c) = r.day
    BY <1>1, <1>2, <1>6 DEF LockDay
  <2> QED
    BY <1>6, <2>1, <2>2 DEF LegalLocks, Shape, TypeOK
<1> QED
  BY <1>5, <1>8, <1>9, Moved DEF ReadUsage

LEMMA EndsAtTypes ==
  ASSUME TypeOK, NEW c \in Calls, NEW pc \in Ended \cup {"reserved"}, EndsAt(c, pc)
  PROVE  call' \in [Calls -> Call] /\ lock' \in [Days -> Calls \cup {NoCall}]
<1> DEFINE r == [NewCall EXCEPT !.pc = pc]
<1>1. r \in Call
  BY DEF NewCall, Call, Phases, Days, Ended
<1>2. call' = [call EXCEPT ![c] = r]
  BY DEF EndsAt
<1> HIDE DEF r
<1> QED
  BY <1>1, <1>2 DEF TypeOK, EndsAt

LEMMA Admits ==
  ASSUME Shape, NEW c \in Calls, Admit(c)
  PROVE  Shape'
<1>1. PICK pc \in Ended \cup {"reserved"} : EndsAt(c, pc)
  BY DEF Admit, Ended
<1>2. PICK d : d = call[c].day
  OBVIOUS
<1>3. call[c].pc = "deciding" /\ ~ call[c].found /\ d \in 1..today /\ d \in Days
  BY <1>2, DaysSoFar DEF Admit, Shape, Settlements, Reserving
<1>4. UNCHANGED <<today, ticks, charge>>
  BY DEF Admit
<1>5. PICK row : row = [day |-> d, amount |-> Est[c], ttl |-> TTL]
  OBVIOUS
<1>6. PICK n : n = Unexpired(c, d) + Est[c]
  OBVIOUS
<1>7. row \in [day: Days \cup {0}, amount: Nat, ttl: 0..TTL] /\ NoRow \in [day: Days \cup {0}, amount: Nat, ttl: 0..TTL]
  BY <1>3, <1>5, BudgetAssumption DEF NoRow
<1>8. n \in Nat
  BY <1>3, <1>6, UnexpiredFacts, BudgetAssumption DEF Shape
<1>9. resv' = [e \in Calls |-> IF e = c THEN row ELSE IF e \in Gone(c, d) THEN NoRow ELSE resv[e]]
  BY <1>2, <1>5 DEF Admit, ReserveWrites
<1>10. usage' = [usage EXCEPT ![d].reserved = n]
  BY <1>2, <1>6 DEF Admit, ReserveWrites
<1>11. TypeOK'
  <2>1. usage' \in [Days -> [spent: Nat, reserved: Nat]]
    BY <1>3, <1>8, <1>10 DEF Shape, TypeOK
  <2>2. resv' \in [Calls -> [day: Days \cup {0}, amount: Nat, ttl: 0..TTL]]
    BY <1>7, <1>9 DEF Shape, TypeOK
  <2> QED
    BY <1>1, <1>4, <2>1, <2>2, EndsAtTypes DEF Shape, TypeOK
<1>12. \A e \in Gone(c, d) : e \in Calls /\ ~ call[e].found
  BY <1>2, <1>3 DEF Shape, Expiries, Gone, TypeOK, Call
<1>13. ticks < TTL => Gone(c, d) = {}
  BY DEF Shape, Young, Gone
<1>14. charge'[c] = NoCharge
  BY <1>3, <1>4 DEF Shape, Settlements, Ended
<1>15. resv'[c] = row
  BY <1>9
<1>16. \A e \in Calls \ {c} : resv'[e] = resv[e] \/ (resv'[e] = NoRow /\ ~ call[e].found /\ ~ (ticks < TTL))
  BY <1>9, <1>12, <1>13
<1> QED
  BY <1>1, <1>2, <1>3, <1>4, <1>5, <1>11, <1>14, <1>15, <1>16, Written

LEMMA SettlesFacts ==
  ASSUME Shape, NEW c \in Calls, call[c].pc = "charging"
  PROVE  /\ LockDay(c) \in Days /\ LockDay(c) \in 1..today
         /\ call[c].found => c \in RowsOf(LockDay(c)) /\ resv[c].amount = Est[c]
         /\ ~ call[c].found => resv[c] = NoRow
         /\ call[c].found \in BOOLEAN /\ call[c].commits \in BOOLEAN /\ call[c].tokens \in Nat
         /\ charge[c] = NoCharge
<1>1. call[c] \in Call
  BY DEF Shape, TypeOK
<1>2. call[c].found \in BOOLEAN /\ call[c].commits \in BOOLEAN /\ call[c].tokens \in Nat
  BY <1>1 DEF Call
<1>3. LockDay(c) \in 1..today
  BY <1>2 DEF Shape, Rows, Settlements, LockDay, Settling
<1> QED
  BY <1>2, <1>3, DaysSoFar DEF Shape, Rows, Settlements, LockDay, RowsOf, Ended

LEMMA Charges ==
  ASSUME Shape, NEW c \in Calls, Charge(c)
  PROVE  Shape'
<1>1. EndsAt(c, "done") /\ "done" \in Ended \cup {"reserved"} /\ call[c].pc = "charging" /\ RowsHeldAgainst(c) = {}
      /\ UNCHANGED <<today, ticks>>
  BY DEF Charge, Ended
<1>2. PICK d : d = LockDay(c)
  OBVIOUS
<1>3. d \in Days /\ call[c].tokens \in Nat /\ call[c].commits \in BOOLEAN /\ call[c].found \in BOOLEAN
  BY <1>1, <1>2, SettlesFacts
<1>4. PICK n, s : n = Freed(c, d) /\ s = Spent(c)
  OBVIOUS
<1>5. n \in Nat /\ s \in Nat
  <2>1. PICK u \in Nat : u = Unexpired(c, d)
    BY <1>3, UnexpiredFacts DEF Shape
  <2>2. PICK a \in Nat : a = IF call[c].found THEN resv[c].amount ELSE 0
    BY DEF Shape, TypeOK
  <2>3. n = Minus(u, a)
    BY <1>4, <2>1, <2>2 DEF Freed
  <2> QED
    BY <1>3, <1>4, <2>3 DEF Minus, Spent
<1>6. usage' = [usage EXCEPT ![d].reserved = n, ![d].spent = @ + s]
  BY <1>2, <1>4 DEF Charge
<1>7. resv' = [e \in Calls |-> IF e = c \/ e \in Gone(c, d) THEN NoRow ELSE resv[e]]
  BY <1>2 DEF Charge
<1>8. charge' = charge \/ charge' = [charge EXCEPT ![c] = [day |-> d, tokens |-> call[c].tokens]]
  BY <1>2 DEF Charge
<1>9. TypeOK'
  <2>1. usage' \in [Days -> [spent: Nat, reserved: Nat]]
    <3>1. PICK p \in [Days -> [spent: Nat, reserved: Nat]] : p = [usage EXCEPT ![d].reserved = n]
      BY <1>3, <1>5 DEF Shape, TypeOK
    <3>2. usage' = [p EXCEPT ![d].spent = @ + s]
      BY <1>6, <3>1
    <3>3. PICK m \in Nat : m = p[d].spent + s
      BY <1>3, <1>5
    <3>4. usage' = [p EXCEPT ![d].spent = m]
      BY <1>3, <3>2, <3>3
    <3> QED
      BY <1>3, <3>4
  <2>2. resv' \in [Calls -> [day: Days \cup {0}, amount: Nat, ttl: 0..TTL]]
    BY <1>7, BudgetAssumption DEF Shape, TypeOK, NoRow
  <2>3. charge' \in [Calls -> [day: Days \cup {0}, tokens: Nat]]
    BY <1>3, <1>8 DEF Shape, TypeOK
  <2> QED
    BY <1>1, <2>1, <2>2, <2>3, EndsAtTypes DEF Shape, TypeOK
<1>10. \A e \in Gone(c, d) \ {c} : e \in Calls /\ ~ call[e].found
  BY <1>1, <1>2 DEF RowsHeldAgainst, HoldsRow, Shape, Settlements, Gone, TypeOK, Call
<1>11. ticks < TTL => Gone(c, d) = {}
  BY DEF Shape, Young, Gone
<1>12. \A e \in Calls \ {c} :
         /\ charge'[e] = charge[e]
         /\ resv'[e] = resv[e] \/ (resv'[e] = NoRow /\ ~ call[e].found /\ ~ (ticks < TTL))
  BY <1>7, <1>8, <1>10, <1>11 DEF Shape, TypeOK
<1>13. resv'[c] = NoRow
  BY <1>7
<1> QED
  BY <1>1, <1>9, <1>12, <1>13, Written

LEMMA Ticks ==
  ASSUME Shape, Tick
  PROVE  /\ Shape'
         /\ \A c \in Calls : /\ resv'[c].amount = resv[c].amount /\ resv'[c].day = resv[c].day
                             /\ resv'[c] # NoRow <=> resv[c] # NoRow
<1>1. UNCHANGED <<today, usage, charge, lock, call>> /\ ticks' = ticks + 1 /\ ticks < MaxTicks
  BY DEF Tick
<1>2. ticks \in Nat /\ TTL \in Nat \ {0} /\ MaxTicks \in Nat
  BY BudgetAssumption DEF Shape, TypeOK
<1>3. ASSUME NEW c \in Calls
      PROVE  /\ resv'[c] \in [day: Days \cup {0}, amount: Nat, ttl: 0..TTL]
             /\ resv'[c].amount = resv[c].amount /\ resv'[c].day = resv[c].day
             /\ resv[c].ttl \in 0..TTL
             /\ resv'[c].ttl = IF resv[c].ttl > 0 THEN resv[c].ttl - 1 ELSE 0
  <2>1. resv[c] \in [day: Days \cup {0}, amount: Nat, ttl: 0..TTL]
    BY DEF Shape, TypeOK
  <2>2. resv'[c] = [resv[c] EXCEPT !.ttl = IF @ > 0 THEN @ - 1 ELSE 0]
    BY DEF Tick
  <2> QED
    BY <1>2, <2>1, <2>2
<1>4. ASSUME NEW c \in Calls, resv[c] = NoRow
      PROVE  resv'[c] = NoRow
  <2>1. resv'[c] = [NoRow EXCEPT !.ttl = IF @ > 0 THEN @ - 1 ELSE 0]
    BY <1>4 DEF Tick
  <2>2. NoRow = [NoRow EXCEPT !.ttl = IF @ > 0 THEN @ - 1 ELSE 0]
    BY DEF NoRow
  <2> QED
    BY <2>1, <2>2
<1>5. ASSUME NEW c \in Calls, resv[c] # NoRow
      PROVE  resv'[c] # NoRow
  <2>1. resv'[c].amount = Est[c] /\ Est[c] \in Nat \ {0}
    BY <1>3, <1>5, BudgetAssumption DEF Shape, Rows
  <2> QED
    BY <2>1 DEF NoRow
<1>6. TypeOK'
  <2>1. resv' \in [Calls -> [day: Days \cup {0}, amount: Nat, ttl: 0..TTL]]
    BY <1>3 DEF Tick
  <2>2. ticks' \in 0..MaxTicks
    BY <1>1, <1>2
  <2> QED
    BY <1>1, <2>1, <2>2 DEF Shape, TypeOK
<1>7. Rows'
  <2>1. ASSUME NEW c \in Calls, resv'[c] # NoRow
        PROVE  resv'[c].amount = Est[c] /\ resv'[c].day \in 1..today /\ resv'[c].ttl + ticks' >= TTL
    <3>1. resv[c] # NoRow
      BY <1>4, <2>1
    <3>2. resv[c].amount = Est[c] /\ resv[c].day \in 1..today /\ resv[c].ttl + ticks >= TTL
      BY <3>1 DEF Shape, Rows
    <3>3. PICK n \in 0..TTL : n = resv[c].ttl
      BY <1>3
    <3>4. resv'[c].ttl = IF n > 0 THEN n - 1 ELSE 0
      BY <1>3, <3>3
    <3> QED
      BY <1>1, <1>2, <1>3, <3>2, <3>3, <3>4
  <2> QED
    BY <1>1, <1>4, <2>1 DEF Shape, Rows
<1>8. Settlements'
  BY <1>1, <1>4, <1>5 DEF Shape, Settlements
<1>9. Expiries'
  <2>1. ASSUME NEW o \in Calls, call[o].pc = "deciding", NEW e \in Gone(o, call[o].day)'
        PROVE  ~ call[e].found
    <3>1. e \in Calls /\ e \in call[o].expired /\ resv'[e] # NoRow /\ resv'[e].day = call[o].day
      BY <1>1, <2>1 DEF Shape, TypeOK, Call, Gone
    <3>2. e \in Gone(o, call[o].day)
      BY <1>3, <1>4, <3>1 DEF Gone
    <3> QED
      BY <2>1, <3>2 DEF Shape, Expiries
  <2> QED
    BY <1>1, <2>1 DEF Shape, Expiries
<1>10. Locks'
  <2>1. ASSUME NEW o \in Calls
        PROVE  LockDay(o)' = LockDay(o)
    BY <1>1, <1>3 DEF LockDay
  <2> QED
    BY <1>1, <2>1 DEF Shape, Locks
<1>11. Young'
  <2>1. ticks + 1 < TTL => ticks < TTL
    BY <1>2
  <2> QED
    BY <1>1, <1>5, <2>1 DEF Shape, Young
<1> QED
  BY <1>3, <1>4, <1>5, <1>6, <1>7, <1>8, <1>9, <1>10, <1>11 DEF Shape

LEMMA Midnights ==
  ASSUME Shape, Midnight
  PROVE  Shape'
<1>1. UNCHANGED <<ticks, usage, resv, charge, lock, call>> /\ today' = today + 1 /\ today < LastDay
  BY DEF Midnight
<1>2. today \in Nat /\ LastDay \in Nat /\ today >= 1
  BY DaysSoFar DEF Shape, TypeOK, Days
<1>3. 1..today \subseteq 1..today' /\ today' \in Days
  BY <1>1, <1>2 DEF Days
<1>4. TypeOK'
  BY <1>1, <1>3 DEF Shape, TypeOK
<1>5. Rows' /\ Settlements'
  BY <1>1, <1>3 DEF Shape, Rows, Settlements
<1>6. Expiries'
  BY <1>1 DEF Shape, Expiries, Gone
<1>7. Locks' /\ Young'
  BY <1>1 DEF Shape, Locks, LockDay, Young
<1> QED
  BY <1>4, <1>5, <1>6, <1>7 DEF Shape

LEMMA ShapeInit == Init => Shape
<1> SUFFICES ASSUME Init
             PROVE  Shape
  OBVIOUS
<1>1. today \in Days /\ ticks \in 0..MaxTicks
  BY BudgetAssumption DEF Init, Days
<1>2. NoRow \in [day: Days \cup {0}, amount: Nat, ttl: 0..TTL] /\ NoCharge \in [day: Days \cup {0}, tokens: Nat]
  BY BudgetAssumption DEF NoRow, NoCharge
<1>3. TypeOK
  BY <1>1, <1>2, NewCallIsACall DEF Init, TypeOK
<1>4. \A c \in Calls : call[c].pc = "new" /\ ~ call[c].found /\ call[c].expired = {} /\ resv[c] = NoRow /\ charge[c] = NoCharge
  BY DEF Init, NewCall
<1>5. Rows /\ Settlements /\ Expiries /\ Locks /\ Young
  BY <1>4 DEF Rows, Settlements, Expiries, Locks, Young, Reserving, Settling, Ended, Locked
<1> QED
  BY <1>3, <1>5 DEF Shape

LEMMA ShapeStep == Shape /\ [Next]_vars => Shape'
<1> SUFFICES ASSUME Shape, [Next]_vars
             PROVE  Shape'
  OBVIOUS
<1>1. CASE UNCHANGED vars
  BY <1>1 DEF vars, Shape, TypeOK, Rows, Settlements, Expiries, Locks, Young, Gone, LockDay
<1>2. CASE Tick
  BY <1>2, Ticks
<1>3. CASE Midnight
  BY <1>3, Midnights
<1>4. ASSUME NEW c \in Calls, Step(c)
      PROVE  Shape'
  <2>1. CASE DbFailure(c) \/ AbortDeadlock(c) \/ Crash(c) \/ Deny(c)
    <3>1. Deny(c) \/ RollBack(c) \/ Crash(c)
      BY <2>1 DEF DbFailure, AbortDeadlock
    <3> QED
      BY <3>1, DenyEnds
  <2> QED
    BY <1>4, <2>1, StartsReserve, TakesLock, ReadsUsage, Admits, Dispatches, StartsSettle,
       FindsReservation, Charges DEF Step
<1> QED
  BY <1>1, <1>2, <1>3, <1>4 DEF Next

-----------------------------------------------------------------------------
(* Reserved tokens *)

\* Amounts that stay as they are add up to what they did.
LEMMA AmountKept ==
  ASSUME TypeOK, NEW S \in SUBSET Calls, \A c \in S : resv'[c].amount = resv[c].amount
  PROVE  Total([c \in Calls |-> resv'[c].amount], S) = Amount(S)
<1> DEFINE f == [c \in Calls |-> resv[c].amount]
           g == [c \in Calls |-> resv'[c].amount]
<1>1. Summable(f, S)
  BY Amounts
<1>2. \A c \in S : g[c] = f[c]
  OBVIOUS
<1> HIDE DEF f, g
<1>3. Total(g, S) = Total(f, S)
  BY <1>1, <1>2, TotalSame
<1> QED
  BY <1>3 DEF Amount, f, g

\* What happens to the rows of one day is nothing to another.
LEMMA OtherDayKept ==
  ASSUME TypeOK, NEW d \in Days, NEW x \in Days \ {d},
         \A e \in Calls : \/ resv'[e] = resv[e]
                          \/ /\ resv[e] = NoRow \/ resv[e].day = d
                             /\ resv'[e] = NoRow \/ resv'[e].day = d
  PROVE  Amount(RowsOf(x))' = Amount(RowsOf(x))
<1>1. RowsOf(x)' = RowsOf(x)
  BY DEF RowsOf
<1>2. \A e \in RowsOf(x) : resv'[e].amount = resv[e].amount
  BY DEF RowsOf
<1>3. PICK S \in SUBSET Calls : S = RowsOf(x)
  BY DEF RowsOf
<1>4. Total([c \in Calls |-> resv'[c].amount], S) = Amount(S)
  BY <1>2, <1>3, AmountKept
<1>5. Amount(RowsOf(x))' = Total([c \in Calls |-> resv'[c].amount], RowsOf(x)')
  BY DEF Amount
<1> QED
  BY <1>1, <1>3, <1>4, <1>5

\* An admitted reserve: of its day the expired rows go and its own comes.
LEMMA AdmitSums ==
  ASSUME Shape, NEW c \in Calls, Admit(c)
  PROVE  \E d \in Days, n \in Nat, g \in Nat, u \in Nat :
           /\ d = call[c].day
           /\ n = Amount(RowsOf(d)) /\ u = usage[d].reserved /\ g <= n
           /\ g = Amount(Gone(c, d))
           /\ Amount(RowsOf(d))' = n - g + Est[c]
           /\ usage'[d].reserved = Minus(u, g) + Est[c]
           /\ usage'[d].spent = usage[d].spent
           /\ \A x \in Days \ {d} : usage'[x] = usage[x] /\ Amount(RowsOf(x))' = Amount(RowsOf(x))
<1>1. PICK d : d = call[c].day
  OBVIOUS
<1>2. call[c].pc = "deciding" /\ d \in Days /\ resv[c] = NoRow
  BY <1>1, DaysSoFar DEF Admit, Shape, Rows, Settlements, Reserving
<1>3. PICK R, G : R = RowsOf(d) /\ G = Gone(c, d)
  OBVIOUS
<1>4. R \in SUBSET Calls /\ G \in SUBSET R /\ c \notin R /\ c \notin G
  BY <1>2, <1>3, UnexpiredFacts DEF RowsOf, Gone, Shape
<1>5. Amount(R) = Amount(R \ G) + Amount(G) /\ Amount(R \ G) \in Nat /\ Amount(G) \in Nat
  BY <1>4, AmountOfPart DEF Shape
<1>6. PICK n \in Nat, g \in Nat : n = Amount(R) /\ g = Amount(G) /\ g <= n /\ Amount(R \ G) = n - g
  <2>1. PICK k \in Nat, g \in Nat : k = Amount(R \ G) /\ g = Amount(G)
    BY <1>5
  <2>2. k + g \in Nat /\ g <= k + g /\ k = (k + g) - g
    OBVIOUS
  <2> QED
    BY <1>5, <2>1, <2>2
<1>7. PICK u \in Nat : u = usage[d].reserved
  BY <1>2 DEF Shape, TypeOK
<1>8. resv' = [e \in Calls |->
        IF e = c THEN [day |-> d, amount |-> Est[c], ttl |-> TTL]
        ELSE IF e \in G THEN NoRow ELSE resv[e]]
  BY <1>1, <1>3 DEF Admit, ReserveWrites
<1>9. usage' = [usage EXCEPT ![d].reserved = Minus(u, g) + Est[c]]
  BY <1>1, <1>3, <1>6, <1>7 DEF Admit, ReserveWrites, Unexpired
<1>10. resv'[c].amount = Est[c] /\ resv'[c].day = d /\ resv'[c] # NoRow
  <2>1. resv'[c] = [day |-> d, amount |-> Est[c], ttl |-> TTL]
    BY <1>8
  <2>2. Est[c] # 0
    BY BudgetAssumption
  <2> QED
    BY <2>1, <2>2 DEF NoRow
<1>11. RowsOf(d)' = (R \ G) \cup {c}
  BY <1>3, <1>8, <1>10 DEF RowsOf
<1>12. Total([e \in Calls |-> resv'[e].amount], (R \ G) \cup {c}) = n - g + Est[c]
  <2> DEFINE f == [e \in Calls |-> resv'[e].amount]
             S == (R \ G) \cup {c}
  <2>1. Shape'
    BY Admits
  <2>2. Summable(f, S)
    BY <1>4, <2>1, Amounts, BudgetAssumption, FS_Subset DEF Shape, TypeOK, Summable
  <2>3. f[c] = Est[c] /\ S \ {c} = R \ G /\ c \in S
    BY <1>4, <1>10
  <2>4. Total(f, R \ G) = n - g
    BY <1>4, <1>6, <1>8, AmountKept DEF Shape
  <2> HIDE DEF f, S
  <2>5. Total(f, S) = Total(f, S \ {c}) + f[c]
    BY <2>2, <2>3, TotalWithout
  <2> QED
    BY <2>3, <2>4, <2>5 DEF f, S
<1>13. Amount(RowsOf(d))' = n - g + Est[c]
  BY <1>11, <1>12 DEF Amount
<1>14. ASSUME NEW x \in Days \ {d}
       PROVE  usage'[x] = usage[x] /\ Amount(RowsOf(x))' = Amount(RowsOf(x))
  <2>1. \A e \in Calls : \/ resv'[e] = resv[e]
                         \/ /\ resv[e] = NoRow \/ resv[e].day = d
                            /\ resv'[e] = NoRow \/ resv'[e].day = d
    BY <1>2, <1>3, <1>4, <1>8, <1>10 DEF RowsOf
  <2>2. Amount(RowsOf(x))' = Amount(RowsOf(x))
    BY <1>2, <2>1, OtherDayKept DEF Shape
  <2> QED
    BY <1>9, <2>2 DEF Shape, TypeOK
<1>15. usage'[d].reserved = Minus(u, g) + Est[c] /\ usage'[d].spent = usage[d].spent
  BY <1>2, <1>9 DEF Shape, TypeOK
<1> QED
  BY <1>1, <1>2, <1>3, <1>6, <1>7, <1>13, <1>14, <1>15

\* A settlement: the expired rows go, and the one it found.
LEMMA ChargeSums ==
  ASSUME Shape, NEW c \in Calls, Charge(c)
  PROVE  \E d \in Days, n \in Nat, g \in Nat, u \in Nat, a \in Nat :
           /\ d = LockDay(c)
           /\ n = Amount(RowsOf(d)) /\ u = usage[d].reserved /\ g <= n
           /\ g = Amount(Gone(c, d))
           /\ a = IF call[c].found THEN Est[c] ELSE 0
           /\ \/ Amount(RowsOf(d))' = n - g /\ (a = 0 \/ c \in Gone(c, d))
              \/ Amount(RowsOf(d))' = n - g - a /\ a <= n - g
           /\ usage'[d].reserved = Minus(Minus(u, g), a)
           /\ usage'[d].spent = usage[d].spent + Spent(c)
           /\ \A x \in Days \ {d} : usage'[x] = usage[x] /\ Amount(RowsOf(x))' = Amount(RowsOf(x))
<1>1. PICK d \in Days : d = LockDay(c)
  BY SettlesFacts DEF Charge
<1>2. /\ d \in Days
      /\ call[c].found => c \in RowsOf(d) /\ resv[c].amount = Est[c]
      /\ ~ call[c].found => resv[c] = NoRow
  BY <1>1, SettlesFacts DEF Charge
<1>3. PICK R, G : R = RowsOf(d) /\ G = Gone(c, d)
  OBVIOUS
<1>4. R \in SUBSET Calls /\ G \in SUBSET R
  BY <1>2, <1>3, UnexpiredFacts DEF RowsOf, Shape
<1>5. Amount(R) = Amount(R \ G) + Amount(G) /\ Amount(R \ G) \in Nat /\ Amount(G) \in Nat
  BY <1>4, AmountOfPart DEF Shape
<1>6. PICK n \in Nat, g \in Nat : n = Amount(R) /\ g = Amount(G) /\ g <= n /\ Amount(R \ G) = n - g
  <2>1. PICK k \in Nat, g \in Nat : k = Amount(R \ G) /\ g = Amount(G)
    BY <1>5
  <2>2. k + g \in Nat /\ g <= k + g /\ k = (k + g) - g
    OBVIOUS
  <2> QED
    BY <1>5, <2>1, <2>2
<1>7. PICK u \in Nat : u = usage[d].reserved
  BY <1>2 DEF Shape, TypeOK
<1>8. PICK a \in Nat : a = IF call[c].found THEN Est[c] ELSE 0
  BY BudgetAssumption
<1>9. resv' = [e \in Calls |-> IF e = c \/ e \in G THEN NoRow ELSE resv[e]]
  BY <1>1, <1>3 DEF Charge
<1>10. PICK s : s = Spent(c)
  OBVIOUS
<1>11. usage' = [usage EXCEPT ![d].reserved = Minus(Minus(u, g), a), ![d].spent = @ + s]
  <2>1. a = IF call[c].found THEN resv[c].amount ELSE 0
    BY <1>2, <1>8
  <2>2. Freed(c, d) = Minus(Minus(u, g), a)
    BY <1>3, <1>6, <1>7, <2>1 DEF Freed, Unexpired
  <2> QED
    BY <1>1, <1>10, <2>2 DEF Charge
<1>12. RowsOf(d)' = (R \ G) \ {c}
  BY <1>3, <1>4, <1>9 DEF RowsOf
<1>13. Amount(RowsOf(d))' = Amount((R \ G) \ {c})
  <2> DEFINE S == (R \ G) \ {c}
  <2>1. S \in SUBSET Calls /\ \A e \in S : resv'[e].amount = resv[e].amount
    BY <1>4, <1>9
  <2> HIDE DEF S
  <2>2. Total([e \in Calls |-> resv'[e].amount], S) = Amount(S)
    BY <2>1, AmountKept DEF Shape
  <2> QED
    BY <1>12, <2>2 DEF Amount, S
<1>14. \/ Amount(RowsOf(d))' = n - g /\ (a = 0 \/ c \in G)
       \/ Amount(RowsOf(d))' = n - g - a /\ a <= n - g
  <2>1. CASE call[c].found /\ c \notin G
    <3>1. c \in R \ G /\ R \ G \in SUBSET Calls /\ resv[c].amount = a
      BY <1>2, <1>3, <1>4, <1>8, <2>1
    <3>2. Amount(R \ G) = Amount((R \ G) \ {c}) + a /\ Amount((R \ G) \ {c}) \in Nat
      BY <3>1, AmountOfOne DEF Shape
    <3>3. PICK k \in Nat : k = Amount((R \ G) \ {c})
      BY <3>2
    <3>4. k = n - g - a /\ a <= n - g
      BY <1>6, <3>2, <3>3
    <3> QED
      BY <1>13, <3>3, <3>4
  <2>2. CASE ~ (call[c].found /\ c \notin G)
    <3>1. a = 0 \/ c \in G
      BY <1>8, <2>2
    <3>2. c \notin R \ G
      BY <1>2, <1>3, <2>2 DEF RowsOf
    <3>3. (R \ G) \ {c} = R \ G
      BY <3>2
    <3> QED
      BY <1>6, <1>13, <3>1, <3>3
  <2> QED
    BY <2>1, <2>2
<1>15. ASSUME NEW x \in Days \ {d}
       PROVE  usage'[x] = usage[x] /\ Amount(RowsOf(x))' = Amount(RowsOf(x))
  <2>1. \A e \in Calls : \/ resv'[e] = resv[e]
                         \/ /\ resv[e] = NoRow \/ resv[e].day = d
                            /\ resv'[e] = NoRow \/ resv'[e].day = d
    BY <1>2, <1>3, <1>4, <1>9 DEF RowsOf, Shape, Settlements
  <2>2. Amount(RowsOf(x))' = Amount(RowsOf(x))
    BY <1>2, <2>1, OtherDayKept DEF Shape
  <2>3. usage'[x] = usage[x]
    BY <1>11 DEF Shape, TypeOK
  <2> QED
    BY <2>2, <2>3
<1>16. usage'[d].reserved = Minus(Minus(u, g), a) /\ usage'[d].spent = usage[d].spent + s
  BY <1>2, <1>11 DEF Shape, TypeOK
<1>17. /\ n = Amount(RowsOf(d)) /\ g = Amount(Gone(c, d)) /\ usage'[d].spent = usage[d].spent + Spent(c)
       /\ \/ Amount(RowsOf(d))' = n - g /\ (a = 0 \/ c \in Gone(c, d))
          \/ Amount(RowsOf(d))' = n - g - a /\ a <= n - g
  BY <1>3, <1>6, <1>10, <1>14, <1>16
<1> WITNESS d \in Days, n \in Nat, g \in Nat, u \in Nat, a \in Nat
<1> QED
  BY <1>1, <1>6, <1>7, <1>8, <1>15, <1>16, <1>17

\* Every other step leaves the tables alone.
LEMMA TablesKept ==
  ASSUME [Next]_vars, ~ Tick, \A c \in Calls : ~ Admit(c) /\ ~ Charge(c)
  PROVE  UNCHANGED <<usage, resv, charge, ticks>>
BY DEF Next, vars, Step, StartReserve, TakeLock, ReadUsage, Deny, Dispatch, StartSettle, FindReservation,
       DbFailure, AbortDeadlock, RollBack, Crash, Midnight

LEMMA AmountsOfADay ==
  ASSUME TypeOK, NEW d \in Days
  PROVE  usage[d].reserved \in Nat /\ Amount(RowsOf(d)) \in Nat
BY AmountIsNat DEF TypeOK, RowsOf

LEMMA TickSums ==
  ASSUME Shape, Tick, NEW d \in Days
  PROVE  usage'[d] = usage[d] /\ Amount(RowsOf(d))' = Amount(RowsOf(d))
<1>1. /\ usage' = usage
      /\ \A c \in Calls : /\ resv'[c].amount = resv[c].amount /\ resv'[c].day = resv[c].day
                          /\ resv'[c] # NoRow <=> resv[c] # NoRow
  BY Ticks DEF Tick
<1>2. RowsOf(d)' = RowsOf(d)
  BY <1>1 DEF RowsOf
<1>3. PICK S \in SUBSET Calls : S = RowsOf(d)
  BY DEF RowsOf
<1>4. Total([c \in Calls |-> resv'[c].amount], S) = Amount(S)
  BY <1>1, AmountKept DEF Shape
<1>5. Amount(RowsOf(d))' = Total([c \in Calls |-> resv'[c].amount], RowsOf(d)')
  BY DEF Amount
<1> QED
  BY <1>1, <1>2, <1>3, <1>4, <1>5

LEMMA KeptSums ==
  ASSUME UNCHANGED <<usage, resv>>, NEW d \in Days
  PROVE  usage'[d] = usage[d] /\ Amount(RowsOf(d))' = Amount(RowsOf(d))
BY DEF Amount, RowsOf

LEMMA LeaksStep ==
  ASSUME Shape, NoReservationLeaks, [Next]_vars
  PROVE  NoReservationLeaks'
<1>1. CASE \E c \in Calls : Admit(c)
  <2>1. PICK c \in Calls : Admit(c)
    BY <1>1
  <2>2. PICK d \in Days, n \in Nat, g \in Nat, u \in Nat :
           /\ n = Amount(RowsOf(d)) /\ u = usage[d].reserved /\ g <= n
           /\ Amount(RowsOf(d))' = n - g + Est[c]
           /\ usage'[d].reserved = Minus(u, g) + Est[c]
           /\ \A x \in Days \ {d} : usage'[x] = usage[x] /\ Amount(RowsOf(x))' = Amount(RowsOf(x))
    BY <2>1, AdmitSums
  <2>3. u <= n
    BY <2>2 DEF NoReservationLeaks
  <2>4. PICK e \in Nat : e = Est[c]
    BY BudgetAssumption
  <2>5. Minus(u, g) + e <= n - g + e
    BY <2>2, <2>3 DEF Minus
  <2>6. usage'[d].reserved <= Amount(RowsOf(d))'
    BY <2>2, <2>4, <2>5
  <2> QED
    BY <2>2, <2>6 DEF NoReservationLeaks
<1>2. CASE \E c \in Calls : Charge(c)
  <2>1. PICK c \in Calls : Charge(c)
    BY <1>2
  <2>2. PICK d \in Days, n \in Nat, g \in Nat, u \in Nat, a \in Nat :
           /\ n = Amount(RowsOf(d)) /\ u = usage[d].reserved /\ g <= n
           /\ \/ Amount(RowsOf(d))' = n - g
              \/ Amount(RowsOf(d))' = n - g - a /\ a <= n - g
           /\ usage'[d].reserved = Minus(Minus(u, g), a)
           /\ \A x \in Days \ {d} : usage'[x] = usage[x] /\ Amount(RowsOf(x))' = Amount(RowsOf(x))
    BY <2>1, ChargeSums
  <2>3. u <= n
    BY <2>2 DEF NoReservationLeaks
  <2>4. PICK k \in Nat : k = Minus(u, g) /\ k <= n - g
    BY <2>2, <2>3 DEF Minus
  <2>5. Minus(k, a) <= n - g /\ (a <= n - g => Minus(k, a) <= n - g - a)
    BY <2>2, <2>4 DEF Minus
  <2>6. usage'[d].reserved <= Amount(RowsOf(d))'
    BY <2>2, <2>4, <2>5
  <2> QED
    BY <2>2, <2>6 DEF NoReservationLeaks
<1>3. CASE Tick
  BY <1>3, TickSums DEF NoReservationLeaks
<1>4. CASE ~ Tick /\ \A c \in Calls : ~ Admit(c) /\ ~ Charge(c)
  BY <1>4, TablesKept, KeptSums DEF NoReservationLeaks
<1> QED
  BY <1>1, <1>2, <1>3, <1>4

LEMMA ExactStep ==
  ASSUME Shape, ExactUntilExpiry, [Next]_vars
  PROVE  ExactUntilExpiry'
<1> SUFFICES ASSUME ticks' < TTL
             PROVE  ReservedIsExact'
  BY DEF ExactUntilExpiry
<1>1. ticks < TTL
  <2>1. ticks' = ticks \/ ticks' = ticks + 1
    BY TablesKept DEF Tick, Admit, Charge
  <2> QED
    BY <2>1, BudgetAssumption DEF Shape, TypeOK
<1>2. ReservedIsExact
  BY <1>1 DEF ExactUntilExpiry
<1>3. \A c \in Calls : \A d \in Days : Gone(c, d) = {}
  BY <1>1 DEF Shape, Young, Gone
<1>4. CASE \E c \in Calls : Admit(c)
  <2>1. PICK c \in Calls : Admit(c)
    BY <1>4
  <2>2. PICK d \in Days, n \in Nat, g \in Nat, u \in Nat :
           /\ n = Amount(RowsOf(d)) /\ u = usage[d].reserved /\ g = Amount(Gone(c, d))
           /\ Amount(RowsOf(d))' = n - g + Est[c]
           /\ usage'[d].reserved = Minus(u, g) + Est[c]
           /\ \A x \in Days \ {d} : usage'[x] = usage[x] /\ Amount(RowsOf(x))' = Amount(RowsOf(x))
    BY <2>1, AdmitSums
  <2>3. u = n /\ g = 0
    BY <1>2, <1>3, <2>2, AmountOfNone DEF ReservedIsExact
  <2>4. Minus(u, g) = n - g
    BY <2>3 DEF Minus
  <2> QED
    BY <1>2, <2>2, <2>4 DEF ReservedIsExact
<1>5. CASE \E c \in Calls : Charge(c)
  <2>1. PICK c \in Calls : Charge(c)
    BY <1>5
  <2>2. PICK d \in Days, n \in Nat, g \in Nat, u \in Nat, a \in Nat :
           /\ n = Amount(RowsOf(d)) /\ u = usage[d].reserved /\ g = Amount(Gone(c, d))
           /\ \/ Amount(RowsOf(d))' = n - g /\ (a = 0 \/ c \in Gone(c, d))
              \/ Amount(RowsOf(d))' = n - g - a /\ a <= n - g
           /\ usage'[d].reserved = Minus(Minus(u, g), a)
           /\ \A x \in Days \ {d} : usage'[x] = usage[x] /\ Amount(RowsOf(x))' = Amount(RowsOf(x))
    BY <2>1, ChargeSums
  <2>3. u = n /\ g = 0
    BY <1>2, <1>3, <2>2, AmountOfNone DEF ReservedIsExact
  <2>4. Minus(u, g) = n
    BY <2>3 DEF Minus
  <2>5. (a = 0 => Minus(n, a) = n) /\ (a <= n - g => Minus(n, a) = n - g - a)
    BY <2>3 DEF Minus
  <2>6. usage'[d].reserved = Amount(RowsOf(d))'
    <3>1. CASE Amount(RowsOf(d))' = n - g /\ a = 0
      BY <2>2, <2>3, <2>4, <2>5, <3>1
    <3>2. CASE Amount(RowsOf(d))' = n - g - a /\ a <= n - g
      BY <2>2, <2>4, <2>5, <3>2
    <3> QED
      BY <1>3, <2>2, <3>1, <3>2
  <2> QED
    BY <1>2, <2>2, <2>6 DEF ReservedIsExact
<1>6. CASE Tick
  BY <1>2, <1>6, TickSums DEF ReservedIsExact
<1>7. CASE ~ Tick /\ \A c \in Calls : ~ Admit(c) /\ ~ Charge(c)
  BY <1>2, <1>7, TablesKept, KeptSums DEF ReservedIsExact
<1> QED
  BY <1>4, <1>5, <1>6, <1>7

-----------------------------------------------------------------------------
(* Spent tokens *)

ChargedOn(d) == {c \in Calls : charge[c].day = d}

LEMMA SpentStep ==
  ASSUME Shape, SpentIsCharged, [Next]_vars
  PROVE  SpentIsCharged'
<1>1. CASE \E c \in Calls : Charge(c)
  <2>1. PICK c \in Calls : Charge(c)
    BY <1>1
  <2>2. PICK d \in Days : /\ d = LockDay(c) /\ usage'[d].spent = usage[d].spent + Spent(c)
                          /\ \A x \in Days \ {d} : usage'[x] = usage[x]
    BY <2>1, ChargeSums
  <2>3. charge[c].day = 0 /\ call[c].tokens \in Nat /\ call[c].commits \in BOOLEAN
    BY <2>1, SettlesFacts DEF Charge, NoCharge
  <2>4. CASE ~ call[c].commits
    <3>1. charge' = charge /\ Spent(c) = 0
      BY <2>1, <2>4 DEF Charge, Spent
    <3>2. \A x \in Days : usage'[x].spent = usage[x].spent
      BY <2>2, <3>1 DEF Shape, TypeOK
    <3> QED
      BY <3>1, <3>2 DEF SpentIsCharged
  <2>5. CASE call[c].commits
    <3>1. PICK t \in Nat : t = call[c].tokens
      BY <2>3
    <3>2. charge' = [charge EXCEPT ![c] = [day |-> d, tokens |-> t]] /\ Spent(c) = t
      BY <2>1, <2>2, <2>5, <3>1 DEF Charge, Spent
    <3> DEFINE f == [e \in Calls |-> charge[e].tokens]
               g == [e \in Calls |-> charge'[e].tokens]
    <3>3. g[c] = t /\ \A e \in Calls \ {c} : g[e] = f[e]
      BY <3>2 DEF Shape, TypeOK
    <3>4. \A x \in Days : ChargedOn(x) \in SUBSET (Calls \ {c})
      BY <2>3 DEF ChargedOn, Days
    <3>5. \A x \in Days : ChargedOn(x)' = IF x = d THEN ChargedOn(d) \cup {c} ELSE ChargedOn(x)
      BY <3>2, <3>4 DEF ChargedOn, Shape, TypeOK
    <3>6. \A x \in Days : Summable(f, ChargedOn(x))
      BY BudgetAssumption, FS_Subset DEF Shape, TypeOK, Summable, ChargedOn
    <3>7. \A e \in Calls : f[e] \in Nat
      BY DEF Shape, TypeOK
    <3> HIDE DEF f, g
    <3>8. \A x \in Days : Summable(g, ChargedOn(x)) /\ Total(g, ChargedOn(x)) = Total(f, ChargedOn(x))
      BY <3>3, <3>4, <3>6, TotalSame
    <3>9. Total(g, ChargedOn(d) \cup {c}) = Total(f, ChargedOn(d)) + t
      <4> DEFINE S == ChargedOn(d) \cup {c}
      <4>1. c \in S /\ S \ {c} = ChargedOn(d)
        BY <3>4
      <4>2. Summable(g, S)
        BY <3>3, <3>7, <3>8, FS_AddElement DEF Summable
      <4> HIDE DEF S
      <4>3. Total(g, S) = Total(g, S \ {c}) + g[c]
        BY <4>1, <4>2, TotalWithout
      <4> QED
        BY <3>3, <3>8, <4>1, <4>3 DEF S
    <3>10. \A x \in Days : usage[x].spent = Total(f, ChargedOn(x))
      BY DEF SpentIsCharged, ChargedOn, f
    <3>11. ASSUME NEW x \in Days
           PROVE  usage'[x].spent = Total(g, ChargedOn(x)')
      <4>1. CASE x = d
        BY <2>2, <3>2, <3>5, <3>9, <3>10, <4>1
      <4>2. CASE x # d
        BY <2>2, <3>5, <3>8, <3>10, <4>2
      <4> QED
        BY <4>1, <4>2
    <3> QED
      BY <3>11 DEF SpentIsCharged, ChargedOn, g
  <2> QED
    BY <2>3, <2>4, <2>5
<1>2. CASE \E c \in Calls : Admit(c)
  <2>1. PICK c \in Calls : Admit(c)
    BY <1>2
  <2>2. \A x \in Days : usage'[x].spent = usage[x].spent
    BY <2>1, AdmitSums
  <2>3. charge' = charge
    BY <2>1 DEF Admit
  <2> QED
    BY <2>2, <2>3 DEF SpentIsCharged
<1>3. CASE UNCHANGED <<usage, charge>>
  BY <1>3 DEF SpentIsCharged
<1>4. CASE \A c \in Calls : ~ Admit(c) /\ ~ Charge(c)
  <2>1. UNCHANGED <<usage, charge>>
    BY <1>4, TablesKept DEF Tick
  <2> QED
    BY <1>3, <2>1
<1> QED
  BY <1>1, <1>2, <1>4

-----------------------------------------------------------------------------
(* The quota *)

\* What a reserve in the middle of its decision has read is still so: the day's
\* lock keeps the others out.
SeenIsUsed ==
  today = 1 /\ ticks < TTL =>
    \A c \in Calls : call[c].pc = "deciding" => call[c].seen = Total(Used, Days)

LEMMA UsedWithout ==
  ASSUME NEW u \in [Days -> [spent: Nat, reserved: Nat]], NEW d \in Days
  PROVE  LET w == [x \in Days |-> u[x].spent + u[x].reserved]
         IN  /\ Total(w, Days) = Total(w, Days \ {d}) + u[d].spent + u[d].reserved
             /\ Total(w, Days \ {d}) \in Nat
<1> DEFINE w == [x \in Days |-> u[x].spent + u[x].reserved]
<1>1. Summable(w, Days)
  BY DaysFinite DEF Summable
<1>2. PICK s \in Nat, r \in Nat : s = u[d].spent /\ r = u[d].reserved
  OBVIOUS
<1>3. w[d] = s + r
  BY <1>2
<1> HIDE DEF w
<1>4. Total(w, Days) = Total(w, Days \ {d}) + w[d] /\ Total(w, Days \ {d}) \in Nat
  BY <1>1, TotalWithout
<1>5. PICK k \in Nat : k = Total(w, Days \ {d})
  BY <1>4
<1>6. k + (s + r) = k + s + r
  OBVIOUS
<1>7. Total(w, Days) = Total(w, Days \ {d}) + u[d].spent + u[d].reserved /\ Total(w, Days \ {d}) \in Nat
  BY <1>2, <1>3, <1>4, <1>5, <1>6
<1> QED
  BY <1>7 DEF w

\* The total moves by what its one day does.
LEMMA UsedMoves ==
  ASSUME TypeOK, TypeOK', NEW d \in Days, \A x \in Days \ {d} : usage'[x] = usage[x]
  PROVE  \E k \in Nat : /\ Total(Used, Days) = k + usage[d].spent + usage[d].reserved
                        /\ Total(Used, Days)' = k + usage'[d].spent + usage'[d].reserved
<1>1. PICK u, v : u = usage /\ v = usage'
  OBVIOUS
<1>2. u \in [Days -> [spent: Nat, reserved: Nat]] /\ v \in [Days -> [spent: Nat, reserved: Nat]]
  BY <1>1 DEF TypeOK
<1> DEFINE w == [x \in Days |-> u[x].spent + u[x].reserved]
           z == [x \in Days |-> v[x].spent + v[x].reserved]
<1>3. Used = w /\ Total(Used, Days)' = Total(z, Days)
  BY <1>1 DEF Used
<1>4. Total(w, Days) = Total(w, Days \ {d}) + u[d].spent + u[d].reserved /\ Total(w, Days \ {d}) \in Nat
  BY <1>2, UsedWithout
<1>5. Total(z, Days) = Total(z, Days \ {d}) + v[d].spent + v[d].reserved
  BY <1>2, UsedWithout
<1>6. \A x \in Days \ {d} : z[x] = w[x]
  BY <1>1
<1>7. Summable(w, Days \ {d})
  <2>1. Summable(w, Days)
    BY <1>2, DaysFinite DEF Summable
  <2> HIDE DEF w
  <2> QED
    BY <2>1, SummableBelow
<1> HIDE DEF w, z
<1>8. Total(z, Days \ {d}) = Total(w, Days \ {d})
  BY <1>6, <1>7, TotalSame
<1> QED
  BY <1>1, <1>3, <1>4, <1>5, <1>8

\* Back in time: the first day, and before a time to live has passed.
LEMMA EarlyBefore ==
  ASSUME Shape, [Next]_vars, today' = 1, ticks' < TTL
  PROVE  today = 1 /\ ticks < TTL
<1>1. ticks' = ticks \/ ticks' = ticks + 1
  BY TablesKept DEF Tick, Admit, Charge
<1>2. today' = today \/ today' = today + 1
  BY DEF Next, vars, Step, StartReserve, TakeLock, ReadUsage, Admit, Deny, Dispatch, StartSettle,
         FindReservation, Charge, DbFailure, AbortDeadlock, RollBack, Crash, Midnight, Tick
<1>3. today \in Nat /\ today >= 1 /\ ticks \in Nat /\ TTL \in Nat
  BY BudgetAssumption, DaysSoFar DEF Shape, TypeOK, Days
<1> QED
  BY <1>1, <1>2, <1>3

\* On the first day one generation at a time decides or charges.
LEMMA FirstDayIsExclusive ==
  ASSUME Shape, today = 1, NEW c \in Calls, NEW o \in Calls, call[c].pc \in Locked, call[o].pc \in Locked
  PROVE  o = c
<1>1. ASSUME NEW e \in Calls, call[e].pc \in Locked
      PROVE  LockDay(e) = 1
  <2>1. call[e].pc \in Reserving \cup Settling
    BY <1>1 DEF Locked, Reserving, Settling
  <2>2. call[e].day \in 1..1
    BY <2>1 DEF Shape, Settlements
  <2>3. call[e].found => resv[e].day \in 1..1
    BY DEF Shape, Rows, Settlements
  <2> QED
    BY <2>2, <2>3 DEF LockDay
<1> QED
  BY <1>1 DEF Shape, Locks

LEMMA SeenStep ==
  ASSUME Shape, SeenIsUsed, [Next]_vars
  PROVE  SeenIsUsed'
<1> SUFFICES ASSUME today' = 1, ticks' < TTL, NEW c \in Calls, call'[c].pc = "deciding"
             PROVE  call'[c].seen = Total(Used, Days)'
  BY DEF SeenIsUsed
<1>1. today = 1 /\ ticks < TTL
  BY EarlyBefore
<1>2. CASE call'[c] = call[c]
  <2>1. call[c].pc = "deciding" /\ call[c].seen = Total(Used, Days)
    BY <1>1, <1>2 DEF SeenIsUsed
  <2>2. ASSUME NEW o \in Calls, Admit(o) \/ Charge(o)
        PROVE  FALSE
    <3>1. call[o].pc \in Locked
      BY <2>2 DEF Admit, Charge, Locked
    <3>2. o = c
      BY <1>1, <2>1, <3>1, FirstDayIsExclusive DEF Locked
    <3>3. PICK pc \in Ended \cup {"reserved"} : EndsAt(c, pc)
      BY <2>2, <3>2 DEF Admit, Charge, Ended
    <3>4. call'[c].pc = pc
      BY <3>3 DEF EndsAt, Shape, TypeOK, NewCall
    <3> QED
      BY <3>4 DEF Ended
  <2>3. usage' = usage
    BY <2>2, TablesKept DEF Tick
  <2>4. Total(Used, Days)' = Total(Used, Days)
    BY <2>3 DEF Used
  <2> QED
    BY <1>2, <2>1, <2>4
<1>3. CASE call'[c] # call[c]
  <2>1. ReadUsage(c)
    <3>1. PICK o \in Calls : Step(o)
      BY <1>3 DEF Next, Tick, Midnight, vars
    <3>2. CASE StartReserve(o) \/ StartSettle(o)
      <4>1. PICK pc, commits, tokens : pc # "deciding" /\ Begin(o, pc, commits, tokens)
        BY <3>2 DEF StartReserve, StartSettle
      <4>2. call'[o].pc = pc
        BY <4>1 DEF Begin, NewCall, Shape, TypeOK
      <4>3. o # c => call'[c] = call[c]
        BY <4>1 DEF Begin, Shape, TypeOK
      <4> QED
        BY <1>3, <4>1, <4>2, <4>3
    <3>3. CASE TakeLock(o) \/ Dispatch(o)
      <4>1. PICK pc : Goto(o, pc) /\ pc # "deciding"
        BY <3>3 DEF TakeLock, Dispatch
      <4> QED
        BY <1>3, <4>1 DEF Goto, Shape, TypeOK, Call
    <3>4. CASE FindReservation(o)
      <4>1. \/ EndsAt(o, "done") \/ Goto(o, "holding")
            \/ call' = [call EXCEPT ![o].pc = "holding", ![o].found = TRUE]
        BY <3>4 DEF FindReservation
      <4> QED
        BY <1>3, <4>1 DEF EndsAt, Goto, NewCall, Shape, TypeOK, Call
    <3>5. CASE Admit(o) \/ Deny(o) \/ Charge(o) \/ DbFailure(o) \/ AbortDeadlock(o) \/ Crash(o)
      <4>1. PICK pc : EndsAt(o, pc) /\ pc # "deciding"
        BY <3>5 DEF Admit, Deny, Charge, DbFailure, AbortDeadlock, RollBack, Crash
      <4> QED
        BY <1>3, <4>1 DEF EndsAt, NewCall, Shape, TypeOK
    <3>6. CASE ReadUsage(o)
      BY <1>3, <3>6 DEF ReadUsage, Shape, TypeOK
    <3> QED
      BY <3>1, <3>2, <3>3, <3>4, <3>5, <3>6 DEF Step
  <2>2. PICK d \in Days : d = call[c].day
    BY <2>1, DaysSoFar DEF ReadUsage, Shape, Settlements, Reserving
  <2>3. Gone(c, d) = {}
    BY <1>1 DEF Shape, Young, Gone
  <2>4. Unexpired(c, d) = usage[d].reserved
    BY <2>3, AmountOfNone, UnexpiredFacts DEF Unexpired, Minus, Shape
  <2>5. PICK n : n = Total(Used, Days \ {d}) + usage[d].spent + Unexpired(c, d)
    OBVIOUS
  <2>6. call' = [call EXCEPT ![c].pc = "deciding", ![c].seen = n] /\ usage' = usage
    BY <2>1, <2>2, <2>5 DEF ReadUsage
  <2>7. call'[c].seen = n
    BY <2>6 DEF Shape, TypeOK, Call
  <2>8. n = Total(Used, Days)
    BY <2>4, <2>5, OtherDays DEF Shape
  <2>9. Total(Used, Days)' = Total(Used, Days)
    BY <2>6 DEF Used
  <2> QED
    BY <2>7, <2>8, <2>9
<1> QED
  BY <1>2, <1>3

LEMMA QuotaStep ==
  ASSUME Shape, ExactUntilExpiry, SeenIsUsed, QuotaKept, [Next]_vars
  PROVE  QuotaKept'
<1> SUFFICES ASSUME today' = 1, ticks' < TTL, \A c \in Calls : charge'[c].tokens <= Est[c]
             PROVE  Total(Used, Days)' <= Limit
  BY DEF QuotaKept
<1>1. today = 1 /\ ticks < TTL
  BY EarlyBefore
<1>2. Shape'
  BY ShapeStep
<1>3. \A c \in Calls : \A d \in Days : Gone(c, d) = {}
  BY <1>1 DEF Shape, Young, Gone
<1>4. CASE \E c \in Calls : Admit(c)
  <2>1. PICK c \in Calls : Admit(c)
    BY <1>4
  <2>2. PICK d \in Days, g \in Nat, u \in Nat :
           /\ u = usage[d].reserved /\ g = Amount(Gone(c, d))
           /\ usage'[d].reserved = Minus(u, g) + Est[c]
           /\ usage'[d].spent = usage[d].spent
           /\ \A x \in Days \ {d} : usage'[x] = usage[x]
    BY <2>1, AdmitSums
  <2>3. Minus(u, g) = u
    <3>1. g = 0
      BY <1>3, <2>2, AmountOfNone
    <3> QED
      BY <2>2, <3>1 DEF Minus
  <2>4. PICK k \in Nat : /\ Total(Used, Days) = k + usage[d].spent + usage[d].reserved
                         /\ Total(Used, Days)' = k + usage'[d].spent + usage'[d].reserved
    BY <1>2, <2>2, UsedMoves DEF Shape
  <2>5. call[c].seen = Total(Used, Days) /\ call[c].seen + Est[c] <= Limit
    BY <1>1, <2>1 DEF Admit, Fits, SeenIsUsed
  <2>6. PICK s \in Nat, e \in Nat : s = usage[d].spent /\ e = Est[c]
    BY BudgetAssumption DEF Shape, TypeOK
  <2>7. k + s + u + e <= Limit
    BY <2>2, <2>4, <2>5, <2>6
  <2>8. Total(Used, Days)' = k + s + (u + e)
    BY <2>2, <2>3, <2>4, <2>6
  <2>9. k + s + (u + e) = k + s + u + e
    OBVIOUS
  <2> QED
    BY <2>7, <2>8, <2>9
<1>5. CASE \E c \in Calls : Charge(c)
  <2>1. PICK c \in Calls : Charge(c)
    BY <1>5
  <2>2. PICK d \in Days, n \in Nat, g \in Nat, u \in Nat, a \in Nat :
           /\ n = Amount(RowsOf(d)) /\ u = usage[d].reserved
           /\ g = Amount(Gone(c, d))
           /\ a = IF call[c].found THEN Est[c] ELSE 0
           /\ \/ Amount(RowsOf(d))' = n - g /\ (a = 0 \/ c \in Gone(c, d))
              \/ Amount(RowsOf(d))' = n - g - a /\ a <= n - g
           /\ usage'[d].reserved = Minus(Minus(u, g), a)
           /\ usage'[d].spent = usage[d].spent + Spent(c)
           /\ \A x \in Days \ {d} : usage'[x] = usage[x]
    BY <2>1, ChargeSums
  <2>3. call[c].pc = "charging" /\ call[c].found
    <3>1. call[c].pc = "charging"
      BY <2>1 DEF Charge
    <3>2. resv[c] # NoRow
      BY <1>1, <3>1 DEF Shape, Young, Settling
    <3> QED
      BY <3>1, <3>2, SettlesFacts
  <2>4. u = n /\ g = 0
    BY <1>1, <1>3, <2>2, AmountOfNone DEF ExactUntilExpiry, ReservedIsExact
  <2>5. a = Est[c] /\ a # 0
    BY <2>2, <2>3, BudgetAssumption
  <2>6. a <= n
    BY <1>3, <2>2, <2>4, <2>5
  <2>7. Minus(Minus(u, g), a) = u - a
    BY <2>4, <2>6 DEF Minus
  <2>8. PICK t \in Nat : t = Spent(c) /\ t <= a
    <3>1. call[c].commits \in BOOLEAN /\ call[c].tokens \in Nat
      BY <2>3, SettlesFacts
    <3>2. CASE call[c].commits
      <4>1. charge'[c].tokens = call[c].tokens
        BY <2>1, <3>2 DEF Charge, Shape, TypeOK
      <4>2. charge'[c].tokens <= Est[c]
        OBVIOUS
      <4> QED
        BY <2>5, <3>1, <3>2, <4>1, <4>2 DEF Spent
    <3>3. CASE ~ call[c].commits
      BY <3>3 DEF Spent
    <3> QED
      BY <3>2, <3>3
  <2>9. PICK k \in Nat : /\ Total(Used, Days) = k + usage[d].spent + usage[d].reserved
                         /\ Total(Used, Days)' = k + usage'[d].spent + usage'[d].reserved
    BY <1>2, <2>2, UsedMoves DEF Shape
  <2>10. PICK s \in Nat : s = usage[d].spent
    BY DEF Shape, TypeOK
  <2>11. Total(Used, Days) <= Limit
    <3>1. ASSUME NEW o \in Calls
          PROVE  charge[o].tokens <= Est[o]
      <4>1. CASE o = c
        BY <2>3, <4>1, SettlesFacts, BudgetAssumption DEF NoCharge
      <4>2. CASE o # c
        BY <2>1, <4>2 DEF Charge, Shape, TypeOK
      <4> QED
        BY <4>1, <4>2
    <3> QED
      BY <1>1, <3>1 DEF QuotaKept
  <2>12. k + s + u <= Limit
    BY <2>2, <2>9, <2>10, <2>11
  <2>13. Total(Used, Days)' = k + (s + t) + (u - a)
    BY <2>2, <2>7, <2>8, <2>9, <2>10
  <2> QED
    BY <2>4, <2>6, <2>8, <2>12, <2>13, BudgetAssumption
<1>6. CASE \A c \in Calls : ~ Admit(c) /\ ~ Charge(c)
  <2>1. UNCHANGED <<usage, charge>>
    BY <1>6, TablesKept DEF Tick
  <2>2. Total(Used, Days)' = Total(Used, Days)
    BY <2>1 DEF Used
  <2> QED
    BY <1>1, <2>1, <2>2 DEF QuotaKept
<1> QED
  BY <1>4, <1>5, <1>6

-----------------------------------------------------------------------------
(* The theorems *)

IInv ==
  /\ Shape
  /\ NoReservationLeaks
  /\ ExactUntilExpiry
  /\ SpentIsCharged
  /\ SeenIsUsed
  /\ QuotaKept

LEMMA SumsInit == Init => NoReservationLeaks /\ ExactUntilExpiry /\ SpentIsCharged /\ SeenIsUsed /\ QuotaKept
<1> SUFFICES ASSUME Init
             PROVE  NoReservationLeaks /\ ExactUntilExpiry /\ SpentIsCharged /\ SeenIsUsed /\ QuotaKept
  OBVIOUS
<1>1. \A d \in Days : usage[d].spent = 0 /\ usage[d].reserved = 0
  BY DEF Init
<1>2. \A d \in Days : RowsOf(d) = {}
  BY DEF Init, RowsOf
<1>3. \A d \in Days : {c \in Calls : charge[c].day = d} = {}
  BY DEF Init, NoCharge, Days
<1>4. NoReservationLeaks /\ ExactUntilExpiry
  <2>1. \A d \in Days : usage[d].reserved = 0 /\ Amount(RowsOf(d)) = 0
    BY <1>1, <1>2, AmountOfNone
  <2>2. 0 <= 0
    OBVIOUS
  <2> QED
    BY <2>1, <2>2 DEF NoReservationLeaks, ExactUntilExpiry, ReservedIsExact
<1>5. SpentIsCharged
  BY <1>1, <1>3, TotalNone DEF SpentIsCharged
<1>6. SeenIsUsed
  BY DEF SeenIsUsed, Init, NewCall
<1>7. Total(Used, Days) = 0
  <2> DEFINE w == [d \in Days |-> 0]
  <2>1. Used = w
    BY <1>1 DEF Used
  <2>2. Summable(w, Days)
    BY DaysFinite DEF Summable
  <2>3. Units(w, Days) = {}
    BY DEF Units
  <2> HIDE DEF w
  <2>4. Total(w, Days) = 0
    BY <2>2, <2>3, TotalCounts, FS_EmptySet DEF Count
  <2> QED
    BY <2>1, <2>4
<1> QED
  BY <1>4, <1>5, <1>6, <1>7, BudgetAssumption DEF QuotaKept

\* The tables, the transactions and their locks fit one another, and the sums
\* of the daily rows with the rows they sum.
THEOREM BudgetInvariant == Spec => []IInv
<1>1. Init => IInv
  BY ShapeInit, SumsInit DEF IInv
<1>2. IInv /\ [Next]_vars => IInv'
  BY ShapeStep, LeaksStep, ExactStep, SpentStep, SeenStep, QuotaStep DEF IInv
<1> QED
  BY <1>1, <1>2, PTL DEF Spec

\* Every variable keeps its type: no sum becomes negative or leaves the integers.
THEOREM BudgetTyped == Spec => []TypeOK
<1>1. IInv => TypeOK
  BY DEF IInv, Shape
<1> QED
  BY <1>1, BudgetInvariant, PTL

\* NoReservationLeaks: whatever expires, crashes, rolls back or deadlocks, a day
\* never counts as reserved more than the reservation rows it has.
THEOREM BudgetLeaksNothing == Spec => []NoReservationLeaks
<1>1. IInv => NoReservationLeaks
  BY DEF IInv
<1> QED
  BY <1>1, BudgetInvariant, PTL

\* ExactUntilExpiry: before a reservation is old enough to expire, a day counts
\* exactly the rows it has.
THEOREM BudgetExact == Spec => []ExactUntilExpiry
<1>1. IInv => ExactUntilExpiry
  BY DEF IInv
<1> QED
  BY <1>1, BudgetInvariant, PTL

\* SpentIsCharged: what commit_token_budget adds to spent_tokens is what its
\* token_budget_charges row says, once, also when the reservation was gone.
THEOREM BudgetSpentIsCharged == Spec => []SpentIsCharged
<1>1. IInv => SpentIsCharged
  BY DEF IInv
<1> QED
  BY <1>1, BudgetInvariant, PTL

\* QuotaKept: on the first day, before anything expires and as long as reported
\* usage stays within the reservation, concurrent reserves keep the limit.
THEOREM BudgetQuotaKept == Spec => []QuotaKept
<1>1. IInv => QuotaKept
  BY DEF IInv
<1> QED
  BY <1>1, BudgetInvariant, PTL

=============================================================================
