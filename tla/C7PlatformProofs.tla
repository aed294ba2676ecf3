-------------------------- MODULE C7PlatformProofs --------------------------
(***************************************************************************)
(* Lemmas about C7Platform: what the loop over the resources of a PU       *)
(* stores, and what Init has filed at any moment.  The theorems about them *)
(* are in RequestPathProofs, where Init runs next to the loop thread.      *)
(***************************************************************************)
EXTENDS C7Platform, SequenceTheorems, FiniteSetTheorems, WellFoundedInduction, TLAPS

\* A set of numbers has a least one.
LEMMA Least ==
    ASSUME NEW T \in SUBSET Nat, T # {}
    PROVE  \E m \in T : \A n \in T : m <= n
  <1> DEFINE R == OpToRel(<, Nat)
  <1>1. IsWellFoundedOn(R, Nat)
    BY NatLessThanWellFounded
  <1>2. PICK x \in T : \A y \in T : ~(<<y, x>> \in R)
    <2> HIDE DEF R
    <2> QED
      BY <1>1, WFMin
  <1>3. \A y \in T : ~(y < x)
    BY <1>2 DEF OpToRel
  <1> QED
    BY <1>3

\* f is the function over b..(b + n) that starts with a and goes on by G.
Computes(f, S, a, b, n, G) ==
    /\ f \in [b..(b + n) -> S]
    /\ f[b] = a /\ \A j \in (b + 1)..(b + n) : f[j] = G[j][f[j - 1]]

\* There is such a function.
LEMMA Recursion ==
    ASSUME NEW S, NEW a \in S, NEW b \in Nat, NEW n \in Nat, NEW G \in [Nat -> [S -> S]]
    PROVE  \E f : Computes(f, S, a, b, n, G)
  <1> DEFINE Solves(f, m) == f[b] = a /\ \A j \in (b + 1)..(b + m) : f[j] = G[j][f[j - 1]]
             T == {m \in Nat : ~\E f \in [b..(b + m) -> S] : Solves(f, m)}
  <1>1. SUFFICES ASSUME T # {} PROVE FALSE
    <2>1. SUFFICES \E f \in [b..(b + n) -> S] : Solves(f, n)
      BY DEF Computes
    <2>2. T = {}
      BY <1>1
    <2>3. n \notin T
      BY <2>2
    <2> QED
      BY <2>3
  <1>2. PICK m \in T : \A k \in T : m <= k
    <2>1. T \in SUBSET Nat
      OBVIOUS
    <2> HIDE DEF T
    <2> QED
      BY <1>1, <2>1, Least
  <1>3. CASE m = 0
    <2> DEFINE f == [x \in b..(b + m) |-> a]
    <2>1. f \in [b..(b + m) -> S] /\ Solves(f, m)
      BY <1>3
    <2> QED
      BY <2>1
  <1>4. CASE m # 0
    <2>1. m - 1 \in Nat /\ ~(m <= m - 1)
      BY <1>4
    <2>2. m - 1 \notin T
      BY <1>2, <2>1
    <2>3. PICK g \in [b..(b + (m - 1)) -> S] : Solves(g, m - 1)
      BY <2>1, <2>2
    <2> DEFINE f == [x \in b..(b + m) |-> IF x = b + m THEN G[x][g[x - 1]] ELSE g[x]]
    <2>4. b + m \in Nat /\ (b + m) - 1 \in b..(b + (m - 1))
      BY <2>1
    <2>5. \A x \in b..(b + m) : x = b + m \/ x \in b..(b + (m - 1))
      BY <2>1
    <2>6. f \in [b..(b + m) -> S]
      BY <2>4, <2>5
    <2>7. f[b] = a
      BY <1>4, <2>1, <2>3
    <2>8. ASSUME NEW j \in (b + 1)..(b + m) PROVE f[j] = G[j][f[j - 1]]
      <3>1. j - 1 \in b..(b + m) /\ j - 1 # b + m /\ f[j - 1] = g[j - 1]
        BY <2>1
      <3>2. CASE j = b + m
        BY <2>1, <3>1, <3>2
      <3>3. CASE j # b + m
        BY <2>1, <2>3, <3>1, <3>3
      <3> QED
        BY <3>2, <3>3
    <2> QED
      BY <2>6, <2>7, <2>8
  <1> QED
    BY <1>3, <1>4

-----------------------------------------------------------------------------
(* What is stored of a PU.                                                 *)

\* The places of the resources in use, up to place m.
UsedTo(list, m) ==
    {j \in 1..Len(list) : j <= m /\ (list[j].usable \/ list[j].type # "ST")}

LEMMA UsedToFinite ==
    ASSUME NEW X, NEW list \in Seq(X), NEW m \in 0..Len(list)
    PROVE  /\ IsFiniteSet(UsedTo(list, m)) /\ Cardinality(UsedTo(list, m)) \in Nat
           /\ Cardinality(UsedTo(list, m)) <= Len(list)
           /\ \A j \in UsedTo(list, m) :
                 Cardinality(UsedTo(list, j)) \in 1..Cardinality(UsedTo(list, m))
  <1>1. /\ Len(list) \in Nat /\ IsFiniteSet(1..Len(list)) /\ Cardinality(1..Len(list)) = Len(list)
        /\ m \in Nat
    <2>1. Len(list) \in Int /\ Len(list) \in Nat /\ 1 \in Int /\ m \in Nat
      OBVIOUS
    <2>2. /\ IsFiniteSet(1..Len(list))
          /\ Cardinality(1..Len(list)) = IF 1 > Len(list) THEN 0 ELSE Len(list) - 1 + 1
      BY <2>1, FS_Interval
    <2> QED
      BY <2>1, <2>2
  <1>2. \A k : /\ UsedTo(list, k) \subseteq 1..Len(list)
               /\ IsFiniteSet(UsedTo(list, k)) /\ Cardinality(UsedTo(list, k)) \in Nat
               /\ Cardinality(UsedTo(list, k)) <= Len(list)
    <2> TAKE k
    <2>1. UsedTo(list, k) \subseteq 1..Len(list)
      BY DEF UsedTo
    <2> QED
      BY <1>1, <2>1, FS_Subset, FS_CardinalityType
  <1>3. ASSUME NEW j \in UsedTo(list, m)
        PROVE  Cardinality(UsedTo(list, j)) \in 1..Cardinality(UsedTo(list, m))
    <2>1. UsedTo(list, j) \subseteq UsedTo(list, m) /\ j \in UsedTo(list, j)
      BY <1>1 DEF UsedTo
    <2>2. Cardinality(UsedTo(list, j)) <= Cardinality(UsedTo(list, m))
      BY <1>2, <2>1, FS_Subset
    <2>3. Cardinality(UsedTo(list, j)) # 0
      BY <1>2, <2>1, FS_EmptySet
    <2> QED
      BY <1>2, <2>2, <2>3
  <1> QED
    BY <1>2, <1>3

\* One more resource.
LEMMA UsedToNext ==
    ASSUME NEW X, NEW list \in Seq(X), NEW m \in 1..Len(list)
    PROVE  IF Skipped(list[m])
           THEN UsedTo(list, m) = UsedTo(list, m - 1)
           ELSE /\ UsedTo(list, m) = UsedTo(list, m - 1) \cup {m}
                /\ Cardinality(UsedTo(list, m)) = Cardinality(UsedTo(list, m - 1)) + 1
  <1>1. m \in Nat /\ Len(list) \in Nat /\ m - 1 \in 0..Len(list)
    OBVIOUS
  <1>2. \A j \in 1..Len(list) : j <= m <=> j <= m - 1 \/ j = m
    BY <1>1
  <1>3. CASE Skipped(list[m])
    BY <1>1, <1>2, <1>3 DEF UsedTo, Skipped
  <1>4. CASE ~Skipped(list[m])
    <2>1. UsedTo(list, m) = UsedTo(list, m - 1) \cup {m} /\ m \notin UsedTo(list, m - 1)
      BY <1>1, <1>2, <1>4 DEF UsedTo, Skipped
    <2>2. IsFiniteSet(UsedTo(list, m - 1))
      BY <1>1, UsedToFinite
    <2> QED
      BY <1>4, <2>1, <2>2, FS_AddElement
  <1> QED
    BY <1>3, <1>4

\* The vector after m turns of the loop: the resources in use among the first
\* m, in their order.
Pushed(list, m, v) ==
    /\ Len(v) = Cardinality(UsedTo(list, m))
    /\ \A j \in UsedTo(list, m) : v[Cardinality(UsedTo(list, j))] = list[j]
    /\ \A k \in 1..Len(v) : \E j \in UsedTo(list, m) : Cardinality(UsedTo(list, j)) = k

LEMMA PushedNext ==
    ASSUME NEW X, NEW list \in Seq(X), NEW m \in 1..Len(list), NEW v \in Seq(X),
           Pushed(list, m - 1, v)
    PROVE  Pushed(list, m, IF Skipped(list[m]) THEN v ELSE Append(v, list[m]))
  <1>1. m \in Nat /\ Len(list) \in Nat /\ m - 1 \in 0..Len(list) /\ m \in 0..Len(list)
    OBVIOUS
  <1>2. CASE Skipped(list[m])
    BY <1>2, UsedToNext DEF Pushed
  <1>3. CASE ~Skipped(list[m])
    <2>1. /\ UsedTo(list, m) = UsedTo(list, m - 1) \cup {m}
          /\ Cardinality(UsedTo(list, m)) = Len(v) + 1
      BY <1>3, UsedToNext DEF Pushed
    <2>2. list[m] \in X
      OBVIOUS
    <2>3. /\ Append(v, list[m]) \in Seq(X) /\ Len(Append(v, list[m])) = Len(v) + 1
          /\ Append(v, list[m])[Len(v) + 1] = list[m] /\ Len(v) \in Nat
          /\ \A k \in 1..Len(v) : Append(v, list[m])[k] = v[k]
      BY <2>2
    <2>4. \A j \in UsedTo(list, m - 1) : Cardinality(UsedTo(list, j)) \in 1..Len(v)
      BY <1>1, UsedToFinite DEF Pushed
    <2>5. \A j \in UsedTo(list, m) :
              Append(v, list[m])[Cardinality(UsedTo(list, j))] = list[j]
      BY <2>1, <2>3, <2>4 DEF Pushed
    <2>6. \A k \in 1..(Len(v) + 1) : k = Len(v) + 1 \/ k \in 1..Len(v)
      BY <2>3
    <2>7. \A k \in 1..(Len(v) + 1) :
              \E j \in UsedTo(list, m) : Cardinality(UsedTo(list, j)) = k
      BY <2>1, <2>6 DEF Pushed
    <2> QED
      BY <1>3, <2>1, <2>3, <2>5, <2>7 DEF Pushed
  <1> QED
    BY <1>2, <1>3

\* What the loop of the code leaves in vtInfo, by its recursion.
LEMMA StoredPushes ==
    ASSUME NEW X, NEW list \in Seq(X)
    PROVE  Stored(list) \in Seq(X) /\ Pushed(list, Len(list), Stored(list))
  <1> DEFINE n    == Len(list)
             Turn(j, v) == IF Skipped(list[j]) THEN v ELSE Append(v, list[j])
             Solves(f) == f = [j \in 0..n |-> IF j = 0 THEN <<>>
                                             ELSE IF Skipped(list[j]) THEN f[j - 1]
                                                  ELSE Append(f[j - 1], list[j])]
             vtInfo == CHOOSE f : Solves(f)
  <1>1. list \in Seq(X) /\ n \in Nat
    OBVIOUS
  <1>2. Stored(list) = vtInfo[n]
    BY DEF Stored
  <1>3. \E f : Solves(f)
    <2> DEFINE G == [j \in Nat |-> [v \in Seq(X) |->
                        IF j \in 1..n THEN Turn(j, v) ELSE v]]
    <2>1. G \in [Nat -> [Seq(X) -> Seq(X)]]
      BY <1>1
    <2>2. \A j \in 1..n : \A v \in Seq(X) : G[j][v] = Turn(j, v)
      BY <1>1
    <2>3. PICK f : Computes(f, Seq(X), <<>>, 0, n, G)
      <3>1. <<>> \in Seq(X) /\ 0 \in Nat /\ n \in Nat
        BY <1>1
      <3> HIDE DEF G, n
      <3> QED
        BY <2>1, <3>1, Recursion
    <2>4. /\ f \in [0..n -> Seq(X)] /\ f[0] = <<>>
          /\ \A j \in 1..n : f[j] = G[j][f[j - 1]]
      <3> HIDE DEF G, n
      <3> QED
        BY <1>1, <2>3 DEF Computes
    <2>5. \A j \in 0..n : j # 0 => j \in 1..n /\ j - 1 \in 0..n /\ f[j] = Turn(j, f[j - 1])
      <3>1. \A j \in 0..n : j # 0 => j \in 1..n /\ j - 1 \in 0..n
        BY <1>1
      <3> HIDE DEF G, Turn, n
      <3> QED
        BY <2>2, <2>4, <3>1
    <2>6. Solves(f)
      <3> HIDE DEF n
      <3> QED
        BY <2>4, <2>5
    <2> QED
      BY <2>6
  <1>4. Solves(vtInfo)
    <2> HIDE DEF Solves
    <2> QED
      BY <1>3
  <1> HIDE DEF vtInfo
  <1>5. /\ vtInfo[0] = <<>>
        /\ \A j \in 1..n : vtInfo[j] = Turn(j, vtInfo[j - 1])
    <2>1. \A j \in 0..n : vtInfo[j] = IF j = 0 THEN <<>> ELSE Turn(j, vtInfo[j - 1])
      <3> HIDE DEF n
      <3> QED
        BY <1>4
    <2>2. 0 \in 0..n /\ \A j \in 1..n : j \in 0..n /\ j # 0
      BY <1>1
    <2> HIDE DEF n, Turn
    <2> QED
      BY <2>1, <2>2
  <1> DEFINE Good(m) == vtInfo[m] \in Seq(X) /\ Pushed(list, m, vtInfo[m])
             T == {m \in 0..n : ~Good(m)}
  <1>6. T = {}
    <2>1. SUFFICES ASSUME T # {} PROVE FALSE
      BY <2>1
    <2>2. PICK m \in T : \A k \in T : m <= k
      <3>1. T \in SUBSET Nat
        BY <1>1
      <3> HIDE DEF T
      <3> QED
        BY <2>1, <3>1, Least
    <2>3. m \in 0..n /\ ~Good(m) /\ m \in Nat
      BY <1>1, <2>2
    <2>4. CASE m = 0
      <3>1. UsedTo(list, 0) = {}
        BY <1>1 DEF UsedTo
      <3>2. Cardinality(UsedTo(list, 0)) = 0
        BY <3>1, FS_EmptySet
      <3>3. vtInfo[0] \in Seq(X) /\ Len(vtInfo[0]) = 0 /\ 1..Len(vtInfo[0]) = {}
        BY <1>5
      <3>4. Pushed(list, 0, vtInfo[0])
        <4> QED
          BY <3>1, <3>2, <3>3 DEF Pushed
      <3> QED
        BY <2>3, <2>4, <3>3, <3>4
    <2>5. CASE m # 0
      <3>1. m \in 1..n /\ m - 1 \in 0..n /\ ~(m <= m - 1)
        BY <1>1, <2>3, <2>5
      <3>2. Good(m - 1)
        BY <2>2, <3>1
      <3>3. list[m] \in X /\ vtInfo[m] = IF Skipped(list[m]) THEN vtInfo[m - 1]
                                          ELSE Append(vtInfo[m - 1], list[m])
        BY <1>1, <1>5, <3>1
      <3>4. vtInfo[m] \in Seq(X)
        <4> QED
          BY <3>2, <3>3
      <3>5. Pushed(list, m, vtInfo[m])
        <4> QED
          BY <1>1, <3>1, <3>2, <3>3, PushedNext
      <3> QED
        BY <2>3, <3>4, <3>5
    <2> QED
      BY <2>4, <2>5
  <1>7. Good(n)
    <2>1. n \in 0..n
      BY <1>1
    <2> HIDE DEF Good, n
    <2> QED
      BY <1>6, <2>1
  <1> QED
    BY <1>2, <1>7

\* The loop of Init over the resources of a PU (vtInfo.push_back, the continue
\* for a station that is offline) keeps exactly those in use of what it read,
\* in the platform's order and at most GET_CNT of them.
THEOREM StoredAreThoseInUse ==
    ASSUME NEW list, IsSequence(list), Len(list) <= GET_CNT
    PROVE  Stored(list) = InUse(list) /\ Len(Stored(list)) <= GET_CNT
  <1> DEFINE n    == Len(list)
             X    == {list[i] : i \in DOMAIN list}
             used == {j \in 1..n : list[j].usable \/ list[j].type # "ST"}
  <1>1. list \in Seq(X) /\ n \in Nat /\ n <= GET_CNT
    BY DEF IsSequence
  <1>2. Stored(list) \in Seq(X) /\ Pushed(list, n, Stored(list))
    <2> HIDE DEF X
    <2> QED
      BY <1>1, StoredPushes
  <1>3. used = UsedTo(list, n) /\ \A j \in used : UsedTo(list, j) = {i \in used : i <= j}
    <2>1. \A j \in 1..n : \A i \in 1..n : i <= j => i <= n
      BY <1>1
    <2> QED
      BY <1>1, <2>1 DEF UsedTo
  <1>4. Cardinality(used) \in Nat /\ Cardinality(used) <= n
    <2>1. n \in 0..n
      BY <1>1
    <2> HIDE DEF X, used
    <2> QED
      BY <1>1, <1>3, <2>1, UsedToFinite
  <1> DEFINE Place(k) == CHOOSE j \in used : Cardinality({i \in used : i <= j}) = k
  <1>5. InUse(list) = [k \in 1..Cardinality(used) |-> list[Place(k)]]
    BY DEF InUse
  <1>6. Len(Stored(list)) = Cardinality(used)
    BY <1>2, <1>3 DEF Pushed
  <1>7. ASSUME NEW k \in 1..Cardinality(used)
        PROVE  Stored(list)[k] = list[Place(k)]
    <2>1. \E j \in used : Cardinality({i \in used : i <= j}) = k
      <3> HIDE DEF used
      <3> QED
        BY <1>2, <1>3, <1>6, <1>7 DEF Pushed
    <2>2. Place(k) \in used /\ Cardinality({i \in used : i <= Place(k)}) = k
      <3> HIDE DEF used
      <3> QED
        BY <2>1
    <2> HIDE DEF used, Place
    <2> QED
      BY <1>2, <1>3, <2>2 DEF Pushed
  <1>8. Stored(list) = InUse(list)
    <2>1. DOMAIN Stored(list) = 1..Cardinality(used) /\ Stored(list) = [k \in DOMAIN Stored(list) |-> Stored(list)[k]]
      BY <1>2, <1>6
    <2> HIDE DEF used, Place
    <2> QED
      BY <1>5, <1>7, <2>1
  <1> HIDE DEF used, n
  <1>9. Len(Stored(list)) <= GET_CNT
    BY <1>1, <1>4, <1>6, PlatformAssumption
  <1> QED
    BY <1>8, <1>9

-----------------------------------------------------------------------------
(* What one PU adds.                                                       *)

LEMMA ForkFacts ==
    ASSUME NEW s, IsSequence(s)
    PROVE  IsSequence(Fork(s)) /\ Len(Fork(s)) <= GET_CNT
  <1> DEFINE X == {s[i] : i \in DOMAIN s}
  <1>1. s \in Seq(X)
    BY DEF IsSequence
  <1> HIDE DEF X
  <1>2. Fork(s) \in Seq(X) /\ Len(Fork(s)) <= GET_CNT
    BY <1>1, PlatformAssumption DEF Fork
  <1> QED
    BY <1>2 DEF IsSequence

LEMMA ReadingFacts ==
    ASSUME NEW list, IsSequence(list), NEW usable, NEW read \in Readings(list, usable)
    PROVE  IsSequence(read) /\ Len(read) = Len(list)
  <1>1. Len(list) \in Nat /\ DOMAIN list = 1..Len(list)
    BY DEF IsSequence
  <1>2. DOMAIN read = 1..Len(list) /\ read = [j \in 1..Len(list) |-> read[j]]
    BY <1>1 DEF Readings
  <1>3. read \in Seq({read[j] : j \in DOMAIN read})
    BY <1>1, <1>2
  <1> QED
    BY <1>1, <1>2, <1>3 DEF IsSequence

LEMMA EntryMade ==
    ASSUME NEW key, NEW pu, NEW usable, NEW right \in BOOLEAN, IsSequence(pu.res),
           MakeEntry(key, pu, usable, right)
    PROVE  /\ main' = "filing" /\ misread \subseteq misread'
           /\ filing'.key = key /\ Len(filing'.res) <= GET_CNT
           /\ pu.puid \notin misread' =>
                 right /\ filing' = [key |-> key, res |-> InUse(Fork(pu.res))]
  <1>1. PICK list \in Readings(Fork(pu.res), usable) :
            /\ main' = "filing"
            /\ filing' = [key |-> key, res |-> Stored(list)]
            /\ misread' = IF right /\ list = Fork(pu.res) THEN misread
                          ELSE misread \cup {pu.puid}
    BY DEF MakeEntry
  <1>2. IsSequence(list) /\ Len(list) <= GET_CNT
    BY ForkFacts, ReadingFacts
  <1>3. Stored(list) = InUse(list) /\ Len(Stored(list)) <= GET_CNT
    BY <1>2, StoredAreThoseInUse
  <1>4. pu.puid \notin misread' => right /\ list = Fork(pu.res)
    BY <1>1
  <1> QED
    BY <1>1, <1>3, <1>4

\* A turn of the loop over PUs: a PU of which every call succeeded is filed
\* under its id with its resources in use, unless it is left out.
TurnEffect(unit) ==
    /\ misread \subseteq misread'
    /\ szPUID' = unit.puid \/ szPUID' = szPUID
    /\ \/ main' \in {"next", "exited"} /\ filing' = filing
       \/ main' = "filing" /\ filing'.key = szPUID' /\ Len(filing'.res) <= GET_CNT
    /\ unit.puid \notin misread' /\ main' # "exited" =>
          /\ szPUID' = unit.puid
          /\ main' = "filing" <=> ~Skipped(unit)
          /\ main' = "filing" => filing' = [key |-> unit.puid, res |-> InUse(Fork(unit.res))]

LEMMA TurnDoes ==
    ASSUME NextPU, NEW pu, pu = Head(todo), IsSequence(pu.res)
    PROVE  TurnEffect(pu)
  <1> DEFINE Right(usable) == szPUID' = pu.puid /\ szType' = pu.type /\ usable = pu.usable
             Out(usable) == Skipped([type |-> szType', usable |-> usable])
  <1>1. szPUID' = pu.puid \/ szPUID' = szPUID
    BY DEF NextPU, Got
  <1>2. PICK usable :
            \/ /\ Out(usable)
               /\ misread' = IF Right(usable) THEN misread ELSE misread \cup {pu.puid}
               /\ UNCHANGED <<main, filing>>
            \/ ~Out(usable) /\ MakeEntry(szPUID', pu, usable, Right(usable))
            \/ main' = "exited" /\ UNCHANGED <<filing, misread>>
    BY DEF NextPU, Exit
  <1>3. main = "next"
    BY DEF NextPU
  <1>4. Right(usable) => (Out(usable) <=> Skipped(pu))
    BY DEF Skipped
  <1>5. Right(usable) \in BOOLEAN /\ (Right(usable) => szPUID' = pu.puid)
    OBVIOUS
  <1> HIDE DEF Right, Out
  <1>7. CASE MakeEntry(szPUID', pu, usable, Right(usable)) /\ ~Out(usable)
    BY <1>1, <1>4, <1>5, <1>7, EntryMade DEF TurnEffect
  <1>8. CASE Out(usable) /\ UNCHANGED <<main, filing>>
             /\ misread' = IF Right(usable) THEN misread ELSE misread \cup {pu.puid}
    BY <1>1, <1>3, <1>4, <1>5, <1>8 DEF TurnEffect
  <1>9. CASE main' = "exited" /\ UNCHANGED <<filing, misread>>
    BY <1>1, <1>9 DEF TurnEffect
  <1> QED
    BY <1>2, <1>7, <1>8, <1>9

\* The same of a device.
DeviceEffect(unit) ==
    /\ misread \subseteq misread'
    /\ \/ main' = "next" /\ filing' = filing
       \/ main' = "filing" /\ filing'.key = DeviceKey /\ Len(filing'.res) <= GET_CNT
    /\ unit.puid \notin misread' =>
          /\ main' = "filing" <=> unit.type = "ST" /\ unit.usable
          /\ main' = "filing" => filing' = [key |-> DeviceKey, res |-> InUse(Fork(unit.res))]

LEMMA DeviceDoes ==
    ASSUME CreateResource, NEW pu, pu = content.pus[1], IsSequence(pu.res), pu.usable \in BOOLEAN
    PROVE  DeviceEffect(pu)
  <1>1. \/ \E usable \in {pu.usable, FALSE} :
             /\ pu.type = "ST" /\ usable
             /\ MakeEntry(DeviceKey, pu, usable, usable = pu.usable)
        \/ \E usable \in {pu.usable, FALSE} :
             /\ pu.type # "ST" \/ ~usable
             /\ main' = "next" /\ filing' = filing
             /\ misread' = IF usable = pu.usable THEN misread ELSE misread \cup {pu.puid}
        \/ main' = "next" /\ filing' = filing /\ misread' = misread \cup {pu.puid}
    BY DEF CreateResource, Got
  <1>3. CASE \E usable \in {pu.usable, FALSE} :
                /\ pu.type = "ST" /\ usable
                /\ MakeEntry(DeviceKey, pu, usable, usable = pu.usable)
    <2>1. PICK usable \in {pu.usable, FALSE} :
                /\ pu.type = "ST" /\ usable
                /\ MakeEntry(DeviceKey, pu, usable, usable = pu.usable)
      BY <1>3
    <2>2. pu.usable /\ (usable = pu.usable) \in BOOLEAN
      BY <2>1
    <2>3. MakeEntry(DeviceKey, pu, usable, usable = pu.usable)
      BY <2>1
    <2> QED
      BY <2>1, <2>2, <2>3, EntryMade DEF DeviceEffect
  <1>4. CASE \E usable \in {pu.usable, FALSE} :
                /\ pu.type # "ST" \/ ~usable
                /\ main' = "next" /\ filing' = filing
                /\ misread' = IF usable = pu.usable THEN misread ELSE misread \cup {pu.puid}
    BY <1>4 DEF DeviceEffect
  <1>5. CASE main' = "next" /\ filing' = filing /\ misread' = misread \cup {pu.puid}
    BY <1>5 DEF DeviceEffect
  <1> QED
    BY <1>1, <1>3, <1>4, <1>5

-----------------------------------------------------------------------------
(* What Init has filed.                                                    *)

\* Before the loop of Init, and in it or after it.
Early == main \in {"open", "platform", "list", "device", "create"}
Begun == main \in {"next", "filing", "ready"}

\* The PUs the loop is done with, but for an entry it is filing.
Passed == 1..(Len(Listed) - Len(todo))

\* The PUs still to come are the last of those listed.
ShapeInv ==
    /\ Early => resourceMap = <<>> /\ todo = <<>> /\ szPUID = Garbage
    /\ main = "list" => nPlatformType = 0
    /\ main \in {"device", "create"} => nPlatformType = 1
    /\ Begun => /\ Len(todo) \in 0..Len(Listed)
                /\ \A k \in 1..Len(todo) : todo[k] = Listed[Len(Listed) - Len(todo) + k]
    /\ main = "ready" \/ (Begun /\ nPlatformType = 1) => todo = <<>>

\* No id comes from a PU the loop has not looked at.
KnownKey(k) == k = Garbage \/ \E j \in Passed : Listed[j].puid = k
KeysInv ==
    Begun /\ nPlatformType = 0 =>
        /\ KnownKey(szPUID)
        /\ main = "filing" => KnownKey(filing.key)
        /\ \A k \in DOMAIN resourceMap : KnownKey(k)

\* A PU whose id is its own has its entry, or is about to get it.
FiledInv ==
    Begun => \A i \in Passed : Has(i) /\ OwnId(i) =>
        \/ /\ Key(i) \in DOMAIN resourceMap
           /\ resourceMap[Key(i)] = InUse(Fork(Listed[i].res))
        \/ /\ main = "filing" /\ Key(i) \notin DOMAIN resourceMap
           /\ filing.key = Key(i) /\ filing.res = InUse(Fork(Listed[i].res))

\* While every PU was read as it is, the map holds what the ids stand for.
RightInv ==
    misread = {} =>
        /\ \A k \in DOMAIN resourceMap : resourceMap[k] = Nameable(k)
        /\ Begun => \A i \in Passed : Has(i) =>
              Key(i) \in DOMAIN resourceMap \/ (main = "filing" /\ filing.key = Key(i))
        /\ main = "filing" /\ filing.key \notin DOMAIN resourceMap =>
              filing.res = Nameable(filing.key)

\* Types, with what they need.
MapTypeInv ==
    /\ PlatformTypeOK
    /\ todo \in Seq({content.pus[i] : i \in DOMAIN content.pus})

PlatformInv == MapTypeInv /\ ShapeInv /\ KeysInv /\ FiledInv /\ RightInv

LEMMA ListedFacts ==
    ASSUME content \in Content, nPlatformType \in {0, 1}
    PROVE  /\ Listed \in Seq({content.pus[i] : i \in DOMAIN content.pus})
           /\ Len(Listed) \in Nat /\ Len(Listed) <= GET_CNT
           /\ \A i \in 1..Len(Listed) : IsSequence(Listed[i].res)
           /\ nPlatformType = 1 => Len(Listed) = 1 /\ Listed[1] = content.pus[1]
           /\ IsSequence(content.pus[1].res) /\ content.pus[1].usable \in BOOLEAN
  <1> DEFINE X == {content.pus[i] : i \in DOMAIN content.pus}
  <1>1. /\ content.pus \in Seq(X) /\ Len(content.pus) \in Nat /\ Len(content.pus) > 0
        /\ \A i \in 1..Len(content.pus) : IsSequence(content.pus[i].res)
        /\ GET_CNT \in Nat /\ GET_CNT >= 1
        /\ IsSequence(content.pus[1].res) /\ content.pus[1].usable \in BOOLEAN
    <2>1. /\ content.pus \in Seq(X) /\ Len(content.pus) > 0
          /\ \A i \in 1..Len(content.pus) :
                IsSequence(content.pus[i].res) /\ content.pus[i].usable \in BOOLEAN
      BY PlatformAssumption DEF IsSequence
    <2>2. Len(content.pus) \in Nat
      BY <2>1
    <2>3. 1 \in 1..Len(content.pus)
      BY <2>1, <2>2
    <2> QED
      BY <2>1, <2>2, <2>3, PlatformAssumption
  <1>2. content.pus[1] \in X /\ \A x \in X : IsSequence(x.res)
    BY <1>1
  <1> HIDE DEF X
  <1>3. CASE nPlatformType = 0
    <2> DEFINE n == IF Len(content.pus) > GET_CNT THEN GET_CNT ELSE Len(content.pus)
    <2>1. Listed = SubSeq(content.pus, 1, n)
      BY <1>3 DEF Listed, Fork
    <2>2. n \in Nat /\ n <= Len(content.pus) /\ n <= GET_CNT /\ n >= 1
      BY <1>1
    <2> HIDE DEF n
    <2>3. Listed \in Seq(X) /\ Len(Listed) = n
      BY <1>1, <2>1, <2>2
    <2>4. \A i \in 1..Len(Listed) : Listed[i] \in X
      BY <2>3
    <2> QED
      BY <1>1, <1>2, <1>3, <2>2, <2>3, <2>4 DEF X
  <1>4. CASE nPlatformType = 1
    <2>1. Listed = <<content.pus[1]>>
      BY <1>4 DEF Listed
    <2>2. Listed \in Seq(X) /\ Len(Listed) = 1 /\ Listed[1] = content.pus[1]
      BY <1>2, <2>1
    <2>3. \A i \in 1..1 : i = 1
      OBVIOUS
    <2> QED
      BY <1>1, <1>2, <2>2, <2>3 DEF X
  <1> QED
    BY <1>3, <1>4

\* The reference is a function of what the SDK knows.
LEMMA SameReference ==
    ASSUME UNCHANGED <<content, nPlatformType>>
    PROVE  /\ Listed' = Listed
           /\ \A i : (Has(i)' <=> Has(i)) /\ Key(i)' = Key(i)
           /\ \A k : Nameable(k)' = Nameable(k)
           /\ misread \subseteq misread' => \A i : OwnId(i)' => OwnId(i)
  BY DEF Listed, Has, Key, Nameable, OwnId

\* The first PU with an id is the one it stands for.
LEMMA FirstOfId ==
    ASSUME Len(Listed) \in Nat, NEW i \in 1..Len(Listed), Has(i),
           \A j \in 1..Len(Listed) : Has(j) /\ Key(j) = Key(i) => i <= j
    PROVE  Nameable(Key(i)) = InUse(Fork(Listed[i].res))
  <1> DEFINE named == {j \in 1..Len(Listed) : Has(j) /\ Key(j) = Key(i)}
             first == CHOOSE k \in named : \A j \in named : k <= j
  <1>1. i \in named /\ \A j \in named : i <= j
    OBVIOUS
  <1>2. \A k \in named : (\A j \in named : k <= j) => k = i
    BY <1>1
  <1>3. first = i
    <2> HIDE DEF named
    <2> QED
      BY <1>1, <1>2
  <1>4. Nameable(Key(i)) = IF named = {} THEN <<>> ELSE InUse(Fork(Listed[first].res))
    BY DEF Nameable
  <1> HIDE DEF named, first
  <1> QED
    BY <1>1, <1>3, <1>4

LEMMA NoPuOfId ==
    ASSUME NEW key, \A i \in 1..Len(Listed) : Has(i) => Key(i) # key
    PROVE  Nameable(key) = <<>>
  BY DEF Nameable

\* The PU a turn of the loop looks at.
LEMMA TurnFacts ==
    ASSUME PlatformInv, main = "next", todo # <<>>
    PROVE  \E i \in 1..Len(Listed) :
              /\ i = Len(Listed) - Len(todo) + 1 /\ Head(todo) = Listed[i]
              /\ Len(Listed) \in Nat /\ Len(Tail(todo)) = Len(todo) - 1
              /\ Len(Listed) - Len(Tail(todo)) = i
              /\ 1..i = Passed \cup {i} /\ \A j \in Passed : j < i
              /\ \A k \in 1..Len(Tail(todo)) :
                    Tail(todo)[k] = Listed[Len(Listed) - Len(Tail(todo)) + k]
  <1> DEFINE X == {content.pus[k] : k \in DOMAIN content.pus}
             i == Len(Listed) - Len(todo) + 1
  <1>1. /\ todo \in Seq(X) /\ Len(todo) \in 0..Len(Listed)
        /\ \A k \in 1..Len(todo) : todo[k] = Listed[Len(Listed) - Len(todo) + k]
    BY DEF PlatformInv, MapTypeInv, ShapeInv, Begun
  <1>2. Len(Listed) \in Nat
    BY ListedFacts DEF PlatformInv, MapTypeInv, PlatformTypeOK
  <1> HIDE DEF X
  <1>3. /\ Head(todo) = todo[1] /\ Len(todo) \in Nat /\ Len(todo) >= 1
        /\ Len(Tail(todo)) = Len(todo) - 1
        /\ \A k \in 1..Len(Tail(todo)) : Tail(todo)[k] = todo[k + 1]
    BY <1>1
  <1>4. i \in 1..Len(Listed) /\ Head(todo) = Listed[i] /\ Len(Listed) - Len(Tail(todo)) = i
    BY <1>1, <1>2, <1>3
  <1>5. 1..i = Passed \cup {i} /\ \A j \in Passed : j < i
    BY <1>2, <1>3, <1>4 DEF Passed
  <1>6. \A k \in 1..Len(Tail(todo)) :
            Tail(todo)[k] = Listed[Len(Listed) - Len(Tail(todo)) + k]
    <2> TAKE k \in 1..Len(Tail(todo))
    <2>1. k + 1 \in 1..Len(todo) /\ Len(Listed) - Len(todo) + (k + 1)
              = Len(Listed) - Len(Tail(todo)) + k
      BY <1>2, <1>3
    <2> QED
      BY <1>1, <1>3, <2>1
  <1> QED
    BY <1>2, <1>3, <1>4, <1>5, <1>6

LEMMA StepEffects ==
    ASSUME PlatformInv
    PROVE  /\ NextPU => TurnEffect(Head(todo))
           /\ CreateResource => DeviceEffect(content.pus[1])
  <1>1. content \in Content /\ nPlatformType \in {0, 1}
    BY DEF PlatformInv, MapTypeInv, PlatformTypeOK
  <1>2. ASSUME NextPU PROVE TurnEffect(Head(todo))
    <2>1. PICK i \in 1..Len(Listed) : Head(todo) = Listed[i]
      BY <1>2, TurnFacts DEF NextPU
    <2>2. IsSequence(Head(todo).res)
      BY <1>1, <2>1, ListedFacts
    <2> QED
      BY <1>2, <2>2, TurnDoes
  <1>3. ASSUME CreateResource PROVE DeviceEffect(content.pus[1])
    BY <1>1, <1>3, ListedFacts, DeviceDoes
  <1> QED
    BY <1>2, <1>3

LEMMA MisreadGrows == ASSUME PlatformInv, PlatformNext PROVE misread \subseteq misread'
  <1>1. NextPU \/ CreateResource => misread \subseteq misread'
    BY StepEffects DEF TurnEffect, DeviceEffect
  <1>2. ~(NextPU \/ CreateResource) => misread \subseteq misread'
    BY DEF PlatformNext, Open, GetPlatformType, ForkPUList, ForkOnePU, FileEntry, InitReturns,
           locals
  <1> QED
    BY <1>1, <1>2

LEMMA MapTypeStep == ASSUME PlatformInv, PlatformNext PROVE MapTypeInv'
  <1> USE DEF PlatformInv, MapTypeInv, PlatformTypeOK
  <1>1. CASE Open \/ GetPlatformType \/ ForkOnePU \/ InitReturns
    <2>1. UNCHANGED <<content, filing, resourceMap, todo>> /\ main # "filing"
      BY <1>1 DEF Open, GetPlatformType, ForkOnePU, InitReturns, locals
    <2>2. nPlatformType' \in {0, 1}
      BY <1>1 DEF Open, GetPlatformType, ForkOnePU, InitReturns, locals, Got
    <2>3. main' \in {"platform", "list", "device", "create", "next", "ready", "exited"}
      BY <1>1 DEF Open, GetPlatformType, ForkOnePU, InitReturns, Exit
    <2> QED
      BY <2>1, <2>2, <2>3
  <1>2. CASE ForkPUList
    <2>1. nPlatformType = 0 /\ Listed = Fork(content.pus)
      BY <1>2 DEF ForkPUList, ShapeInv, Listed
    <2>2. Fork(content.pus) \in Seq({content.pus[i] : i \in DOMAIN content.pus})
          /\ Len(Fork(content.pus)) <= GET_CNT
      BY <2>1, ListedFacts
    <2> QED
      BY <1>2, <2>2 DEF ForkPUList, Exit
  <1>3. CASE NextPU
    <2>1. PICK i \in 1..Len(Listed) :
              /\ Head(todo) = Listed[i] /\ Len(Tail(todo)) = Len(todo) - 1
      BY <1>3, TurnFacts DEF NextPU
    <2>2. /\ main' \in {"next", "exited", "filing"}
          /\ main' # "filing" => filing' = NoEntry
          /\ filing' = filing \/ Len(filing'.res) <= GET_CNT
      <3>1. filing = NoEntry
        BY <1>3 DEF NextPU
      <3> QED
        BY <1>3, <3>1, StepEffects DEF TurnEffect
    <2>3. /\ Tail(todo) \in Seq({content.pus[k] : k \in DOMAIN content.pus})
          /\ Len(todo) \in Nat
      BY <1>3 DEF NextPU
    <2>4. Len(Tail(todo)) <= GET_CNT
      BY <2>1, <2>3, PlatformAssumption
    <2>5. UNCHANGED <<content, nPlatformType, resourceMap>> /\ todo' = Tail(todo)
      BY <1>3 DEF NextPU
    <2> QED
      BY <2>2, <2>3, <2>4, <2>5
  <1>4. CASE CreateResource
    <2>1. UNCHANGED <<content, nPlatformType, todo, resourceMap>> /\ filing = NoEntry
      BY <1>4 DEF CreateResource
    <2>2. /\ main' \in {"next", "filing"}
          /\ main' # "filing" => filing' = NoEntry
          /\ filing' = filing \/ Len(filing'.res) <= GET_CNT
      BY <1>4, <2>1, StepEffects DEF DeviceEffect
    <2> QED
      BY <2>1, <2>2
  <1>5. CASE FileEntry
    <2>1. \A k \in DOMAIN resourceMap' :
              resourceMap'[k] = filing.res \/ (k \in DOMAIN resourceMap
                                              /\ resourceMap'[k] = resourceMap[k])
      BY <1>5 DEF FileEntry, Insert
    <2>2. Len(NoEntry.res) <= GET_CNT
      BY PlatformAssumption DEF NoEntry
    <2> QED
      BY <1>5, <2>1, <2>2 DEF FileEntry, locals
  <1> QED
    BY <1>1, <1>2, <1>3, <1>4, <1>5 DEF PlatformNext

LEMMA ShapeStep == ASSUME PlatformInv, PlatformNext PROVE ShapeInv'
  <1>1. content \in Content /\ nPlatformType \in {0, 1} /\ ShapeInv
    BY DEF PlatformInv, MapTypeInv, PlatformTypeOK
  <1>2. Len(Listed) \in Nat
    BY <1>1, ListedFacts
  <1> USE DEF ShapeInv, Early, Begun
  <1>3. CASE Open
    BY <1>1, <1>3 DEF Open, Exit, locals
  <1>4. CASE GetPlatformType
    BY <1>1, <1>4 DEF GetPlatformType, Got
  <1>5. CASE ForkPUList
    <2>1. nPlatformType = 0 /\ Listed = Fork(content.pus) /\ Listed' = Listed
      BY <1>1, <1>5, SameReference DEF ForkPUList, Listed
    <2>2. main' = "exited" \/ (main' = "next" /\ todo' = Listed)
      BY <1>5, <2>1 DEF ForkPUList, Exit
    <2>3. \A k \in 1..Len(Listed) : Len(Listed) - Len(Listed) + k = k
      BY <1>2
    <2> QED
      BY <1>1, <1>2, <1>5, <2>1, <2>2, <2>3 DEF ForkPUList
  <1>6. CASE NextPU
    <2>1. PICK i \in 1..Len(Listed) :
              /\ Len(Listed) - Len(Tail(todo)) = i /\ Len(Tail(todo)) = Len(todo) - 1
              /\ \A k \in 1..Len(Tail(todo)) :
                    Tail(todo)[k] = Listed[Len(Listed) - Len(Tail(todo)) + k]
      BY <1>6, TurnFacts DEF NextPU
    <2>2. /\ Listed' = Listed /\ todo' = Tail(todo) /\ nPlatformType' = nPlatformType
          /\ main' \in {"next", "filing", "exited"} /\ main = "next" /\ todo # <<>>
      BY <1>6, SameReference, StepEffects DEF NextPU, TurnEffect
    <2>3. Len(todo) \in 0..Len(Listed)
      BY <1>1, <2>2
    <2>4. Len(Tail(todo)) \in 0..Len(Listed)
      BY <1>2, <2>1, <2>3
    <2> QED
      BY <1>1, <2>1, <2>2, <2>4
  <1>7. CASE ForkOnePU \/ CreateResource
    <2>1. /\ todo = <<>> /\ nPlatformType = 1 /\ Listed' = Listed
          /\ todo' = todo /\ nPlatformType' = nPlatformType /\ resourceMap' = resourceMap
          /\ szPUID' = szPUID /\ Early
          /\ main' \in {"create", "next", "filing"}
      BY <1>1, <1>7, SameReference, StepEffects DEF ForkOnePU, CreateResource, DeviceEffect, locals
    <2>2. Len(todo) = 0 /\ Len(todo) \in 0..Len(Listed) /\ 1..Len(todo) = {}
      BY <1>2, <2>1
    <2> QED
      BY <1>1, <2>1, <2>2
  <1>8. CASE FileEntry \/ InitReturns
    <2>1. /\ Listed' = Listed /\ todo' = todo /\ nPlatformType' = nPlatformType
          /\ Begun /\ (main' = "next" \/ (main' = "ready" /\ todo = <<>>))
      BY <1>8, SameReference DEF FileEntry, InitReturns, locals
    <2> QED
      BY <1>1, <2>1
  <1> QED
    BY <1>3, <1>4, <1>5, <1>6, <1>7, <1>8 DEF PlatformNext

LEMMA KeysStep == ASSUME PlatformInv, PlatformNext PROVE KeysInv'
  <1>1. ShapeInv /\ KeysInv
    BY DEF PlatformInv
  <1>2. CASE Open \/ GetPlatformType
    BY <1>2 DEF Open, GetPlatformType, Exit, KeysInv, Begun
  <1>3. CASE ForkPUList
    BY <1>1, <1>3 DEF ForkPUList, Exit, KeysInv, Begun, ShapeInv, Early, KnownKey
  <1>4. CASE NextPU
    <2>1. PICK i \in 1..Len(Listed) :
              /\ Head(todo) = Listed[i] /\ Len(Listed) - Len(Tail(todo)) = i
              /\ 1..i = Passed \cup {i}
      BY <1>4, TurnFacts DEF NextPU
    <2>2. /\ Listed' = Listed /\ todo' = Tail(todo) /\ nPlatformType' = nPlatformType
          /\ main = "next" /\ resourceMap' = resourceMap
          /\ szPUID' = Head(todo).puid \/ szPUID' = szPUID
          /\ main' = "filing" => filing'.key = szPUID'
      BY <1>4, SameReference, StepEffects DEF NextPU, TurnEffect
    <2>3. Passed' = Passed \cup {i}
      BY <2>1, <2>2 DEF Passed
    <2>4. ASSUME Begun', nPlatformType' = 0 PROVE KeysInv'
      <3>1. KnownKey(szPUID) /\ \A k \in DOMAIN resourceMap : KnownKey(k)
        BY <1>1, <2>2, <2>4 DEF KeysInv, Begun
      <3> DEFINE Known(k) == k = Garbage \/ \E j \in Passed' : Listed[j].puid = k
      <3>2. \A k : KnownKey(k) => Known(k)
        BY <2>3 DEF KnownKey
      <3>3. Known(Head(todo).puid)
        BY <2>1, <2>3
      <3> HIDE DEF Known
      <3>4. Known(szPUID')
        BY <2>2, <3>1, <3>2, <3>3
      <3>5. main' = "filing" => Known(filing'.key)
        BY <2>2, <3>4
      <3>6. \A k \in DOMAIN resourceMap' : Known(k)
        BY <2>2, <3>1, <3>2
      <3> QED
        BY <2>2, <3>4, <3>5, <3>6 DEF KeysInv, KnownKey, Known
    <2> QED
      BY <2>4 DEF KeysInv
  <1>5. CASE ForkOnePU \/ CreateResource
    BY <1>1, <1>5 DEF ForkOnePU, CreateResource, KeysInv, ShapeInv, locals
  <1>6. CASE FileEntry \/ InitReturns
    <2>1. /\ Listed' = Listed /\ todo' = todo /\ nPlatformType' = nPlatformType
          /\ szPUID' \in {szPUID, Garbage} /\ Begun /\ main' # "filing"
      BY <1>6, SameReference DEF FileEntry, InitReturns, Begun, locals
    <2>2. Passed' = Passed /\ \A k : KnownKey(k)' <=> KnownKey(k)
      BY <2>1 DEF Passed, KnownKey
    <2>3. \A k \in DOMAIN resourceMap' :
              k \in DOMAIN resourceMap \/ (main = "filing" /\ k = filing.key)
      BY <1>6 DEF FileEntry, InitReturns, Insert
    <2>4. KnownKey(szPUID) => KnownKey(szPUID)'
      BY <2>1, <2>2 DEF KnownKey
    <2> QED
      BY <1>1, <2>1, <2>2, <2>3, <2>4 DEF KeysInv
  <1> QED
    BY <1>2, <1>3, <1>4, <1>5, <1>6 DEF PlatformNext

\* In the loop over PUs.
LEMMA FiledTurn == ASSUME PlatformInv, NextPU PROVE FiledInv'
  <1>1. PICK i \in 1..Len(Listed) :
            /\ Head(todo) = Listed[i] /\ Len(Listed) \in Nat
            /\ Len(Listed) - Len(Tail(todo)) = i
            /\ 1..i = Passed \cup {i} /\ \A j \in Passed : j < i
    BY TurnFacts DEF NextPU
  <1>2. /\ Listed' = Listed /\ todo' = Tail(todo) /\ nPlatformType' = nPlatformType
        /\ main = "next" /\ resourceMap' = resourceMap /\ todo # <<>>
        /\ misread \subseteq misread'
        /\ \A j : (Has(j)' <=> Has(j)) /\ Key(j)' = Key(j)
        /\ \A j : OwnId(j)' => OwnId(j)
    <2>1. UNCHANGED <<content, nPlatformType>> /\ misread \subseteq misread'
      BY StepEffects DEF NextPU, TurnEffect
    <2> QED
      BY <2>1, SameReference DEF NextPU
  <1>3. nPlatformType = 0
    BY <1>2 DEF PlatformInv, MapTypeInv, PlatformTypeOK, ShapeInv, Begun
  <1>4. Passed' = Passed \cup {i}
    BY <1>1, <1>2 DEF Passed
  \* PU i is filed under its own id, which is not there.
  <1>5. ASSUME Begun', Has(i), OwnId(i)'
        PROVE  /\ main' = "filing" /\ Key(i) \notin DOMAIN resourceMap
               /\ filing'.key = Key(i) /\ filing'.res = InUse(Fork(Listed[i].res))
    <2>1. ~Skipped(Head(todo))
      BY <1>1, <1>3, <1>5 DEF Has, Skipped
    <2>2. Listed[i].puid \notin misread' \cup {Garbage}
          /\ \A j \in 1..Len(Listed) : Listed[j].puid = Listed[i].puid => j = i
      BY <1>2, <1>5 DEF OwnId
    <2>3. main' # "exited"
      BY <1>5 DEF Begun
    <2>4. /\ main' = "filing"
          /\ filing' = [key |-> Listed[i].puid, res |-> InUse(Fork(Listed[i].res))]
      BY <1>1, <2>1, <2>2, <2>3, StepEffects DEF TurnEffect
    <2>6. Key(i) = Listed[i].puid
      BY <1>3 DEF Key
    <2>7. \A j \in Passed : j \in 1..Len(Listed) /\ j # i
      BY <1>1
    <2>8. ~KnownKey(Key(i))
      BY <2>2, <2>6, <2>7 DEF KnownKey
    <2>9. Key(i) \notin DOMAIN resourceMap
      BY <1>2, <1>3, <2>8 DEF PlatformInv, KeysInv, Begun
    <2> QED
      BY <2>4, <2>6, <2>9
  <1>6. ASSUME NEW j \in Passed, Has(j), OwnId(j)
        PROVE  Key(j) \in DOMAIN resourceMap /\ resourceMap[Key(j)] = InUse(Fork(Listed[j].res))
    BY <1>2, <1>6 DEF PlatformInv, FiledInv, Begun
  <1> SUFFICES ASSUME Begun', NEW j \in Passed', Has(j)', OwnId(j)'
               PROVE  \/ /\ Key(j) \in DOMAIN resourceMap
                         /\ resourceMap[Key(j)] = InUse(Fork(Listed[j].res))
                      \/ /\ main' = "filing" /\ Key(j) \notin DOMAIN resourceMap
                         /\ filing'.key = Key(j) /\ filing'.res = InUse(Fork(Listed[j].res))
    BY <1>2 DEF FiledInv
  <1> QED
    BY <1>2, <1>4, <1>5, <1>6

LEMMA FiledStep == ASSUME PlatformInv, PlatformNext PROVE FiledInv'
  <1>1. /\ ShapeInv /\ FiledInv /\ content \in Content /\ nPlatformType \in {0, 1}
    BY DEF PlatformInv, MapTypeInv, PlatformTypeOK
  <1>2. CASE Open \/ GetPlatformType
    BY <1>2 DEF Open, GetPlatformType, Exit, FiledInv, Begun
  <1>3. CASE ForkPUList
    <2>1. Listed' = Fork(content.pus) /\ (Begun' => todo' = Fork(content.pus))
      BY <1>1, <1>3, SameReference DEF ForkPUList, Listed, Exit, Begun, ShapeInv
    <2>2. Len(Listed) \in Nat /\ Listed = Fork(content.pus)
      BY <1>1, <1>3, ListedFacts DEF ForkPUList, Listed, ShapeInv
    <2>3. Begun' => Passed' = {}
      BY <2>1, <2>2 DEF Passed
    <2> QED
      BY <2>3 DEF FiledInv
  <1>4. CASE NextPU
    BY <1>4, FiledTurn
  <1>5. CASE ForkOnePU \/ CreateResource
    <2>1. /\ todo = <<>> /\ nPlatformType = 1 /\ Listed' = Listed /\ todo' = todo
          /\ nPlatformType' = 1 /\ resourceMap' = <<>> /\ misread \subseteq misread'
          /\ \A j : (Has(j)' <=> Has(j)) /\ Key(j)' = Key(j)
      BY <1>1, <1>5, SameReference, MisreadGrows DEF ForkOnePU, CreateResource, ShapeInv, Early, locals,
           PlatformNext
    <2>2. Len(Listed) = 1 /\ Listed[1] = content.pus[1] /\ IsSequence(Listed[1].res)
      <3>1. /\ Len(Listed) = 1 /\ Listed[1] = content.pus[1] /\ 1 \in 1..1
            /\ \A i \in 1..Len(Listed) : IsSequence(Listed[i].res)
        BY <1>1, <2>1, ListedFacts
      <3> QED
        BY <3>1
    <2>3. Passed' = {1}
      BY <2>1, <2>2 DEF Passed
    <2> SUFFICES ASSUME Begun', Has(1), OwnId(1)'
                 PROVE  /\ main' = "filing" /\ Key(1) \notin DOMAIN resourceMap'
                        /\ filing'.key = Key(1) /\ filing'.res = InUse(Fork(Listed[1].res))
      BY <2>1, <2>3 DEF FiledInv
    <2>4. content.pus[1].puid \notin misread' /\ content.pus[1].type = "ST" /\ content.pus[1].usable
      BY <2>1, <2>2 DEF OwnId, Has
    <2>5. CreateResource
      BY <1>5, <2>4 DEF ForkOnePU, Begun
    <2>6. /\ main' = "filing"
          /\ filing' = [key |-> DeviceKey, res |-> InUse(Fork(Listed[1].res))]
      BY <2>2, <2>4, <2>5, StepEffects DEF DeviceEffect
    <2>7. Key(1) = DeviceKey
      BY <2>1 DEF Key
    <2> QED
      BY <2>1, <2>6, <2>7
  <1>6. CASE FileEntry \/ InitReturns
    <2>1. /\ Listed' = Listed /\ todo' = todo /\ nPlatformType' = nPlatformType
          /\ Begun /\ misread' = misread
          /\ \A j : (Has(j)' <=> Has(j)) /\ Key(j)' = Key(j)
          /\ \A j : OwnId(j)' => OwnId(j)
      <3>1. UNCHANGED <<content, nPlatformType, misread, todo>> /\ Begun
        BY <1>6 DEF FileEntry, InitReturns, Begun, locals
      <3> QED
        BY <3>1, SameReference
    <2>2. Passed' = Passed
      BY <2>1 DEF Passed
    <2>3. \A k \in DOMAIN resourceMap :
              k \in DOMAIN resourceMap' /\ resourceMap'[k] = resourceMap[k]
      BY <1>6 DEF FileEntry, InitReturns, Insert
    <2>4. main = "filing" /\ filing.key \notin DOMAIN resourceMap =>
              /\ filing.key \in DOMAIN resourceMap'
              /\ resourceMap'[filing.key] = filing.res
      BY <1>6 DEF FileEntry, InitReturns, Insert
    <2> SUFFICES ASSUME NEW j \in Passed, Has(j), OwnId(j)
                 PROVE  /\ Key(j) \in DOMAIN resourceMap'
                        /\ resourceMap'[Key(j)] = InUse(Fork(Listed[j].res))
      BY <2>1, <2>2 DEF FiledInv
    <2> QED
      BY <1>1, <2>1, <2>3, <2>4 DEF FiledInv
  <1> QED
    BY <1>2, <1>3, <1>4, <1>5, <1>6 DEF PlatformNext

LEMMA RightTurn == ASSUME PlatformInv, NextPU PROVE RightInv'
  <1>1. PICK i \in 1..Len(Listed) :
            /\ Head(todo) = Listed[i] /\ Len(Listed) \in Nat
            /\ Len(Listed) - Len(Tail(todo)) = i
            /\ 1..i = Passed \cup {i} /\ \A j \in Passed : j < i
    BY TurnFacts DEF NextPU
  <1>2. /\ Listed' = Listed /\ todo' = Tail(todo) /\ nPlatformType' = nPlatformType
        /\ main = "next" /\ resourceMap' = resourceMap /\ todo # <<>>
        /\ misread \subseteq misread'
        /\ \A j : (Has(j)' <=> Has(j)) /\ Key(j)' = Key(j)
        /\ \A k : Nameable(k)' = Nameable(k)
    <2>1. UNCHANGED <<content, nPlatformType>> /\ misread \subseteq misread'
      BY StepEffects DEF NextPU, TurnEffect
    <2> QED
      BY <2>1, SameReference DEF NextPU
  <1>3. nPlatformType = 0
    BY <1>2 DEF PlatformInv, MapTypeInv, PlatformTypeOK, ShapeInv, Begun
  <1>4. Passed' = Passed \cup {i}
    BY <1>1, <1>2 DEF Passed
  <1> SUFFICES ASSUME misread' = {} PROVE RightInv'
    BY DEF RightInv
  <1>5. /\ misread = {}
        /\ Begun' => (main' = "filing" <=> Has(i))
        /\ main' = "filing" => /\ Has(i)
                               /\ filing' = [key |-> Key(i), res |-> InUse(Fork(Listed[i].res))]
    <2>1. misread = {} /\ Listed[i].puid \notin misread'
      BY <1>2
    <2>2. Skipped(Listed[i]) <=> ~Has(i)
      BY <1>3 DEF Has, Skipped
    <2>3. Begun' \/ main' = "filing" => main' # "exited"
      BY DEF Begun
    <2>4. main' # "exited" =>
              /\ main' = "filing" <=> ~Skipped(Listed[i])
              /\ main' = "filing" =>
                    filing' = [key |-> Listed[i].puid, res |-> InUse(Fork(Listed[i].res))]
      BY <1>1, <2>1, StepEffects DEF TurnEffect
    <2>5. Key(i) = Listed[i].puid
      BY <1>3 DEF Key
    <2> QED
      BY <2>1, <2>2, <2>3, <2>4, <2>5
  <1>6. /\ \A j \in Passed : Has(j) => Key(j) \in DOMAIN resourceMap
        /\ \A k \in DOMAIN resourceMap : resourceMap[k] = Nameable(k)
    BY <1>2, <1>5 DEF PlatformInv, RightInv, Begun
  <1>7. ASSUME main' = "filing", Key(i) \notin DOMAIN resourceMap
        PROVE  filing'.res = Nameable(Key(i))
    <2>1. \A j \in 1..Len(Listed) : j \in Passed \/ i <= j
      BY <1>1
    <2>2. \A j \in 1..Len(Listed) : Has(j) /\ Key(j) = Key(i) => i <= j
      BY <1>6, <1>7, <2>1
    <2>3. Nameable(Key(i)) = InUse(Fork(Listed[i].res))
      BY <1>1, <1>5, <1>7, <2>2, FirstOfId
    <2> QED
      BY <1>5, <1>7, <2>3
  <1>8. main' = "filing" => filing'.key = Key(i)
    BY <1>5
  <1>9. /\ Begun' => \A j \in Passed' : Has(j) => Key(j) \in DOMAIN resourceMap
                                      \/ (main' = "filing" /\ filing'.key = Key(j))
        /\ main' = "filing" /\ filing'.key \notin DOMAIN resourceMap =>
              filing'.res = Nameable(filing'.key)
    BY <1>4, <1>5, <1>6, <1>7, <1>8
  <1>10. \A k \in DOMAIN resourceMap' : resourceMap'[k] = Nameable(k)'
    BY <1>2, <1>6
  <1> QED
    BY <1>2, <1>9, <1>10 DEF RightInv

LEMMA RightStep == ASSUME PlatformInv, PlatformNext PROVE RightInv'
  <1>1. /\ ShapeInv /\ RightInv /\ content \in Content /\ nPlatformType \in {0, 1}
    BY DEF PlatformInv, MapTypeInv, PlatformTypeOK
  <1>2. CASE Open \/ GetPlatformType
    BY <1>1, <1>2 DEF Open, GetPlatformType, Exit, RightInv, Begun, ShapeInv, Early, locals
  <1>3. CASE ForkPUList
    <2>1. /\ Listed' = Fork(content.pus) /\ (Begun' => todo' = Fork(content.pus))
          /\ resourceMap' = <<>> /\ main' # "filing"
      BY <1>1, <1>3, SameReference DEF ForkPUList, Listed, Exit, Begun, ShapeInv, Early
    <2>2. Len(Listed) \in Nat /\ Listed = Fork(content.pus)
      BY <1>1, <1>3, ListedFacts DEF ForkPUList, Listed, ShapeInv
    <2>3. Begun' => Passed' = {}
      BY <2>1, <2>2 DEF Passed
    <2> QED
      BY <2>1, <2>3 DEF RightInv
  <1>4. CASE NextPU
    BY <1>4, RightTurn
  <1>5. CASE ForkOnePU \/ CreateResource
    <2>1. /\ todo = <<>> /\ nPlatformType = 1 /\ Listed' = Listed /\ todo' = todo
          /\ nPlatformType' = 1 /\ resourceMap' = <<>> /\ resourceMap = <<>>
          /\ \A j : (Has(j)' <=> Has(j)) /\ Key(j)' = Key(j)
          /\ \A k : Nameable(k)' = Nameable(k)
      BY <1>1, <1>5, SameReference DEF ForkOnePU, CreateResource, ShapeInv, Early, locals
    <2>2. Len(Listed) = 1 /\ Listed[1] = content.pus[1] /\ IsSequence(Listed[1].res)
      <3>1. /\ Len(Listed) = 1 /\ Listed[1] = content.pus[1] /\ 1 \in 1..1
            /\ \A i \in 1..Len(Listed) : IsSequence(Listed[i].res)
        BY <1>1, <2>1, ListedFacts
      <3> QED
        BY <3>1
    <2>3. Passed' = {1} /\ Key(1) = DeviceKey
      BY <2>1, <2>2 DEF Passed, Key
    <2> SUFFICES ASSUME misread' = {} PROVE RightInv'
      BY DEF RightInv
    <2>4. /\ Begun' => (main' = "filing" <=> Has(1))
          /\ main' = "filing" =>
                Has(1) /\ filing' = [key |-> DeviceKey, res |-> InUse(Fork(Listed[1].res))]
      <3>1. Has(1) <=> content.pus[1].type = "ST" /\ content.pus[1].usable
        BY <2>1, <2>2 DEF Has
      <3>2. content.pus[1].puid \notin misread'
        OBVIOUS
      <3>3. CASE ForkOnePU
        BY <3>3, <3>2 DEF ForkOnePU, Begun
      <3>4. CASE CreateResource
        BY <2>2, <3>1, <3>2, <3>4, StepEffects DEF DeviceEffect
      <3> QED
        BY <1>5, <3>3, <3>4
    <2>5. Has(1) => Nameable(DeviceKey) = InUse(Fork(Listed[1].res))
      <3>1. \A j \in 1..Len(Listed) : 1 <= j
        BY <2>2
      <3>2. 1 \in 1..Len(Listed) /\ Len(Listed) \in Nat
        BY <2>2
      <3> QED
        BY <2>3, <3>1, <3>2, FirstOfId
    <2>6. main' = "filing" => filing'.key = DeviceKey /\ filing'.res = Nameable(DeviceKey)
      BY <2>4, <2>5
    <2> QED
      BY <2>1, <2>3, <2>4, <2>6 DEF RightInv
  <1>6. CASE FileEntry \/ InitReturns
    <2>1. /\ Listed' = Listed /\ todo' = todo /\ Begun /\ misread' = misread
          /\ main' # "filing"
          /\ \A j : (Has(j)' <=> Has(j)) /\ Key(j)' = Key(j)
          /\ \A k : Nameable(k)' = Nameable(k)
      <3>1. UNCHANGED <<content, nPlatformType, misread, todo>> /\ Begun /\ main' # "filing"
        BY <1>6 DEF FileEntry, InitReturns, Begun, locals
      <3> QED
        BY <3>1, SameReference
    <2>2. Passed' = Passed
      BY <2>1 DEF Passed
    <2>3. /\ \A k \in DOMAIN resourceMap : k \in DOMAIN resourceMap'
          /\ main = "filing" => filing.key \in DOMAIN resourceMap'
          /\ \A k \in DOMAIN resourceMap' :
                IF k \in DOMAIN resourceMap THEN resourceMap'[k] = resourceMap[k]
                ELSE main = "filing" /\ k = filing.key /\ resourceMap'[k] = filing.res
      BY <1>6 DEF FileEntry, InitReturns, Insert
    <2> QED
      BY <1>1, <2>1, <2>2, <2>3 DEF RightInv
  <1> QED
    BY <1>2, <1>3, <1>4, <1>5, <1>6 DEF PlatformNext

-----------------------------------------------------------------------------

LEMMA PlatformStarts == ASSUME PlatformInit PROVE PlatformInv
  <1>1. Len(NoEntry.res) <= GET_CNT /\ Len(<<>>) <= GET_CNT
    BY PlatformAssumption DEF NoEntry
  <1>2. MapTypeInv
    BY <1>1 DEF PlatformInit, MapTypeInv, PlatformTypeOK
  <1>3. ShapeInv /\ KeysInv /\ FiledInv /\ RightInv
    BY DEF PlatformInit, ShapeInv, KeysInv, FiledInv, RightInv, Early, Begun
  <1> QED
    BY <1>2, <1>3 DEF PlatformInv

LEMMA PlatformSteps == ASSUME PlatformInv, PlatformNext PROVE PlatformInv'
  BY MapTypeStep, ShapeStep, KeysStep, FiledStep, RightStep DEF PlatformInv

LEMMA PlatformStutters == ASSUME PlatformInv, UNCHANGED platform PROVE PlatformInv'
  <1>1. /\ Listed' = Listed /\ Passed' = Passed
        /\ \A j : (Has(j)' <=> Has(j)) /\ Key(j)' = Key(j) /\ (OwnId(j)' <=> OwnId(j))
        /\ \A k : Nameable(k)' = Nameable(k) /\ (KnownKey(k)' <=> KnownKey(k))
    BY DEF platform, locals, Listed, Passed, Has, Key, OwnId, Nameable, KnownKey
  <1>2. MapTypeInv' /\ ShapeInv'
    BY <1>1 DEF platform, locals, PlatformInv, MapTypeInv, PlatformTypeOK, ShapeInv, Early, Begun
  <1>3. KeysInv'
    BY <1>1 DEF platform, locals, PlatformInv, KeysInv, KnownKey, Begun
  <1>4. FiledInv' /\ RightInv'
    BY <1>1 DEF platform, locals, PlatformInv, FiledInv, RightInv, Begun
  <1> QED
    BY <1>2, <1>3, <1>4 DEF PlatformInv

\* When Init has returned.
LEMMA ReadyPassed ==
    ASSUME PlatformInv, main = "ready"
    PROVE  Begun /\ Len(Listed) \in Nat /\ Passed = 1..Len(Listed)
  <1>1. todo = <<>> /\ Begun
    BY DEF PlatformInv, ShapeInv, Begun
  <1>2. Len(Listed) \in Nat
    BY ListedFacts DEF PlatformInv, MapTypeInv, PlatformTypeOK
  <1> QED
    BY <1>1, <1>2 DEF Passed

LEMMA ReadyIsFiled == ASSUME PlatformInv PROVE AllFiled
  <1>1. SUFFICES ASSUME main = "ready", NEW i \in 1..Len(Listed), Has(i), OwnId(i)
                 PROVE  /\ Key(i) \in DOMAIN resourceMap
                        /\ resourceMap[Key(i)] = Nameable(Key(i))
    BY DEF AllFiled
  <1>2. Begun /\ Len(Listed) \in Nat /\ i \in Passed
    BY <1>1, ReadyPassed
  <1>3. /\ Key(i) \in DOMAIN resourceMap
        /\ resourceMap[Key(i)] = InUse(Fork(Listed[i].res))
    BY <1>1, <1>2 DEF PlatformInv, FiledInv
  <1>4. nPlatformType \in {0, 1} /\ (nPlatformType = 1 => Len(Listed) = 1)
    BY ListedFacts DEF PlatformInv, MapTypeInv, PlatformTypeOK
  <1>5. \A j \in 1..Len(Listed) : Has(j) /\ Key(j) = Key(i) => i <= j
    <2>1. CASE nPlatformType = 0
      BY <1>1, <1>2, <2>1 DEF Key, OwnId
    <2>2. CASE nPlatformType = 1
      BY <1>4, <2>2
    <2> QED
      BY <1>4, <2>1, <2>2
  <1>6. Nameable(Key(i)) = InUse(Fork(Listed[i].res))
    BY <1>1, <1>2, <1>5, FirstOfId
  <1> QED
    BY <1>3, <1>6

LEMMA UnfiledIsUnnamed ==
    ASSUME PlatformInv, main = "ready", misread = {}, NEW key, key \notin DOMAIN resourceMap
    PROVE  Nameable(key) = <<>>
  <1>1. \A i \in 1..Len(Listed) : Has(i) => Key(i) \in DOMAIN resourceMap
    BY ReadyPassed DEF PlatformInv, RightInv
  <1> QED
    BY <1>1, NoPuOfId
=============================================================================
