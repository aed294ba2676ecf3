-------------------------- MODULE RequestPathProofs --------------------------
(***************************************************************************)
(* Theorems about RequestPath: what ReadCB makes of the bytes a client     *)
(* sent, and when GetIV's unchecked lookup can fail.                       *)
(***************************************************************************)
EXTENDS RequestPath, C7PlatformProofs

\* What a byte of the buffer may be.
Byte == Char \cup {Nul, Foreign}

\* What is in read_buffer beyond every read so far is what the constructor
\* wrote; only a read that fills it leaves a string without an end.
BufferInv ==
    /\ wire \in Seq(Char)
    /\ reads \in Seq(Seq(Char))
    /\ strings \in Seq(Seq(Byte))
    /\ Len(reads) = Len(strings)
    /\ read_buffer \in [1..BufSize -> Byte]
    /\ \A j \in 1..Len(reads) : Len(reads[j]) <= BufSize
    /\ \A i \in 1..BufSize :
          (\A j \in 1..Len(reads) : Len(reads[j]) < i) => read_buffer[i] = Nul
    /\ (\A j \in 1..Len(reads) : Len(reads[j]) # BufSize) =>
          \A i \in 1..BufSize : read_buffer[i] # Foreign

\* The resource of the client's request is in the map.
Known ==
    /\ client.puid \in DOMAIN resourceMap
    /\ InRange(resourceMap[client.puid], client.index)

\* While the connection has sent one string, what SearchVideo found for its
\* thread is still there when GetIV looks.
LookupInv ==
    /\ vpc \in [Thread -> {"unused", "find", "start", "done"}]
    /\ selectInfo = [t \in Thread |-> selectInfo[t]]
    /\ loop = "search" => Len(strings) >= 1
    /\ \A t \in Thread : vpc[t] # "unused" => Len(strings) >= 1
    /\ \A t \in Thread : vpc[t] = "find" /\ Len(strings) < 2 => Known
    /\ \A t \in Thread : vpc[t] = "start" /\ Len(strings) < 2 =>
          InRange(selectInfo[t], client.index)

Inv == BufferInv /\ StringAsRead /\ OwnBytes /\ LookupInv /\ LookupFault

-----------------------------------------------------------------------------
(* Strings in a buffer.                                                    *)

LEMMA Bytes ==
    /\ Nul \in Byte /\ Foreign \in Byte /\ Nul # Foreign
    /\ Char \subseteq Byte /\ Foreign \notin Char
  <1>1. Nul # Foreign
    BY DEF Nul, Foreign
  <1> QED
    BY <1>1, BufferAssumption DEF Byte

\* A string in a buffer that holds a NUL is what comes before the first.
LEMMA CStringEnds ==
    ASSUME NEW b \in [1..BufSize -> Byte], NEW s \in CString(b),
           \E i \in 1..BufSize : b[i] = Nul
    PROVE  \E k \in 1..BufSize :
              /\ b[k] = Nul /\ \A j \in 1..(k - 1) : b[j] # Nul
              /\ s \in Seq(Byte) /\ Len(s) = k - 1
              /\ \A i \in 1..(k - 1) : s[i] = b[i]
  <1> DEFINE First(k) == b[k] = Nul /\ \A j \in 1..(k - 1) : b[j] # Nul
  <1>1. BufSize \in Nat
    BY BufferAssumption
  <1>2. \E k \in 1..BufSize : First(k)
    <2> DEFINE T == {i \in 1..BufSize : b[i] = Nul}
    <2>1. T \in SUBSET Nat /\ T # {}
      BY <1>1
    <2>2. PICK m \in T : \A n \in T : m <= n
      <3> HIDE DEF T
      <3> QED
        BY <2>1, Least
    <2> QED
      BY <1>1, <2>2
  <1> DEFINE k == CHOOSE i \in 1..BufSize : First(i)
  <1>3. k \in 1..BufSize /\ First(k)
    <2> HIDE DEF First
    <2> QED
      BY <1>2
  <1>4. s = SubSeq(b, 1, k - 1)
    BY DEF CString
  <1> HIDE DEF k
  <1>5. \A i \in 1..(k - 1) : b[i] \in Byte
    BY <1>1, <1>3
  <1>6. /\ SubSeq(b, 1, k - 1) \in Seq(Byte)
        /\ Len(SubSeq(b, 1, k - 1)) = IF 1 <= k - 1 THEN (k - 1) - 1 + 1 ELSE 0
        /\ \A i \in 1..((k - 1) - 1 + 1) : SubSeq(b, 1, k - 1)[i] = b[1 + i - 1]
    <2>1. k - 1 \in Int /\ 1 \in Int
      BY <1>1, <1>3
    <2> QED
      BY <1>5, <2>1, SubSeqProperties
  <1>7. Len(s) = k - 1 /\ \A i \in 1..(k - 1) : s[i] = b[i]
    BY <1>1, <1>3, <1>4, <1>6
  <1> QED
    BY <1>3, <1>4, <1>6, <1>7

\* ... and the text of bytes that hold one, likewise.
LEMMA TextEnds ==
    ASSUME NEW bytes \in Seq(Char), NEW k \in 1..Len(bytes),
           bytes[k] = Nul, \A j \in 1..(k - 1) : bytes[j] # Nul
    PROVE  /\ Text(bytes) \in Seq(Byte) /\ Len(Text(bytes)) = k - 1
           /\ \A i \in 1..(k - 1) : Text(bytes)[i] = bytes[i]
  <1> DEFINE First(i) == bytes[i] = Nul /\ \A j \in 1..(i - 1) : bytes[j] # Nul
             c == CHOOSE i \in 1..Len(bytes) : First(i)
  <1>1. Len(bytes) \in Nat /\ \A i \in 1..(k - 1) : bytes[i] \in Byte /\ i \in 1..Len(bytes)
    <2>1. Len(bytes) \in Nat /\ \A i \in 1..(k - 1) : bytes[i] \in Char /\ i \in 1..Len(bytes)
      OBVIOUS
    <2> QED
      BY <2>1, Bytes
  <1>2. c \in 1..Len(bytes) /\ First(c)
    <2>1. First(k)
      OBVIOUS
    <2> HIDE DEF First
    <2> QED
      BY <2>1
  <1>3. Text(bytes) = SubSeq(bytes, 1, c - 1)
    BY DEF Text
  <1> HIDE DEF c
  <1>4. c = k
    BY <1>1, <1>2
  <1>5. /\ SubSeq(bytes, 1, k - 1) \in Seq(Byte)
        /\ Len(SubSeq(bytes, 1, k - 1)) = IF 1 <= k - 1 THEN (k - 1) - 1 + 1 ELSE 0
        /\ \A i \in 1..((k - 1) - 1 + 1) : SubSeq(bytes, 1, k - 1)[i] = bytes[1 + i - 1]
    <2>1. k - 1 \in Int /\ 1 \in Int
      BY <1>1
    <2> QED
      BY <1>1, <2>1, SubSeqProperties
  <1> QED
    BY <1>1, <1>3, <1>4, <1>5

LEMMA CStringType ==
    ASSUME NEW b \in [1..BufSize -> Byte], NEW s \in CString(b)
    PROVE  s \in Seq(Byte)
  <1>1. CASE \E i \in 1..BufSize : b[i] = Nul
    BY <1>1, CStringEnds
  <1>2. CASE ~\E i \in 1..BufSize : b[i] = Nul
    <2>1. s = b \/ s = Append(b, Foreign)
      BY <1>2 DEF CString
    <2>2. b \in Seq(Byte)
      BY BufferAssumption
    <2>3. Append(b, Foreign) \in Seq(Byte)
      BY <2>2, Bytes
    <2> QED
      BY <2>1, <2>2, <2>3
  <1> QED
    BY <1>1, <1>2

-----------------------------------------------------------------------------
(* Words and numbers.                                                      *)

\* A set of n or more places has an n-th one.
HasNth(A, n) == \E a \in A : Cardinality({b \in A : b <= a}) = n

LEMMA NthPlace ==
    ASSUME NEW N \in Nat, NEW A \in SUBSET (1..N), NEW n \in 1..Cardinality(A)
    PROVE  HasNth(A, n)
  <1> DEFINE UpTo(m) == {b \in A : b <= m}
             T == {m \in 0..N : Cardinality(UpTo(m)) >= n}
  <1>1. \A m : IsFiniteSet(UpTo(m)) /\ Cardinality(UpTo(m)) \in Nat
    <2>1. IsFiniteSet(1..N)
      BY FS_Interval
    <2>2. \A m : UpTo(m) \subseteq 1..N
      OBVIOUS
    <2> HIDE DEF UpTo
    <2> QED
      BY <2>1, <2>2, FS_Subset, FS_CardinalityType
  <1>0. \A b \in A : b \in Nat /\ 1 <= b /\ b <= N
    OBVIOUS
  <1>2. UpTo(N) = A
    BY <1>0
  <1>3. n \in Nat /\ n >= 1 /\ Cardinality(A) >= n
    BY <1>1, <1>2
  <1>4. T \in SUBSET Nat /\ T # {}
    <2>1. N \in T
      BY <1>2, <1>3
    <2> QED
      BY <2>1
  <1>5. PICK m \in T : \A k \in T : m <= k
    <2> HIDE DEF T
    <2> QED
      BY <1>4, Least
  <1>6. m # 0
    <2>1. ASSUME NEW b \in UpTo(0) PROVE FALSE
      <3>1. b \in A /\ b <= 0
        OBVIOUS
      <3> QED
        BY <1>0, <3>1
    <2>2. Cardinality(UpTo(0)) = 0 /\ UpTo(0) = {}
      <3> HIDE DEF UpTo
      <3> QED
        BY <2>1, FS_EmptySet
    <2> QED
      BY <1>3, <1>5, <2>2
  <1>7. m \in 1..N /\ m - 1 \in 0..N /\ m - 1 \notin T
    <2>1. m \in 0..N
      BY <1>5
    <2>2. m \in 1..N /\ m - 1 \in 0..N /\ ~(m <= m - 1)
      BY <1>6, <2>1
    <2> HIDE DEF T
    <2> QED
      BY <1>5, <2>2
  <1>8. Cardinality(UpTo(m - 1)) < n /\ Cardinality(UpTo(m)) >= n
    <2> HIDE DEF UpTo
    <2> QED
      BY <1>1, <1>3, <1>5, <1>7
  <1> DEFINE k == m - 1
  <1>12. \A b \in A : b <= m <=> b <= k \/ b = m
    BY <1>0, <1>7
  <1>13. ~(m <= k)
    BY <1>7
  <1> HIDE DEF k
  <1>9. CASE m \in A
    <2>1. UpTo(m) = UpTo(k) \cup {m} /\ m \notin UpTo(k)
      BY <1>9, <1>12, <1>13
    <2>2. Cardinality(UpTo(m)) = Cardinality(UpTo(k)) + 1
      <3> HIDE DEF UpTo
      <3> QED
        BY <1>1, <2>1, FS_AddElement
    <2>3. Cardinality(UpTo(m)) = n
      <3> HIDE DEF UpTo
      <3> QED
        BY <1>1, <1>3, <1>8, <2>2 DEF k
    <2> QED
      BY <1>9, <2>3 DEF HasNth
  <1>10. CASE m \notin A
    <2>1. UpTo(m) = UpTo(k)
      BY <1>10, <1>12
    <2> HIDE DEF UpTo
    <2> QED
      BY <1>1, <1>3, <1>8, <2>1 DEF k
  <1> QED
    BY <1>9, <1>10

\* The n-th word is a word, if there are n.
LEMMA WordIsThere ==
    ASSUME NEW X, NEW s \in Seq(X), NEW n \in Nat \ {0}, Word(s, n) # <<>>
    PROVE  \E w \in Words(s) : Word(s, n) = SubSeq(s, w[1], w[2])
  <1> DEFINE W == Words(s)
             A == {w[1] : w \in W}
  <1>1. Len(s) \in Nat /\ ~(Cardinality(W) < n) /\ IsFiniteSet(W) /\ Cardinality(W) \in Nat
    <2>1. ~(Cardinality(W) < n)
      BY DEF Word
    <2>2. IsFiniteSet((1..Len(s)) \X (1..Len(s)))
      <3>1. Len(s) \in Int /\ 1 \in Int
        OBVIOUS
      <3>2. IsFiniteSet(1..Len(s))
        BY <3>1, FS_Interval
      <3> QED
        BY <3>2, FS_Product
    <2>3. W \subseteq (1..Len(s)) \X (1..Len(s))
      BY DEF Words
    <2>4. Len(s) \in Nat
      OBVIOUS
    <2> HIDE DEF W
    <2> QED
      BY <2>1, <2>2, <2>3, <2>4, FS_Subset, FS_CardinalityType
  \* Words differ in where they start.
  <1>2. ASSUME NEW v \in W, NEW w \in W, v[1] = w[1] PROVE v = w
    <2>1. /\ v \in (1..Len(s)) \X (1..Len(s)) /\ w \in (1..Len(s)) \X (1..Len(s))
          /\ v[1] <= v[2] /\ w[1] <= w[2]
          /\ \A i \in v[1]..v[2] : s[i] # ","
          /\ \A i \in w[1]..w[2] : s[i] # ","
          /\ v[2] = Len(s) \/ s[v[2] + 1] = ","
          /\ w[2] = Len(s) \/ s[w[2] + 1] = ","
      BY DEF Words
    <2>2. /\ v[1] \in 1..Len(s) /\ v[2] \in 1..Len(s) /\ w[2] \in 1..Len(s)
          /\ v = <<v[1], v[2]>> /\ w = <<w[1], w[2]>>
      <3> DEFINE I == 1..Len(s)
      <3>1. v \in I \X I /\ w \in I \X I
        BY <2>1
      <3> HIDE DEF I
      <3>2. /\ v[1] \in I /\ v[2] \in I /\ w[2] \in I
            /\ v = <<v[1], v[2]>> /\ w = <<w[1], w[2]>>
        BY <3>1
      <3> QED
        BY <3>2 DEF I
    <2> DEFINE e == v[2]
               g == w[2]
               b == w[1]
    <2>0. b \in Nat /\ e \in Nat /\ g \in Nat /\ Len(s) \in Nat
          /\ b <= e /\ b <= g /\ e <= Len(s) /\ g <= Len(s)
      <3>1. e \in 1..Len(s) /\ g \in 1..Len(s) /\ b \in 1..Len(s) /\ b <= e /\ b <= g
        BY <1>2, <2>1, <2>2
      <3> HIDE DEF e, g, b
      <3> QED
        BY <1>1, <3>1
    <2>3. ~(v[2] < w[2])
      <3> SUFFICES ASSUME v[2] < w[2] PROVE FALSE
        OBVIOUS
      <3>1. e + 1 \in b..g /\ e # Len(s)
        <4> e < g
          OBVIOUS
        <4> HIDE DEF e, g, b
        <4> QED
          BY <2>0
      <3> QED
        BY <2>1, <3>1
    <2>4. ~(w[2] < v[2])
      <3> SUFFICES ASSUME w[2] < v[2] PROVE FALSE
        OBVIOUS
      <3>1. g + 1 \in v[1]..e /\ g # Len(s)
        <4> g < e /\ v[1] = b
          BY <1>2
        <4> HIDE DEF e, g, b
        <4> QED
          BY <2>0
      <3> QED
        BY <2>1, <3>1
    <2>5. v[2] = w[2]
      <3>1. ~(e < g) /\ ~(g < e)
        BY <2>3, <2>4
      <3>2. e = g
        <4> HIDE DEF e, g
        <4> QED
          BY <2>0, <3>1
      <3> QED
        BY <3>2
    <2> QED
      BY <1>2, <2>2, <2>5, Zenon
  <1>3. A \in SUBSET (1..Len(s))
    BY DEF Words
  <1> HIDE DEF W
  <1>4. \A V \in SUBSET W : Cardinality({v[1] : v \in V}) = Cardinality(V)
    <2> TAKE V \in SUBSET W
    <2> DEFINE B == {v[1] : v \in V}
               f == [v \in V |-> v[1]]
    <2>1. f \in Bijection(V, B)
      BY <1>2 DEF Bijection, Injection, Surjection, IsInjective
    <2>2. IsFiniteSet(V)
      BY <1>1, FS_Subset
    <2> HIDE DEF f, B
    <2>3. Cardinality(V) = Cardinality(B)
      BY <2>1, <2>2, FS_Bijection DEF ExistsBijection
    <2> QED
      BY <2>3 DEF B
  <1>5. Cardinality(A) = Cardinality(W)
    BY <1>4
  <1>6. n \in 1..Cardinality(A)
    BY <1>1, <1>5
  <1>7. PICK a \in A : Cardinality({b \in A : b <= a}) = n
    <2> HIDE DEF A
    <2>1. Len(s) \in Nat
      BY <1>1
    <2>2. HasNth(A, n)
      BY <1>3, <1>6, <2>1, NthPlace
    <2> QED
      BY <2>2 DEF HasNth
  <1>8. PICK w \in W : a = w[1]
    OBVIOUS
  <1>9. Rank(s, w) = n
    <2> DEFINE V == {v \in W : v[1] <= w[1]}
    <2>1. {v[1] : v \in V} = {b \in A : b <= a}
      BY <1>8
    <2>2. Cardinality(V) = n
      <3> V \in SUBSET W
        OBVIOUS
      <3> HIDE DEF V, A
      <3> QED
        BY <1>4, <1>7, <2>1
    <2> QED
      BY <2>2 DEF Rank, W
  <1> DEFINE c == CHOOSE v \in W : Rank(s, v) = n
  <1>10. c \in W
    BY <1>9
  <1>11. Word(s, n) = SubSeq(s, c[1], c[2])
    BY <1>1 DEF Word, W
  <1> QED
    BY <1>10, <1>11 DEF W

\* atoi gives a number for every string.
LEMMA AtoiIsNumber ==
    ASSUME NEW X, NEW w \in Seq(X)
    PROVE  Atoi(w) \in Int
  <1> DEFINE neg   == w # <<>> /\ w[1] = "-"
             first == IF neg THEN 2 ELSE 1
             IsEnd(n) == /\ \A i \in first..n : w[i] \in DOMAIN Digit
                         /\ n = Len(w) \/ w[n + 1] \notin DOMAIN Digit
             last  == CHOOSE n \in (first - 1)..Len(w) : IsEnd(n)
             Solves(f) == f = [n \in (first - 1)..last |->
                                 IF n < first THEN 0 ELSE 10 * f[n - 1] + Digit[w[n]]]
             val == CHOOSE f : Solves(f)
  <1>1. Atoi(w) = IF neg THEN -val[last] ELSE val[last]
    BY DEF Atoi
  <1>2. Len(w) \in Nat /\ first \in Nat /\ first - 1 \in 0..Len(w)
    <2>1. w # <<>> => Len(w) > 0
      OBVIOUS
    <2> QED
      BY <2>1
  <1>3. last \in (first - 1)..Len(w) /\ IsEnd(last)
    <2> DEFINE T == {n \in (first - 1)..Len(w) : n = Len(w) \/ w[n + 1] \notin DOMAIN Digit}
    <2> HIDE DEF first
    <2>1. T \in SUBSET Nat /\ T # {}
      <3>1. Len(w) \in T
        BY <1>2
      <3> QED
        BY <1>2, <3>1
    <2>2. PICK m \in T : \A k \in T : m <= k
      <3> HIDE DEF T
      <3> QED
        BY <2>1, Least
    <2>3. ASSUME NEW i \in first..m PROVE w[i] \in DOMAIN Digit
      <3>1. /\ i - 1 \in (first - 1)..Len(w) /\ i - 1 # Len(w) /\ ~(m <= i - 1)
            /\ (i - 1) + 1 = i
        BY <1>2, <2>2
      <3>2. i - 1 \notin T
        BY <2>2, <3>1
      <3> QED
        BY <3>1, <3>2
    <2>4. m \in (first - 1)..Len(w) /\ IsEnd(m)
      BY <2>2, <2>3
    <2> HIDE DEF IsEnd
    <2> QED
      BY <2>4
  <1>4. \A n \in first..last : Digit[w[n]] \in Int
    <2>1. Digit["0"] = 0 /\ Digit["1"] = 1 /\ Digit["2"] = 2 /\ Digit["3"] = 3
      BY DEF Digit
    <2>2. DOMAIN Digit = {"0", "1", "2", "3"}
      BY DEF Digit
    <2>3. \A c \in DOMAIN Digit : Digit[c] \in Int
      BY <2>1, <2>2
    <2> QED
      BY <1>3, <2>3
  <1>5. last \in Nat /\ last >= first - 1
    <2> HIDE DEF last, first
    <2> QED
      BY <1>2, <1>3
  <1> HIDE DEF last, first
  <1> DEFINE b == first - 1
             k == last - b
  <1>6. b \in Nat /\ k \in Nat /\ b + k = last /\ b + 1 = first
    BY <1>2, <1>5
  <1>7. \E f : Solves(f)
    <2> DEFINE G == [n \in Nat |-> [v \in Int |->
                        IF n \in first..last THEN 10 * v + Digit[w[n]] ELSE v]]
    <2>1. G \in [Nat -> [Int -> Int]]
      BY <1>4
    <2>2. \A n \in first..last : n \in Nat /\ \A v \in Int : G[n][v] = 10 * v + Digit[w[n]]
      BY <1>2, <1>5
    <2>3. PICK f : Computes(f, Int, 0, b, k, G)
      <3>1. 0 \in Int
        OBVIOUS
      <3> HIDE DEF G, b, k
      <3> QED
        BY <1>6, <2>1, <3>1, Recursion
    <2>4. /\ f \in [b..last -> Int] /\ f[b] = 0
          /\ \A j \in first..last : f[j] = G[j][f[j - 1]]
      <3> HIDE DEF G, b, k
      <3> QED
        BY <1>6, <2>3 DEF Computes
    <2>5. \A n \in b..last : n < first => n = b
      BY <1>2, <1>5
    <2>6. \A n \in b..last : ~(n < first) => n \in first..last /\ n - 1 \in b..last
      BY <1>2, <1>5
    <2>7. f = [n \in b..last |-> IF n < first THEN 0 ELSE 10 * f[n - 1] + Digit[w[n]]]
      <3> HIDE DEF G, b, k
      <3> QED
        BY <2>2, <2>4, <2>5, <2>6
    <2> QED
      BY <2>7
  <1>8. Solves(val)
    <2> HIDE DEF Solves
    <2> QED
      BY <1>7
  <1> HIDE DEF val
  <1>9. \A n \in b..last : val[n] = IF n < first THEN 0 ELSE 10 * val[n - 1] + Digit[w[n]]
    BY <1>8
  <1> DEFINE T == {n \in b..last : val[n] \notin Int}
  <1>10. T = {}
    <2>1. SUFFICES ASSUME T # {} PROVE FALSE
      BY <2>1
    <2>2. PICK m \in T : \A n \in T : m <= n
      <3>1. T \in SUBSET Nat
        BY <1>6
      <3> HIDE DEF T
      <3> QED
        BY <2>1, <3>1, Least
    <2>3. m \in b..last /\ val[m] \notin Int
      BY <2>2
    <2>4. ~(m < first)
      BY <1>9, <2>3
    <2>5. m \in first..last /\ m - 1 \in b..last /\ ~(m <= m - 1)
      BY <1>2, <1>5, <2>3, <2>4
    <2>6. val[m - 1] \in Int
      BY <2>2, <2>5
    <2>7. val[m] = 10 * val[m - 1] + Digit[w[m]]
      BY <1>9, <2>3, <2>4
    <2> QED
      BY <1>4, <2>3, <2>5, <2>6, <2>7
  <1>11. val[last] \in Int
    <2>1. last \in b..last
      BY <1>2, <1>5
    <2> QED
      BY <1>10, <2>1
  <1> QED
    BY <1>1, <1>11

-----------------------------------------------------------------------------
(* A read.                                                                 *)

\* What a read of n bytes does to the buffer and the histories.
LEMMA ReadFacts ==
    ASSUME BufferInv, NEW n \in 1..Len(wire), NEW s, Receive(n, s)
    PROVE  \E bytes \in Seq(Char) : \E full \in [1..BufSize -> Byte] :
              /\ Len(bytes) = n /\ n <= BufSize
              /\ \A i \in 1..BufSize : full[i] = IF i <= n THEN bytes[i] ELSE read_buffer[i]
              /\ s \in CString(full)
              /\ read_buffer' \in [1..BufSize -> Byte]
              /\ \A i \in 1..BufSize : read_buffer'[i] \in {Nul, full[i]}
              /\ reads' = Append(reads, bytes) /\ strings' = Append(strings, s)
  <1> DEFINE bytes == SubSeq(wire, 1, n)
             full  == Overwrite(bytes)
  <1>1. BufSize \in Nat /\ wire \in Seq(Char) /\ Len(wire) \in Nat
    BY BufferAssumption DEF BufferInv
  <1>2. bytes \in Seq(Char) /\ Len(bytes) = n /\ \A i \in 1..n : bytes[i] \in Char
    BY <1>1
  <1>3. n <= BufSize /\ s \in CString(full)
        /\ reads' = Append(reads, bytes) /\ strings' = Append(strings, s)
        /\ read_buffer' = Strtok(full, s)
    BY DEF Receive
  <1> HIDE DEF bytes
  <1>4. /\ full = [i \in 1..BufSize |-> IF i <= n THEN bytes[i] ELSE read_buffer[i]]
        /\ full \in [1..BufSize -> Byte]
    BY <1>1, <1>2, Bytes DEF Overwrite, BufferInv
  <1>5. /\ read_buffer' \in [1..BufSize -> Byte]
        /\ \A i \in 1..BufSize : read_buffer'[i] \in {Nul, full[i]}
    <2> HIDE DEF full
    <2> DEFINE cut == {w[2] + 1 : w \in {v \in Words(s) : Rank(s, v) <= 3}}
    <2>1. read_buffer' = [i \in 1..BufSize |-> IF i \in cut THEN Nul ELSE full[i]]
      BY <1>3 DEF Strtok
    <2> HIDE DEF cut
    <2> QED
      BY <1>4, <2>1, Bytes
  <1>6. \A i \in 1..BufSize : full[i] = IF i <= n THEN bytes[i] ELSE read_buffer[i]
    BY <1>4
  <1> HIDE DEF full
  <1> QED
    BY <1>2, <1>3, <1>4, <1>5, <1>6

LEMMA ReadInv ==
    ASSUME BufferInv, StringAsRead, OwnBytes,
           NEW n \in 1..Len(wire), NEW s, Receive(n, s)
    PROVE  BufferInv' /\ StringAsRead' /\ OwnBytes' /\ Len(strings') = Len(strings) + 1
  <1>1. PICK bytes \in Seq(Char), full \in [1..BufSize -> Byte] :
              /\ Len(bytes) = n /\ n <= BufSize
              /\ \A i \in 1..BufSize : full[i] = IF i <= n THEN bytes[i] ELSE read_buffer[i]
              /\ s \in CString(full)
              /\ read_buffer' \in [1..BufSize -> Byte]
              /\ \A i \in 1..BufSize : read_buffer'[i] \in {Nul, full[i]}
              /\ reads' = Append(reads, bytes) /\ strings' = Append(strings, s)
    BY ReadFacts
  <1> DEFINE r == Len(reads) + 1
  <1>2. /\ BufSize \in Nat /\ BufSize > 0 /\ Len(wire) \in Nat /\ n \in Nat
        /\ Len(reads) \in Nat /\ Len(reads) = Len(strings) /\ r \in Nat
    BY BufferAssumption DEF BufferInv
  <1>3. /\ reads' \in Seq(Seq(Char)) /\ Len(reads') = r
        /\ reads'[r] = bytes /\ \A j \in 1..Len(reads) : reads'[j] = reads[j]
    BY <1>1 DEF BufferInv
  <1>4. s \in Seq(Byte)
    BY <1>1, CStringType
  <1>5. /\ strings' \in Seq(Seq(Byte)) /\ Len(strings') = r
        /\ strings'[r] = s /\ \A j \in 1..Len(reads) : strings'[j] = strings[j]
    BY <1>1, <1>2, <1>4 DEF BufferInv
  <1>6. \A j \in 1..r : j = r \/ j \in 1..Len(reads)
    BY <1>2
  <1>7. \A i \in 1..n : bytes[i] \in Char /\ bytes[i] # Foreign
    BY <1>1, Bytes
  <1> HIDE DEF r
  \* Beyond this read and all before it, the buffer is as it was.
  <1>8. ASSUME NEW i \in 1..BufSize, \A j \in 1..r : Len(reads'[j]) < i
        PROVE  full[i] = Nul
    <2>1. \A j \in 1..Len(reads) : Len(reads[j]) < i
      BY <1>2, <1>3, <1>8 DEF r
    <2>2. n < i
      BY <1>1, <1>2, <1>3, <1>8 DEF r
    <2> QED
      BY <1>1, <1>2, <2>1, <2>2 DEF BufferInv
  <1>9. ASSUME \A j \in 1..r : Len(reads'[j]) # BufSize
        PROVE  /\ n < BufSize /\ full[BufSize] = Nul
               /\ \A i \in 1..BufSize : full[i] # Foreign
    <2>1. n < BufSize
      BY <1>1, <1>2, <1>3, <1>9 DEF r
    <2>2. \A j \in 1..Len(reads) : Len(reads[j]) # BufSize
      BY <1>2, <1>3, <1>9 DEF r
    <2>3. \A j \in 1..Len(reads) : Len(reads[j]) < BufSize
      <3>1. \A j \in 1..Len(reads) : Len(reads[j]) \in Nat /\ Len(reads[j]) <= BufSize
        BY <1>2 DEF BufferInv
      <3> QED
        BY <1>2, <2>2, <3>1
    <2>4. read_buffer[BufSize] = Nul /\ BufSize \in 1..BufSize
      BY <1>2, <2>3 DEF BufferInv
    <2>5. \A i \in 1..BufSize : read_buffer[i] # Foreign
      BY <2>2 DEF BufferInv
    <2>6. full[BufSize] = read_buffer[BufSize]
      BY <1>1, <1>2, <2>1, <2>4
    <2>7. \A i \in 1..BufSize : full[i] # Foreign
      <3>1. \A i \in 1..BufSize : i \in 1..n \/ full[i] = read_buffer[i]
        BY <1>1, <1>2
      <3>2. \A i \in 1..n : i \in 1..BufSize /\ full[i] = bytes[i]
        BY <1>1, <1>2
      <3> QED
        BY <1>7, <2>5, <3>1, <3>2
    <2> QED
      BY <2>1, <2>4, <2>6, <2>7
  <1>10. BufferInv'
    <2>1. wire' \in Seq(Char)
      BY <1>2 DEF BufferInv, Receive
    <2>2. \A j \in 1..Len(reads') : Len(reads'[j]) <= BufSize
      BY <1>1, <1>3, <1>6 DEF BufferInv
    <2>3. \A i \in 1..BufSize :
              (\A j \in 1..Len(reads') : Len(reads'[j]) < i) => read_buffer'[i] = Nul
      BY <1>1, <1>3, <1>8
    <2>4. (\A j \in 1..Len(reads') : Len(reads'[j]) # BufSize) =>
              \A i \in 1..BufSize : read_buffer'[i] # Foreign
      BY <1>1, <1>3, <1>9, Bytes
    <2> QED
      BY <1>1, <1>3, <1>5, <2>1, <2>2, <2>3, <2>4 DEF BufferInv
  <1>11. StringAsRead'
    <2> SUFFICES ASSUME NEW i \in 1..r,
                        \/ \E p \in 1..Len(reads'[i]) : reads'[i][p] = Nul
                        \/ \A j \in 1..i : /\ ~(Len(reads'[j]) > Len(reads'[i]))
                                           /\ Len(reads'[j]) # BufSize
                 PROVE  strings'[i] = Text(reads'[i])
      BY <1>3 DEF StringAsRead
    <2>1. CASE i \in 1..Len(reads)
      <3>1. \A j \in 1..i : reads'[j] = reads[j] /\ j \in 1..Len(reads)
        BY <1>2, <1>3, <2>1
      <3>2. strings[i] = Text(reads[i])
        <4>1. i \in 1..i /\ reads'[i] = reads[i]
          BY <1>2, <2>1, <3>1
        <4>2. \/ \E p \in 1..Len(reads[i]) : reads[i][p] = Nul
              \/ \A j \in 1..i : ~(Len(reads[j]) > Len(reads[i])) /\ Len(reads[j]) # BufSize
          BY <3>1, <4>1
        <4> QED
          BY <2>1, <4>2 DEF StringAsRead
      <3> QED
        BY <1>3, <1>5, <2>1, <3>2
    <2>2. CASE i = r
      <3>1. \A p \in 1..n : p \in 1..BufSize /\ full[p] = bytes[p]
        BY <1>1, <1>2
      <3>2. CASE \E p \in 1..n : bytes[p] = Nul
        <4>1. PICK k \in 1..BufSize :
                  /\ full[k] = Nul /\ \A j \in 1..(k - 1) : full[j] # Nul
                  /\ Len(s) = k - 1
                  /\ \A p \in 1..(k - 1) : s[p] = full[p]
          BY <1>1, <3>1, <3>2, CStringEnds
        <4>2. k \in 1..n /\ \A j \in 1..(k - 1) : j \in 1..n
          <5>1. PICK p \in 1..n : full[p] = Nul
            BY <3>1, <3>2
          <5>2. p \notin 1..(k - 1)
            BY <4>1, <5>1
          <5>3. k \in Nat /\ k >= 1 /\ p \in Nat /\ p >= 1 /\ p <= n
            BY <1>2
          <5>4. k <= p
            BY <5>2, <5>3
          <5> QED
            BY <1>2, <5>3, <5>4
        <4>3. /\ Text(bytes) \in Seq(Byte) /\ Len(Text(bytes)) = k - 1
              /\ \A p \in 1..(k - 1) : Text(bytes)[p] = bytes[p]
          <5>1. bytes[k] = Nul /\ \A j \in 1..(k - 1) : bytes[j] # Nul
            BY <3>1, <4>1, <4>2
          <5> QED
            BY <1>1, <4>2, <5>1, TextEnds
        <4>4. Len(s) = Len(Text(bytes)) /\ \A p \in 1..Len(s) : s[p] = Text(bytes)[p]
          BY <3>1, <4>1, <4>2, <4>3
        <4>5. s = Text(bytes)
          BY <1>4, <4>3, <4>4, SeqEqual
        <4> QED
          BY <1>3, <1>5, <2>2, <4>5
      <3>3. CASE ~\E p \in 1..n : bytes[p] = Nul
        <4>0. \A j \in 1..r : ~(Len(reads'[j]) > n) /\ Len(reads'[j]) # BufSize
          BY <1>1, <1>3, <2>2, <3>3
        <4>1. n < BufSize /\ n + 1 \in 1..BufSize
          BY <1>2, <1>9, <4>0
        <4>2. \A j \in 1..r : Len(reads'[j]) < n + 1
          <5>1. \A j \in 1..r : Len(reads'[j]) \in Nat
            BY <1>3
          <5> QED
            BY <1>2, <4>0, <5>1
        <4>3. full[n + 1] = Nul
          BY <1>8, <4>1, <4>2
        <4>4. PICK k \in 1..BufSize :
                  /\ full[k] = Nul /\ \A j \in 1..(k - 1) : full[j] # Nul
                  /\ Len(s) = k - 1
                  /\ \A p \in 1..(k - 1) : s[p] = full[p]
          BY <1>1, <4>1, <4>3, CStringEnds
        <4>5. k = n + 1
          <5>1. \A p \in 1..n : full[p] # Nul
            BY <3>1, <3>3
          <5> QED
            BY <1>2, <4>1, <4>3, <4>4, <5>1
        <4>6. Len(s) = Len(bytes) /\ \A p \in 1..Len(s) : s[p] = bytes[p]
          <5>1. k - 1 = n
            BY <1>2, <4>5
          <5>2. Len(s) = n /\ \A p \in 1..n : s[p] = full[p]
            BY <4>4, <5>1
          <5> QED
            BY <1>1, <3>1, <5>2
        <4>7. bytes \in Seq(Byte)
          BY <1>1, Bytes
        <4>8. s = bytes
          BY <1>4, <4>6, <4>7, SeqEqual
        <4>9. Text(bytes) = bytes
          BY <1>1, <3>3 DEF Text
        <4> QED
          BY <1>3, <1>5, <2>2, <4>8, <4>9
      <3> QED
        BY <3>2, <3>3
    <2> QED
      BY <1>6, <2>1, <2>2
  <1>12. OwnBytes'
    <2> SUFFICES ASSUME NEW i \in 1..r, NEW p \in 1..Len(strings'[i]),
                        strings'[i][p] = Foreign,
                        \A j \in 1..i : Len(reads'[j]) # BufSize
                 PROVE  FALSE
      BY <1>5 DEF OwnBytes
    <2>1. CASE i \in 1..Len(reads)
      <3>1. \A j \in 1..i : reads'[j] = reads[j] /\ j \in 1..Len(reads)
        BY <1>2, <1>3, <2>1
      <3>2. i \in 1..Len(strings) /\ strings'[i] = strings[i]
        BY <1>2, <1>5, <2>1
      <3> QED
        BY <3>1, <3>2 DEF OwnBytes
    <2>2. CASE i = r
      <3>1. full[BufSize] = Nul /\ \A q \in 1..BufSize : full[q] # Foreign
        BY <1>9, <2>2
      <3>2. s \in CString(full) /\ \E q \in 1..BufSize : full[q] = Nul
        BY <1>1, <1>2, <3>1
      <3>3. PICK k \in 1..BufSize :
                Len(s) = k - 1 /\ \A q \in 1..(k - 1) : s[q] = full[q]
        BY <3>2, CStringEnds
      <3> QED
        BY <1>2, <1>5, <2>2, <3>1, <3>3
    <2> QED
      BY <1>6, <2>1, <2>2
  <1> QED
    BY <1>2, <1>5, <1>10, <1>11, <1>12 DEF r

-----------------------------------------------------------------------------
(* The two lookups.                                                        *)

\* A find that finds something finds the entry.
LEMMA LookupFinds ==
    ASSUME NEW key, NEW res \in Lookup(key), res # <<>>
    PROVE  key \in DOMAIN resourceMap /\ res = resourceMap[key]
  BY DEF Lookup

LEMMA NothingInRange == \A i : ~InRange(<<>>, i)
  BY DEF InRange

\* Init only adds to the map.
LEMMA MapGrows ==
    ASSUME PlatformNext, NEW key \in DOMAIN resourceMap
    PROVE  key \in DOMAIN resourceMap' /\ resourceMap'[key] = resourceMap[key]
  <1>1. CASE FileEntry
    BY <1>1 DEF FileEntry, Insert
  <1>2. CASE ~FileEntry
    BY <1>2 DEF PlatformNext, Open, GetPlatformType, ForkPUList, NextPU, ForkOnePU,
                CreateResource, InitReturns
  <1> QED
    BY <1>1, <1>2

\* LookupInv and LookupFault, when the strings and the threads are as before.
LEMMA SameThreads ==
    ASSUME LookupInv, LookupFault, Running, UNCHANGED <<strings, client, loop, thread>>,
           fault' = fault, Known => Known'
    PROVE  LookupInv' /\ LookupFault'
  <1>1. fault' # "resource"
    BY DEF Running
  <1> QED
    BY <1>1 DEF LookupInv, LookupFault, thread

-----------------------------------------------------------------------------

LEMMA InitInv == ASSUME Init PROVE Inv
  <1>1. BufferInv /\ StringAsRead /\ OwnBytes
    <2>1. read_buffer \in [1..BufSize -> Byte] /\ \A i \in 1..BufSize : read_buffer[i] = Nul
      BY Bytes DEF Init, BufferInit
    <2>2. reads = <<>> /\ strings = <<>> /\ wire = <<>>
      BY DEF Init, BufferInit
    <2> QED
      BY <2>1, <2>2, Bytes DEF BufferInv, StringAsRead, OwnBytes
  <1>2. LookupInv /\ LookupFault
    BY DEF Init, LookupInv, LookupFault
  <1> QED
    BY <1>1, <1>2 DEF Inv

LEMMA StepInv == ASSUME Inv, [Next]_vars PROVE Inv'
  <1> USE DEF Inv
  <1>1. ASSUME UNCHANGED buffer PROVE BufferInv' /\ StringAsRead' /\ OwnBytes'
    BY <1>1 DEF buffer, BufferInv, StringAsRead, OwnBytes
  <1>2. CASE UNCHANGED vars
    <2>1. LookupInv' /\ LookupFault'
      BY <1>2 DEF vars, platform, connection, thread, buffer, LookupInv, LookupFault, Known,
                  Rebalancing
    <2> QED
      BY <1>1, <1>2, <2>1 DEF vars
  <1>3. CASE Running /\ MainStep
    <2>1. Known => Known'
      BY <1>3, MapGrows DEF MainStep, connection, Known, InRange
    <2>2. LookupInv' /\ LookupFault'
      BY <1>3, <2>1, SameThreads DEF MainStep, connection, buffer
    <2> QED
      BY <1>1, <1>3, <2>2 DEF MainStep
  <1>4. CASE Running /\ ClientStep
    <2>1. PICK m \in Message : ClientSends(m)
      BY <1>4 DEF ClientStep
    <2>2. wire' \in Seq(Char)
      BY <2>1, BufferAssumption DEF ClientSends, BufferInv
    <2>3. BufferInv' /\ StringAsRead' /\ OwnBytes'
      BY <2>1, <2>2 DEF ClientSends, BufferInv, StringAsRead, OwnBytes
    <2>4. LookupInv' /\ LookupFault'
      BY <1>4, <2>1, SameThreads DEF ClientStep, ClientSends, connection, platform, Known
    <2> QED
      BY <2>3, <2>4
  <1>5. CASE Running /\ ReadCB
    <2> PICK n \in 1..Len(wire) : \E s \in CString(Overwrite(SubSeq(wire, 1, n))) : Receive(n, s)
      BY <1>5 DEF ReadCB
    <2>1. PICK s \in CString(Overwrite(SubSeq(wire, 1, n))) : Receive(n, s)
      OBVIOUS
    <2>2. BufferInv' /\ StringAsRead' /\ OwnBytes' /\ Len(strings') = Len(strings) + 1
      BY <2>1, ReadInv
    <2>3. Len(strings) \in Nat
      BY DEF BufferInv
    <2>4. /\ vpc' = vpc /\ selectInfo' = selectInfo
          /\ fault' = "null" \/ fault' = fault
      BY <1>5 DEF ReadCB, thread
    <2>5. LookupInv'
      BY <2>2, <2>3, <2>4 DEF LookupInv
    <2>6. LookupFault'
      BY <1>5, <2>4 DEF LookupFault, Running
    <2> QED
      BY <2>2, <2>5, <2>6
  <1>6. CASE Running /\ SearchVideo
    <2>1. PICK res \in Lookup(client.puid) :
              \/ Found(res, client.index) /\ vpc' = [vpc EXCEPT ![Len(strings)] = "find"]
              \/ vpc' = vpc
      BY <1>6 DEF SearchVideo
    <2>2. Found(res, client.index) => Known
      BY LookupFinds, NothingInRange DEF Found, Known
    <2>3. Known' <=> Known
      BY <1>6 DEF SearchVideo, platform, Known
    <2>4. /\ vpc' \in [Thread -> {"unused", "find", "start", "done"}]
          /\ \A t \in Thread : vpc'[t] = vpc[t] \/ (vpc'[t] = "find" /\ Known)
      BY <2>1, <2>2 DEF LookupInv
    <2>5. Len(strings') >= 1 /\ Len(strings') = Len(strings)
      BY <1>6 DEF SearchVideo, LookupInv, buffer
    <2>6. LookupInv'
      BY <1>6, <2>3, <2>4, <2>5 DEF SearchVideo, LookupInv
    <2>7. LookupFault'
      BY <1>6 DEF SearchVideo, LookupFault, Running
    <2> QED
      BY <1>1, <1>6, <2>6, <2>7 DEF SearchVideo
  <1>7. CASE Running /\ (AfterRecvError \/ PrepareCB)
    <2>1. LookupInv' /\ LookupFault'
      BY <1>7, SameThreads DEF AfterRecvError, PrepareCB, buffer, platform, Known
    <2> QED
      BY <1>1, <1>7, <2>1 DEF AfterRecvError, PrepareCB
  <1>8. CASE Running /\ MapRace
    <2>1. LookupInv' /\ LookupFault'
      BY <1>8 DEF MapRace, LookupInv, LookupFault, buffer, platform, connection, thread, Known
    <2> QED
      BY <1>1, <1>8, <2>1 DEF MapRace
  <1>9. ASSUME Running, NEW t \in Thread, GetIV_Find(t) PROVE Inv'
    <2>1. PICK res \in Lookup(client.puid) :
              \/ /\ res # <<>>
                 /\ selectInfo' = [selectInfo EXCEPT ![t] = res]
                 /\ vpc' = [vpc EXCEPT ![t] = "start"]
                 /\ fault' = fault
              \/ /\ res = <<>>
                 /\ fault' = "resource"
                 /\ UNCHANGED <<selectInfo, vpc>>
      BY <1>9 DEF GetIV_Find
    <2>2. vpc[t] = "find" /\ UNCHANGED <<strings, client, loop, resourceMap, main, filing>>
      BY <1>9 DEF GetIV_Find, buffer, platform, connection
    <2>3. Known' <=> Known
      BY <2>2 DEF Known
    <2>4. Known => res = resourceMap[client.puid] \/ (res = <<>> /\ Rebalancing)
      BY DEF Known, Lookup
    <2>5. Known /\ res # <<>> => InRange(res, client.index)
      BY <2>4 DEF Known
    <2>6. LookupInv'
      BY <2>1, <2>2, <2>3, <2>5 DEF LookupInv
    <2>7. Known /\ res = <<>> => Rebalancing'
      BY <2>2, <2>4, NothingInRange DEF Known, Rebalancing
    <2>8. Len(strings) \in Nat
      BY DEF BufferInv
    <2>9. LookupFault'
      BY <1>9, <2>1, <2>2, <2>7, <2>8 DEF LookupFault, LookupInv, Running
    <2> QED
      BY <1>1, <1>9, <2>6, <2>9 DEF GetIV_Find
  <1>10. ASSUME Running, NEW t \in Thread, GetIV_StartStream(t) PROVE Inv'
    <2>1. /\ vpc[t] = "start"
          /\ \/ vpc' = [vpc EXCEPT ![t] = "done"] /\ fault' = fault
             \/ /\ ~InRange(selectInfo[t], client.index)
                /\ fault' = "resource" /\ vpc' = vpc
      BY <1>10 DEF GetIV_StartStream
    <2>2. UNCHANGED <<strings, client, loop, resourceMap, selectInfo>>
      BY <1>10 DEF GetIV_StartStream, buffer, platform, connection
    <2>3. Known' <=> Known
      BY <2>2 DEF Known
    <2>4. LookupInv'
      BY <2>1, <2>2, <2>3 DEF LookupInv
    <2>5. Len(strings) \in Nat
      BY DEF BufferInv
    <2>6. LookupFault'
      BY <1>10, <2>1, <2>2, <2>5 DEF LookupFault, LookupInv, Running
    <2> QED
      BY <1>1, <1>10, <2>4, <2>6 DEF GetIV_StartStream
  <1> QED
    BY <1>2, <1>3, <1>4, <1>5, <1>6, <1>7, <1>8, <1>9, <1>10 DEF Next, Quiet

LEMMA SpecInv == Spec => []Inv
  BY InitInv, StepInv, PTL DEF Spec

\* The string ReadCB works with is what was read, unless an earlier read was
\* longer or one filled the buffer (AcceptClient::AfterRecv copies a read over
\* the start of read_buffer and does not clear the rest).
THEOREM StringIsRead == Spec => []StringAsRead
  <1>1. Inv => StringAsRead
    BY DEF Inv
  <1> QED
    BY <1>1, SpecInv, PTL

\* Before a read has filled the whole buffer, no string has a byte from beyond
\* it: the memset of the constructor ends every string.
THEOREM StringsEnd == Spec => []OwnBytes
  <1>1. Inv => OwnBytes
    BY DEF Inv
  <1> QED
    BY <1>1, SpecInv, PTL

\* GetIV's unchecked lookup fails only after a second string of the connection
\* or while the main thread links an entry into the map.
THEOREM LookupFails == Spec => []LookupFault
  <1>1. Inv => LookupFault
    BY DEF Inv
  <1> QED
    BY <1>1, SpecInv, PTL

-----------------------------------------------------------------------------
(* Types.                                                                  *)

TypeInv ==
    /\ BufferTypeOK /\ PlatformInv /\ ConnectionTypeOK
    /\ opened = [t \in Thread |-> opened[t]]
    /\ loop = "search" => \A t \in Thread : vpc[t] # "unused" => t < Len(strings)

\* A request's index is a number.
LEMMA RequestIsTyped == ASSUME NEW s \in Seq(Byte) PROVE Request(s).index \in Int
  <1>1. CASE Word(s, 2) = <<>>
    BY <1>1 DEF Request
  <1>2. CASE Word(s, 2) # <<>>
    <2>1. PICK w \in Words(s) : Word(s, 2) = SubSeq(s, w[1], w[2])
      BY <1>2, WordIsThere
    <2>2. Word(s, 2) \in Seq(Byte)
      <3> DEFINE I == 1..Len(s)
      <3>1. w \in I \X I
        BY DEF Words
      <3>2. w[1] \in I /\ w[2] \in I
        <4> HIDE DEF I
        <4> QED
          BY <3>1
      <3> DEFINE i == w[1]
                 j == w[2]
      <3>3. i \in 1..Len(s) /\ j \in 1..Len(s)
        BY <3>2
      <3> HIDE DEF i, j
      <3>4. SubSeq(s, i, j) \in Seq(Byte)
        BY <3>3
      <3> QED
        BY <2>1, <3>4 DEF i, j
    <2>3. Atoi(Word(s, 2)) \in Int
      BY <2>2, AtoiIsNumber
    <2> QED
      BY <1>2, <2>3 DEF Request
  <1> QED
    BY <1>1, <1>2

LEMMA TypeInit == ASSUME Init PROVE TypeInv
  <1>1. PlatformInv
    BY PlatformStarts DEF Init
  <1>2. BufferTypeOK
    <2>1. MaxMessages \in Nat
      BY BufferAssumption
    <2> QED
      BY <2>1 DEF Init, BufferInit, BufferTypeOK
  <1>3. /\ loop = "idle" /\ registered = {} /\ client.index = 0 /\ fault = "none"
        /\ vpc = [t \in Thread |-> "unused"] /\ opened = [t \in Thread |-> NoRes]
    BY DEF Init
  <1>4. reading \in BOOLEAN /\ asked \in BOOLEAN /\ told \in BOOLEAN
    BY DEF Init
  <1>5. /\ vpc \in [Thread -> {"unused", "find", "start", "done"}]
        /\ \A t \in Thread : vpc[t] = "unused" /\ opened[t] = NoRes
        /\ opened = [t \in Thread |-> opened[t]]
    BY <1>3
  <1>6. client.index \in Int /\ registered \subseteq {strings[i] : i \in 1..Len(strings)}
    BY <1>3
  <1>7. ConnectionTypeOK
    BY <1>3, <1>4, <1>5, <1>6 DEF ConnectionTypeOK
  <1> QED
    BY <1>1, <1>2, <1>3, <1>5, <1>7 DEF TypeInv

LEMMA ReadTypes ==
    ASSUME BufferInv, BufferInv', TypeInv, Running, ReadCB
    PROVE  /\ BufferTypeOK' /\ ConnectionTypeOK' /\ opened' = [t \in Thread |-> opened'[t]]
           /\ loop' = "search" => \A t \in Thread : vpc'[t] # "unused" => t < Len(strings')
  <1>1. PICK n \in 1..Len(wire) : \E s \in CString(Overwrite(SubSeq(wire, 1, n))) :
            /\ Receive(n, s)
            /\ \/ s \in registered
                  /\ UNCHANGED <<loop, registered, client, fault>>
               \/ s \notin registered /\ Words(s) # {}
                  /\ registered' = registered \cup {s}
                  /\ client' = Request(s)
                  /\ loop' = "search"
                  /\ UNCHANGED fault
               \/ s \notin registered /\ Words(s) = {}
                  /\ fault' = "null"
                  /\ UNCHANGED <<loop, registered, client>>
    BY DEF ReadCB
  <1>2. PICK s \in CString(Overwrite(SubSeq(wire, 1, n))) :
            /\ Receive(n, s)
            /\ \/ s \in registered
                  /\ UNCHANGED <<loop, registered, client, fault>>
               \/ s \notin registered /\ Words(s) # {}
                  /\ registered' = registered \cup {s}
                  /\ client' = Request(s)
                  /\ loop' = "search"
                  /\ UNCHANGED fault
               \/ s \notin registered /\ Words(s) = {}
                  /\ fault' = "null"
                  /\ UNCHANGED <<loop, registered, client>>
    BY <1>1
  <1>3. PICK bytes \in Seq(Char), full \in [1..BufSize -> Byte] :
            /\ Len(bytes) = n /\ n <= BufSize
            /\ s \in CString(full)
            /\ reads' = Append(reads, bytes) /\ strings' = Append(strings, s)
    <2>1. Receive(n, s)
      BY <1>2
    <2> QED
      BY <2>1, ReadFacts
  <1>4. s \in Seq(Byte)
    BY <1>3, CStringType
  <1>5. /\ Len(strings') = Len(strings) + 1 /\ Len(strings) \in Nat
        /\ strings'[Len(strings) + 1] = s
        /\ \A i \in 1..Len(strings) : strings'[i] = strings[i]
    BY <1>3, <1>4 DEF BufferInv
  <1>6. BufferTypeOK'
    <2>1. /\ Len(reads') = Len(reads) + 1 /\ Len(reads) \in Nat
          /\ reads'[Len(reads) + 1] = bytes
          /\ \A i \in 1..Len(reads) : reads'[i] = reads[i]
      BY <1>3 DEF BufferInv
    <2>2. \A i \in 1..Len(reads') : Len(reads'[i]) \in 1..BufSize
      BY <1>3, <2>1 DEF TypeInv, BufferTypeOK
    <2>3. sent' = sent
      BY <1>2 DEF Receive
    <2>4. DOMAIN read_buffer' = 1..BufSize /\ Len(reads') = Len(strings')
      BY DEF BufferInv
    <2> QED
      BY <2>2, <2>3, <2>4 DEF TypeInv, BufferTypeOK
  <1>7. UNCHANGED <<reading, asked, told, vpc, opened>>
    BY DEF ReadCB, thread
  <1>8. registered' \subseteq {strings'[i] : i \in 1..Len(strings')}
    <2>1. registered \subseteq {strings[i] : i \in 1..Len(strings)}
      BY DEF TypeInv, ConnectionTypeOK
    <2>2. registered' = registered \/ registered' = registered \cup {s}
      BY <1>2
    <2>3. Len(strings') \in 1..Len(strings') /\ \A i \in 1..Len(strings) : i \in 1..Len(strings')
      BY <1>5
    <2> QED
      BY <1>5, <2>1, <2>2, <2>3
  <1>9. client'.index \in Int
    BY <1>2, <1>4, RequestIsTyped DEF TypeInv, ConnectionTypeOK
  <1>10. /\ loop' \in {"idle", "search"}
         /\ fault' \in {"none", "null", "resource", "race"}
    BY <1>2 DEF TypeInv, ConnectionTypeOK
  <1>11. \A t \in Thread : vpc[t] # "unused" => t <= Len(strings') /\ t < Len(strings')
    <2>1. \A t \in Thread : t \in Int
      BY DEF Thread
    <2> QED
      BY <1>5, <2>1 DEF TypeInv, ConnectionTypeOK
  <1> QED
    BY <1>6, <1>7, <1>8, <1>9, <1>10, <1>11 DEF TypeInv, ConnectionTypeOK

\* What the other actions of the connection do to its types.
LEMMA ConnectionTypes ==
    ASSUME BufferInv, TypeInv, Running, UNCHANGED buffer,
           \/ SearchVideo \/ AfterRecvError \/ PrepareCB \/ MapRace
           \/ \E t \in Thread : GetIV_Find(t) \/ GetIV_StartStream(t)
    PROVE  /\ ConnectionTypeOK' /\ opened' = [t \in Thread |-> opened'[t]]
           /\ loop' = "search" => \A t \in Thread : vpc'[t] # "unused" => t < Len(strings')
  <1>1. ConnectionTypeOK /\ opened = [t \in Thread |-> opened[t]]
        /\ (loop = "search" => \A t \in Thread : vpc[t] # "unused" => t < Len(strings))
        /\ strings' = strings /\ Len(strings) \in Nat
    BY DEF TypeInv, buffer, BufferInv
  <1>2. CASE AfterRecvError \/ PrepareCB \/ MapRace
    BY <1>1, <1>2 DEF AfterRecvError, PrepareCB, MapRace, ConnectionTypeOK, connection, thread
  <1>3. CASE SearchVideo
    <2>1. /\ loop = "search" /\ loop' = "idle"
          /\ UNCHANGED <<reading, registered, client, opened, fault>>
          /\ vpc' = vpc \/ vpc' = [vpc EXCEPT ![Len(strings)] = "find"]
      BY <1>3 DEF SearchVideo
    <2>2. /\ vpc' \in [Thread -> {"unused", "find", "start", "done"}]
          /\ \A t \in Thread : vpc'[t] = vpc[t] \/ (vpc'[t] = "find" /\ t = Len(strings))
      BY <1>1, <2>1 DEF ConnectionTypeOK
    <2>5. asked' \in BOOLEAN /\ told' \in BOOLEAN
      BY <1>1, <1>3 DEF SearchVideo, ConnectionTypeOK
    \* The thread that starts has not run.
    <2>3. \A t \in Thread : vpc'[t] # "done" => opened[t] = NoRes
      <3>1. \A t \in Thread : t = Len(strings) => vpc[t] = "unused"
        BY <1>1, <2>1
      <3> QED
        BY <1>1, <2>2, <3>1 DEF ConnectionTypeOK
    <2>4. \A t \in Thread : vpc'[t] # "unused" => t <= Len(strings)
      BY <1>1, <2>2 DEF ConnectionTypeOK
    <2> QED
      BY <1>1, <2>1, <2>2, <2>3, <2>4, <2>5 DEF ConnectionTypeOK
  <1>4. ASSUME NEW t \in Thread, GetIV_Find(t)
        PROVE  /\ ConnectionTypeOK' /\ opened' = [u \in Thread |-> opened'[u]]
               /\ loop' = "search" =>
                     \A u \in Thread : vpc'[u] # "unused" => u < Len(strings')
    <2>1. /\ vpc[t] = "find" /\ UNCHANGED <<loop, reading, asked, told, registered, client, opened>>
          /\ fault' \in {fault, "resource"}
          /\ vpc' = vpc \/ vpc' = [vpc EXCEPT ![t] = "start"]
      BY <1>4 DEF GetIV_Find, connection
    <2>2. /\ vpc' \in [Thread -> {"unused", "find", "start", "done"}]
          /\ \A u \in Thread : vpc'[u] = vpc[u] \/ (u = t /\ vpc'[u] = "start")
      BY <1>1, <2>1 DEF ConnectionTypeOK
    <2> QED
      BY <1>1, <2>1, <2>2 DEF ConnectionTypeOK
  <1>5. ASSUME NEW t \in Thread, GetIV_StartStream(t)
        PROVE  /\ ConnectionTypeOK' /\ opened' = [u \in Thread |-> opened'[u]]
               /\ loop' = "search" =>
                     \A u \in Thread : vpc'[u] # "unused" => u < Len(strings')
    <2>1. /\ vpc[t] = "start" /\ UNCHANGED <<loop, reading, asked, told, registered, client>>
          /\ fault' \in {fault, "resource"}
          /\ \/ vpc' = vpc /\ opened' = opened
             \/ /\ vpc' = [vpc EXCEPT ![t] = "done"]
                /\ \/ opened' = opened
                   \/ opened' = [opened EXCEPT ![t] = selectInfo[t][client.index + 1]]
      BY <1>5 DEF GetIV_StartStream, connection
    <2>2. vpc' \in [Thread -> {"unused", "find", "start", "done"}]
      BY <1>1, <2>1 DEF ConnectionTypeOK
    <2>3. opened' = [u \in Thread |-> opened'[u]]
      BY <1>1, <2>1
    <2>4. \A u \in Thread : vpc'[u] = vpc[u] \/ (u = t /\ vpc'[u] = "done")
      BY <1>1, <2>1 DEF ConnectionTypeOK
    <2>5. \A u \in Thread : opened'[u] = opened[u] \/ (u = t /\ vpc'[t] = "done")
      <3>1. CASE opened' = opened
        BY <3>1
      <3>2. CASE opened' # opened
        <4>1. opened' = [opened EXCEPT ![t] = selectInfo[t][client.index + 1]]
          BY <2>1, <3>2
        <4>2. vpc'[t] = "done"
          BY <1>1, <2>1, <3>2 DEF ConnectionTypeOK
        <4>3. \A u \in Thread : u # t => opened'[u] = opened[u]
          BY <1>1, <4>1
        <4> QED
          BY <4>2, <4>3
      <3> QED
        BY <3>1, <3>2
    <2> QED
      BY <1>1, <2>1, <2>2, <2>3, <2>4, <2>5 DEF ConnectionTypeOK
  <1> QED
    BY <1>2, <1>3, <1>4, <1>5

LEMMA TypeStep == ASSUME Inv, Inv', TypeInv, [Next]_vars PROVE TypeInv'
  <1> USE DEF Inv
  <1>1. ASSUME UNCHANGED buffer PROVE BufferTypeOK'
    BY <1>1 DEF TypeInv, buffer, BufferTypeOK
  <1>2. ASSUME UNCHANGED platform PROVE PlatformInv'
    BY <1>2, PlatformStutters DEF TypeInv
  <1> DEFINE Rest == /\ ConnectionTypeOK /\ opened = [t \in Thread |-> opened[t]]
                     /\ loop = "search" =>
                           \A t \in Thread : vpc[t] # "unused" => t < Len(strings)
  <1>3. ASSUME UNCHANGED <<strings, connection, thread, fault>> PROVE Rest'
    BY <1>3 DEF TypeInv, ConnectionTypeOK, connection, thread
  <1>4. CASE UNCHANGED vars
    BY <1>1, <1>2, <1>3, <1>4 DEF vars, buffer, TypeInv
  <1>5. CASE Running /\ MainStep
    BY <1>1, <1>3, <1>5, PlatformSteps DEF MainStep, buffer, TypeInv
  <1>6. CASE Running /\ ClientStep
    <2>1. PICK m \in Message : ClientSends(m)
      BY <1>6 DEF ClientStep
    <2>2. BufferTypeOK'
      <3>1. sent' \in Seq(Message) /\ Len(sent') <= MaxMessages
        BY <2>1, BufferAssumption DEF ClientSends, TypeInv, BufferTypeOK
      <3> QED
        BY <2>1, <3>1 DEF ClientSends, TypeInv, BufferTypeOK
    <2> QED
      BY <1>2, <1>3, <1>6, <2>1, <2>2 DEF ClientStep, ClientSends, TypeInv
  <1>7. CASE Running /\ ReadCB
    <2>1. BufferTypeOK' /\ Rest'
      BY <1>7, ReadTypes
    <2> QED
      BY <1>2, <1>7, <2>1 DEF ReadCB, TypeInv
  <1>8. CASE Running /\ (\/ SearchVideo \/ AfterRecvError \/ PrepareCB \/ MapRace
                        \/ \E t \in Thread : GetIV_Find(t) \/ GetIV_StartStream(t))
    <2>1. UNCHANGED <<buffer, platform>>
      BY <1>8 DEF SearchVideo, AfterRecvError, PrepareCB, MapRace, GetIV_Find,
                  GetIV_StartStream
    <2>2. Rest'
      BY <1>8, <2>1, ConnectionTypes
    <2> QED
      BY <1>1, <1>2, <2>1, <2>2 DEF TypeInv
  <1> QED
    BY <1>4, <1>5, <1>6, <1>7, <1>8 DEF Next, Quiet

LEMMA SpecTypeInv == Spec => []TypeInv
  <1>1. Init => TypeInv
    BY TypeInit
  <1>2. Inv /\ Inv' /\ TypeInv /\ [Next]_vars => TypeInv'
    BY TypeStep
  <1> QED
    BY <1>1, <1>2, SpecInv, PTL DEF Spec

\* Type correctness of the connection, the buffer and the platform: in
\* particular no entry of resourceMap has more than GET_CNT resources, and a
\* thread has a stream only once GetIV is done.
THEOREM TypeCorrect == Spec => []TypeOK
  <1>1. TypeInv => TypeOK
    BY DEF TypeInv, TypeOK, PlatformInv, MapTypeInv
  <1> QED
    BY <1>1, SpecTypeInv, PTL

\* Init files every PU that is online and was read as it is, under its own id
\* with its own resources (C7Platform::Init), whatever the SDK holds and
\* whichever calls fail for the other PUs.
THEOREM EveryPuIsFiled == Spec => []AllFiled
  <1>1. TypeInv => AllFiled
    BY ReadyIsFiled DEF TypeInv
  <1> QED
    BY <1>1, SpecTypeInv, PTL

-----------------------------------------------------------------------------
(* The stream that is opened.                                              *)

\* SearchVideo finds a video for the client's request in the map.
HasVideo ==
    client.puid \in DOMAIN resourceMap /\ Found(resourceMap[client.puid], client.index)

\* While the connection has sent one string, it is what the client object
\* holds, and a thread works with the entry SearchVideo found for it.
AnswerInv ==
    /\ Len(strings) = 1 /\ (loop = "search" \/ \E t \in Thread : vpc[t] # "unused") =>
          client = Request(strings[1])
    /\ Len(strings) < 2 => \A t \in Thread :
          /\ vpc[t] \in {"find", "start"} \/ opened[t] # NoRes => HasVideo
          /\ vpc[t] = "start" => selectInfo[t] = resourceMap[client.puid]
          /\ opened[t] # NoRes => opened[t] = resourceMap[client.puid][client.index + 1]

LEMMA AnswerStep == ASSUME Inv, Inv', TypeInv, AnswerInv, [Next]_vars PROVE AnswerInv'
  <1> USE DEF Inv
  <1>0. /\ Len(strings) \in Nat /\ ConnectionTypeOK
        /\ opened = [t \in Thread |-> opened[t]] /\ selectInfo = [t \in Thread |-> selectInfo[t]]
        /\ vpc \in [Thread -> {"unused", "find", "start", "done"}]
    BY DEF TypeInv, ConnectionTypeOK, BufferInv, LookupInv
  <1>1. CASE UNCHANGED vars
    BY <1>1 DEF vars, buffer, platform, connection, thread, AnswerInv, HasVideo
  <1>2. CASE Running /\ MainStep
    <2>1. UNCHANGED <<strings, loop, client, vpc, selectInfo, opened>>
      BY <1>2 DEF MainStep, buffer, connection, thread
    <2>2. HasVideo => HasVideo' /\ resourceMap'[client.puid] = resourceMap[client.puid]
      BY <1>2, <2>1, MapGrows DEF MainStep, HasVideo
    <2>3. \A t \in Thread : vpc[t] = "start" => vpc[t] \in {"find", "start"}
      OBVIOUS
    <2> QED
      BY <2>1, <2>2, <2>3 DEF AnswerInv
  <1>3. CASE Running /\ ClientStep
    BY <1>3 DEF ClientStep, ClientSends, platform, connection, thread, AnswerInv, HasVideo
  <1>4. CASE Running /\ (AfterRecvError \/ PrepareCB)
    BY <1>4 DEF AfterRecvError, PrepareCB, buffer, platform, thread, AnswerInv, HasVideo
  <1>5. CASE Running /\ MapRace
    BY <1>5 DEF MapRace, buffer, platform, connection, thread, AnswerInv, HasVideo
  <1>6. CASE Running /\ ReadCB
    <2>1. PICK n \in 1..Len(wire) : \E s \in CString(Overwrite(SubSeq(wire, 1, n))) :
              /\ Receive(n, s)
              /\ \/ s \in registered
                    /\ UNCHANGED <<loop, registered, client, fault>>
                 \/ client' = Request(s)
                 \/ UNCHANGED <<loop, registered, client>> /\ fault' = "null"
      BY <1>6 DEF ReadCB
    <2>2. PICK s : /\ Receive(n, s)
                   /\ \/ s \in registered
                         /\ UNCHANGED <<loop, registered, client, fault>>
                      \/ client' = Request(s)
                      \/ UNCHANGED <<loop, registered, client>> /\ fault' = "null"
      BY <2>1
    <2>3. strings' = Append(strings, s)
      BY <2>2 DEF Receive
    <2>4. Len(strings') = Len(strings) + 1 /\ strings'[Len(strings) + 1] = s
      <3>1. strings \in Seq(Seq(Byte)) /\ strings' \in Seq(Seq(Byte))
        BY DEF BufferInv
      <3> QED
        BY <2>3, <3>1
    <2>5. UNCHANGED <<vpc, selectInfo, opened>> /\ loop = "idle"
      BY <1>6 DEF ReadCB, thread
    <2> SUFFICES ASSUME Len(strings) = 0 PROVE AnswerInv'
      BY <1>0, <2>4 DEF AnswerInv
    <2>6. registered = {} /\ \A t \in Thread : vpc[t] = "unused" /\ opened[t] = NoRes
      <3>1. \A t \in Thread : vpc[t] = "unused"
        BY DEF LookupInv
      <3>2. registered = {}
        BY <1>0 DEF ConnectionTypeOK
      <3> QED
        BY <1>0, <3>1, <3>2 DEF ConnectionTypeOK
    <2>7. loop' = "search" => client' = Request(strings'[1])
      BY <2>2, <2>4, <2>5, <2>6
    <2> QED
      BY <2>5, <2>6, <2>7 DEF AnswerInv
  <1>7. CASE Running /\ SearchVideo
    <2>1. PICK res \in Lookup(client.puid) :
              \/ Found(res, client.index) /\ vpc' = [vpc EXCEPT ![Len(strings)] = "find"]
              \/ vpc' = vpc
      BY <1>7 DEF SearchVideo
    <2>2. Found(res, client.index) => HasVideo
      BY LookupFinds, NothingInRange DEF Found, HasVideo
    <2>3. UNCHANGED <<strings, client, selectInfo, opened, resourceMap>> /\ loop = "search"
      BY <1>7 DEF SearchVideo, buffer, platform
    <2>4. (HasVideo' <=> HasVideo)
      BY <2>3 DEF HasVideo
    <2>5. \A t \in Thread : vpc'[t] = vpc[t] \/ (vpc'[t] = "find" /\ HasVideo)
      BY <1>0, <2>1, <2>2
    <2> QED
      BY <2>3, <2>4, <2>5 DEF AnswerInv
  <1>8. ASSUME Running, NEW t \in Thread, GetIV_Find(t) PROVE AnswerInv'
    <2>1. PICK res \in Lookup(client.puid) :
              \/ /\ res # <<>>
                 /\ selectInfo' = [selectInfo EXCEPT ![t] = res]
                 /\ vpc' = [vpc EXCEPT ![t] = "start"]
              \/ UNCHANGED <<selectInfo, vpc>>
      BY <1>8 DEF GetIV_Find
    <2>2. /\ vpc[t] = "find" /\ UNCHANGED <<strings, client, loop, resourceMap, opened>>
      BY <1>8 DEF GetIV_Find, buffer, platform, connection
    <2>3. HasVideo' <=> HasVideo
      BY <2>2 DEF HasVideo
    <2>4. res # <<>> => res = resourceMap[client.puid]
      BY LookupFinds
    <2>5. \A u \in Thread :
              \/ vpc'[u] = vpc[u] /\ selectInfo'[u] = selectInfo[u]
              \/ u = t /\ vpc'[u] = "start" /\ selectInfo'[u] = resourceMap[client.puid]
      <3>1. CASE UNCHANGED <<selectInfo, vpc>>
        BY <3>1
      <3>2. CASE ~UNCHANGED <<selectInfo, vpc>>
        <4>1. selectInfo' = [selectInfo EXCEPT ![t] = resourceMap[client.puid]]
              /\ vpc' = [vpc EXCEPT ![t] = "start"]
          BY <2>1, <2>4, <3>2
        <4>2. /\ selectInfo'[t] = resourceMap[client.puid]
              /\ \A u \in Thread : u # t => selectInfo'[u] = selectInfo[u]
          BY <1>0, <4>1
        <4>3. vpc'[t] = "start" /\ \A u \in Thread : u # t => vpc'[u] = vpc[u]
          BY <1>0, <4>1
        <4> QED
          BY <4>2, <4>3
      <3> QED
        BY <3>1, <3>2
    <2> QED
      BY <2>2, <2>3, <2>5 DEF AnswerInv
  <1>9. ASSUME Running, NEW t \in Thread, GetIV_StartStream(t) PROVE AnswerInv'
    <2>1. /\ vpc[t] = "start"
          /\ \/ opened' = opened /\ vpc' = [vpc EXCEPT ![t] = "done"]
             \/ /\ opened' = [opened EXCEPT ![t] = selectInfo[t][client.index + 1]]
                /\ vpc' = [vpc EXCEPT ![t] = "done"]
             \/ opened' = opened /\ vpc' = vpc
      BY <1>9 DEF GetIV_StartStream
    <2>2. UNCHANGED <<strings, client, loop, resourceMap, selectInfo>>
      BY <1>9 DEF GetIV_StartStream, buffer, platform, connection
    <2>3. HasVideo' <=> HasVideo
      BY <2>2 DEF HasVideo
    <2>4. \A u \in Thread : vpc'[u] = vpc[u] \/ (u = t /\ vpc'[u] = "done")
      BY <1>0, <2>1
    <2>5. \A u \in Thread :
              opened'[u] = opened[u] \/ (u = t /\ opened'[u] = selectInfo[t][client.index + 1])
      BY <1>0, <2>1
    <2> QED
      BY <2>1, <2>2, <2>3, <2>4, <2>5 DEF AnswerInv
  <1> QED
    BY <1>1, <1>2, <1>3, <1>4, <1>5, <1>6, <1>7, <1>8, <1>9 DEF Next, Quiet

LEMMA SpecAnswerInv == Spec => []AnswerInv
  <1>1. Init => AnswerInv
    BY DEF Init, BufferInit, AnswerInv
  <1>2. Inv /\ Inv' /\ TypeInv /\ AnswerInv /\ [Next]_vars => AnswerInv'
    BY AnswerStep
  <1> QED
    BY <1>1, <1>2, SpecInv, SpecTypeInv, PTL DEF Spec

\* When the one message of a client arrives in one read, a stream that GetIV
\* opens for it is the one its text names: whatever Init does meanwhile, and
\* although SearchVideo and GetIV both search the map without a lock.
THEOREM TheVideoAskedFor == Spec => []AskedIsOpened
  <1>1. Inv /\ TypeInv /\ AnswerInv => AskedIsOpened
    <2> SUFFICES ASSUME Inv, TypeInv, AnswerInv,
                        Len(reads) = 1, reads[1] = sent[1], Len(reads[1]) < BufSize,
                        misread = {}, NEW t \in Thread, opened[t] # NoRes
                 PROVE  opened[t] = Named(Request(Text(sent[1])))
      BY DEF AskedIsOpened
    <2>1. Len(strings) = 1
      BY DEF Inv, BufferInv
    <2>2. strings[1] = Text(sent[1])
      <3>1. /\ 1 \in 1..Len(reads) /\ \A j \in 1..1 : j = 1
            /\ Len(reads[1]) \in Nat /\ BufSize \in Nat
        BY BufferAssumption DEF Inv, BufferInv
      <3>2. \A j \in 1..1 : ~(Len(reads[j]) > Len(reads[1])) /\ Len(reads[j]) # BufSize
        BY <3>1
      <3> QED
        BY <3>1, <3>2 DEF Inv, StringAsRead
    <2>3. vpc[t] # "unused"
      BY DEF TypeInv, ConnectionTypeOK
    <2>4. client = Request(Text(sent[1]))
      BY <2>1, <2>2, <2>3 DEF AnswerInv
    <2>5. HasVideo /\ opened[t] = resourceMap[client.puid][client.index + 1]
      BY <2>1 DEF AnswerInv
    <2>6. resourceMap[client.puid] = Nameable(client.puid)
      BY <2>5 DEF HasVideo, TypeInv, PlatformInv, RightInv
    <2> QED
      BY <2>4, <2>5, <2>6 DEF HasVideo, Found, Named
  <1> QED
    BY <1>1, SpecInv, SpecTypeInv, SpecAnswerInv, PTL

\* After Init, SearchVideo refuses a client only a video the platform does not
\* have; before, it may also be one Init has not filed yet.
THEOREM RefusalsAreRight == Spec => OnlyUnknownRefused
  <1>1. TypeInv /\ [Next]_vars =>
            [told' /\ ~told /\ misread = {} =>
                main # "ready" \/ Named(client) = NoRes]_vars
    <2> SUFFICES ASSUME TypeInv, Next, told', ~told, misread = {}, main = "ready"
                 PROVE  Named(client) = NoRes
      OBVIOUS
    <2>1. SearchVideo
      BY DEF Next, Quiet, vars, MainStep, ClientStep, ReadCB, AfterRecvError, PrepareCB, MapRace,
             GetIV_Find, GetIV_StartStream, connection
    <2>2. PICK res \in Lookup(client.puid) : ~Found(res, client.index)
      BY <2>1 DEF SearchVideo
    <2>3. res = Nameable(client.puid)
      <3>1. CASE client.puid \in DOMAIN resourceMap
        <4>1. resourceMap[client.puid] = Nameable(client.puid)
          BY <3>1 DEF TypeInv, PlatformInv, RightInv
        <4> QED
          BY <3>1, <4>1 DEF Lookup, Rebalancing
      <3>2. CASE client.puid \notin DOMAIN resourceMap
        <4>1. Nameable(client.puid) = <<>>
          BY <3>2, UnfiledIsUnnamed DEF TypeInv
        <4> QED
          BY <3>2, <4>1 DEF Lookup
      <3> QED
        BY <3>1, <3>2
    <2> QED
      BY <2>2, <2>3 DEF Found, Named
  <1> QED
    BY <1>1, SpecTypeInv, PTL DEF Spec, OnlyUnknownRefused
=============================================================================
