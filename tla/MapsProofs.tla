----------------------------- MODULE MapsProofs -----------------------------
(***************************************************************************)
(* Proofs about DaemonMaps, for any keys, buckets and sizes.               *)
(*                                                                         *)
(* The inductive invariant says where a dump stands: whatever it owes, a   *)
(* key that was there from its beginning and has not been shown, is not    *)
(* before the key it stands on, neither in the map nor, should that key    *)
(* have gone and come back at the head of its bucket, in a bucket before   *)
(* that key's.                                                             *)
(***************************************************************************)
EXTENDS DaemonMaps, LoaderProofs, SequenceTheorems

Before(s, x, y) == \E i, j \in 1 .. Len(s) : i < j /\ s[i] = x /\ s[j] = y

Owed == dump.stable \ dump.seen

\* The walk will still come by x.
Ahead(x) ==
  \/ dump.cursor = NoKey
  \/ /\ Bucket[x] >= Bucket[dump.cursor]
     /\ ~Before(keys[dump.id], x, dump.cursor)
     /\ dump.at = "next" => x # dump.cursor

DumpInv ==
  dump # NoDump =>
    /\ dump \in Dump
    /\ programs[dump.id] # Vacant
    /\ dump.stable \subseteq Elements(keys[dump.id])
    /\ dump.at = "lookup" => dump.cursor \in Keys
    /\ dump.at = "ending" => dump.failed
    /\ ~dump.failed => \A x \in Owed : Ahead(x)

TablesInv ==
  /\ keys \in [Ids -> Seq(Keys)]
  /\ \A id \in Ids : Table(keys[id]) /\ (programs[id] = Vacant => keys[id] = <<>>)

MapsInv == TablesInv /\ DumpInv

-----------------------------------------------------------------------------

(* Deleting a key takes it out of the map and leaves the others in their     *)
(* order.                                                                    *)
LEMMA WithoutKeepsOrder ==
  ASSUME NEW s \in Seq(Keys), Table(s), NEW k
  PROVE  /\ Without(s, k) \in Seq(Keys)
         /\ Table(Without(s, k))
         /\ Elements(Without(s, k)) = Elements(s) \ {k}
         /\ Len(Without(s, k)) = IF k \in Elements(s) THEN Len(s) - 1 ELSE Len(s)
         /\ \A x, y : Before(Without(s, k), x, y) => Before(s, x, y)
<1>1. CASE k \notin Elements(s)
  BY <1>1 DEF Without
<1>2. CASE k \in Elements(s)
  <2> DEFINE p == Place(s, k)
             t == Without(s, k)
  <2>1. p \in 1 .. Len(s) /\ s[p] = k
    BY <1>2 DEF Place, Elements
  <2>2. t = SubSeq(s, 1, p - 1) \o SubSeq(s, p + 1, Len(s))
    BY <1>2 DEF Without
  <2> HIDE DEF p, t
  <2>3. /\ t \in Seq(Keys)
        /\ Len(t) = Len(s) - 1
        /\ \A i \in 1 .. Len(t) : t[i] = IF i < p THEN s[i] ELSE s[i + 1]
    <3> DEFINE a == SubSeq(s, 1, p - 1)
               b == SubSeq(s, p + 1, Len(s))
    <3>1. Len(s) \in Nat /\ \A i \in 1 .. Len(s) : s[i] \in Keys
      OBVIOUS
    <3>2. /\ a \in Seq(Keys) /\ Len(a) = p - 1
          /\ \A i \in 1 .. (p - 1) : a[i] = s[i]
      BY <2>1, <3>1, SubSeqProperties
    <3>3. /\ b \in Seq(Keys) /\ Len(b) = Len(s) - p
          /\ \A i \in 1 .. (Len(s) - p) : b[i] = s[p + i]
      BY <2>1, <3>1, SubSeqProperties
    <3> HIDE DEF a, b
    <3> DEFINE c == a \o b
    <3>4. /\ c \in Seq(Keys)
          /\ Len(c) = Len(a) + Len(b)
          /\ \A i \in 1 .. Len(a) + Len(b) :
               c[i] = IF i <= Len(a) THEN a[i] ELSE b[i - Len(a)]
      BY <3>2, <3>3, ConcatProperties
    <3> HIDE DEF c
    <3>5. Len(c) = Len(s) - 1
      BY <2>1, <3>1, <3>2, <3>3, <3>4
    <3>6. ASSUME NEW i \in 1 .. Len(c)
          PROVE  c[i] = IF i < p THEN s[i] ELSE s[i + 1]
      <4>1. i \in Nat /\ p \in Nat
        BY <2>1, <3>1, <3>5
      <4>2. CASE i < p
        <5>1. i \in 1 .. (p - 1) /\ i \in 1 .. Len(a) + Len(b) /\ i <= Len(a)
          BY <4>1, <4>2, <2>1, <3>1, <3>2, <3>4, <3>5
        <5>2. c[i] = a[i] /\ a[i] = s[i]
          BY <5>1, <3>2, <3>4
        <5> QED
          BY <4>2, <5>2
      <4>3. CASE ~ (i < p)
        <5>1. i - (p - 1) \in 1 .. (Len(s) - p) /\ p + (i - (p - 1)) = i + 1
          BY <4>1, <4>3, <2>1, <3>1, <3>5
        <5>2. b[i - (p - 1)] = s[i + 1]
          BY <5>1, <3>3
        <5>3. c[i] = b[i - (p - 1)]
          BY <4>1, <4>3, <2>1, <3>2, <3>4, <3>5
        <5> QED
          BY <4>3, <5>2, <5>3
      <4> QED
        BY <4>2, <4>3
    <3> QED
      BY <2>2, <3>4, <3>5, <3>6 DEF a, b, c
  <2>4. HashMax \in Nat
    BY KeysAssumption
  <2>5. Table(t)
    <3>1. ASSUME NEW i \in 1 .. Len(t), NEW j \in 1 .. Len(t), i < j
          PROVE  t[i] # t[j] /\ Bucket[t[i]] <= Bucket[t[j]]
      <4> DEFINE a == IF i < p THEN i ELSE i + 1
                 b == IF j < p THEN j ELSE j + 1
      <4>1. a \in 1 .. Len(s) /\ b \in 1 .. Len(s) /\ a < b /\ s[a] = t[i] /\ s[b] = t[j]
        BY <3>1, <2>1, <2>3
      <4> QED
        BY <4>1 DEF Table
    <3>2. Len(t) <= HashMax
      BY <2>3, <2>4 DEF Table
    <3> QED
      BY <3>1, <3>2 DEF Table
  <2>6. Elements(t) = Elements(s) \ {k}
    <3>1. ASSUME NEW x \in Elements(t) PROVE x \in Elements(s) \ {k}
      <4>1. PICK i \in 1 .. Len(t) : t[i] = x
        BY <3>1 DEF Elements
      <4> DEFINE j == IF i < p THEN i ELSE i + 1
      <4>2. j \in 1 .. Len(s) /\ j # p /\ s[j] = x
        BY <4>1, <2>1, <2>3
      <4> HIDE DEF j
      <4>3. s[j] # s[p]
        BY <4>2, <2>1 DEF Table
      <4> QED
        BY <4>2, <4>3, <2>1 DEF Elements
    <3>2. ASSUME NEW x \in Elements(s) \ {k} PROVE x \in Elements(t)
      <4>1. PICK i \in 1 .. Len(s) : s[i] = x
        BY <3>2 DEF Elements
      <4>2. CASE i < p
        BY <4>1, <4>2, <2>1, <2>3 DEF Elements
      <4>3. CASE i > p
        <5>1. i - 1 \in 1 .. Len(t) /\ t[i - 1] = x
          BY <4>1, <4>3, <2>1, <2>3
        <5> QED
          BY <5>1 DEF Elements
      <4> QED
        BY <4>1, <4>2, <4>3, <3>2, <2>1
    <3> QED
      BY <3>1, <3>2
  <2>7. ASSUME NEW x, NEW y, Before(t, x, y) PROVE Before(s, x, y)
    <3>1. PICK i, j \in 1 .. Len(t) : i < j /\ t[i] = x /\ t[j] = y
      BY <2>7 DEF Before
    <3> DEFINE a == IF i < p THEN i ELSE i + 1
               b == IF j < p THEN j ELSE j + 1
    <3>2. a \in 1 .. Len(s) /\ b \in 1 .. Len(s) /\ a < b /\ s[a] = x /\ s[b] = y
      BY <3>1, <2>1, <2>3
    <3> QED
      BY <3>2 DEF Before
  <2> QED
    BY <1>2, <2>3, <2>5, <2>6, <2>7 DEF t
<1> QED
  BY <1>1, <1>2

(* A key that is put at the head of its bucket comes after the keys of       *)
(* earlier buckets only, and leaves the others in their order.               *)
LEMMA InsertedKeepsOrder ==
  ASSUME NEW t \in Seq(Keys), Table(t), Len(t) < HashMax,
         NEW k \in Keys, k \notin Elements(t),
         NEW p \in 0 .. Len(t), IsHead(t, k, p)
  PROVE  /\ Inserted(t, k, p) \in Seq(Keys)
         /\ Table(Inserted(t, k, p))
         /\ Elements(Inserted(t, k, p)) = Elements(t) \cup {k}
         /\ \A x, y : Before(Inserted(t, k, p), x, y) =>
              Before(t, x, y) \/ x = k \/ (y = k /\ Bucket[x] < Bucket[k])
<1> DEFINE u == Inserted(t, k, p)
<1>0. HashMax \in Nat /\ Keys \subseteq Nat /\ \A x \in Keys : Bucket[x] \in Nat
  BY KeysAssumption
<1>1. /\ u \in Seq(Keys)
      /\ Len(u) = Len(t) + 1
      /\ \A i \in 1 .. Len(u) :
           u[i] = IF i <= p THEN t[i] ELSE IF i = p + 1 THEN k ELSE t[i - 1]
  <2> DEFINE a == SubSeq(t, 1, p)
             b == SubSeq(t, p + 1, Len(t))
             ak == a \o <<k>>
  <2>1. Len(t) \in Nat /\ p \in Nat /\ p <= Len(t) /\ \A i \in 1 .. Len(t) : t[i] \in Keys
    OBVIOUS
  <2>2. /\ a \in Seq(Keys) /\ Len(a) = p
        /\ \A i \in 1 .. p : a[i] = t[i]
    BY <2>1, SubSeqProperties
  <2>3. /\ b \in Seq(Keys) /\ Len(b) = Len(t) - p
        /\ \A i \in 1 .. (Len(t) - p) : b[i] = t[p + i]
    BY <2>1, SubSeqProperties
  <2>4. <<k>> \in Seq(Keys) /\ Len(<<k>>) = 1 /\ <<k>>[1] = k
    OBVIOUS
  <2> HIDE DEF a, b
  <2>5. /\ ak \in Seq(Keys) /\ Len(ak) = p + 1
        /\ \A i \in 1 .. (p + 1) : ak[i] = IF i <= p THEN t[i] ELSE k
    <3>1. /\ ak \in Seq(Keys) /\ Len(ak) = p + 1
          /\ \A i \in 1 .. (p + 1) : ak[i] = IF i <= p THEN a[i] ELSE <<k>>[i - p]
      BY <2>2, <2>4, ConcatProperties
    <3>2. ASSUME NEW i \in 1 .. (p + 1), i > p PROVE i - p = 1
      BY <2>1, <3>2
    <3>3. \A i \in 1 .. (p + 1) : i <= p => i \in 1 .. p
      BY <2>1
    <3> QED
      BY <2>1, <2>2, <2>4, <3>1, <3>2, <3>3
  <2> HIDE DEF ak
  <2> DEFINE c == ak \o b
  <2>6. /\ c \in Seq(Keys)
        /\ Len(c) = Len(ak) + Len(b)
        /\ \A i \in 1 .. Len(ak) + Len(b) :
             c[i] = IF i <= Len(ak) THEN ak[i] ELSE b[i - Len(ak)]
    BY <2>3, <2>5, ConcatProperties
  <2> HIDE DEF c
  <2>7. Len(c) = Len(t) + 1
    BY <2>1, <2>3, <2>5, <2>6
  <2>8. ASSUME NEW i \in 1 .. Len(c)
        PROVE  c[i] = IF i <= p THEN t[i] ELSE IF i = p + 1 THEN k ELSE t[i - 1]
    <3>1. i \in Nat
      BY <2>1, <2>7
    <3>2. CASE i <= p + 1
      BY <3>1, <3>2, <2>1, <2>3, <2>5, <2>6, <2>7
    <3>3. CASE ~ (i <= p + 1)
      <4>1. i - (p + 1) \in 1 .. (Len(t) - p) /\ p + (i - (p + 1)) = i - 1
        BY <3>1, <3>3, <2>1, <2>7
      <4>2. b[i - (p + 1)] = t[i - 1]
        BY <4>1, <2>3
      <4>3. c[i] = b[i - (p + 1)]
        BY <3>1, <3>3, <2>1, <2>3, <2>5, <2>6, <2>7
      <4>4. ~ (i <= p) /\ i # p + 1
        BY <3>1, <3>3, <2>1
      <4> QED
        BY <4>2, <4>3, <4>4
    <3> QED
      BY <3>2, <3>3
  <2>9. u = c
    BY DEF Inserted, a, b, ak, c
  <2> QED
    BY <2>6, <2>7, <2>8, <2>9
<1> HIDE DEF u
<1>2. \A i \in 1 .. Len(t) : t[i] \in Keys /\ t[i] # k
  BY DEF Elements
<1>3. ASSUME NEW i \in 1 .. Len(u), NEW j \in 1 .. Len(u), i < j
      PROVE  u[i] # u[j] /\ Bucket[u[i]] <= Bucket[u[j]]
  <2>1. CASE i <= p /\ j <= p
    BY <1>3, <2>1, <1>1 DEF Table
  <2>2. CASE i <= p /\ j = p + 1
    <3>1. i \in 1 .. p /\ i \in 1 .. Len(t) /\ u[i] = t[i] /\ u[j] = k
      BY <1>1, <2>2
    <3>2. t[i] # k /\ Bucket[t[i]] < Bucket[k] /\ Bucket[t[i]] \in Nat /\ Bucket[k] \in Nat
      BY <1>0, <1>2, <3>1 DEF IsHead
    <3> QED
      BY <3>1, <3>2
  <2>3. CASE i <= p /\ j > p + 1
    <3>1. /\ i \in 1 .. Len(t) /\ j - 1 \in 1 .. Len(t) /\ i < j - 1
          /\ u[i] = t[i] /\ u[j] = t[j - 1]
      BY <1>1, <2>3
    <3> QED
      BY <3>1 DEF Table
  <2>4. CASE i = p + 1
    <3>1. /\ j - 1 \in 1 .. Len(t) /\ j - 1 \in (p + 1) .. Len(t)
          /\ u[i] = k /\ u[j] = t[j - 1]
      BY <1>1, <1>3, <2>4
    <3>2. t[j - 1] # k /\ Bucket[t[j - 1]] >= Bucket[k]
      BY <1>2, <3>1 DEF IsHead
    <3>3. Bucket[t[j - 1]] \in Nat /\ Bucket[k] \in Nat
      BY <1>0, <1>2, <3>1
    <3> QED
      BY <3>1, <3>2, <3>3
  <2>5. CASE i > p + 1
    <3>1. /\ i - 1 \in 1 .. Len(t) /\ j - 1 \in 1 .. Len(t) /\ i - 1 < j - 1
          /\ u[i] = t[i - 1] /\ u[j] = t[j - 1]
      BY <1>1, <1>3, <2>5
    <3> QED
      BY <3>1 DEF Table
  <2> QED
    BY <2>1, <2>2, <2>3, <2>4, <2>5
<1>4. Table(u)
  BY <1>0, <1>1, <1>3 DEF Table
<1>5. Elements(u) = Elements(t) \cup {k}
  <2>1. ASSUME NEW x \in Elements(u) PROVE x \in Elements(t) \cup {k}
    BY <2>1, <1>1 DEF Elements
  <2>2. k \in Elements(u)
    <3>1. p + 1 \in 1 .. Len(u) /\ u[p + 1] = k
      BY <1>1
    <3> QED
      BY <3>1 DEF Elements
  <2>3. ASSUME NEW x \in Elements(t) PROVE x \in Elements(u)
    <3>1. PICK i \in 1 .. Len(t) : t[i] = x
      BY <2>3 DEF Elements
    <3>2. CASE i <= p
      BY <3>1, <3>2, <1>1 DEF Elements
    <3>3. CASE i > p
      <4>1. i + 1 \in 1 .. Len(u) /\ u[i + 1] = x
        BY <3>1, <3>3, <1>1
      <4> QED
        BY <4>1 DEF Elements
    <3> QED
      BY <3>2, <3>3
  <2> QED
    BY <2>1, <2>2, <2>3
<1>6. ASSUME NEW x, NEW y, Before(u, x, y)
      PROVE  Before(t, x, y) \/ x = k \/ (y = k /\ Bucket[x] < Bucket[k])
  <2>1. PICK i, j \in 1 .. Len(u) : i < j /\ u[i] = x /\ u[j] = y
    BY <1>6 DEF Before
  <2>2. CASE i = p + 1
    BY <2>1, <2>2, <1>1
  <2>3. CASE j = p + 1
    BY <2>1, <2>3, <1>1 DEF IsHead
  <2>4. CASE i # p + 1 /\ j # p + 1
    <3> DEFINE a == IF i <= p THEN i ELSE i - 1
               b == IF j <= p THEN j ELSE j - 1
    <3>1. a \in 1 .. Len(t) /\ b \in 1 .. Len(t) /\ a < b /\ t[a] = x /\ t[b] = y
      BY <2>1, <2>4, <1>1
    <3> QED
      BY <3>1 DEF Before
  <2> QED
    BY <2>2, <2>3, <2>4
<1> QED
  BY <1>1, <1>4, <1>5, <1>6 DEF u

-----------------------------------------------------------------------------

(* A write, of a client or of a program, leaves a map a map, and moves no    *)
(* key but its own.                                                          *)
LEMMA PutsKeepsTables ==
  ASSUME TablesInv, NEW id \in Ids, NEW k \in Keys, programs[id] # Vacant,
         Fits(keys[id], k), Puts(id, k), UNCHANGED programs
  PROVE  /\ TablesInv'
         /\ \A other \in Ids : other # id => keys'[other] = keys[other]
         /\ Elements(keys'[id]) = Elements(keys[id]) \cup {k}
         /\ \A x, y : Before(keys'[id], x, y) =>
              Before(keys[id], x, y) \/ x = k \/ (y = k /\ Bucket[x] < Bucket[k])
<1> DEFINE s == keys[id]
           t == Without(s, k)
<1>1. s \in Seq(Keys) /\ Table(s) /\ HashMax \in Nat
  BY KeysAssumption DEF TablesInv
<1>2. /\ t \in Seq(Keys) /\ Table(t) /\ Elements(t) = Elements(s) \ {k}
      /\ Len(t) = IF k \in Elements(s) THEN Len(s) - 1 ELSE Len(s)
      /\ \A x, y : Before(t, x, y) => Before(s, x, y)
  BY <1>1, WithoutKeepsOrder
<1>3. Len(t) < HashMax /\ k \notin Elements(t)
  BY <1>1, <1>2 DEF Fits, Table
<1>4. PICK p \in 0 .. Len(t) : IsHead(t, k, p) /\ keys' = [keys EXCEPT ![id] = Inserted(t, k, p)]
  BY DEF Puts
<1> DEFINE u == Inserted(t, k, p)
<1>5. /\ u \in Seq(Keys) /\ Table(u) /\ Elements(u) = Elements(t) \cup {k}
      /\ \A x, y : Before(u, x, y) =>
           Before(t, x, y) \/ x = k \/ (y = k /\ Bucket[x] < Bucket[k])
  BY <1>2, <1>3, <1>4, InsertedKeepsOrder
<1> HIDE DEF s, t, u
<1>6. \A other \in Ids : keys'[other] = IF other = id THEN u ELSE keys[other]
  BY <1>4 DEF TablesInv, s, t, u
<1>7. keys' \in [Ids -> Seq(Keys)]
  BY <1>4, <1>5 DEF TablesInv, u
<1>8. TablesInv'
  BY <1>5, <1>6, <1>7 DEF TablesInv
<1>9. Elements(u) = Elements(s) \cup {k}
  BY <1>2, <1>5
<1>10. \A x, y : Before(u, x, y) =>
         Before(s, x, y) \/ x = k \/ (y = k /\ Bucket[x] < Bucket[k])
  BY <1>2, <1>5
<1> QED
  BY <1>6, <1>8, <1>9, <1>10 DEF s

(* So does a deletion.                                                       *)
LEMMA DeleteKeepsTables ==
  ASSUME TablesInv, NEW id \in Ids, NEW k, programs[id] # Vacant,
         keys' = [keys EXCEPT ![id] = Without(@, k)], UNCHANGED programs
  PROVE  /\ TablesInv'
         /\ \A other \in Ids : other # id => keys'[other] = keys[other]
         /\ Elements(keys'[id]) = Elements(keys[id]) \ {k}
         /\ \A x, y : Before(keys'[id], x, y) => Before(keys[id], x, y)
<1> DEFINE s == keys[id]
           t == Without(s, k)
<1>1. s \in Seq(Keys) /\ Table(s)
  BY DEF TablesInv
<1>2. /\ t \in Seq(Keys) /\ Table(t) /\ Elements(t) = Elements(s) \ {k}
      /\ \A x, y : Before(t, x, y) => Before(s, x, y)
  BY <1>1, WithoutKeepsOrder
<1> HIDE DEF t
<1>3. keys' = [keys EXCEPT ![id] = t]
  BY DEF t
<1>4. \A other \in Ids : keys'[other] = IF other = id THEN t ELSE keys[other]
  BY <1>3 DEF TablesInv
<1>5. keys' \in [Ids -> Seq(Keys)]
  BY <1>2, <1>3 DEF TablesInv
<1>6. TablesInv'
  BY <1>2, <1>4, <1>5 DEF TablesInv
<1> QED
  BY <1>2, <1>4, <1>6

(* A program that writes one key behind the back of a dump makes it owe that *)
(* key no longer, and leaves all others ahead.                               *)
LEMMA MovesKeepsDump ==
  ASSUME TablesInv, DumpInv, NEW id \in Ids, NEW k \in Keys, Moves(id, k),
         \A other \in Ids : other # id => keys'[other] = keys[other],
         Elements(keys[id]) \ {k} \subseteq Elements(keys'[id]),
         \A x, y : Before(keys'[id], x, y) =>
           Before(keys[id], x, y) \/ x = k \/ (y = k /\ Bucket[x] < Bucket[k])
  PROVE  DumpInv'
<1>1. CASE dump = NoDump
  BY <1>1 DEF Moves, DumpInv
<1>2. CASE dump # NoDump /\ dump.id # id
  <2>1. dump' = dump /\ dump.id \in Ids /\ keys'[dump.id] = keys[dump.id] /\ programs' = programs
    BY <1>2 DEF Moves, DumpInv, Dump
  <2> QED
    BY <1>2, <2>1 DEF DumpInv, Owed, Ahead
<1>3. CASE dump # NoDump /\ dump.id = id
  <2>1. dump' = [dump EXCEPT !.stable = @ \ {k}] /\ programs' = programs /\ dump \in Dump
    BY <1>3 DEF Moves, DumpInv
  <2>2. /\ dump' \in Dump
        /\ dump'.id = id /\ dump'.at = dump.at /\ dump'.cursor = dump.cursor
        /\ dump'.seen = dump.seen /\ dump'.failed = dump.failed
        /\ dump'.stable = dump.stable \ {k}
    BY <1>3, <2>1 DEF Dump
  <2>3. dump'.stable \subseteq Elements(keys'[dump'.id])
    BY <1>3, <2>2 DEF DumpInv
  <2>4. ASSUME ~dump'.failed, NEW x \in Owed' PROVE Ahead(x)'
    <3>1. x \in Owed /\ x # k /\ x \in Keys
      BY <2>1, <2>2, <2>4 DEF Owed, Dump
    <3>2. Ahead(x)
      BY <1>3, <2>2, <2>4, <3>1 DEF DumpInv
    <3>3. CASE dump.cursor = NoKey
      BY <2>2, <3>3 DEF Ahead
    <3>4. CASE dump.cursor # NoKey
      <4>1. dump.cursor \in Keys /\ Bucket[dump.cursor] \in Nat /\ Bucket[x] \in Nat
        BY <2>1, <3>1, <3>4, KeysAssumption DEF Dump
      <4>2. /\ Bucket[x] >= Bucket[dump.cursor]
            /\ ~Before(keys[id], x, dump.cursor)
            /\ dump.at = "next" => x # dump.cursor
        BY <1>3, <3>2, <3>4 DEF Ahead
      <4>3. ~Before(keys'[id], x, dump.cursor)
        BY <3>1, <4>1, <4>2
      <4> QED
        BY <2>2, <4>2, <4>3 DEF Ahead
    <3> QED
      BY <3>3, <3>4
  <2> QED
    BY <1>3, <2>1, <2>2, <2>3, <2>4 DEF DumpInv
<1> QED
  BY <1>1, <1>2, <1>3

(* The step to the next key jumps over nothing that is owed.                 *)
LEMMA NextKeepsDump ==
  ASSUME TablesInv, DumpInv, DumpNext
  PROVE  DumpInv'
<1> DEFINE s == keys[dump.id]
<1>1. /\ dump # NoDump /\ dump.at = "next" /\ dump \in Dump
      /\ programs' = programs /\ keys' = keys /\ programs[dump.id] # Vacant
      /\ dump.stable \subseteq Elements(s)
  BY DEF DumpNext, Walking, DumpInv
<1>2. PICK k \in NextKeys(s, dump.cursor) : dump' = [dump EXCEPT !.at = "lookup", !.cursor = k]
  BY DEF DumpNext
<1>3. s \in Seq(Keys) /\ Table(s) /\ dump.id \in Ids /\ Len(s) \in Nat
  BY <1>1 DEF TablesInv, Dump
<1>4. \A x \in Elements(s) : x \in Keys /\ x # NoKey /\ Bucket[x] \in Nat
  <2>1. \A x \in Keys : x # NoKey /\ Bucket[x] \in Nat
    BY KeysAssumption
  <2> HIDE DEF s
  <2>2. \A x \in Elements(s) : x \in Keys
    BY <1>3 DEF Elements
  <2> QED
    BY <2>1, <2>2
<1> HIDE DEF s
<1>5. PICK n \in 1 .. Len(s) :
        /\ k = s[n]
        /\ ~dump.failed => \A x \in Owed : \E i \in n .. Len(s) : s[i] = x
  <2>1. CASE dump.cursor \in Elements(s)
    <3>1. PICK j \in 1 .. (Len(s) - 1) : s[j] = dump.cursor /\ k = s[j + 1]
      BY <1>2, <1>3, <2>1 DEF NextKeys
    <3>2. ASSUME ~dump.failed, NEW x \in Owed
          PROVE  \E i \in (j + 1) .. Len(s) : s[i] = x
      <4>1. x \in Elements(s) /\ Ahead(x)
        BY <1>1, <3>2 DEF DumpInv, Owed
      <4>2. ~Before(s, x, dump.cursor) /\ x # dump.cursor
        BY <1>1, <1>4, <2>1, <4>1 DEF Ahead, s
      <4>3. PICK i \in 1 .. Len(s) : s[i] = x
        BY <4>1 DEF Elements
      <4>4. j \in 1 .. Len(s)
        BY <1>3
      <4>5. ~(i < j) /\ i # j
        BY <3>1, <4>2, <4>3, <4>4 DEF Before
      <4>6. i \in (j + 1) .. Len(s)
        BY <1>3, <4>5
      <4> QED
        BY <4>3, <4>6
    <3>3. j + 1 \in 1 .. Len(s)
      BY <1>3
    <3> QED
      BY <3>1, <3>2, <3>3
  <2>2. CASE dump.cursor \notin Elements(s)
    <3>1. 1 \in 1 .. Len(s) /\ k = s[1]
      BY <1>2, <2>2 DEF NextKeys
    <3>2. ASSUME NEW x \in Owed PROVE \E i \in 1 .. Len(s) : s[i] = x
      BY <1>1 DEF Owed, Elements
    <3> QED
      BY <3>1, <3>2
  <2> QED
    BY <2>1, <2>2
<1>6. k \in Elements(s)
  BY <1>5 DEF Elements
<1>7. /\ dump' \in Dump
      /\ dump'.id = dump.id /\ dump'.at = "lookup" /\ dump'.cursor = k
      /\ dump'.seen = dump.seen /\ dump'.failed = dump.failed /\ dump'.stable = dump.stable
  BY <1>1, <1>2, <1>4, <1>6 DEF Dump
<1>8. ASSUME ~dump'.failed, NEW x \in Owed' PROVE Ahead(x)'
  <2>1. x \in Owed
    BY <1>7, <1>8 DEF Owed
  <2>2. PICK i \in n .. Len(s) : s[i] = x
    BY <1>5, <1>7, <1>8, <2>1
  <2>3. i \in 1 .. Len(s) /\ i \in Nat /\ n \in Nat /\ n <= i
    BY <1>3, <1>5, <2>2
  <2>4. x \in Elements(s)
    BY <2>2, <2>3 DEF Elements
  <2>5. Bucket[x] >= Bucket[k]
    <3>1. CASE i = n
      BY <1>4, <1>5, <2>2, <2>4, <3>1
    <3>2. CASE i # n
      <4>1. n < i
        BY <2>3, <3>2
      <4>2. Bucket[s[n]] <= Bucket[s[i]]
        BY <1>3, <1>5, <2>3, <4>1 DEF Table
      <4> QED
        BY <1>4, <1>5, <1>6, <2>2, <2>4, <4>2
    <3> QED
      BY <3>1, <3>2
  <2>6. ASSUME Before(s, x, k) PROVE FALSE
    <3>1. PICK a, b \in 1 .. Len(s) : a < b /\ s[a] = x /\ s[b] = k
      BY <2>6 DEF Before
    <3>2. a = i /\ b = n
      BY <1>3, <1>5, <2>2, <2>3, <3>1 DEF Table
    <3> QED
      BY <2>3, <3>1, <3>2
  <2> QED
    BY <1>1, <1>7, <2>5, <2>6 DEF Ahead, s
<1> QED
  BY <1>1, <1>4, <1>6, <1>7, <1>8 DEF DumpInv, s

(* A dump begins with everything ahead.                                      *)
LEMMA BeginKeepsDump ==
  ASSUME TablesInv, NEW id \in Ids, BeginDump(id)
  PROVE  DumpInv'
<1> DEFINE s == Elements(keys[id])
<1>1. /\ dump' = [id |-> id, at |-> "next", cursor |-> NoKey, seen |-> {}, count |-> 0,
                   stable |-> s, failed |-> FALSE]
      /\ keys' = keys /\ programs' = programs /\ programs[id] # Vacant
  BY DEF BeginDump, Asked, loaderVars
<1>2. s \subseteq Keys /\ DumpLimit \in Nat
  BY KeysAssumption DEF TablesInv, Elements
<1> HIDE DEF s
<1>3. dump' \in Dump
  BY <1>1, <1>2 DEF Dump
<1> QED
  BY <1>1, <1>3 DEF DumpInv, Ahead, s

(* Showing a key, or finding it gone, leaves the others ahead.               *)
LEMMA LookupKeepsDump ==
  ASSUME TablesInv, DumpInv, DumpLookup
  PROVE  DumpInv'
<1>1. /\ dump # NoDump /\ dump.at = "lookup" /\ dump \in Dump /\ dump.cursor \in Keys
      /\ programs' = programs /\ keys' = keys /\ programs[dump.id] # Vacant
      /\ dump.stable \subseteq Elements(keys[dump.id])
      /\ ~dump.failed => \A x \in Owed : Ahead(x)
      /\ DumpLimit \in Nat
  BY KeysAssumption DEF DumpLookup, Walking, DumpInv
<1>2. CASE /\ dump.cursor \notin Elements(keys[dump.id])
           /\ dump' = [dump EXCEPT !.at = "next"]
  <2>1. /\ dump' \in Dump
        /\ dump'.id = dump.id /\ dump'.at = "next" /\ dump'.cursor = dump.cursor
        /\ dump'.seen = dump.seen /\ dump'.failed = dump.failed /\ dump'.stable = dump.stable
    BY <1>1, <1>2 DEF Dump
  <2>2. ASSUME ~dump'.failed, NEW x \in Owed' PROVE Ahead(x)'
    <3>1. x \in Owed /\ x # dump.cursor /\ Ahead(x)
      BY <1>1, <1>2, <2>1, <2>2 DEF Owed
    <3> QED
      BY <1>1, <2>1, <3>1 DEF Ahead
  <2> QED
    BY <1>1, <2>1, <2>2 DEF DumpInv
<1>3. CASE /\ dump.count < DumpLimit
           /\ dump' = [dump EXCEPT !.at = "next", !.seen = @ \cup {dump.cursor},
                                   !.count = @ + 1]
  <2>1. /\ dump' \in Dump
        /\ dump'.id = dump.id /\ dump'.at = "next" /\ dump'.cursor = dump.cursor
        /\ dump'.seen = dump.seen \cup {dump.cursor}
        /\ dump'.failed = dump.failed /\ dump'.stable = dump.stable
    <3>1. dump.seen \cup {dump.cursor} \in SUBSET Keys /\ dump.count + 1 \in 0 .. DumpLimit
      BY <1>1, <1>3 DEF Dump
    <3> QED
      BY <1>1, <1>3, <3>1 DEF Dump
  <2>2. ASSUME ~dump'.failed, NEW x \in Owed' PROVE Ahead(x)'
    <3>1. x \in Owed /\ x # dump.cursor /\ Ahead(x)
      BY <1>1, <2>1, <2>2 DEF Owed
    <3> QED
      BY <1>1, <2>1, <3>1 DEF Ahead
  <2> QED
    BY <1>1, <2>1, <2>2 DEF DumpInv
<1>4. CASE dump' = NoDump
  BY <1>4 DEF DumpInv
<1> QED
  BY <1>2, <1>3, <1>4 DEF DumpLookup

(* A dump with a failed system call owes nothing.                            *)
LEMMA FailureKeepsDump ==
  ASSUME DumpInv, DumpFails
  PROVE  DumpInv'
<1>1. /\ dump # NoDump /\ dump \in Dump
      /\ programs' = programs /\ keys' = keys /\ programs[dump.id] # Vacant
      /\ dump.stable \subseteq Elements(keys[dump.id])
  BY DEF DumpFails, Walking, DumpInv
<1>2. ASSUME NEW at \in {"next", "ending"}, dump' = [dump EXCEPT !.at = at, !.failed = TRUE]
      PROVE  DumpInv'
  <2>1. /\ dump' \in Dump
        /\ dump'.id = dump.id /\ dump'.at = at /\ dump'.failed = TRUE
        /\ dump'.stable = dump.stable
    BY <1>1, <1>2 DEF Dump
  <2> QED
    BY <1>1, <2>1 DEF DumpInv
<1>3. CASE dump' = NoDump
  BY <1>3 DEF DumpInv
<1> QED
  BY <1>2, <1>3 DEF DumpFails

-----------------------------------------------------------------------------

(* Operations on the table come when there is no dump, and give and take     *)
(* only empty maps and whole maps.                                           *)
LEMMA TableStepKeeps ==
  ASSUME MapsInv, TableNext
  PROVE  MapsInv'
<1>1. HashMax \in Nat /\ Table(<<>>) /\ <<>> \in Seq(Keys)
  BY KeysAssumption DEF Table
<1>2. CASE KeepsMaps
  <2>1. keys' = [id \in Ids |-> IF Emptied(id) THEN <<>> ELSE keys[id]]
    BY <1>2 DEF KeepsMaps
  <2>2. keys' \in [Ids -> Seq(Keys)]
    BY <1>1, <2>1 DEF MapsInv, TablesInv
  <2>3. ASSUME NEW id \in Ids
        PROVE  Table(keys'[id]) /\ (programs'[id] = Vacant => keys'[id] = <<>>)
    BY <1>1, <2>1 DEF MapsInv, TablesInv, Emptied
  <2>4. TablesInv'
    BY <2>2, <2>3 DEF TablesInv
  <2>5. DumpInv'
    BY <1>2 DEF KeepsMaps, MapsInv, DumpInv
  <2> QED
    BY <2>4, <2>5 DEF MapsInv
<1>3. CASE MapsRestart
  <2>1. keys' = [id \in Ids |-> <<>>] /\ dump' = NoDump
    BY <1>3 DEF MapsRestart
  <2>2. TablesInv'
    BY <1>1, <2>1 DEF TablesInv
  <2> QED
    BY <2>1, <2>2 DEF MapsInv, DumpInv
<1> QED
  BY <1>2, <1>3
  DEF TableNext, LoadWithMaps, AttachWithMaps, DetachWithMaps, UnloadWithMaps

(* Requests come one at a time; only a dump stays.                           *)
LEMMA RequestKeeps ==
  ASSUME MapsInv, RequestNext
  PROVE  MapsInv'
<1>1. PICK id \in Watched :
        \/ MapAnswers(id) \/ BeginDump(id)
        \/ \E k \in Keys : MapWrite(id, k) \/ MapDelete(id, k)
  BY DEF RequestNext
<1>2. id \in Ids /\ HashMax \in Nat
  BY KeysAssumption
<1>3. ASSUME UNCHANGED <<keys, programs>> PROVE TablesInv'
  BY <1>3 DEF MapsInv, TablesInv
<1>4. ASSUME dump = NoDump, UNCHANGED dump PROVE DumpInv'
  BY <1>4 DEF DumpInv
<1>5. CASE MapAnswers(id)
  BY <1>3, <1>4, <1>5 DEF MapAnswers, Asked, loaderVars, MapsInv
<1>6. CASE BeginDump(id)
  <2>1. DumpInv'
    BY <1>2, <1>6, BeginKeepsDump DEF MapsInv
  <2> QED
    BY <1>3, <1>6, <2>1 DEF BeginDump, Asked, loaderVars, MapsInv
<1>7. ASSUME NEW k \in Keys, MapWrite(id, k) PROVE MapsInv'
  <2>1. /\ programs[id] # Vacant /\ UNCHANGED programs
        /\ dump = NoDump /\ UNCHANGED dump /\ Fits(keys[id], k) /\ Puts(id, k)
    BY <1>7 DEF MapWrite, Asked, loaderVars
  <2>2. TablesInv'
    BY <1>2, <2>1, PutsKeepsTables DEF MapsInv
  <2> QED
    BY <1>4, <2>1, <2>2 DEF MapsInv
<1>8. ASSUME NEW k \in Keys, MapDelete(id, k) PROVE MapsInv'
  <2>1. /\ programs[id] # Vacant /\ UNCHANGED programs
        /\ dump = NoDump /\ UNCHANGED dump
        /\ keys' = [keys EXCEPT ![id] = Without(@, k)]
    BY <1>8 DEF MapDelete, Asked, loaderVars
  <2>2. TablesInv'
    BY <1>2, <2>1, DeleteKeepsTables DEF MapsInv
  <2> QED
    BY <1>4, <2>1, <2>2 DEF MapsInv
<1> QED
  BY <1>1, <1>5, <1>6, <1>7, <1>8

(* Programs in the kernel write while a dump is on its way.                  *)
LEMMA KernelStepKeeps ==
  ASSUME MapsInv, NEW id \in Watched, NEW k \in Keys,
         KernelWrites(id, k) \/ KernelDeletes(id, k)
  PROVE  MapsInv'
<1>1. id \in Ids /\ HashMax \in Nat
  BY KeysAssumption
<1>2. programs[id] # Vacant /\ Moves(id, k) /\ UNCHANGED <<programs>>
  BY <1>1 DEF KernelWrites, KernelDeletes, KernelPhase, Moves
<1>3. /\ TablesInv'
      /\ \A other \in Ids : other # id => keys'[other] = keys[other]
      /\ Elements(keys[id]) \ {k} \subseteq Elements(keys'[id])
      /\ \A x, y : Before(keys'[id], x, y) =>
           Before(keys[id], x, y) \/ x = k \/ (y = k /\ Bucket[x] < Bucket[k])
  <2>1. CASE KernelWrites(id, k)
    <3>1. Fits(keys[id], k) /\ Puts(id, k)
      BY <2>1 DEF KernelWrites
    <3> QED
      BY <1>1, <1>2, <3>1, PutsKeepsTables DEF MapsInv
  <2>2. CASE KernelDeletes(id, k)
    <3>1. keys' = [keys EXCEPT ![id] = Without(@, k)]
      BY <2>2 DEF KernelDeletes
    <3> QED
      BY <1>1, <1>2, <3>1, DeleteKeepsTables DEF MapsInv
  <2> QED
    BY <2>1, <2>2
<1>4. DumpInv'
  BY <1>1, <1>2, <1>3, MovesKeepsDump DEF MapsInv
<1> QED
  BY <1>2, <1>3, <1>4 DEF MapsInv

(* Every step keeps the invariant.                                           *)
LEMMA MapsStepKeeps ==
  ASSUME MapsInv, [MapsNext]_mapsVars
  PROVE  MapsInv'
<1>1. CASE TableNext
  BY <1>1, TableStepKeeps
<1>2. CASE RequestNext
  BY <1>2, RequestKeeps
<1>3. CASE DumpNext \/ DumpEnds \/ DumpLookup \/ DumpFails
  <2>1. UNCHANGED <<programs, keys>>
    BY <1>3 DEF DumpNext, DumpEnds, DumpLookup, DumpFails, Walking
  <2>2. TablesInv'
    BY <2>1 DEF MapsInv, TablesInv
  <2>3. DumpInv'
    <3>1. CASE DumpEnds
      BY <3>1 DEF DumpEnds, DumpInv
    <3> QED
      BY <1>3, <3>1, NextKeepsDump, LookupKeepsDump, FailureKeepsDump DEF MapsInv
  <2> QED
    BY <2>2, <2>3 DEF MapsInv
<1>4. CASE \E id \in Watched, k \in Keys : KernelWrites(id, k) \/ KernelDeletes(id, k)
  BY <1>4, KernelStepKeeps
<1>5. CASE UNCHANGED mapsVars
  BY <1>5 DEF mapsVars, MapsInv, TablesInv, DumpInv, Owed, Ahead
<1> QED
  BY <1>1, <1>2, <1>3, <1>4, <1>5 DEF MapsNext

(* The invariant: maps are maps, and no dump leaves behind what it owes.     *)
THEOREM MapsInvariant == MapsSpec => []MapsInv
<1>1. MapsInit => MapsInv
  <2>1. HashMax \in Nat /\ Table(<<>>) /\ <<>> \in Seq(Keys)
    BY KeysAssumption DEF Table
  <2> QED
    BY <2>1 DEF MapsInit, MapsInv, TablesInv, DumpInv
<1> QED
  BY <1>1, MapsStepKeeps, PTL DEF MapsSpec

(* The maps keep their type: no map has a key twice or more than fit, none   *)
(* outlives its program, and a dump is of a program of the table.            *)
THEOREM MapsTypeCorrect == MapsSpec => []MapsTypeOK
<1>1. MapsInv => MapsTypeOK
  BY DEF MapsInv, TablesInv, DumpInv, MapsTypeOK
<1> QED
  BY <1>1, MapsInvariant, PTL

-----------------------------------------------------------------------------

(* A dump that is over has shown what it owed.                               *)
LEMMA DumpOverIsComplete ==
  ASSUME MapsInv, MapsInv', [MapsNext]_mapsVars,
         dump # NoDump, dump' = NoDump, programs'[dump.id] # Vacant
  PROVE  dump.stable \subseteq dump.seen \/ dump.count = DumpLimit \/ dump.failed
<1>1. /\ dump \in Dump /\ dump.id \in Ids /\ NoDump \notin Dump
      /\ ~dump.failed => \A x \in Owed : Ahead(x)
      /\ dump.stable \subseteq Elements(keys[dump.id])
      /\ dump.at = "ending" => dump.failed
  BY KeysAssumption DEF MapsInv, DumpInv, Dump
<1>2. CASE DumpEnds
  <2> DEFINE s == keys[dump.id]
  <2>1. s \in Seq(Keys) /\ Table(s) /\ Len(s) \in Nat
    BY <1>1 DEF MapsInv, TablesInv
  <2>2. dump.at = "next" /\ NextKeys(s, dump.cursor) = {}
    BY <1>2 DEF DumpEnds, Walking
  <2>3. \A x \in Keys : x # NoKey
    BY KeysAssumption
  <2> HIDE DEF s
  <2>4. CASE dump.cursor \in Elements(s)
    <3>1. PICK j \in 1 .. Len(s) : s[j] = dump.cursor
      BY <2>4 DEF Elements
    <3>2. j = Len(s)
      <4>1. CASE j \in 1 .. (Len(s) - 1)
        BY <2>2, <2>4, <3>1, <4>1 DEF NextKeys
      <4> QED
        BY <2>1, <4>1
    <3>3. dump.cursor # NoKey
      BY <2>1, <2>3, <3>1
    <3>4. ASSUME ~dump.failed, NEW x \in Owed PROVE FALSE
      <4>1. x \in Elements(s) /\ ~Before(s, x, dump.cursor) /\ x # dump.cursor
        BY <1>1, <2>2, <3>3, <3>4 DEF Ahead, Owed, s
      <4>2. PICK i \in 1 .. Len(s) : s[i] = x
        BY <4>1 DEF Elements
      <4>3. i # j /\ ~(i < j)
        BY <3>1, <4>1, <4>2 DEF Before
      <4> QED
        BY <2>1, <3>2, <4>3
    <3> QED
      BY <3>4 DEF Owed
  <2>5. CASE dump.cursor \notin Elements(s)
    <3>1. 1 \notin 1 .. Len(s)
      BY <2>2, <2>5 DEF NextKeys
    <3>2. Elements(s) = {}
      BY <2>1, <3>1 DEF Elements
    <3> QED
      BY <1>1, <3>2 DEF s
  <2> QED
    BY <2>4, <2>5
<1>3. CASE DumpLookup
  <2>1. dump.count >= DumpLimit
    <3>1. dump.cursor \in Keys
      BY <1>3 DEF DumpLookup, Walking, MapsInv, DumpInv
    <3>2. dump' # [dump EXCEPT !.at = "next"]
      BY <1>1 DEF Dump
    <3>3. ASSUME dump.count < DumpLimit,
                 dump' = [dump EXCEPT !.at = "next", !.seen = @ \cup {dump.cursor},
                                      !.count = @ + 1]
          PROVE  FALSE
      <4>1. /\ dump.seen \cup {dump.cursor} \in SUBSET Keys
            /\ dump.count + 1 \in 0 .. DumpLimit
        BY <1>1, <3>1, <3>3, KeysAssumption DEF Dump
      <4>2. dump' \in Dump
        BY <1>1, <3>3, <4>1 DEF Dump
      <4> QED
        BY <1>1, <4>2
    <3> QED
      BY <1>3, <3>2, <3>3 DEF DumpLookup
  <2> QED
    BY <1>1, <2>1, KeysAssumption DEF Dump
<1>4. CASE DumpFails
  <2>1. \A at \in {"next", "lookup", "ending"} :
          [dump EXCEPT !.at = at, !.failed = TRUE] \in Dump
    BY <1>1 DEF Dump
  <2> QED
    BY <1>1, <1>4, <2>1 DEF DumpFails, Walking
<1>5. CASE DumpNext
  <2>1. PICK k \in NextKeys(keys[dump.id], dump.cursor) :
          dump' = [dump EXCEPT !.at = "lookup", !.cursor = k]
    BY <1>5 DEF DumpNext
  <2>2. keys[dump.id] \in Seq(Keys)
    BY <1>1 DEF MapsInv, TablesInv
  <2>3. k \in Keys
    BY <2>1, <2>2 DEF NextKeys
  <2>4. [dump EXCEPT !.at = "lookup", !.cursor = k] \in Dump
    BY <1>1, <2>3 DEF Dump
  <2> QED
    BY <1>1, <2>1, <2>4
<1>6. CASE RequestNext
  BY <1>6 DEF RequestNext, MapAnswers, BeginDump, MapWrite, MapDelete, Asked
<1>7. CASE TableNext
  <2>1. MapsRestart
    BY <1>7
    DEF TableNext, LoadWithMaps, AttachWithMaps, DetachWithMaps, UnloadWithMaps, KeepsMaps
  <2> QED
    BY <1>1, <2>1 DEF MapsRestart, LoaderRestart
<1>8. ASSUME NEW id \in Watched, NEW k \in Keys, Moves(id, k) PROVE FALSE
  BY <1>1, <1>8 DEF Moves, Dump
<1>9. CASE UNCHANGED mapsVars
  BY <1>9 DEF mapsVars
<1> QED
  BY <1>2, <1>3, <1>4, <1>5, <1>6, <1>7, <1>8, <1>9 DEF MapsNext, KernelWrites, KernelDeletes

(* Whatever the program writes meanwhile, a dump that is neither full nor    *)
(* broken off shows every key that was there all the time.                   *)
THEOREM DumpsAreComplete == MapsSpec => DumpComplete
<1>1. MapsInv /\ MapsInv' /\ [MapsNext]_mapsVars =>
        [dump # NoDump /\ dump' = NoDump /\ programs'[dump.id] # Vacant =>
           dump.stable \subseteq dump.seen \/ dump.count = DumpLimit \/ dump.failed]_mapsVars
  BY DumpOverIsComplete
<1> QED
  BY <1>1, MapsInvariant, PTL DEF MapsSpec, DumpComplete

(* With their maps, the programs are the programs of Loader.                 *)
THEOREM MapsImplementLoader == MapsSpec => LoaderSpec
<1>1. MapsInit => LoaderInit
  BY DEF MapsInit
<1>2. ASSUME [MapsNext]_mapsVars PROVE [LoaderNext]_loaderVars
  <2>1. CASE TableNext
    BY <2>1
    DEF TableNext, LoadWithMaps, AttachWithMaps, DetachWithMaps, UnloadWithMaps, MapsRestart,
        LoaderNext
  <2>2. CASE RequestNext
    BY <2>2
    DEF RequestNext, MapAnswers, BeginDump, MapWrite, MapDelete, Asked
  <2>3. CASE DumpNext \/ DumpEnds \/ DumpLookup \/ DumpFails
    BY <2>3 DEF DumpNext, DumpEnds, DumpLookup, DumpFails, Walking, loaderVars
  <2>4. CASE \E id \in Watched, k \in Keys : KernelWrites(id, k) \/ KernelDeletes(id, k)
    BY <2>4 DEF KernelWrites, KernelDeletes, Moves, loaderVars
  <2>5. CASE UNCHANGED mapsVars
    BY <2>5 DEF mapsVars, loaderVars
  <2> QED
    BY <1>2, <2>1, <2>2, <2>3, <2>4, <2>5 DEF MapsNext
<1> QED
  BY <1>1, <1>2, PTL DEF MapsSpec, LoaderSpec

(* So whatever holds of Loader's programs holds of programs with maps.       *)
THEOREM MapsKeepLifecycle == MapsSpec => ClientLifecycle /\ KernelLifecycle
BY MapsImplementLoader, TableImplementsClientView, TableImplementsKernelView, PTL

=============================================================================
