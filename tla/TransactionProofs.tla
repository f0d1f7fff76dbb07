--------------------------- MODULE TransactionProofs ---------------------------
(***************************************************************************)
(* Proofs about Transaction.                                               *)
(***************************************************************************)
EXTENDS Transaction, SequenceLemmas

--------------------------------------------------------------------------------
(* The queue of pending operations.                                        *)

\* No operation stands before one that commit() must precommit first.
Sorted(q) == \A i, j \in DOMAIN q : i < j => Rank(q[i]) <= Rank(q[j])

\* At most one operation of each single-last class.
OneLast(q) == \A i, j \in DOMAIN q :
                  i # j /\ Kind[q[i]] = "last" => Class[q[i]] # Class[q[j]]

\* BeforeTrailing finds the trailing run.
LEMMA BeforeTrailingProperties ==
  ASSUME NEW q \in Seq(Op), NEW kinds
  PROVE  LET n == BeforeTrailing(q, kinds)
         IN  /\ n \in 0..Len(q)
             /\ n # 0 => Kind[q[n]] \notin kinds
             /\ \A j \in 1..Len(q) : j > n => Kind[q[j]] \in kinds
<1> DEFINE I == {i \in 1..Len(q) : Kind[q[i]] \notin kinds}
<1>1. BeforeTrailing(q, kinds) = IF I # {} THEN Max(I) ELSE 0
  BY DEF BeforeTrailing, SelectLastInSeq
<1>2. Len(q) \in Nat
  BY LenProperties
<1>3. CASE I = {}
  BY <1>1, <1>2, <1>3
<1>4. CASE I # {}
  <2> DEFINE n == BeforeTrailing(q, kinds)
  <2>1. n \in I /\ \A j \in I : j <= n
    BY <1>1, <1>2, <1>4, MaxBounded
  <2> HIDE DEF n
  <2>2. /\ n \in 1..Len(q)
        /\ Kind[q[n]] \notin kinds
    BY <2>1
  <2>3. ASSUME NEW j \in 1..Len(q), j > n PROVE Kind[q[j]] \in kinds
    <3>1. j \notin I
      BY <1>2, <2>1, <2>2, <2>3
    <3> QED
      BY <2>3, <3>1
  <2> QED
    BY <1>2, <2>2, <2>3 DEF n
<1> QED
  BY <1>3, <1>4

\* equivalent_index finds the last operation of the class, if there is one.
LEMMA EquivalentIndexProperties ==
  ASSUME NEW q \in Seq(Op), NEW o \in Op
  PROVE  LET n == EquivalentIndex(q, o)
         IN  /\ n \in 0..Len(q)
             /\ n # 0 => Kind[o] = "last" /\ Class[q[n]] = Class[o]
             /\ \A j \in 1..Len(q) :
                   j > n /\ Kind[o] = "last" => Class[q[j]] # Class[o]
<1> DEFINE I == {i \in 1..Len(q) : Class[q[i]] = Class[o]}
<1>1. EquivalentIndex(q, o) = IF Kind[o] = "last" /\ I # {} THEN Max(I) ELSE 0
  BY DEF EquivalentIndex, SelectLastInSeq
<1>2. Len(q) \in Nat
  BY LenProperties
<1>3. CASE I = {}
  BY <1>1, <1>2, <1>3
<1>4. CASE I # {}
  <2>0. CASE Kind[o] # "last"
    BY <1>1, <1>2, <2>0
  <2> SUFFICES ASSUME Kind[o] = "last"
               PROVE  LET n == EquivalentIndex(q, o)
                      IN  /\ n \in 1..Len(q)
                          /\ Class[q[n]] = Class[o]
                          /\ \A j \in 1..Len(q) : j > n => Class[q[j]] # Class[o]
    BY <1>2, <2>0
  <2> DEFINE n == EquivalentIndex(q, o)
  <2>1. n \in I /\ \A j \in I : j <= n
    BY <1>1, <1>2, <1>4, MaxBounded
  <2> HIDE DEF n
  <2>2. /\ n \in 1..Len(q)
        /\ Class[q[n]] = Class[o]
    BY <2>1
  <2>3. ASSUME NEW j \in 1..Len(q), j > n PROVE Class[q[j]] # Class[o]
    <3>1. j \notin I
      BY <1>2, <2>1, <2>2, <2>3
    <3> QED
      BY <2>3, <3>1
  <2> QED
    BY <1>2, <2>2, <2>3 DEF n
<1> QED
  BY <1>3, <1>4

\* Popping the equivalent operation.
LEMMA WithoutEquivalentProperties ==
  ASSUME NEW q \in Seq(Op), NEW o \in Op, Injective(q)
  PROVE  LET r == WithoutEquivalent(q, o)
         IN  /\ r \in Seq(Op)
             /\ Injective(r)
             /\ ToSet(r) = ToSet(q) \ Superseded(q, o)
             /\ Sorted(q) => Sorted(r)
             /\ OneLast(q) => OneLast(r)
             /\ OneLast(q) /\ Kind[o] = "last"
                   => \A j \in DOMAIN r : Class[r[j]] # Class[o]
<1> DEFINE n == EquivalentIndex(q, o)
           r == WithoutEquivalent(q, o)
<1>1. /\ n \in 0..Len(q)
      /\ n # 0 => Kind[o] = "last" /\ Class[q[n]] = Class[o]
      /\ \A j \in 1..Len(q) : j > n /\ Kind[o] = "last" => Class[q[j]] # Class[o]
  BY EquivalentIndexProperties
<1>2. Len(q) \in Nat /\ DOMAIN q = 1..Len(q) /\ q \in [1..Len(q) -> Op]
  BY LenProperties
<1>3. CASE n = 0
  <2>1. r = q /\ Superseded(q, o) = {}
    BY <1>3 DEF WithoutEquivalent, Superseded
  <2> QED
    BY <1>1, <1>2, <1>3, <2>1
<1>4. CASE n # 0
  <2>1. r = RemoveAt(q, n) /\ Superseded(q, o) = {q[n]}
    BY <1>4 DEF WithoutEquivalent, Superseded
  <2>2. n \in 1..Len(q)
    BY <1>1, <1>2, <1>4
  <2> HIDE DEF n, r
  <2>3. /\ r \in Seq(Op) /\ Len(r) = Len(q) - 1
        /\ \A j \in 1..(Len(q) - 1) : r[j] = IF j < n THEN q[j] ELSE q[j + 1]
    BY <2>1, <2>2, RemoveAtProperties
  <2>4. DOMAIN r = 1..(Len(q) - 1)
    BY <2>3, LenProperties
  <2> DEFINE src(j) == IF j < n THEN j ELSE j + 1
  <2>5. \A j \in DOMAIN r : src(j) \in DOMAIN q /\ src(j) # n /\ r[j] = q[src(j)]
    BY <1>2, <2>2, <2>3, <2>4
  <2>6. \A i, j \in DOMAIN r : i < j => src(i) < src(j)
    BY <1>2, <2>2, <2>4
  <2>7. \A i, j \in DOMAIN r : i # j => src(i) # src(j)
    BY <1>2, <2>2, <2>4
  <2>8. \A k \in DOMAIN q : k # n => \E j \in DOMAIN r : src(j) = k
    <3> SUFFICES ASSUME NEW k \in DOMAIN q, k # n PROVE \E j \in DOMAIN r : src(j) = k
      OBVIOUS
    <3>1. CASE k < n
      BY <1>2, <2>2, <2>4, <3>1
    <3>2. CASE k > n
      <4>1. k - 1 \in DOMAIN r /\ src(k - 1) = k
        BY <1>2, <2>2, <2>4, <3>2
      <4> QED
        BY <4>1
    <3> QED
      BY <1>2, <2>2, <3>1, <3>2
  <2> HIDE DEF src
  <2>9. Injective(r)
    BY <2>5, <2>7 DEF Injective
  <2>10. ToSet(r) = ToSet(q) \ {q[n]}
    <3>1. ASSUME NEW x \in ToSet(r) PROVE x \in ToSet(q) \ {q[n]}
      <4>1. PICK j \in DOMAIN r : x = r[j]
        BY <2>3, <2>4 DEF ToSet
      <4> QED
        BY <1>2, <2>2, <2>5, <4>1 DEF Injective, ToSet
    <3>2. ASSUME NEW x \in ToSet(q), x # q[n] PROVE x \in ToSet(r)
      <4>1. PICK k \in DOMAIN q : x = q[k]
        BY <1>2 DEF ToSet
      <4>2. PICK j \in DOMAIN r : src(j) = k
        BY <2>8, <3>2, <4>1
      <4>3. x = r[j]
        BY <2>5, <4>1, <4>2
      <4> QED
        BY <2>4, <4>3, <2>3 DEF ToSet
    <3> QED
      BY <3>1, <3>2
  <2>11. Sorted(q) => Sorted(r)
    BY <2>5, <2>6 DEF Sorted
  <2>12. OneLast(q) => OneLast(r)
    BY <2>5, <2>7 DEF OneLast
  <2>13. ASSUME OneLast(q), Kind[o] = "last", NEW j \in DOMAIN r
         PROVE  Class[r[j]] # Class[o]
    <3>1. Class[q[n]] = Class[o]
      BY <1>1, <1>4 DEF n
    <3>2. src(j) \in DOMAIN q /\ src(j) # n /\ n \in DOMAIN q /\ r[j] = q[src(j)]
      BY <1>2, <2>2, <2>5
    <3>3. q[n] \in Op
      BY <1>2, <2>2
    <3>4. Kind[q[n]] = "last"
      BY <2>13, <3>1, <3>3, ClassAssumption
    <3> QED
      BY <2>13, <3>1, <3>2, <3>4 DEF OneLast
  <2> QED
    BY <2>1, <2>3, <2>9, <2>10, <2>11, <2>12, <2>13 DEF r
<1> QED
  BY <1>3, <1>4

\* Inserting an operation at the place of its kind.
LEMMA InsertedProperties ==
  ASSUME NEW q \in Seq(Op), NEW o \in Op \ ToSet(q), Injective(q)
  PROVE  LET r == Inserted(q, o)
         IN  /\ r \in Seq(Op)
             /\ Injective(r)
             /\ ToSet(r) = ToSet(q) \cup {o}
             /\ Sorted(q) => Sorted(r)
             /\ /\ OneLast(q)
                /\ Kind[o] = "last" => \A j \in DOMAIN q : Class[q[j]] # Class[o]
                => OneLast(r)
<1> DEFINE m == BeforeTrailing(q, Overtaken(Kind[o]))
           n == m + 1
           r == Inserted(q, o)
<1>1. /\ m \in 0..Len(q)
      /\ m # 0 => Kind[q[m]] \notin Overtaken(Kind[o])
      /\ \A j \in 1..Len(q) : j > m => Kind[q[j]] \in Overtaken(Kind[o])
  BY BeforeTrailingProperties
<1>2. Len(q) \in Nat /\ DOMAIN q = 1..Len(q) /\ q \in [1..Len(q) -> Op]
  BY LenProperties
<1>3. n \in 1..(Len(q) + 1) /\ m = n - 1
  BY <1>1, <1>2
<1>4. r = InsertAt(q, n, o)
  BY DEF Inserted
<1> HIDE DEF m, n, r
<1>5. /\ r \in Seq(Op) /\ Len(r) = Len(q) + 1
      /\ \A j \in 1..(Len(q) + 1) :
            r[j] = IF j < n THEN q[j] ELSE IF j = n THEN o ELSE q[j - 1]
  <2>1. o \in Op
    OBVIOUS
  <2>2. /\ InsertAt(q, n, o) \in Seq(Op)
        /\ Len(InsertAt(q, n, o)) = Len(q) + 1
        /\ \A j \in 1..(Len(q) + 1) :
              InsertAt(q, n, o)[j] = IF j < n THEN q[j] ELSE IF j = n THEN o ELSE q[j - 1]
    BY ONLY <1>3, <2>1, q \in Seq(Op), InsertAtProperties
  <2> QED
    BY ONLY <1>4, <2>2
<1>6. DOMAIN r = 1..(Len(q) + 1)
  BY <1>5, LenProperties
<1> DEFINE src(j) == IF j < n THEN j ELSE j - 1
<1>7. /\ n \in DOMAIN r /\ r[n] = o
      /\ \A j \in DOMAIN r : j # n => src(j) \in DOMAIN q /\ r[j] = q[src(j)]
  BY <1>2, <1>3, <1>5, <1>6
<1>8. \A i, j \in DOMAIN r : i # n /\ j # n /\ i < j => src(i) < src(j)
  BY <1>2, <1>3, <1>6
<1>9. \A i, j \in DOMAIN r : i # n /\ j # n /\ i # j => src(i) # src(j)
  BY <1>2, <1>3, <1>6
<1>10. \A k \in DOMAIN q : \E j \in DOMAIN r : j # n /\ src(j) = k
  <2> SUFFICES ASSUME NEW k \in DOMAIN q PROVE \E j \in DOMAIN r : j # n /\ src(j) = k
    OBVIOUS
  <2>1. CASE k < n
    BY <1>2, <1>3, <1>6, <2>1
  <2>2. CASE k >= n
    <3>1. k + 1 \in DOMAIN r /\ k + 1 # n /\ src(k + 1) = k
      BY <1>2, <1>3, <1>6, <2>2
    <3> QED
      BY <3>1
  <2> QED
    BY <1>2, <1>3, <2>1, <2>2
<1>11. \A j \in DOMAIN r : /\ j < n => src(j) = j
                           /\ j > n => src(j) > m
  BY <1>2, <1>3, <1>6
<1> HIDE DEF src
<1>12. \A k \in DOMAIN q : q[k] # o
  BY <1>2 DEF ToSet
<1>13. Injective(r)
  BY <1>7, <1>9, <1>12 DEF Injective
<1>14. ToSet(r) = ToSet(q) \cup {o}
  <2>1. ASSUME NEW x \in ToSet(r), x # o PROVE x \in ToSet(q)
    <3>1. PICK j \in DOMAIN r : x = r[j]
      BY <1>5, <1>6 DEF ToSet
    <3> QED
      BY <1>2, <1>7, <2>1, <3>1 DEF ToSet
  <2>2. ASSUME NEW x \in ToSet(q) PROVE x \in ToSet(r)
    <3>1. PICK k \in DOMAIN q : x = q[k]
      BY <1>2 DEF ToSet
    <3>2. PICK j \in DOMAIN r : j # n /\ src(j) = k
      BY <1>10
    <3>3. x = r[j]
      BY <1>7, <3>1, <3>2
    <3> QED
      BY <1>5, <1>6, <3>3 DEF ToSet
  <2>3. o \in ToSet(r)
    BY <1>5, <1>6, <1>7 DEF ToSet
  <2> QED
    BY <2>1, <2>2, <2>3
<1>15. ASSUME Sorted(q) PROVE Sorted(r)
  <2> DEFINE R(k) == IF k = "normal" THEN 0 ELSE IF k = "late" THEN 1 ELSE 2
  <2>1. \A p \in Op : Kind[p] \in Kinds /\ Rank(p) = R(Kind[p])
    BY KindAssumption DEF Rank, Kinds
  <2>2. \A p \in Op : /\ Kind[p] \in Overtaken(Kind[o]) => Rank(o) < Rank(p)
                      /\ Kind[p] \notin Overtaken(Kind[o]) => Rank(p) <= Rank(o)
    BY <2>1 DEF Overtaken, Kinds
  <2>3. \A p \in Op : Rank(p) \in 0..2
    BY <2>1
  <2>4. ASSUME NEW i \in DOMAIN r, NEW j \in DOMAIN r, i < j
        PROVE  Rank(r[i]) <= Rank(r[j])
    <3>1. CASE i # n /\ j # n
      BY <1>7, <1>8, <1>15, <2>4, <3>1 DEF Sorted
    <3>2. CASE i = n
      <4>1. src(j) \in DOMAIN q /\ src(j) > m /\ r[j] = q[src(j)]
        BY <1>3, <1>6, <1>7, <1>11, <2>4, <3>2
      <4>2. q[src(j)] \in Op /\ Kind[q[src(j)]] \in Overtaken(Kind[o])
        BY <1>1, <1>2, <4>1
      <4>3. Rank(o) < Rank(r[j])
        BY <2>2, <4>1, <4>2
      <4> QED
        BY <1>7, <2>3, <3>2, <4>1, <4>2, <4>3
    <3>3. CASE j = n
      <4>1. i \in DOMAIN q /\ i <= m /\ r[i] = q[i] /\ m \in DOMAIN q /\ m # 0
        BY <1>2, <1>3, <1>6, <1>7, <1>11, <2>4, <3>3
      <4>2. q[m] \in Op /\ q[i] \in Op /\ Rank(q[m]) <= Rank(o)
        BY <1>1, <1>2, <2>2, <4>1
      <4>3. Rank(q[i]) <= Rank(q[m])
        <5>1. CASE i = m
          BY <2>3, <4>2, <5>1
        <5>2. CASE i < m
          BY <1>15, <4>1, <5>2 DEF Sorted
        <5> QED
          BY <1>2, <4>1, <5>1, <5>2
      <4> QED
        BY <1>7, <2>3, <3>3, <4>1, <4>2, <4>3
    <3> QED
      BY <3>1, <3>2, <3>3
  <2> QED
    BY <2>4 DEF Sorted
<1>16. ASSUME OneLast(q),
              Kind[o] = "last" => \A j \in DOMAIN q : Class[q[j]] # Class[o]
       PROVE  OneLast(r)
  <2>1. ASSUME NEW i \in DOMAIN r, NEW j \in DOMAIN r, i # j, Kind[r[i]] = "last"
        PROVE  Class[r[i]] # Class[r[j]]
    <3>1. CASE i # n /\ j # n
      BY <1>7, <1>9, <1>16, <2>1, <3>1 DEF OneLast
    <3>2. CASE i = n
      BY <1>7, <1>16, <2>1, <3>2
    <3>3. CASE j = n
      <4>1. r[i] = q[src(i)] /\ src(i) \in DOMAIN q /\ r[i] \in Op
        BY <1>2, <1>7, <2>1, <3>3
      <4>2. Kind[o] = "last" \/ Class[r[i]] # Class[o]
        BY <2>1, <4>1, ClassAssumption
      <4> QED
        BY <1>7, <1>16, <3>3, <4>1, <4>2
    <3> QED
      BY <3>1, <3>2, <3>3
  <2> QED
    BY <2>1 DEF OneLast
<1> QED
  BY <1>5, <1>13, <1>14, <1>15, <1>16 DEF r

--------------------------------------------------------------------------------
(* Types.                                                                  *)

\* What Register does to the queue, for a queue without repetition.
LEMMA RegisterQueue ==
  ASSUME pending \in Seq(Op), Injective(pending), NEW o \in Op \ ToSet(pending)
  PROVE  LET r == Inserted(WithoutEquivalent(pending, o), o)
         IN  /\ r \in Seq(Op)
             /\ Injective(r)
             /\ ToSet(r) = (ToSet(pending) \ Superseded(pending, o)) \cup {o}
             /\ Sorted(pending) => Sorted(r)
             /\ OneLast(pending) => OneLast(r)
<1> DEFINE w == WithoutEquivalent(pending, o)
           r == Inserted(w, o)
<1>1. /\ w \in Seq(Op) /\ Injective(w)
      /\ ToSet(w) = ToSet(pending) \ Superseded(pending, o)
      /\ Sorted(pending) => Sorted(w)
      /\ OneLast(pending) => OneLast(w)
      /\ OneLast(pending) /\ Kind[o] = "last" => \A j \in DOMAIN w : Class[w[j]] # Class[o]
  BY WithoutEquivalentProperties
<1> HIDE DEF w
<1>2. o \in Op \ ToSet(w)
  BY <1>1
<1>3. /\ r \in Seq(Op) /\ Injective(r)
      /\ ToSet(r) = ToSet(w) \cup {o}
      /\ Sorted(w) => Sorted(r)
      /\ /\ OneLast(w)
         /\ Kind[o] = "last" => \A j \in DOMAIN w : Class[w[j]] # Class[o]
         => OneLast(r)
  BY <1>1, <1>2, InsertedProperties
<1> QED
  BY <1>1, <1>3 DEF w

\* Superseding takes an operation of the queue.
LEMMA SupersededInQueue ==
  ASSUME NEW q \in Seq(Op), NEW o \in Op
  PROVE  Superseded(q, o) \subseteq ToSet(q) /\ Superseded(q, o) \subseteq Op
<1>1. EquivalentIndex(q, o) \in 0..Len(q)
  BY EquivalentIndexProperties
<1>2. Len(q) \in Nat /\ DOMAIN q = 1..Len(q) /\ q \in [1..Len(q) -> Op]
  BY LenProperties
<1> QED
  BY <1>1, <1>2 DEF Superseded, ToSet

\* The operations waiting are distinct, and so are those processed.
Distinct == Injective(pending) /\ Injective(processed)

\* The thread runs the handler of an event only in the phase that hands it.
PhaseInv ==
    /\ handling.event = "precommit" => phase = "precommit"
    /\ handling.event = "revertprecommit" => phase = "revert"
    /\ handling.event = "rollback" => phase = "rollback"
    /\ handling.event = "postcommit" => phase = "postcommit"
    /\ phase \in {"query", "hook"} => commitState \in {"none", "uncommitable"}
    /\ phase \in {"precommit", "revert", "dbcommit"} => commitState = "precommit"
    /\ refused => commitState = "uncommitable" /\ phase \in {"query", "hook", "rollback"}

\* Nothing is both waiting and processed while commit() builds its list, and what
\* a single-last operation superseded is in neither.
QueueInv ==
    /\ Distinct
    /\ phase \in {"precommit", "revert"} => ToSet(pending) \cap ToSet(processed) = {}
    /\ phase = "dbcommit" => pending = processed
    /\ ToSet(pending) \cap replaced = {}
    /\ phase \in {"precommit", "revert"} => ToSet(processed) \cap replaced = {}

\* What was handed to the operations that may still be handed something.
HistoryInv ==
    /\ \A o \in Op : fired[o] \in Histories
    /\ phase \in {"query", "hook", "precommit", "revert"} =>
          \A o \in ToSet(pending) : fired[o] = {}
    /\ phase \in {"precommit", "dbcommit"} =>
          \A o \in ToSet(processed) : fired[o] = {"precommit"} /\ o \notin durable
    /\ phase = "revert" =>
          \A i \in DOMAIN processed :
             /\ fired[processed[i]] = IF i <= cursor THEN {"precommit"}
                                      ELSE {"precommit", "revertprecommit"}
             /\ processed[i] \notin durable
    /\ phase = "rollback" =>
          \A o \in ToSet(pending) : /\ fired[o] \in {{}, {"precommit", "revertprecommit"}}
                                    /\ o \notin durable
    /\ phase = "postcommit" =>
          \A o \in ToSet(pending) : fired[o] = {"precommit"} /\ o \in durable
    /\ phase \in {"query", "hook"} => processed = <<>>
    /\ phase = "rollback" => \A o \in ToSet(processed) : "revertprecommit" \in fired[o]
    /\ phase = "postcommit" => ToSet(processed) \subseteq durable
    /\ \A o \in durable : fired[o] \in {{"precommit"}, {"precommit", "postcommit"}}
    /\ \A o \in Op : "postcommit" \in fired[o] => o \in durable /\ o \notin replaced

\* Until commit() is through, the queue is in the order of the kinds.
OrderInv ==
    phase \in {"query", "hook", "precommit"} => Sorted(pending) /\ OneLast(pending)

Inv == TypeOK /\ PhaseInv /\ QueueInv /\ HistoryInv /\ OrderInv

\* What remains of the queue when its head is handed an event.
LEMMA PopQueue ==
  ASSUME TypeOK, pending # <<>>
  PROVE  /\ Head(pending) \in Op /\ Head(pending) \in ToSet(pending)
         /\ Tail(pending) \in Seq(Op)
         /\ ToSet(pending) = ToSet(Tail(pending)) \cup {Head(pending)}
         /\ Injective(pending) => /\ Injective(Tail(pending))
                                 /\ Head(pending) \notin ToSet(Tail(pending))
  BY PopProperties DEF TypeOK

\* Handing an event keeps the types.
LEMMA HandleType ==
  ASSUME TypeOK, NEW o \in Op, NEW e \in Event, Handle(o, e)
  PROVE  /\ handling' \in Handling
         /\ fired' \in [Op -> SUBSET Event]
         /\ handling'.op = o /\ handling'.event = e
         /\ \A p \in Op : fired'[p] = IF p = o THEN fired[o] \cup {e} ELSE fired[p]
  BY DEF TypeOK, Handle, Handling

LEMMA ClearType ==
  ASSUME Clear
  PROVE  /\ commitState' = "none" /\ pending' = <<>> /\ processed' = <<>> /\ cursor' = 0
         /\ phase' = "query" /\ handling' = Idle /\ acked' = {} /\ refused' = FALSE
         /\ pending' \in Seq(Op) /\ processed' \in Seq(Op) /\ cursor' \in 0..Len(processed')
         /\ ToSet(pending') = {} /\ ToSet(processed') = {}
         /\ Injective(pending') /\ Injective(processed')
  BY EmptySequence, EmptySeq DEF Clear

\* Every step keeps the types.
LEMMA TypeStep ==
  ASSUME TypeOK, Distinct, [Next]_vars
  PROVE  TypeOK'
<1> USE DEF TypeOK, Phases, Event, Handling, Idle, engine, data, history
<1>1. ASSUME NEW o \in Op, Register(o) PROVE TypeOK'
  <2>1. o \in Op \ ToSet(pending)
    BY <1>1 DEF Register, Registered
  <2>2. pending' \in Seq(Op)
    BY <1>1, <2>1, RegisterQueue DEF Register, Distinct
  <2>3. replaced' \subseteq Op
    BY <1>1, SupersededInQueue DEF Register
  <2> QED
    BY <1>1, <2>2, <2>3 DEF Register
<1>2. ASSUME NEW x \in Row, Write(x) PROVE TypeOK'
  BY <1>2 DEF Write
<1>3. ASSUME NEW x \in Row, WriteAfterReconnect(x) PROVE TypeOK'
  BY <1>3 DEF WriteAfterReconnect
<1>4. ASSUME NEW v \in BOOLEAN, SqlError(v) PROVE TypeOK'
  BY <1>4 DEF SqlError
<1>5. ASSUME NEW v \in BOOLEAN, HookRaises(v) PROVE TypeOK'
  BY <1>5 DEF HookRaises
<1>6. CASE QueryRefused
  BY <1>6 DEF QueryRefused
<1>7. CASE CallHooks \/ HooksReturn
  BY <1>7 DEF CallHooks, HooksReturn
<1>8. CASE Commit
  BY <1>8, EmptySeq DEF Commit
<1>9. CASE PrecommitNext
  <2>1. /\ Head(pending) \in Op /\ Tail(pending) \in Seq(Op)
        /\ handling' \in Handling /\ fired' \in [Op -> SUBSET Event]
    BY <1>9, PopQueue, HandleType DEF PrecommitNext
  <2>2. /\ processed' \in Seq(Op) /\ Len(processed') = Len(processed) + 1
        /\ Len(processed) \in Nat
    BY <1>9, <2>1, AppendProperties, LenProperties DEF PrecommitNext
  <2> QED
    BY <1>9, <2>1, <2>2 DEF PrecommitNext
<1>10. CASE HandlerReturns
  BY <1>10 DEF HandlerReturns
<1>11. CASE PrecommitRaises
  BY <1>11, LenProperties DEF PrecommitRaises
<1>12. CASE PrecommitDone
  BY <1>12 DEF PrecommitDone
<1>13. CASE RevertNext
  <2>1. processed[cursor] \in Op
    BY <1>13, LenProperties DEF RevertNext
  <2>2. handling' \in Handling /\ fired' \in [Op -> SUBSET Event]
    BY <1>13, <2>1, HandleType DEF RevertNext
  <2> QED
    BY <1>13, <2>2, LenProperties DEF RevertNext
<1>14. CASE RevertDone
  BY <1>14, ConcatProperties DEF RevertDone
<1>15. CASE Rollback
  BY <1>15 DEF Rollback
<1>16. CASE RollbackNext
  <2>1. /\ Tail(pending) \in Seq(Op)
        /\ handling' \in Handling /\ fired' \in [Op -> SUBSET Event]
    BY <1>16, PopQueue, HandleType DEF RollbackNext
  <2> QED
    BY <1>16, <2>1 DEF RollbackNext
<1>17. CASE RollbackDone
  BY <1>17, ClearType DEF RollbackDone
<1>18. CASE DbCommit
  <2>1. ToSet(pending) \subseteq Op
    BY ToSetProperties
  <2> QED
    BY <1>18, <2>1 DEF DbCommit
<1>19. CASE DbCommitFails
  BY <1>19, ClearType DEF DbCommitFails
<1>20. CASE PostcommitNext
  <2>1. /\ Tail(pending) \in Seq(Op)
        /\ handling' \in Handling /\ fired' \in [Op -> SUBSET Event]
    BY <1>20, PopQueue, HandleType DEF PostcommitNext
  <2> QED
    BY <1>20, <2>1 DEF PostcommitNext
<1>21. CASE PostcommitDone
  BY <1>21, ClearType DEF PostcommitDone
<1>22. CASE Crash
  BY <1>22, ClearType DEF Crash
<1>23. CASE UNCHANGED vars
  BY <1>23 DEF vars
<1> QED
  BY <1>1, <1>2, <1>3, <1>4, <1>5, <1>6, <1>7, <1>8, <1>9, <1>10, <1>11, <1>12, <1>13,
     <1>14, <1>15, <1>16, <1>17, <1>18, <1>19, <1>20, <1>21, <1>22, <1>23
     DEF Next, Engine, Caller

--------------------------------------------------------------------------------
(* The inductive invariant.                                                *)

LEMMA InvInit == Init => Inv
<1> SUFFICES ASSUME Init PROVE Inv
  OBVIOUS
<1>1. pending \in Seq(Op) /\ ToSet(pending) = {} /\ Injective(pending)
  BY EmptySequence DEF Init
<1>2. processed \in Seq(Op) /\ ToSet(processed) = {} /\ Injective(processed)
      /\ cursor \in 0..Len(processed)
  BY EmptySequence, EmptySeq DEF Init
<1>3. DOMAIN pending = {}
  BY <1>1, ToSetProperties
<1>4. TypeOK
  BY <1>1, <1>2 DEF Init, TypeOK, Phases, Handling
<1>5. PhaseInv
  BY DEF Init, PhaseInv, Idle
<1>6. QueueInv
  BY <1>1, <1>2 DEF Init, QueueInv, Distinct
<1>7. HistoryInv
  BY <1>1, <1>2 DEF Init, HistoryInv, Histories
<1>8. OrderInv
  BY <1>3 DEF OrderInv, Sorted, OneLast
<1> QED
  BY <1>4, <1>5, <1>6, <1>7, <1>8 DEF Inv

LEMMA PhaseStep ==
  ASSUME TypeOK, PhaseInv, [Next]_vars
  PROVE  PhaseInv'
<1> USE DEF PhaseInv, Idle, engine, data, history
<1>1. ASSUME NEW o \in Op, Register(o) PROVE PhaseInv'
  BY <1>1 DEF Register
<1>2. ASSUME NEW x \in Row, Write(x) \/ WriteAfterReconnect(x) PROVE PhaseInv'
  BY <1>2 DEF Write, WriteAfterReconnect
<1>3. ASSUME NEW v \in BOOLEAN, SqlError(v) PROVE PhaseInv'
  BY <1>3 DEF SqlError, MayWrite
<1>4. ASSUME NEW v \in BOOLEAN, HookRaises(v) PROVE PhaseInv'
  BY <1>4 DEF HookRaises
<1>5. CASE QueryRefused
  BY <1>5 DEF QueryRefused
<1>6. CASE CallHooks \/ HooksReturn \/ Commit \/ Rollback
  BY <1>6 DEF CallHooks, HooksReturn, Commit, Rollback
<1>7. CASE HandlerReturns \/ PrecommitRaises \/ PrecommitDone \/ RevertDone
  BY <1>7 DEF HandlerReturns, PrecommitRaises, PrecommitDone, RevertDone
<1>8. CASE PrecommitNext \/ RevertNext \/ RollbackNext \/ PostcommitNext
  BY <1>8 DEF PrecommitNext, RevertNext, RollbackNext, PostcommitNext, Handle
<1>9. CASE RollbackDone \/ DbCommitFails \/ PostcommitDone \/ Crash
  BY <1>9 DEF RollbackDone, DbCommitFails, PostcommitDone, Crash, Clear
<1>10. CASE DbCommit
  BY <1>10 DEF DbCommit
<1>11. CASE UNCHANGED vars
  BY <1>11 DEF vars
<1> QED
  BY <1>1, <1>2, <1>3, <1>4, <1>5, <1>6, <1>7, <1>8, <1>9, <1>10, <1>11
     DEF Next, Engine, Caller

LEMMA QueueStep ==
  ASSUME TypeOK, PhaseInv, QueueInv, [Next]_vars
  PROVE  QueueInv'
<1> USE DEF QueueInv, Distinct, engine, data, history
<1>1. ASSUME NEW o \in Op, Register(o) PROVE QueueInv'
  <2>1. /\ o \in Op \ ToSet(pending) /\ o \notin ToSet(processed) /\ o \notin replaced
    BY <1>1 DEF Register, Registered
  <2>2. /\ Injective(pending')
        /\ ToSet(pending') = (ToSet(pending) \ Superseded(pending, o)) \cup {o}
    BY <1>1, <2>1, RegisterQueue DEF Register, TypeOK
  <2>3. Superseded(pending, o) \subseteq ToSet(pending)
    BY SupersededInQueue DEF TypeOK
  <2>4. phase' # "dbcommit"
    BY <1>1 DEF Register, PhaseInv
  <2> QED
    BY <1>1, <2>1, <2>2, <2>3, <2>4 DEF Register
<1>2. ASSUME NEW x \in Row, Write(x) \/ WriteAfterReconnect(x) PROVE QueueInv'
  BY <1>2 DEF Write, WriteAfterReconnect
<1>3. ASSUME NEW v \in BOOLEAN, SqlError(v) \/ HookRaises(v) PROVE QueueInv'
  BY <1>3 DEF SqlError, HookRaises
<1>4. CASE QueryRefused \/ CallHooks \/ HooksReturn \/ Rollback
  BY <1>4 DEF QueryRefused, CallHooks, HooksReturn, Rollback
<1>5. CASE Commit
  BY <1>5, EmptySequence DEF Commit
<1>6. CASE HandlerReturns
  BY <1>6 DEF HandlerReturns
<1>7. CASE PrecommitRaises
  BY <1>7 DEF PrecommitRaises, PhaseInv
<1>8. CASE PrecommitDone
  BY <1>8 DEF PrecommitDone
<1>9. CASE RevertDone
  <2>1. /\ ToSet(pending') = ToSet(processed) \cup ToSet(pending)
        /\ Injective(pending')
    BY <1>9, ConcatDistinct DEF RevertDone, TypeOK
  <2> QED
    BY <1>9, <2>1 DEF RevertDone
<1>10. CASE PrecommitNext
  <2>1. /\ Head(pending) \in Op /\ Head(pending) \notin ToSet(pending')
        /\ ToSet(pending) = ToSet(pending') \cup {Head(pending)}
        /\ Injective(pending')
    BY <1>10, PopQueue DEF PrecommitNext
  <2>2. /\ ToSet(processed') = ToSet(processed) \cup {Head(pending)}
        /\ Injective(processed')
    BY <1>10, <2>1, AppendNew DEF PrecommitNext, TypeOK
  <2> QED
    BY <1>10, <2>1, <2>2 DEF PrecommitNext
<1>11. CASE RevertNext
  BY <1>11 DEF RevertNext
<1>12. CASE RollbackNext \/ PostcommitNext
  <2>1. ToSet(pending') \subseteq ToSet(pending) /\ Injective(pending')
    BY <1>12, PopQueue DEF RollbackNext, PostcommitNext
  <2> QED
    BY <1>12, <2>1 DEF RollbackNext, PostcommitNext
<1>13. CASE RollbackDone \/ DbCommitFails \/ PostcommitDone \/ Crash
  BY <1>13, ClearType DEF RollbackDone, DbCommitFails, PostcommitDone, Crash
<1>14. CASE DbCommit
  BY <1>14 DEF DbCommit
<1>15. CASE UNCHANGED vars
  BY <1>15 DEF vars
<1> QED
  BY <1>1, <1>2, <1>3, <1>4, <1>5, <1>6, <1>7, <1>8, <1>9, <1>10, <1>11, <1>12, <1>13,
     <1>14, <1>15 DEF Next, Engine, Caller

\* An operation no event has reached is not committed.
LEMMA UnfiredNotDurable ==
  ASSUME HistoryInv, NEW h, fired[h] = {}
  PROVE  h \notin durable
BY DEF HistoryInv

LEMMA HistoryStep ==
  ASSUME TypeOK, PhaseInv, QueueInv, HistoryInv, [Next]_vars
  PROVE  HistoryInv'
<1> USE DEF HistoryInv, Histories, engine, data, history
<1>1. ASSUME NEW o \in Op, Register(o) PROVE HistoryInv'
  <2>1. o \notin ToSet(pending) /\ fired[o] = {}
    BY <1>1 DEF Register, Registered
  <2>2. ToSet(pending') = (ToSet(pending) \ Superseded(pending, o)) \cup {o}
    BY <1>1, <2>1, RegisterQueue DEF Register, TypeOK, QueueInv, Distinct
  <2>3. Superseded(pending, o) \subseteq ToSet(pending)
    BY SupersededInQueue DEF TypeOK
  <2>4. o \notin durable
    BY <2>1
  <2>5. phase \in {"query", "hook", "precommit", "revert", "rollback"}
    BY <1>1 DEF Register, PhaseInv
  <2>6. \A p \in Superseded(pending, o) : "postcommit" \notin fired[p]
    BY <2>3, <2>5
  <2>7. fired' = fired /\ durable' = durable /\ phase' = phase /\ processed' = processed
        /\ cursor' = cursor /\ replaced' = replaced \cup Superseded(pending, o)
    BY <1>1 DEF Register
  <2> QED
    BY <2>1, <2>2, <2>4, <2>5, <2>6, <2>7
<1>2. ASSUME NEW x \in Row, Write(x) \/ WriteAfterReconnect(x) PROVE HistoryInv'
  BY <1>2 DEF Write, WriteAfterReconnect
<1>3. ASSUME NEW v \in BOOLEAN, SqlError(v) \/ HookRaises(v) PROVE HistoryInv'
  BY <1>3 DEF SqlError, HookRaises
<1>4. CASE QueryRefused \/ CallHooks \/ HooksReturn
  BY <1>4 DEF QueryRefused, CallHooks, HooksReturn
<1>5. CASE Rollback
  BY <1>5, ToSetProperties, EmptySequence DEF Rollback, TypeOK
<1>6. CASE Commit
  BY <1>6, EmptySequence DEF Commit
<1>7. CASE HandlerReturns
  BY <1>7 DEF HandlerReturns
<1>8. CASE PrecommitRaises
  <2>1. phase = "precommit"
    BY <1>8 DEF PrecommitRaises, PhaseInv
  <2>2. /\ processed' = processed /\ DOMAIN processed = 1..Len(processed)
        /\ cursor' = Len(processed) /\ Len(processed) \in Nat
        /\ \A i \in DOMAIN processed : processed[i] \in ToSet(processed)
    BY <1>8, ToSetProperties DEF PrecommitRaises, TypeOK
  <2> QED
    BY <1>8, <2>1, <2>2 DEF PrecommitRaises
<1>9. CASE PrecommitDone
  BY <1>9 DEF PrecommitDone
<1>10. CASE PrecommitNext
  <2> DEFINE h == Head(pending)
  <2>1. /\ h \in Op /\ h \in ToSet(pending) /\ h \notin ToSet(pending')
        /\ ToSet(pending) = ToSet(pending') \cup {h}
    BY <1>10, PopQueue DEF PrecommitNext, QueueInv, Distinct
  <2>2. ToSet(processed') = ToSet(processed) \cup {h}
    BY <1>10, <2>1, AppendNew DEF PrecommitNext, TypeOK
  <2>3. \A p \in Op : fired'[p] = IF p = h THEN fired[h] \cup {"precommit"} ELSE fired[p]
    BY <1>10, <2>1, HandleType DEF PrecommitNext, Event
  <2>4. fired[h] = {} /\ h \notin durable /\ h \notin ToSet(processed)
    <3>1. phase = "precommit"
      BY <1>10 DEF PrecommitNext
    <3> HIDE DEF h
    <3>2. fired[h] = {}
      BY <2>1, <3>1
    <3>3. h \notin ToSet(processed)
      BY <2>1, <3>1 DEF QueueInv
    <3>4. h \notin durable
      <4> HIDE DEF HistoryInv, Histories
      <4> QED
        BY <3>2, UnfiredNotDurable
    <3> QED
      BY <3>2, <3>3, <3>4
  <2>5. ToSet(pending) \subseteq Op /\ ToSet(processed) \subseteq Op /\ durable \subseteq Op
    BY ToSetProperties DEF TypeOK
  <2>6. phase = "precommit" /\ phase' = phase /\ durable' = durable /\ replaced' = replaced
    BY <1>10 DEF PrecommitNext
  <2> HIDE DEF h
  <2> QED
    BY <2>1, <2>2, <2>3, <2>4, <2>5, <2>6
<1>11. CASE RevertNext
  <2> DEFINE h == processed[cursor]
  <2>1. /\ cursor \in DOMAIN processed /\ DOMAIN processed = 1..Len(processed)
        /\ \A i \in DOMAIN processed : processed[i] \in Op /\ processed[i] \in ToSet(processed)
        /\ cursor \in Nat /\ cursor' = cursor - 1 /\ Len(processed) \in Nat
    BY <1>11, ToSetProperties, ElementOfSeq DEF RevertNext, TypeOK
  <2>2. \A p \in Op :
           fired'[p] = IF p = h THEN fired[h] \cup {"revertprecommit"} ELSE fired[p]
    BY <1>11, <2>1, HandleType DEF RevertNext, Event
  <2>3. /\ phase = "revert" /\ phase' = phase /\ durable' = durable /\ replaced' = replaced
        /\ processed' = processed /\ pending' = pending
    BY <1>11 DEF RevertNext
  <2>4. fired[h] = {"precommit"} /\ h \notin durable /\ h \notin ToSet(pending)
    BY <2>1, <2>3 DEF QueueInv
  <2>5. \A i \in DOMAIN processed : i # cursor => processed[i] # h
    BY <2>1 DEF QueueInv, Distinct, Injective
  <2>6. ToSet(pending) \subseteq Op /\ durable \subseteq Op
    BY ToSetProperties DEF TypeOK
  <2> HIDE DEF h
  <2>7. \A i \in DOMAIN processed' :
           /\ fired'[processed'[i]] = IF i <= cursor' THEN {"precommit"}
                                      ELSE {"precommit", "revertprecommit"}
           /\ processed'[i] \notin durable'
    <3> SUFFICES ASSUME NEW i \in DOMAIN processed
                 PROVE  /\ fired'[processed[i]] = IF i <= cursor - 1 THEN {"precommit"}
                                                  ELSE {"precommit", "revertprecommit"}
                        /\ processed[i] \notin durable
      BY <2>1, <2>3
    <3>1. CASE i = cursor
      BY <2>1, <2>2, <2>4, <3>1 DEF h
    <3>2. CASE i # cursor
      BY <2>1, <2>2, <2>3, <2>5, <3>2
    <3> QED
      BY <3>1, <3>2
  <2>8. \A p \in Op : p # h => fired'[p] = fired[p]
    BY <2>2
  <2>9. h \in Op /\ fired'[h] = {"precommit", "revertprecommit"}
    BY <2>1, <2>2, <2>4 DEF h
  <2> QED
    BY <2>3, <2>4, <2>6, <2>7, <2>8, <2>9
<1>12. CASE RevertDone
  <2>1. ToSet(pending') = ToSet(processed) \cup ToSet(pending)
    BY <1>12, ConcatDistinct DEF RevertDone, TypeOK
  <2>2. ToSet(pending) \subseteq Op
    BY ToSetProperties DEF TypeOK
  <2>3. \A o \in ToSet(processed) :
           fired[o] = {"precommit", "revertprecommit"} /\ o \notin durable
    <3> SUFFICES ASSUME NEW o \in ToSet(processed)
                 PROVE  fired[o] = {"precommit", "revertprecommit"} /\ o \notin durable
      OBVIOUS
    <3>1. PICK i \in 1..Len(processed) : processed[i] = o
      BY ToSetProperties DEF TypeOK
    <3>2. i \in DOMAIN processed /\ ~(i <= cursor)
      BY <1>12, ToSetProperties DEF TypeOK, RevertDone
    <3> QED
      BY <1>12, <3>1, <3>2 DEF RevertDone
  <2>4. \A o \in ToSet(pending) : fired[o] = {} /\ o \notin durable
    BY <1>12, <2>2 DEF RevertDone
  <2> QED
    BY <1>12, <2>1, <2>3, <2>4 DEF RevertDone
<1>13. CASE RollbackNext
  <2> DEFINE h == Head(pending)
  <2>1. /\ h \in Op /\ h \in ToSet(pending) /\ h \notin ToSet(pending')
        /\ ToSet(pending) = ToSet(pending') \cup {h}
    BY <1>13, PopQueue DEF RollbackNext, QueueInv, Distinct
  <2>2. \A p \in Op : fired'[p] = IF p = h THEN fired[h] \cup {"rollback"} ELSE fired[p]
    BY <1>13, <2>1, HandleType DEF RollbackNext, Event
  <2>3. /\ phase = "rollback" /\ phase' = phase /\ durable' = durable
        /\ replaced' = replaced /\ processed' = processed
    BY <1>13 DEF RollbackNext
  <2>4. fired[h] \in {{}, {"precommit", "revertprecommit"}} /\ h \notin durable
    BY <2>1, <2>3
  <2>5. ToSet(pending) \subseteq Op /\ ToSet(processed) \subseteq Op /\ durable \subseteq Op
    BY ToSetProperties DEF TypeOK
  <2> HIDE DEF h
  <2>6. fired'[h] \in {{"rollback"}, {"precommit", "revertprecommit", "rollback"}}
    BY <2>1, <2>2, <2>4
  <2>7. \A p \in Op : p # h => fired'[p] = fired[p]
    BY <2>2
  <2>8. \A p \in ToSet(processed) : "revertprecommit" \in fired'[p]
    BY <2>2, <2>3, <2>5
  <2>9. \A p \in Op : fired'[p] \in Histories
    BY <2>6, <2>7
  <2>10. \A p \in ToSet(pending') : /\ fired'[p] \in {{}, {"precommit", "revertprecommit"}}
                                   /\ p \notin durable'
    BY <2>1, <2>3, <2>5, <2>7
  <2>11. \A p \in durable' : fired'[p] \in {{"precommit"}, {"precommit", "postcommit"}}
    BY <2>3, <2>4, <2>5, <2>7
  <2>12. \A p \in Op : "postcommit" \in fired'[p] => p \in durable' /\ p \notin replaced'
    BY <2>3, <2>6, <2>7
  <2> QED
    BY <2>3, <2>8, <2>9, <2>10, <2>11, <2>12
<1>14. CASE PostcommitNext
  <2> DEFINE h == Head(pending)
  <2>1. /\ h \in Op /\ h \in ToSet(pending) /\ h \notin ToSet(pending')
        /\ ToSet(pending) = ToSet(pending') \cup {h}
    BY <1>14, PopQueue DEF PostcommitNext, QueueInv, Distinct
  <2>2. \A p \in Op : fired'[p] = IF p = h THEN fired[h] \cup {"postcommit"} ELSE fired[p]
    BY <1>14, <2>1, HandleType DEF PostcommitNext, Event
  <2>3. /\ phase = "postcommit" /\ phase' = phase /\ durable' = durable
        /\ replaced' = replaced /\ processed' = processed
    BY <1>14 DEF PostcommitNext
  <2>4. fired[h] = {"precommit"} /\ h \in durable /\ h \notin replaced
    BY <2>1, <2>3 DEF QueueInv
  <2>5. ToSet(pending) \subseteq Op /\ durable \subseteq Op
    BY ToSetProperties DEF TypeOK
  <2> HIDE DEF h
  <2>6. fired'[h] = {"precommit", "postcommit"}
    BY <2>1, <2>2, <2>4
  <2>7. \A p \in Op : p # h => fired'[p] = fired[p]
    BY <2>2
  <2> QED
    BY <2>1, <2>3, <2>4, <2>5, <2>6, <2>7
<1>15. CASE RollbackDone \/ DbCommitFails \/ PostcommitDone \/ Crash
  BY <1>15, ClearType DEF RollbackDone, DbCommitFails, PostcommitDone, Crash
<1>16. CASE DbCommit
  BY <1>16, ToSetProperties DEF DbCommit, TypeOK, QueueInv
<1>17. CASE UNCHANGED vars
  BY <1>17 DEF vars
<1> QED
  BY <1>1, <1>2, <1>3, <1>4, <1>5, <1>6, <1>7, <1>8, <1>9, <1>10, <1>11, <1>12, <1>13,
     <1>14, <1>15, <1>16, <1>17 DEF Next, Engine, Caller

LEMMA OrderStep ==
  ASSUME TypeOK, PhaseInv, QueueInv, OrderInv, [Next]_vars
  PROVE  OrderInv'
<1> USE DEF OrderInv, engine, data, history
<1>1. ASSUME NEW o \in Op, Register(o) PROVE OrderInv'
  <2>1. o \in Op \ ToSet(pending)
    BY <1>1 DEF Register, Registered
  <2> QED
    BY <1>1, <2>1, RegisterQueue DEF Register, TypeOK, QueueInv, Distinct
<1>2. CASE PrecommitNext
  <2>1. /\ pending \in Seq(Op) /\ pending' = Tail(pending) /\ pending # <<>>
        /\ phase = "precommit"
    BY <1>2 DEF PrecommitNext, TypeOK
  <2>2. /\ Len(pending) \in Nat \ {0} /\ DOMAIN pending = 1..Len(pending)
        /\ DOMAIN pending' = 1..(Len(pending) - 1)
        /\ \A i \in 1..(Len(pending) - 1) : pending'[i] = pending[i + 1]
    BY <2>1, HeadTailProperties, LenProperties, EmptySeq
  <2>3. Sorted(pending')
    <3>1. ASSUME NEW i \in DOMAIN pending', NEW j \in DOMAIN pending', i < j
          PROVE  Rank(pending'[i]) <= Rank(pending'[j])
      <4>1. i + 1 \in DOMAIN pending /\ j + 1 \in DOMAIN pending /\ i + 1 < j + 1
        BY <2>2, <3>1
      <4>2. Rank(pending[i + 1]) <= Rank(pending[j + 1])
        BY <2>1, <4>1 DEF Sorted
      <4> QED
        BY <2>2, <4>2
    <3> QED
      BY <3>1 DEF Sorted
  <2>4. OneLast(pending')
    <3>1. ASSUME NEW i \in DOMAIN pending', NEW j \in DOMAIN pending', i # j,
                 Kind[pending'[i]] = "last"
          PROVE  Class[pending'[i]] # Class[pending'[j]]
      <4>1. i + 1 \in DOMAIN pending /\ j + 1 \in DOMAIN pending /\ i + 1 # j + 1
        BY <2>2, <3>1
      <4>2. Class[pending[i + 1]] # Class[pending[j + 1]]
        BY <2>1, <2>2, <3>1, <4>1 DEF OneLast
      <4> QED
        BY <2>2, <4>2
    <3> QED
      BY <3>1 DEF OneLast
  <2> QED
    BY <2>3, <2>4
<1>3. CASE RollbackDone \/ DbCommitFails \/ PostcommitDone \/ Crash
  <2>1. pending' = <<>>
    BY <1>3, ClearType DEF RollbackDone, DbCommitFails, PostcommitDone, Crash
  <2>2. DOMAIN <<>> = {}
    OBVIOUS
  <2> QED
    BY <2>1, <2>2 DEF Sorted, OneLast
<1>4. ASSUME NEW x \in Row, Write(x) \/ WriteAfterReconnect(x) PROVE OrderInv'
  BY <1>4 DEF Write, WriteAfterReconnect
<1>5. ASSUME NEW v \in BOOLEAN, SqlError(v) \/ HookRaises(v) PROVE OrderInv'
  BY <1>5 DEF SqlError, HookRaises
<1>6. CASE QueryRefused \/ CallHooks \/ HooksReturn \/ Commit \/ HandlerReturns
  BY <1>6 DEF QueryRefused, CallHooks, HooksReturn, Commit, HandlerReturns
<1>7. CASE \/ Rollback \/ PrecommitRaises \/ PrecommitDone \/ RevertNext \/ RevertDone
           \/ RollbackNext \/ DbCommit \/ PostcommitNext
  BY <1>7 DEF Rollback, PrecommitRaises, PrecommitDone, RevertNext, RevertDone,
              RollbackNext, DbCommit, PostcommitNext
<1>8. CASE UNCHANGED vars
  BY <1>8 DEF vars
<1> QED
  BY <1>1, <1>2, <1>3, <1>4, <1>5, <1>6, <1>7, <1>8 DEF Next, Engine, Caller

LEMMA InvStep == Inv /\ [Next]_vars => Inv'
  BY TypeStep, PhaseStep, QueueStep, HistoryStep, OrderStep DEF Inv, QueueInv

LEMMA InvAlways == Spec => []Inv
  BY InvInit, InvStep, PTL DEF Spec

--------------------------------------------------------------------------------
(* Safety.                                                                 *)

\* The state of a connection is always well typed.
THEOREM TypeCorrect == Spec => []TypeOK
<1>1. Inv => TypeOK
  BY DEF Inv
<1> QED
  BY <1>1, InvAlways, PTL

\* However the handlers fail and whatever they register, the events an operation is
\* handed make one of the documented histories.
THEOREM HistoriesCorrect == Spec => []EventHistory
<1>1. Inv => EventHistory
  BY DEF Inv, HistoryInv, EventHistory
<1> QED
  BY <1>1, InvAlways, PTL

\* postcommit means the database transaction was committed, revertprecommit and
\* rollback that it was not.
THEOREM OutcomeCorrect == Spec => []EventsTellTheOutcome
<1>1. Inv => EventsTellTheOutcome
  BY DEF Inv, HistoryInv, EventsTellTheOutcome
<1> QED
  BY <1>1, InvAlways, PTL

\* Among the operations of a failed commit, one is reverted only after all those that
\* were precommitted after it.
THEOREM RevertOrderCorrect == Spec => []RevertedInReverse
<1>1. ASSUME Inv PROVE RevertedInReverse
  <2>1. /\ DOMAIN processed = 1..Len(processed) /\ cursor \in Int /\ Len(processed) \in Nat
        /\ \A i \in DOMAIN processed : processed[i] \in ToSet(processed)
    BY <1>1, LenProperties, ToSetProperties DEF Inv, TypeOK
  <2> SUFFICES ASSUME NEW i \in DOMAIN processed, NEW j \in DOMAIN processed, i < j,
                      "revertprecommit" \in fired[processed[i]]
               PROVE  "revertprecommit" \in fired[processed[j]]
    BY DEF RevertedInReverse
  <2>2. CASE phase = "revert"
    <3>1. /\ fired[processed[i]] = IF i <= cursor THEN {"precommit"}
                                   ELSE {"precommit", "revertprecommit"}
          /\ fired[processed[j]] = IF j <= cursor THEN {"precommit"}
                                   ELSE {"precommit", "revertprecommit"}
      BY <1>1, <2>2 DEF Inv, HistoryInv
    <3>2. ~(i <= cursor)
      BY <3>1
    <3>3. ~(j <= cursor)
      BY <2>1, <3>2
    <3> QED
      BY <3>1, <3>3
  <2>3. CASE phase = "rollback"
    BY <1>1, <2>1, <2>3 DEF Inv, HistoryInv
  <2>4. CASE phase \in {"query", "hook"}
    BY <1>1, <2>4 DEF Inv, HistoryInv
  <2>5. CASE phase \in {"precommit", "dbcommit"}
    BY <1>1, <2>1, <2>5 DEF Inv, HistoryInv
  <2>6. CASE phase = "postcommit"
    BY <1>1, <2>1, <2>6 DEF Inv, HistoryInv
  <2> QED
    BY <1>1, <2>2, <2>3, <2>4, <2>5, <2>6 DEF Inv, TypeOK, Phases
<1> QED
  BY <1>1, InvAlways, PTL

\* Two instances of a single-last class never wait together.
THEOREM OneLastCorrect == Spec => []OneLastWaiting
<1>1. Inv => OneLastWaiting
  BY DEF Inv, OrderInv, OneLast, OneLastWaiting
<1> QED
  BY <1>1, InvAlways, PTL

\* The steps that run no handler change no operation's handling but to Idle.
LEMMA HandlingStep ==
  ASSUME TypeOK, [Next]_vars, handling' # handling
  PROVE  \/ handling' = Idle
         \/ PrecommitNext \/ RevertNext \/ RollbackNext \/ PostcommitNext
  BY DEF Next, Engine, Caller, Register, Write, WriteAfterReconnect, SqlError, HookRaises,
     QueryRefused, CallHooks, HooksReturn, Commit, Rollback, HandlerReturns,
     PrecommitRaises, PrecommitDone, RevertDone, RollbackDone, DbCommit, DbCommitFails,
     PostcommitDone, Crash, Clear, vars, engine, data, history

\* No event is handed twice to an operation.
THEOREM EventOnceCorrect == Spec => EventOnce
<1> DEFINE Once == \A o \in Op, e \in Event :
                      handling' = [op |-> o, event |-> e] /\ handling' # handling
                         => e \notin fired[o]
<1>1. ASSUME Inv, [Next]_vars PROVE Once
  <2> SUFFICES ASSUME NEW o \in Op, NEW e \in Event,
                      handling' = [op |-> o, event |-> e], handling' # handling
               PROVE  e \notin fired[o]
    OBVIOUS
  <2>1. handling' # Idle /\ handling'.op = o /\ handling'.event = e
    BY NoOpAssumption DEF Idle
  <2>2. CASE PrecommitNext
    <3>1. o = Head(pending) /\ phase = "precommit" /\ pending # <<>>
      BY <2>1, <2>2 DEF PrecommitNext, Handle
    <3>2. o \in ToSet(pending)
      BY <1>1, <3>1, PopQueue DEF Inv
    <3> QED
      BY <1>1, <3>1, <3>2 DEF Inv, HistoryInv
  <2>3. CASE RevertNext
    <3>1. o = processed[cursor] /\ e = "revertprecommit" /\ phase = "revert" /\ cursor > 0
      BY <2>1, <2>3 DEF RevertNext, Handle
    <3>2. cursor \in DOMAIN processed /\ cursor <= cursor
      BY <1>1, <3>1, LenProperties DEF Inv, TypeOK
    <3>3. fired[o] = {"precommit"}
      BY <1>1, <3>1, <3>2 DEF Inv, HistoryInv
    <3> QED
      BY <3>1, <3>3
  <2>4. CASE RollbackNext
    <3>1. o = Head(pending) /\ e = "rollback" /\ phase = "rollback" /\ pending # <<>>
      BY <2>1, <2>4 DEF RollbackNext, Handle
    <3>2. o \in ToSet(pending)
      BY <1>1, <3>1, PopQueue DEF Inv
    <3> QED
      BY <1>1, <3>1, <3>2 DEF Inv, HistoryInv
  <2>5. CASE PostcommitNext
    <3>1. o = Head(pending) /\ e = "postcommit" /\ phase = "postcommit" /\ pending # <<>>
      BY <2>1, <2>5 DEF PostcommitNext, Handle
    <3>2. o \in ToSet(pending)
      BY <1>1, <3>1, PopQueue DEF Inv
    <3> QED
      BY <1>1, <3>1, <3>2 DEF Inv, HistoryInv
  <2> QED
    BY <1>1, <2>1, <2>2, <2>3, <2>4, <2>5, HandlingStep DEF Inv
<1>2. Inv /\ [Next]_vars => [Once]_vars
  BY <1>1
<1> QED
  BY <1>2, InvAlways, PTL DEF Spec, EventOnce

\* commit() precommits the operations of one kind before those of the next.
THEOREM KindOrderCorrect == Spec => PrecommitInKindOrder
<1> DEFINE Ordered == handling' # handling /\ handling'.event = "precommit"
                         => \A i \in DOMAIN pending' :
                               Rank(handling'.op) <= Rank(pending'[i])
<1>1. ASSUME Inv, [Next]_vars PROVE Ordered
  <2> SUFFICES ASSUME handling' # handling, handling'.event = "precommit",
                      NEW i \in DOMAIN pending'
               PROVE  Rank(handling'.op) <= Rank(pending'[i])
    OBVIOUS
  <2>1. PrecommitNext
    BY <1>1, HandlingStep DEF Inv, Idle, RevertNext, RollbackNext, PostcommitNext, Handle
  <2>2. /\ pending \in Seq(Op) /\ pending # <<>> /\ pending' = Tail(pending)
        /\ handling'.op = Head(pending) /\ phase = "precommit"
    BY <1>1, <2>1 DEF Inv, TypeOK, PrecommitNext, Handle
  <2>3. /\ Len(pending) \in Nat \ {0} /\ DOMAIN pending = 1..Len(pending)
        /\ DOMAIN pending' = 1..(Len(pending) - 1)
        /\ \A k \in 1..(Len(pending) - 1) : pending'[k] = pending[k + 1]
        /\ Head(pending) = pending[1]
    BY <2>2, HeadTailProperties, LenProperties, EmptySeq
  <2>4. 1 \in DOMAIN pending /\ i + 1 \in DOMAIN pending /\ 1 < i + 1
    BY <2>3
  <2>5. Rank(pending[1]) <= Rank(pending[i + 1])
    BY <1>1, <2>2, <2>4 DEF Inv, OrderInv, Sorted
  <2> QED
    BY <2>2, <2>3, <2>5
<1>2. Inv /\ [Next]_vars => [Ordered]_vars
  BY <1>1
<1> QED
  BY <1>2, InvAlways, PTL DEF Spec, PrecommitInKindOrder

\* A transaction with a refused query leaves nothing in the database.
THEOREM RefusedCorrect == Spec => RefusedNeverCommits
<1>1. ASSUME Inv, [Next]_vars PROVE committed' # committed => ~refused
  <2>1. committed' # committed => DbCommit
    BY <1>1 DEF Next, Engine, Caller, Register, Write, WriteAfterReconnect, SqlError,
       HookRaises, QueryRefused, CallHooks, HooksReturn, Commit, Rollback, HandlerReturns,
       PrecommitRaises, PrecommitNext, PrecommitDone, RevertNext, RevertDone, RollbackNext,
       RollbackDone, DbCommitFails, PostcommitNext, PostcommitDone, Crash, vars, engine,
       data, history
  <2> QED
    BY <1>1, <2>1 DEF Inv, PhaseInv, DbCommit
<1>2. Inv /\ [Next]_vars => [committed' # committed => ~refused]_vars
  BY <1>1
<1> QED
  BY <1>2, InvAlways, PTL DEF Spec, RefusedNeverCommits

\* While the queue is put back or emptied, a processed operation waits, or was handed
\* its last event, or was superseded.
ConcludedInv ==
    /\ phase = "rollback" =>
          \A o \in ToSet(processed) :
             o \in ToSet(pending) \/ "rollback" \in fired[o] \/ o \in replaced
    /\ phase = "postcommit" =>
          \A o \in ToSet(processed) :
             o \in ToSet(pending) \/ "postcommit" \in fired[o] \/ o \in replaced

\* The head of the queue is handed the event e, which concludes it.
LEMMA ConcludeHead ==
  ASSUME TypeOK, pending # <<>>, NEW e \in {"rollback", "postcommit"},
         Handle(Head(pending), e), pending' = Tail(pending), UNCHANGED <<processed, replaced>>,
         \A o \in ToSet(processed) : o \in ToSet(pending) \/ e \in fired[o] \/ o \in replaced
  PROVE  \A o \in ToSet(processed') :
            o \in ToSet(pending') \/ e \in fired'[o] \/ o \in replaced'
<1>1. /\ Head(pending) \in Op
      /\ ToSet(pending) = ToSet(Tail(pending)) \cup {Head(pending)}
  BY PopQueue
<1>2. \A p \in Op : fired'[p] = IF p = Head(pending) THEN fired[p] \cup {e} ELSE fired[p]
  BY <1>1, HandleType DEF Event
<1>3. ToSet(processed) \subseteq Op
  BY ToSetProperties DEF TypeOK
<1> QED
  BY <1>1, <1>2, <1>3

LEMMA ConcludedStep ==
  ASSUME Inv, ConcludedInv, [Next]_vars
  PROVE  ConcludedInv'
<1> USE DEF ConcludedInv, engine, data, history
<1>1. ASSUME NEW o \in Op, Register(o) PROVE ConcludedInv'
  <2>1. o \in Op \ ToSet(pending) /\ pending \in Seq(Op) /\ Injective(pending)
    BY <1>1 DEF Register, Registered, Inv, TypeOK, QueueInv, Distinct
  <2>2. ToSet(pending') = (ToSet(pending) \ Superseded(pending, o)) \cup {o}
    BY <1>1, <2>1, RegisterQueue DEF Register
  <2>3. /\ replaced' = replaced \cup Superseded(pending, o)
        /\ UNCHANGED <<phase, processed, fired>>
    BY <1>1 DEF Register
  <2>4. ASSUME NEW p, p \in ToSet(pending) \/ p \in replaced
        PROVE  p \in ToSet(pending') \/ p \in replaced'
    BY <2>2, <2>3, <2>4
  <2> QED
    BY <2>3, <2>4
<1>2. CASE RollbackNext
  <2>1. /\ phase = "rollback" /\ phase' = "rollback" /\ pending # <<>>
        /\ Handle(Head(pending), "rollback") /\ pending' = Tail(pending)
        /\ UNCHANGED <<processed, replaced>>
    BY <1>2 DEF RollbackNext
  <2> QED
    BY <2>1, ConcludeHead DEF Inv
<1>3. CASE PostcommitNext
  <2>1. /\ phase = "postcommit" /\ phase' = "postcommit" /\ pending # <<>>
        /\ Handle(Head(pending), "postcommit") /\ pending' = Tail(pending)
        /\ UNCHANGED <<processed, replaced>>
    BY <1>3 DEF PostcommitNext
  <2> QED
    BY <2>1, ConcludeHead DEF Inv
<1>4. CASE RevertDone
  <2>1. ToSet(pending') = ToSet(processed) \cup ToSet(pending)
    BY <1>4, ConcatDistinct DEF RevertDone, Inv, TypeOK
  <2> QED
    BY <1>4, <2>1 DEF RevertDone
<1>5. CASE DbCommit
  BY <1>5 DEF DbCommit, Inv, QueueInv
<1>6. CASE Rollback
  <2>1. processed = <<>> /\ ToSet(<<>>) = {}
    BY <1>6, EmptySequence DEF Rollback, Inv, HistoryInv
  <2> QED
    BY <1>6, <2>1 DEF Rollback
<1>7. CASE RollbackDone \/ DbCommitFails \/ PostcommitDone \/ Crash
  BY <1>7, ClearType DEF RollbackDone, DbCommitFails, PostcommitDone, Crash
<1>8. CASE CallHooks \/ HooksReturn \/ Commit \/ PrecommitNext \/ PrecommitRaises
           \/ PrecommitDone \/ RevertNext
  BY <1>8 DEF CallHooks, HooksReturn, Commit, PrecommitNext, PrecommitRaises, PrecommitDone,
     RevertNext, Inv, PhaseInv
<1>9. ASSUME NEW x \in Row, Write(x) \/ WriteAfterReconnect(x) PROVE ConcludedInv'
  BY <1>9 DEF Write, WriteAfterReconnect
<1>10. ASSUME NEW v \in BOOLEAN, SqlError(v) \/ HookRaises(v) PROVE ConcludedInv'
  BY <1>10 DEF SqlError, HookRaises
<1>11. CASE QueryRefused \/ HandlerReturns \/ UNCHANGED vars
  BY <1>11 DEF QueryRefused, HandlerReturns, vars
<1> QED
  BY <1>1, <1>2, <1>3, <1>4, <1>5, <1>6, <1>7, <1>8, <1>9, <1>10, <1>11 DEF Next, Engine, Caller

LEMMA ConcludedAlways == Spec => []ConcludedInv
<1>1. Init => ConcludedInv
  BY DEF Init, ConcludedInv
<1>2. Inv /\ ConcludedInv /\ [Next]_vars => ConcludedInv'
  BY ConcludedStep
<1> QED
  BY <1>1, <1>2, InvAlways, PTL DEF Spec

\* What leaves the queue was handed an event or superseded.
LEMMA LeavesQueue ==
  ASSUME Inv, [Next]_vars, NEW o \in ToSet(pending), ~DbCommitFails, ~Crash
  PROVE  o \in ToSet(pending') \/ handling'.op = o \/ o \in replaced'
<1> USE DEF engine, data, history
<1>1. ASSUME NEW p \in Op, Register(p)
      PROVE  o \in ToSet(pending') \/ o \in replaced'
  <2>1. p \in Op \ ToSet(pending) /\ pending \in Seq(Op) /\ Injective(pending)
    BY <1>1 DEF Register, Registered, Inv, TypeOK, QueueInv, Distinct
  <2>2. ToSet(pending') = (ToSet(pending) \ Superseded(pending, p)) \cup {p}
    BY <1>1, <2>1, RegisterQueue DEF Register
  <2> QED
    BY <1>1, <2>2 DEF Register
<1>2. CASE PrecommitNext \/ RollbackNext \/ PostcommitNext
  <2>1. /\ pending # <<>> /\ pending' = Tail(pending) /\ handling'.op = Head(pending)
    BY <1>2 DEF PrecommitNext, RollbackNext, PostcommitNext, Handle
  <2> QED
    BY <2>1, PopQueue DEF Inv
<1>3. CASE RevertDone
  <2>1. ToSet(pending') = ToSet(processed) \cup ToSet(pending)
    BY <1>3, ConcatDistinct DEF RevertDone, Inv, TypeOK
  <2> QED
    BY <2>1
<1>4. pending # <<>>
  BY EmptySequence
<1>5. ~PrecommitDone /\ ~RollbackDone /\ ~PostcommitDone
  BY <1>4 DEF PrecommitDone, RollbackDone, PostcommitDone
<1>6. ASSUME UNCHANGED pending PROVE o \in ToSet(pending')
  BY <1>6
<1>7. CASE CallHooks \/ HooksReturn \/ Commit \/ PrecommitRaises \/ RevertNext \/ DbCommit
           \/ Rollback \/ QueryRefused \/ HandlerReturns \/ UNCHANGED vars
  BY <1>6, <1>7 DEF CallHooks, HooksReturn, Commit, PrecommitRaises, RevertNext, DbCommit,
     Rollback, QueryRefused, HandlerReturns, vars
<1>8. ASSUME NEW x \in Row, Write(x) \/ WriteAfterReconnect(x) PROVE o \in ToSet(pending')
  BY <1>6, <1>8 DEF Write, WriteAfterReconnect
<1>9. ASSUME NEW v \in BOOLEAN, SqlError(v) \/ HookRaises(v) PROVE o \in ToSet(pending')
  BY <1>6, <1>9 DEF SqlError, HookRaises
<1> QED
  BY <1>1, <1>2, <1>3, <1>5, <1>7, <1>8, <1>9 DEF Next, Engine, Caller

\* session.py:718-774: an operation leaves the queue to be handed an event or superseded,
\* and those that were precommitted are postcommitted or rolled back before the thread
\* goes back to its caller.
THEOREM NothingForgotten == Spec => NoOperationForgotten
<1> DEFINE Kept == /\ \A o \in ToSet(pending) :
                         \/ o \in ToSet(pending')
                         \/ handling'.op = o
                         \/ o \in replaced'
                         \/ DbCommitFails \/ Crash
                   /\ Completes =>
                         \A o \in ToSet(processed) :
                            fired[o] \cap {"postcommit", "rollback"} # {} \/ o \in replaced
<1>1. ASSUME Inv, ConcludedInv, [Next]_vars PROVE Kept
  <2>1. ASSUME Completes, NEW o \in ToSet(processed)
        PROVE  fired[o] \cap {"postcommit", "rollback"} # {} \/ o \in replaced
    <3>1. ToSet(pending) = {} /\ phase \in {"rollback", "postcommit"}
      BY <2>1, EmptySequence DEF Completes
    <3> QED
      BY <1>1, <2>1, <3>1 DEF ConcludedInv
  <2> QED
    BY <1>1, <2>1, LeavesQueue
<1>2. Inv /\ ConcludedInv /\ [Next]_vars => [Kept]_vars
  BY <1>1
<1> QED
  BY <1>2, InvAlways, ConcludedAlways, PTL DEF Spec, NoOperationForgotten

--------------------------------------------------------------------------------
(* Atomicity: the connection implements AtomicTransaction, whatever faults *)
(* it meets.                                                               *)

\* Once COMMIT is done the database transaction is empty until the next query.
DataInv == phase = "postcommit" => acked = {} /\ dirty = {}

\* A handler writes in precommit only.
LEMMA WritesBeforeCommit ==
  ASSUME Inv, MayWrite
  PROVE  phase \in {"query", "hook", "precommit"}
BY DEF Inv, PhaseInv, MayWrite

LEMMA DataAlways == Spec => []DataInv
<1>1. Init => DataInv
  BY DEF Init, DataInv
<1>2. ASSUME Inv, DataInv, [Next]_vars PROVE DataInv'
  <2> USE DEF DataInv, engine, data, history
  <2>1. ASSUME NEW x \in Row, Write(x) \/ WriteAfterReconnect(x) PROVE DataInv'
    BY <1>2, <2>1, WritesBeforeCommit DEF Write, WriteAfterReconnect
  <2>2. ASSUME NEW v \in BOOLEAN, SqlError(v) PROVE DataInv'
    BY <1>2, <2>2, WritesBeforeCommit DEF SqlError
  <2>3. CASE RollbackDone \/ DbCommit \/ DbCommitFails \/ PostcommitDone \/ Crash
    BY <2>3 DEF RollbackDone, DbCommit, DbCommitFails, PostcommitDone, Crash, Clear
  <2>4. CASE \/ \E o \in Op : Register(o)
             \/ \E v \in BOOLEAN : HookRaises(v)
             \/ QueryRefused \/ CallHooks \/ HooksReturn \/ Commit \/ Rollback
             \/ HandlerReturns \/ PrecommitRaises \/ PrecommitNext \/ PrecommitDone
             \/ RevertNext \/ RevertDone \/ RollbackNext \/ PostcommitNext
             \/ UNCHANGED vars
    BY <1>2, <2>4 DEF Register, HookRaises, QueryRefused, CallHooks, HooksReturn, Commit,
       Rollback, HandlerReturns, PrecommitRaises, PrecommitNext, PrecommitDone, RevertNext,
       RevertDone, RollbackNext, PostcommitNext, vars
  <2> QED
    BY <1>2, <2>1, <2>2, <2>3, <2>4 DEF Next, Engine, Caller
<1> QED
  BY <1>1, <1>2, InvAlways, PTL DEF Spec

\* What a connection reports written becomes permanent together, by its COMMIT, or not at
\* all, for any rows, operations and faults; but for what a failing or retried statement
\* loses and for what a failed COMMIT that keeps its transaction leaves to the next one.
THEOREM AtomicityCorrect == Spec => AllOrNothing
<1>1. Init => Abstract!Init
  BY DEF Init, Abstract!Init
<1>2. ASSUME Inv, DataInv, [Next]_vars
      PROVE  [Abstract!Next]_(Abstract!vars)
  <2> USE DEF engine, data, history
  <2>1. ASSUME NEW x \in Row, Write(x) PROVE Abstract!Next
    <3>1. phase # "dbcommit" /\ phase' = phase
      BY <1>2, <2>1, WritesBeforeCommit DEF Write
    <3>2. /\ x \notin acked \cup dirty \cup committed
          /\ dirty' = dirty \cup {x} /\ acked' = acked \cup {x} /\ committed' = committed
      BY <2>1 DEF Write
    <3>3. acked' \ dirty' = acked \ dirty /\ dirty' \ acked' = dirty \ acked
      BY <3>2
    <3>4. Abstract!Write(x)
      BY <3>1, <3>2, <3>3 DEF Abstract!Write
    <3> QED
      BY <3>4 DEF Abstract!Next
  <2>2. ASSUME NEW x \in Row, WriteAfterReconnect(x) PROVE Abstract!Next
    <3>1. phase # "dbcommit" /\ phase' = phase
      BY <1>2, <2>2, WritesBeforeCommit DEF WriteAfterReconnect
    <3>2. /\ x \notin acked \cup dirty \cup committed /\ "disconnect" \in Faults
          /\ dirty' = {x} /\ acked' = acked \cup {x} /\ committed' = committed
      BY <2>2 DEF WriteAfterReconnect
    <3>3. acked' \ dirty' = acked /\ dirty' \ acked' = {}
      BY <3>2
    <3>4. Faults \cap {"sqlerror", "disconnect"} # {}
      BY <3>2
    <3>5. Abstract!Write(x)
      BY <3>1, <3>2, <3>3, <3>4 DEF Abstract!Write, Abstract!LoseAll
    <3> QED
      BY <3>5 DEF Abstract!Next
  <2>3. ASSUME NEW v \in BOOLEAN, SqlError(v) PROVE Abstract!Next
    <3>1. phase # "dbcommit" /\ phase' = phase
      BY <1>2, <2>3, WritesBeforeCommit DEF SqlError
    <3>2. /\ "sqlerror" \in Faults
          /\ dirty' = {} /\ acked' = acked /\ committed' = committed
      BY <2>3 DEF SqlError
    <3>3. acked' \ dirty' = acked /\ dirty' \ acked' = {}
      BY <3>2
    <3>4. Faults \cap {"sqlerror", "disconnect"} # {}
      BY <3>2
    <3>5. Abstract!Lose
      BY <3>1, <3>2, <3>3, <3>4 DEF Abstract!Lose, Abstract!LoseAll
    <3> QED
      BY <3>5 DEF Abstract!Next
  <2>4. CASE DbCommit
    <3>1. /\ phase = "dbcommit" /\ phase' # "dbcommit"
          /\ committed' = committed \cup dirty /\ dirty' = {} /\ acked' = {}
      BY <2>4 DEF DbCommit
    <3>2. committed' = committed \cup (acked \ (acked \ dirty)) \cup (dirty \ acked)
      BY <3>1
    <3>3. acked' \ dirty' = {} /\ dirty' \ acked' = {}
      BY <3>1
    <3>4. Abstract!Commit
      BY <3>1, <3>2, <3>3 DEF Abstract!Commit
    <3> QED
      BY <3>4 DEF Abstract!Next
  <2>5. ASSUME dirty' = {}, acked' = {}, committed' = committed, phase' # "dbcommit"
        PROVE  Abstract!Next
    <3>1. acked' \ dirty' = {} /\ dirty' \ acked' = {}
      BY <2>5
    <3>2. Abstract!Abort
      BY <2>5, <3>1 DEF Abstract!Abort
    <3> QED
      BY <3>2 DEF Abstract!Next
  <2>6. CASE RollbackDone \/ Crash
    BY <2>5, <2>6 DEF RollbackDone, Crash, Clear
  <2>7. CASE PostcommitDone
    <3>1. phase = "postcommit" /\ dirty' = dirty /\ committed' = committed /\ acked' = {}
          /\ phase' # "dbcommit"
      BY <2>7 DEF PostcommitDone, Clear
    <3> QED
      BY <1>2, <2>5, <3>1 DEF DataInv
  <2>8. CASE DbCommitFails
    <3>1. /\ phase = "dbcommit" /\ phase' # "dbcommit" /\ acked' = {} /\ committed' = committed
          /\ dirty' = {} \/ ("commitkeeps" \in Faults /\ dirty' = dirty)
      BY <2>8 DEF DbCommitFails, Clear
    <3>2. CASE dirty' = {}
      BY <2>5, <3>1, <3>2
    <3>3. CASE "commitkeeps" \in Faults /\ dirty' = dirty
      <4>1. /\ acked' \ dirty' = {}
            /\ dirty' \ acked' = (dirty \ acked) \cup (acked \ (acked \ dirty))
        BY <3>1, <3>3
      <4>2. Abstract!Keep
        BY <3>1, <3>3, <4>1 DEF Abstract!Keep
      <4> QED
        BY <4>2 DEF Abstract!Next
    <3> QED
      BY <3>1, <3>2, <3>3
  <2>9. CASE PrecommitDone
    <3>1. /\ phase # "dbcommit" /\ phase' = "dbcommit"
          /\ acked' = acked /\ dirty' = dirty /\ committed' = committed
      BY <2>9 DEF PrecommitDone
    <3>2. acked' \ dirty' = acked \ dirty /\ dirty' \ acked' = dirty \ acked
      BY <3>1
    <3>3. Abstract!StartCommit
      BY <3>1, <3>2 DEF Abstract!StartCommit
    <3> QED
      BY <3>3 DEF Abstract!Next
  <2>10. ASSUME acked' = acked, dirty' = dirty, committed' = committed,
                (phase = "dbcommit") <=> (phase' = "dbcommit")
         PROVE  UNCHANGED Abstract!vars
    BY <2>10 DEF Abstract!vars
  <2>11. CASE \/ \E o \in Op : Register(o)
              \/ \E v \in BOOLEAN : HookRaises(v)
              \/ QueryRefused \/ CallHooks \/ HooksReturn \/ Commit \/ Rollback
              \/ HandlerReturns \/ PrecommitNext \/ RevertNext \/ RevertDone
              \/ RollbackNext \/ PostcommitNext \/ UNCHANGED vars
    BY <2>10, <2>11 DEF Register, HookRaises, QueryRefused, CallHooks, HooksReturn, Commit,
       Rollback, HandlerReturns, PrecommitNext, RevertNext, RevertDone, RollbackNext,
       PostcommitNext, vars
  <2>12. CASE PrecommitRaises
    BY <1>2, <2>10, <2>12 DEF PrecommitRaises, Inv, PhaseInv
  <2> QED
    BY <1>2, <2>1, <2>2, <2>3, <2>4, <2>6, <2>7, <2>8, <2>9, <2>11, <2>12
    DEF Next, Engine, Caller
<1> QED
  BY <1>1, <1>2, InvAlways, DataAlways, PTL DEF Spec, AllOrNothing, Abstract!Spec
================================================================================
